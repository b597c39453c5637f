------------------------- MODULE ServerManager_proofs -------------------------
(* Status messages that carry a time find one, for any commands and timers.  *)
EXTENDS ServerManager, TLAPS

\* A set clock and the property itself are inductive.
Inv == now \in Int /\ AnnouncedHasTime

\* Times are integers, and null is not one.
Times ==
    /\ None \notin Int
    /\ Duration \subseteq Int
    /\ Settle \in Int
    /\ Grace \in Int

LEMMA Step ==
    ASSUME Times, Inv, Next
    PROVE  Inv'
<1> USE DEF Inv, AnnouncedHasTime, UpdateStatus, manager
<1>1. CASE \E d \in Duration, force \in BOOLEAN : ScheduleShutdown(d, force)
  <2>1. PICK d \in Duration, force \in BOOLEAN : ScheduleShutdown(d, force)
    BY <1>1
  <2>2. now' = now /\ shutdownTime' = now + d
    BY <2>1 DEF ScheduleShutdown
  <2> QED
    BY <2>2 DEF Times
<1>2. CASE CancelShutdown
  BY <1>2 DEF CancelShutdown
<1>3. CASE StartDrain
  <2>1. now' = now /\ shutdownTime' = now + Settle + Grace
    BY <1>3 DEF StartDrain
  <2> QED
    BY <2>1 DEF Times
<1>4. CASE CancelDrain
  BY <1>4 DEF CancelDrain
<1>5. CASE CompleteDrain
  BY <1>5 DEF CompleteDrain
<1>6. CASE Tick
  BY <1>6 DEF Tick
<1>7. CASE \E target \in 0 .. Cardinality(Session) : StartRebalance(target)
  BY <1>7 DEF StartRebalance
<1>8. ASSUME NEW t \in timers,
             \/ PendingFires(t) \/ MessageFires(t) \/ RunningFires(t)
             \/ Shutdown(t) \/ OfflineFires(t) \/ BatchFires(t)
             \/ LookNoDrain(t) \/ LookAgain(t) \/ LookThrows(t) \/ LookOverdue(t)
      PROVE  Inv'
  <2>1. CASE PendingFires(t)
    BY <2>1 DEF PendingFires, EnterShutdownPending
  <2>2. CASE RunningFires(t) \/ Shutdown(t) \/ OfflineFires(t)
    BY <2>2 DEF RunningFires, Shutdown, OfflineFires, StatusTimer
  <2>3. CASE MessageFires(t) \/ BatchFires(t) \/ LookNoDrain(t) \/ LookAgain(t)
               \/ LookThrows(t) \/ LookOverdue(t)
    BY <2>3 DEF MessageFires, BatchFires, LookNoDrain, LookAgain, LookThrows, LookOverdue
  <2> QED
    BY <1>8, <2>1, <2>2, <2>3
<1>9. ASSUME NEW s \in Session,
             \/ Connect(s) \/ Upgrade(s) \/ StartChallenge(s) \/ ChallengeStarted(s)
             \/ StartFails(s) \/ EndChallenge(s) \/ Leave(s)
      PROVE  Inv'
  BY <1>9 DEF Connect, Upgrade, StartChallenge, ChallengeStarted, StartFails, EndChallenge,
              Leave, Move
<1> QED
  BY <1>1, <1>2, <1>3, <1>4, <1>5, <1>6, <1>7, <1>8, <1>9 DEF Next

\* While a shutdown is pending or a drain is on there is a time to announce:
\* the non-null assertions on shutdownTime of serverStatusMessage and of the
\* reminders hold, whichever commands override and cancel each other.
THEOREM AnnouncementsHaveTime ==
    ASSUME Times
    PROVE  Spec => []AnnouncedHasTime
<1>1. Init => Inv
  BY DEF Init, Inv, AnnouncedHasTime
<1>2. Inv /\ [Next]_vars => Inv'
  <2>1. CASE UNCHANGED vars
    BY <2>1 DEF vars, manager, Inv, AnnouncedHasTime
  <2> QED
    BY <2>1, Step
<1>3. Inv => AnnouncedHasTime
  BY DEF Inv
<1> QED
  BY <1>1, <1>2, <1>3, PTL DEF Spec
=============================================================================
