------------------------ MODULE ChallengeLifecycle_proofs ------------------------
(***************************************************************************)
(* Proofs about ChallengeLifecycle for any clients, stages, attempts and    *)
(* numbers of late reports.                                                 *)
(***************************************************************************)
EXTENDS LifecycleCore_proofs, ChallengeLifecycle

-----------------------------------------------------------------------------
(* The histories                                                             *)

\* What one entry adds to the attempts started and to those sealed.
StartedBy(e) ==
    IF e.type = "StageStarted" THEN {<<e.stage, FirstAttempt(e.stage)>>}
    ELSE IF e.type = "StageAttemptStarted" THEN {<<e.stage, e.attempt>>} ELSE {}

SealBy(e) == IF e.type = "StageSealed" THEN <<<<e.stage, e.attempt>>>> ELSE <<>>

StartedAt(b, i) == IF i \in DOMAIN b THEN StartedBy(b[i]) ELSE {}

LEMMA StartedInIs ==
    ASSUME NEW b, NEW n \in Nat, DOMAIN b = 1..n, n <= 5
    PROVE  StartedIn(b) = StartedAt(b, 1) \cup StartedAt(b, 2) \cup StartedAt(b, 3) \cup
                          StartedAt(b, 4) \cup StartedAt(b, 5)
  <1>1. \A x : x \in StartedIn(b) <=> \E i \in DOMAIN b : x \in StartedBy(b[i])
    BY DEF StartedIn, StartedBy
  <1>2. \A i \in DOMAIN b : i \in {1, 2, 3, 4, 5}
    OBVIOUS
  <1>3. ASSUME NEW x
        PROVE  x \in StartedIn(b) <=> \E i \in {1, 2, 3, 4, 5} : x \in StartedAt(b, i)
    BY <1>1, <1>2 DEF StartedAt
  <1> QED BY <1>3

\* Only a stage of the challenge is started or sealed.
LEMMA EntryHistoryTyped ==
    ASSUME NEW o, NEW T, NEW u, NEW e, Good(u), FitsAs(o, T, u, e)
    PROVE  StartedBy(e) \subseteq StageAttempt /\ SealBy(e) \in Seq(StageAttempt)
  <1>1. u.attempt \in Nat /\ (u.created => u.stage \in Stage)
    BY DEF Good, State, PositionOK
  <1>2. e.type = "StageStarted" => e.stage \in Stage /\ FirstAttempt(e.stage) \in Nat
    BY DEF FitsAs, Fits, FirstAttempt, NoAttempt
  <1>3. e.type = "StageAttemptStarted" => e.stage \in Stage /\ e.attempt \in Nat
    BY <1>1 DEF FitsAs, Fits, Processing
  <1>4. e.type = "StageSealed" => e.stage \in Stage /\ e.attempt \in Nat
    BY DEF FitsAs, Fits
  <1> QED BY <1>2, <1>3, <1>4 DEF StartedBy, SealBy, StageAttempt

LEMMA HistoryTyped ==
    ASSUME NEW o, NEW T, NEW u, NEW b, Good(u), AllFit(o, T, u, b)
    PROVE  /\ StartedIn(b) \subseteq StageAttempt
           /\ \A i \in 1..5 : SealAt(b, i) \in Seq(StageAttempt)
  <1>1. \A i \in DOMAIN b : \E v : Good(v) /\ FitsAs(o, T, v, b[i])
    BY EachFits
  <1>2. \A i \in DOMAIN b : StartedBy(b[i]) \subseteq StageAttempt
                            /\ SealBy(b[i]) \in Seq(StageAttempt)
    BY <1>1, EntryHistoryTyped
  <1>3. \A x \in StartedIn(b) : \E i \in DOMAIN b : x \in StartedBy(b[i])
    BY DEF StartedIn, StartedBy
  <1>4. \A i : i \in DOMAIN b => SealAt(b, i) = SealBy(b[i])
    BY DEF SealAt, SealBy
  <1>5. \A i : i \notin DOMAIN b => SealAt(b, i) = <<>>
    BY DEF SealAt
  <1>6. <<>> \in Seq(StageAttempt)
    OBVIOUS
  <1> QED BY <1>2, <1>3, <1>4, <1>5, <1>6

\* The seals of a batch are appended one by one.
LEMMA SealedInIs ==
    ASSUME NEW sl \in Seq(StageAttempt), NEW b,
           \A i \in 1..5 : SealAt(b, i) \in Seq(StageAttempt)
    PROVE  /\ sl \o SealedIn(b) \in Seq(StageAttempt)
           /\ sl \o SealedIn(b) =
                ((((sl \o SealAt(b, 1)) \o SealAt(b, 2)) \o SealAt(b, 3)) \o SealAt(b, 4)) \o
                SealAt(b, 5)
  <1> DEFINE p1 == SealAt(b, 1)
             p2 == p1 \o SealAt(b, 2)
             p3 == p2 \o SealAt(b, 3)
             p4 == p3 \o SealAt(b, 4)
             p5 == p4 \o SealAt(b, 5)
             r1 == sl \o SealAt(b, 1)
             r2 == r1 \o SealAt(b, 2)
             r3 == r2 \o SealAt(b, 3)
             r4 == r3 \o SealAt(b, 4)
             r5 == r4 \o SealAt(b, 5)
             S  == StageAttempt
  <1> HIDE DEF p1, p2, p3, p4, p5, r1, r2, r3, r4, r5, S
  <1>1. p1 \in Seq(S) /\ sl \o p1 = r1
    BY DEF p1, r1, S
  <1>2. p2 \in Seq(S) /\ sl \o p2 = r2
    <2>1. sl \in Seq(S)
      BY DEF S
    <2>2. p1 \in Seq(S)
      BY <1>1
    <2>3. SealAt(b, 2) \in Seq(S)
      BY DEF S
    <2>4. p1 \o SealAt(b, 2) \in Seq(S)
      BY ONLY <2>2, <2>3, ConcatProperties
    <2>5. sl \o (p1 \o SealAt(b, 2)) = (sl \o p1) \o SealAt(b, 2)
      BY ONLY <2>1, <2>2, <2>3, ConcatRegroup
    <2> QED BY ONLY <1>1, <2>4, <2>5 DEF p2, r2
  <1>3. p3 \in Seq(S) /\ sl \o p3 = r3
    <2>1. sl \in Seq(S)
      BY DEF S
    <2>2. p2 \in Seq(S)
      BY <1>2
    <2>3. SealAt(b, 3) \in Seq(S)
      BY DEF S
    <2>4. p2 \o SealAt(b, 3) \in Seq(S)
      BY ONLY <2>2, <2>3, ConcatProperties
    <2>5. sl \o (p2 \o SealAt(b, 3)) = (sl \o p2) \o SealAt(b, 3)
      BY ONLY <2>1, <2>2, <2>3, ConcatRegroup
    <2> QED BY ONLY <1>2, <2>4, <2>5 DEF p3, r3
  <1>4. p4 \in Seq(S) /\ sl \o p4 = r4
    <2>1. sl \in Seq(S)
      BY DEF S
    <2>2. p3 \in Seq(S)
      BY <1>3
    <2>3. SealAt(b, 4) \in Seq(S)
      BY DEF S
    <2>4. p3 \o SealAt(b, 4) \in Seq(S)
      BY ONLY <2>2, <2>3, ConcatProperties
    <2>5. sl \o (p3 \o SealAt(b, 4)) = (sl \o p3) \o SealAt(b, 4)
      BY ONLY <2>1, <2>2, <2>3, ConcatRegroup
    <2> QED BY ONLY <1>3, <2>4, <2>5 DEF p4, r4
  <1>5. p5 \in Seq(S) /\ sl \o p5 = r5
    <2>1. sl \in Seq(S)
      BY DEF S
    <2>2. p4 \in Seq(S)
      BY <1>4
    <2>3. SealAt(b, 5) \in Seq(S)
      BY DEF S
    <2>4. p4 \o SealAt(b, 5) \in Seq(S)
      BY ONLY <2>2, <2>3, ConcatProperties
    <2>5. sl \o (p4 \o SealAt(b, 5)) = (sl \o p4) \o SealAt(b, 5)
      BY ONLY <2>1, <2>2, <2>3, ConcatRegroup
    <2> QED BY ONLY <1>4, <2>4, <2>5 DEF p5, r5
  <1>6. SealedIn(b) = p5
    BY DEF SealedIn, p1, p2, p3, p4, p5
  <1>7. sl \o p5 \in Seq(S)
    <2>1. sl \in Seq(S)
      BY DEF S
    <2> QED BY ONLY <1>5, <2>1, ConcatProperties
  <1>8. sl \o SealedIn(b) \in Seq(S) /\ sl \o SealedIn(b) = r5
    BY ONLY <1>5, <1>6, <1>7
  <1> QED BY <1>8 DEF r1, r2, r3, r4, r5, S

-----------------------------------------------------------------------------
(* What the histories say about a challenge whose clients report in order    *)

Current(st) == <<st.stage, st.attempt>>

\* A stage attempt the challenge has left behind.
Before(x, st) == x[1] < st.stage \/ (x[1] = st.stage /\ x[2] < st.attempt)

\* A stage attempt of the histories is over and sealed, or the current one.  A
\* challenge whose first stage was only entered has no history.
HistoryOK(st, x, sl) ==
    /\ st.status = "ENTERED" => x = {} /\ sl = <<>>
    /\ \A i \in DOMAIN sl : Before(sl[i], st) \/ (sl[i] = Current(st) /\ Sealed(st))
    /\ \A i, j \in DOMAIN sl : i # j => sl[i] # sl[j]
    /\ Sealed(st) => \E i \in DOMAIN sl : sl[i] = Current(st)
    /\ \A a \in x : \/ \E i \in DOMAIN sl : sl[i] = a
                    \/ a = Current(st) /\ ~Terminated(st) /\ ~Sealed(st)

\* No client has finished a stage the challenge has yet to reach, and a
\* completion of the current attempt has opened the straggler window.
CompletionOK(st) ==
    \A c \in Clients(st) :
        st.clients[c].status \in Finished =>
            /\ st.clients[c].stage <= st.stage
            /\ st.clients[c].stage = st.stage /\ st.clients[c].attempt = st.attempt
                  => st.stageState # "InProgress"

LEMMA CompletionKept ==
    ASSUME NEW u, NEW e, NEW t, Good(u), Fits(u, e), InStep(u, e), Stepped(u, e, t),
           CompletionOK(u)
    PROVE  CompletionOK(t)
  <1>1. /\ u \in State /\ t \in State
        /\ Moved(u, e, t) /\ ClientsMoved(u, e, t)
    BY DEF Good, Stepped, Effect
  <1>2. u.stage \in Nat /\ u.attempt \in Nat /\ t.stage \in Nat /\ t.attempt \in Nat
    BY <1>1, PositionTyped
  <1>3. SUFFICES ASSUME NEW c \in Clients(t), t.clients[c].status \in Finished
                 PROVE  /\ t.clients[c].stage <= t.stage
                        /\ t.clients[c].stage = t.stage /\ t.clients[c].attempt = t.attempt
                              => t.stageState # "InProgress"
    BY DEF CompletionOK
  <1> DEFINE r == t.clients[c]
  <1>4. r.stage \in Nat /\ r.attempt \in Nat
    BY <1>1, ClientsTyped, CoreAssumption DEF ClientRecord
  <1>5. \/ /\ c \in Clients(u)
           /\ At(r, u.clients[c].stage, u.clients[c].status, u.clients[c].attempt)
        \/ At(r, u.stage, "ENTERED", u.attempt)
        \/ e.type = "ClientStageReported" /\ At(r, e.stage, e.status, e.attempt)
    BY <1>1 DEF ClientsMoved
  <1> HIDE DEF r
  <1>6. CASE e.type = "ClientStageReported" /\ At(r, e.stage, e.status, e.attempt)
    <2>1. r.status \in Finished /\ r.stage = e.stage /\ r.status = e.status
          /\ r.attempt = e.attempt
      BY <1>3, <1>6 DEF At, r
    <2>2. t.stage = u.stage /\ t.attempt = u.attempt /\ e.stage <= u.stage
      BY <1>1, <1>6, <2>1 DEF Moved, InStep
    <2>3. r.attempt = t.attempt => t.stageState # "InProgress"
      BY <1>1, <1>6, <2>1, <2>2 DEF Moved, OpensWindow
    <2> QED BY <2>1, <2>2, <2>3 DEF r
  <1>7. CASE At(r, u.stage, "ENTERED", u.attempt)
    BY <1>3, <1>7 DEF At, Finished, r
  <1>8. CASE /\ c \in Clients(u)
             /\ At(r, u.clients[c].stage, u.clients[c].status, u.clients[c].attempt)
    <2>1. /\ r.stage <= u.stage
          /\ r.stage = u.stage /\ r.attempt = u.attempt => u.stageState # "InProgress"
      BY <1>3, <1>8 DEF At, CompletionOK, r
    <2>2. r.attempt <= u.attempt
      BY <1>8 DEF At, Good, PositionOK
    <2>3. CASE e.type = "ChallengeCreated"
      <3>1. u = DefaultState
        BY <2>3 DEF Fits, Good, PositionOK
      <3>2. Clients(u) = {}
        BY <3>1 DEF DefaultState, Clients
      <3> QED BY <1>8, <3>2
    <2>4. CASE e.type = "StageStarted"
      <3>1. /\ t.stage = e.stage /\ t.attempt = FirstAttempt(e.stage)
            /\ e.stage > u.stage \/ (e.stage = u.stage /\ u.status = "ENTERED")
        BY <1>1, <2>4 DEF Moved, Fits
      <3>2. CASE e.stage > u.stage
        BY <1>2, <1>4, <2>1, <3>1, <3>2 DEF r
      <3>3. CASE e.stage = u.stage /\ u.status = "ENTERED"
        <4>1. u.attempt = 0 /\ u.stageState = "InProgress"
          BY <3>3 DEF Good, PositionOK
        <4>2. r.stage = u.stage => r.attempt # u.attempt
          BY <2>1, <4>1
        <4> QED BY <1>2, <1>4, <2>1, <2>2, <3>1, <3>3, <4>1, <4>2 DEF r
      <3> QED BY <3>1, <3>2, <3>3
    <2>5. CASE e.type = "StageAttemptStarted"
      <3>1. t.stage = u.stage /\ t.attempt = u.attempt + 1
        BY <1>1, <2>5 DEF Moved, Fits
      <3> QED BY <1>2, <1>4, <2>1, <2>2, <3>1 DEF r
    <2>6. CASE e.type \notin {"ChallengeCreated", "StageStarted", "StageAttemptStarted"}
      <3>1. t.stage = u.stage /\ t.attempt = u.attempt
        BY <1>1, <2>6 DEF Moved, Movers
      <3>2. u.stageState # "InProgress" => t.stageState # "InProgress"
        BY <1>1, <2>6 DEF Moved, Movers, OpensWindow
      <3> QED BY <2>1, <3>1, <3>2 DEF r
    <2> QED BY <2>3, <2>4, <2>5, <2>6
  <1> QED BY <1>5, <1>6, <1>7, <1>8

\* Nothing is added to the histories and the challenge stays where it is.
LEMMA HistoryStays ==
    ASSUME NEW u, NEW t, NEW x, NEW sl, HistoryOK(u, x, sl),
           t.stage = u.stage, t.attempt = u.attempt, Sealed(t) = Sealed(u),
           t.status = "ENTERED" => u.status = "ENTERED",
           Terminated(t) => Terminated(u) \/ Sealed(u) \/ u.status = "ENTERED"
    PROVE  HistoryOK(t, x, sl)
  <1>1. Current(t) = Current(u)
    BY DEF Current
  <1>2. \A i \in DOMAIN sl : Before(sl[i], t) <=> Before(sl[i], u)
    BY DEF Before
  <1>3. \A i \in DOMAIN sl : Before(sl[i], t) \/ (sl[i] = Current(t) /\ Sealed(t))
    BY <1>1, <1>2 DEF HistoryOK
  <1>4. Sealed(t) => \E i \in DOMAIN sl : sl[i] = Current(t)
    BY <1>1 DEF HistoryOK
  <1>5. ASSUME NEW a \in x
        PROVE  \/ \E i \in DOMAIN sl : sl[i] = a
               \/ a = Current(t) /\ ~Terminated(t) /\ ~Sealed(t)
    <2>1. CASE \E i \in DOMAIN sl : sl[i] = a
      BY <2>1
    <2>2. CASE ~\E i \in DOMAIN sl : sl[i] = a
      <3>1. a = Current(u) /\ ~Terminated(u) /\ ~Sealed(u)
        BY <2>2 DEF HistoryOK
      <3>2. u.status # "ENTERED"
        BY <1>5 DEF HistoryOK
      <3> QED BY <1>1, <3>1, <3>2
    <2> QED BY <2>1, <2>2
  <1> QED BY <1>3, <1>4, <1>5 DEF HistoryOK

\* The challenge moves forward, to an attempt that begins: what it leaves behind
\* was sealed, or there was nothing to leave.
LEMMA HistoryAdvances ==
    ASSUME NEW u, NEW t, NEW x, NEW sl \in Seq(StageAttempt), HistoryOK(u, x, sl),
           u.stage \in Nat, u.attempt \in Nat, t.stage \in Nat, t.attempt \in Nat,
           \/ u.status = "ENTERED"
           \/ /\ Sealed(u)
              /\ t.stage > u.stage \/ (t.stage = u.stage /\ t.attempt > u.attempt),
           t.status # "ENTERED", ~Sealed(t), ~Terminated(t)
    PROVE  HistoryOK(t, x \cup {Current(t)}, sl)
  <1>1. ASSUME u.status # "ENTERED", NEW i \in DOMAIN sl
        PROVE  Before(sl[i], t)
    <2>1. sl[i] \in StageAttempt
      BY <1>1, ElementOfSeq
    <2>2. sl[i][1] \in Nat /\ sl[i][2] \in Nat
      BY <2>1, CoreAssumption DEF StageAttempt
    <2>3. Before(sl[i], u) \/ sl[i] = Current(u)
      BY <1>1 DEF HistoryOK
    <2>4. \/ sl[i][1] < u.stage
          \/ sl[i][1] = u.stage /\ sl[i][2] <= u.attempt
      BY <2>2, <2>3 DEF Before, Current
    <2>5. t.stage > u.stage \/ (t.stage = u.stage /\ t.attempt > u.attempt)
      BY <1>1
    <2> DEFINE p == sl[i][1]
               q == sl[i][2]
    <2> HIDE DEF p, q
    <2>6. p \in Nat /\ q \in Nat /\ (p < u.stage \/ (p = u.stage /\ q <= u.attempt))
      BY <2>2, <2>4 DEF p, q
    <2>7. p < t.stage \/ (p = t.stage /\ q < t.attempt)
      <3>1. CASE t.stage > u.stage
        <4>1. p <= u.stage
          BY <2>6
        <4> QED BY <2>6, <3>1, <4>1
      <3>2. CASE t.stage = u.stage /\ t.attempt > u.attempt
        <4>1. CASE p < u.stage
          BY <3>2, <4>1
        <4>2. CASE p = u.stage /\ q <= u.attempt
          <5>1. q < t.attempt
            BY <2>6, <3>2, <4>2
          <5> QED BY <3>2, <4>2, <5>1
        <4> QED BY <2>6, <4>1, <4>2
      <3> QED BY <2>5, <3>1, <3>2
    <2> QED BY <2>7 DEF Before, p, q
  <1>2. \A i \in DOMAIN sl : Before(sl[i], t)
    <2>1. CASE u.status = "ENTERED"
      BY <2>1 DEF HistoryOK
    <2>2. CASE u.status # "ENTERED"
      BY <1>1, <2>2
    <2> QED BY <2>1, <2>2
  <1>3. ASSUME NEW a \in x
        PROVE  \E i \in DOMAIN sl : sl[i] = a
    <2>1. u.status # "ENTERED"
      BY <1>3 DEF HistoryOK
    <2> QED BY <1>3, <2>1 DEF HistoryOK
  <1>4. \A i, j \in DOMAIN sl : i # j => sl[i] # sl[j]
    BY DEF HistoryOK
  <1> QED BY <1>2, <1>3, <1>4 DEF HistoryOK

\* The current attempt is sealed, for the first time.
LEMMA HistorySeals ==
    ASSUME NEW u, NEW t, NEW x, NEW sl \in Seq(StageAttempt), HistoryOK(u, x, sl),
           u.stage \in Nat, u.attempt \in Nat, ~Sealed(u), u.status # "ENTERED",
           Current(u) \in StageAttempt,
           t.stage = u.stage, t.attempt = u.attempt, t.status = u.status, Sealed(t)
    PROVE  HistoryOK(t, x, sl \o <<Current(u)>>)
  <1> DEFINE c == Current(u)
             new == Append(sl, c)
  <1>1. c = Current(t) /\ c[1] = u.stage /\ c[2] = u.attempt
    BY DEF Current
  <1>2. \A i \in DOMAIN sl : Before(sl[i], u)
    BY DEF HistoryOK
  <1>3. ~Before(c, u)
    BY <1>1 DEF Before
  <1> HIDE DEF c
  <1>4. c \in StageAttempt
    BY DEF c
  <1>5. /\ new \in Seq(StageAttempt) /\ DOMAIN new = 1..(Len(sl) + 1)
        /\ DOMAIN sl = 1..Len(sl) /\ Len(sl) \in Nat
        /\ new[Len(sl) + 1] = c
        /\ \A i \in DOMAIN sl : new[i] = sl[i]
    BY <1>4
  <1>6. sl \o <<c>> = new
    BY <1>4, AppendIsConcat
  <1> HIDE DEF new
  <1>7. \A i \in DOMAIN new : i \in DOMAIN sl \/ i = Len(sl) + 1
    BY <1>5
  <1>8. \A i \in DOMAIN new : Before(new[i], t) \/ (new[i] = Current(t) /\ Sealed(t))
    BY <1>1, <1>2, <1>5, <1>7 DEF Before
  <1>9. \A i, j \in DOMAIN new : i # j => new[i] # new[j]
    <2>1. \A i, j \in DOMAIN sl : i # j => sl[i] # sl[j]
      BY DEF HistoryOK
    <2>2. \A i \in DOMAIN sl : sl[i] # c
      BY <1>2, <1>3
    <2> QED BY <1>5, <1>7, <2>1, <2>2
  <1>10. \E i \in DOMAIN new : new[i] = Current(t)
    <2>1. Len(sl) + 1 \in DOMAIN new
      BY <1>5
    <2> QED BY <1>1, <1>5, <2>1
  <1>11. ASSUME NEW a \in x
         PROVE  \E i \in DOMAIN new : new[i] = a
    <2>1. CASE \E i \in DOMAIN sl : sl[i] = a
      BY <1>5, <2>1
    <2>2. CASE a = c
      BY <1>1, <1>10, <2>2
    <2> QED BY <1>11, <2>1, <2>2 DEF HistoryOK, c
  <1>12. HistoryOK(t, x, new)
    BY <1>8, <1>9, <1>10, <1>11 DEF HistoryOK
  <1> QED BY <1>6, <1>12 DEF c

\* One entry extends the histories and keeps what they say.
LEMMA HistoryKept ==
    ASSUME NEW o, o, NEW T, NEW u, NEW e, NEW x, NEW sl \in Seq(StageAttempt), Good(u),
           FitsAs(o, T, u, e), HistoryOK(u, x, sl)
    PROVE  HistoryOK(Apply(u, e), x \cup StartedBy(e), sl \o SealBy(e))
  <1> DEFINE t == Apply(u, e)
  <1>1. Fits(u, e) /\ InStep(u, e) /\ Stepped(u, e, t)
    BY EntryGood DEF FitsAs
  <1> HIDE DEF t
  <1>2. /\ u \in State /\ t \in State /\ t.created /\ t.stage \in Stage
        /\ Terminated(t) <=> Terminated(u) \/ e.type = "ChallengeTerminated"
        /\ Moved(u, e, t)
    BY <1>1 DEF Good, Stepped, Effect
  <1>3. u.stage \in Nat /\ u.attempt \in Nat /\ t.stage \in Nat /\ t.attempt \in Nat
    BY <1>2, PositionTyped
  <1>4. sl \o <<>> = sl /\ x \cup {} = x
    BY ConcatEmptySeq
  <1>5. CASE e.type = "ChallengeCreated"
    <2>1. u = DefaultState
      BY <1>1, <1>5 DEF Fits, Good, PositionOK
    <2>2. u.status = "ENTERED" /\ ~Terminated(u)
      BY <2>1 DEF DefaultState, Terminated
    <2>3. x = {} /\ sl = <<>>
      BY <2>2 DEF HistoryOK
    <2>4. ~Sealed(t)
      BY <1>2, <1>5 DEF Moved, Sealed
    <2>5. HistoryOK(t, x, sl)
      BY <2>3, <2>4 DEF HistoryOK
    <2>6. StartedBy(e) = {} /\ SealBy(e) = <<>>
      BY <1>5 DEF StartedBy, SealBy
    <2> QED BY <1>4, <2>5, <2>6 DEF t
  <1>6. CASE e.type = "StageStarted"
    <2>1. /\ t.stage = e.stage /\ t.attempt = FirstAttempt(e.stage)
          /\ t.status # "ENTERED" /\ ~Sealed(t) /\ ~Terminated(t)
      BY <1>1, <1>2, <1>6 DEF Moved, Fits, Sealed, Processing
    <2>2. u.status = "ENTERED" \/ (Sealed(u) /\ t.stage > u.stage)
      BY <1>1, <1>6, <2>1 DEF Fits
    <2>3. HistoryOK(t, x \cup {Current(t)}, sl)
      BY <1>3, <2>1, <2>2, HistoryAdvances
    <2>4. StartedBy(e) = {Current(t)} /\ SealBy(e) = <<>>
      BY <1>6, <2>1 DEF StartedBy, SealBy, Current
    <2> QED BY <1>4, <2>3, <2>4 DEF t
  <1>7. CASE e.type = "StageAttemptStarted"
    <2>1. /\ t.stage = u.stage /\ t.attempt = e.attempt /\ e.stage = u.stage
          /\ t.attempt = u.attempt + 1 /\ Sealed(u)
          /\ t.status # "ENTERED" /\ ~Sealed(t) /\ ~Terminated(t)
      BY <1>1, <1>2, <1>7 DEF Moved, Fits, Sealed, Processing
    <2>2. t.attempt > u.attempt
      BY <1>3, <2>1
    <2>3. HistoryOK(t, x \cup {Current(t)}, sl)
      BY <1>3, <2>1, <2>2, HistoryAdvances
    <2>4. StartedBy(e) = {Current(t)} /\ SealBy(e) = <<>>
      BY <1>7, <2>1 DEF StartedBy, SealBy, Current
    <2> QED BY <1>4, <2>3, <2>4 DEF t
  <1>8. CASE e.type = "StageSealed"
    <2>1. /\ t.stage = u.stage /\ t.attempt = u.attempt /\ t.status = u.status /\ Sealed(t)
          /\ ~Sealed(u) /\ u.status # "ENTERED" /\ u.stage \in Stage
          /\ e.stage = u.stage /\ e.attempt = u.attempt
      BY <1>1, <1>2, <1>8 DEF Moved, Fits, InStep, Sealed
    <2>2. Current(u) \in StageAttempt
      BY <1>3, <2>1 DEF Current, StageAttempt
    <2>3. HistoryOK(t, x, sl \o <<Current(u)>>)
      BY <1>3, <2>1, <2>2, HistorySeals
    <2>4. StartedBy(e) = {} /\ SealBy(e) = <<Current(u)>>
      BY <1>8, <2>1 DEF StartedBy, SealBy, Current
    <2> QED BY <1>4, <2>3, <2>4 DEF t
  <1>9. CASE e.type \notin {"ChallengeCreated", "StageStarted", "StageAttemptStarted",
                            "StageSealed"}
    <2>1. t.stage = u.stage /\ t.attempt = u.attempt
      BY <1>2, <1>9 DEF Moved, Movers
    <2>2. Sealed(t) = Sealed(u)
      BY <1>2, <1>9 DEF Moved, Movers, Sealed, OpensWindow
    <2>3. t.status = "ENTERED" => u.status = "ENTERED"
      BY <1>2, <1>9 DEF Moved, Movers, OpensWindow, Finished
    <2>4. Terminated(t) => Terminated(u) \/ Sealed(u) \/ u.status = "ENTERED"
      BY <1>1, <1>2 DEF Fits
    <2>5. HistoryOK(t, x, sl)
      BY <2>1, <2>2, <2>3, <2>4, HistoryStays
    <2>6. StartedBy(e) = {} /\ SealBy(e) = <<>>
      BY <1>9 DEF StartedBy, SealBy
    <2> QED BY <1>4, <2>5, <2>6 DEF t
  <1> QED BY <1>5, <1>6, <1>7, <1>8, <1>9

\* What the histories say is kept by a batch whose entries fit.
Recorded(st, x, sl) ==
    Good(st) /\ CompletionOK(st) /\ sl \in Seq(StageAttempt) /\ HistoryOK(st, x, sl)

LEMMA NthRecorded ==
    ASSUME NEW o, o, NEW T, NEW u, NEW b, NEW i, NEW x, NEW sl, Recorded(u, x, sl),
           i \in DOMAIN b => FitsAs(o, T, u, b[i])
    PROVE  Recorded(ApplyNth(u, b, i), x \cup StartedAt(b, i), sl \o SealAt(b, i))
  <1> USE DEF Recorded
  <1>1. CASE i \notin DOMAIN b
    <2>1. /\ ApplyNth(u, b, i) = u /\ StartedAt(b, i) = {} /\ SealAt(b, i) = <<>>
      BY <1>1 DEF ApplyNth, StartedAt, SealAt
    <2>2. sl \o <<>> = sl /\ x \cup {} = x
      BY ConcatEmptySeq
    <2> QED BY <2>1, <2>2
  <1>2. CASE i \in DOMAIN b
    <2> DEFINE e == b[i]
    <2>1. /\ ApplyNth(u, b, i) = Apply(u, e) /\ StartedAt(b, i) = StartedBy(e)
          /\ SealAt(b, i) = SealBy(e)
      BY <1>2 DEF ApplyNth, StartedAt, SealAt, SealBy
    <2>2. FitsAs(o, T, u, e)
      BY <1>2
    <2> HIDE DEF e
    <2>3. Fits(u, e) /\ InStep(u, e) /\ Stepped(u, e, Apply(u, e))
      BY <2>2, EntryGood DEF FitsAs
    <2>4. Good(Apply(u, e))
      BY <2>3 DEF Stepped
    <2>5. CompletionOK(Apply(u, e))
      BY <2>3, CompletionKept
    <2>6. sl \o SealBy(e) \in Seq(StageAttempt)
      BY <2>2, EntryHistoryTyped, ConcatProperties
    <2>7. HistoryOK(Apply(u, e), x \cup StartedBy(e), sl \o SealBy(e))
      BY <2>2, HistoryKept
    <2> QED BY <2>1, <2>4, <2>5, <2>6, <2>7
  <1> QED BY <1>1, <1>2

LEMMA BatchRecorded ==
    ASSUME NEW o, o, NEW T, NEW u, NEW b, NEW x, NEW sl, Recorded(u, x, sl), AllFit(o, T, u, b)
    PROVE  Recorded(ApplyBatch(u, b), x \cup StartedIn(b), sl \o SealedIn(b))
  <1> DEFINE x1 == x \cup StartedAt(b, 1)
             x2 == x1 \cup StartedAt(b, 2)
             x3 == x2 \cup StartedAt(b, 3)
             x4 == x3 \cup StartedAt(b, 4)
             x5 == x4 \cup StartedAt(b, 5)
             l1 == sl \o SealAt(b, 1)
             l2 == l1 \o SealAt(b, 2)
             l3 == l2 \o SealAt(b, 3)
             l4 == l3 \o SealAt(b, 4)
             l5 == l4 \o SealAt(b, 5)
  <1> HIDE DEF x1, x2, x3, x4, x5, l1, l2, l3, l4, l5
  <1>1. Recorded(After1(u, b), x1, l1)
    BY NthRecorded DEF AllFit, After1, x1, l1
  <1>2. Recorded(After2(u, b), x2, l2)
    BY <1>1, NthRecorded DEF AllFit, After2, x2, l2
  <1>3. Recorded(After3(u, b), x3, l3)
    BY <1>2, NthRecorded DEF AllFit, After3, x3, l3
  <1>4. Recorded(After4(u, b), x4, l4)
    BY <1>3, NthRecorded DEF AllFit, After4, x4, l4
  <1>5. Recorded(ApplyNth(After4(u, b), b, 5), x5, l5)
    BY <1>4, NthRecorded DEF AllFit, x5, l5
  <1>6. ApplyBatch(u, b) = ApplyNth(After4(u, b), b, 5)
    BY DEF ApplyBatch, After4, After3, After2, After1
  <1>7. x \cup StartedIn(b) = x5
    <2>1. DOMAIN b = 1..Len(b) /\ Len(b) \in Nat /\ Len(b) <= 5
      BY IsBatchDef DEF AllFit
    <2>2. StartedIn(b) = StartedAt(b, 1) \cup StartedAt(b, 2) \cup StartedAt(b, 3) \cup
                         StartedAt(b, 4) \cup StartedAt(b, 5)
      BY <2>1, StartedInIs
    <2> QED BY <2>2 DEF x1, x2, x3, x4, x5
  <1>8. sl \o SealedIn(b) = l5
    <2>1. sl \in Seq(StageAttempt) /\ Good(u)
      BY DEF Recorded
    <2>2. \A i \in 1..5 : SealAt(b, i) \in Seq(StageAttempt)
      BY <2>1, HistoryTyped
    <2>3. sl \o SealedIn(b) = ((((sl \o SealAt(b, 1)) \o SealAt(b, 2)) \o SealAt(b, 3)) \o
                               SealAt(b, 4)) \o SealAt(b, 5)
      BY <2>1, <2>2, SealedInIs
    <2> QED BY <2>3 DEF l1, l2, l3, l4, l5
  <1> QED BY <1>5, <1>6, <1>7, <1>8

-----------------------------------------------------------------------------
(* The inductive invariant                                                   *)

\* The challenge is good and has a dormancy window when nobody is active; its
\* histories are of its own stages, and tell what HistoryOK and CompletionOK say
\* if clients report in order.
Inv ==
    /\ Good(s) /\ DormantOK(s)
    /\ inflight \subseteq Run
    /\ started \subseteq StageAttempt
    /\ seals \in Seq(StageAttempt)
    /\ InOrder => Recorded(s, started, seals)

\* What a step never does: take the challenge back, or settle a trigger other
\* than through its own attempt.
OwnAttempt ==
    LET run == s.processing.active
    IN  Len(s'.processing.completed) > Len(s.processing.completed) =>
          /\ run.running
          /\ \/ <<run.trigger.seq, run.attempts>> \in inflight
             \/ run.attempts >= AttemptsFor(run.trigger)

StepOK == Inv' /\ NotBack(s, s') /\ OwnAttempt

LEMMA InvInit == Init => Inv
  <1> SUFFICES ASSUME Init PROVE Inv
    OBVIOUS
  <1>1. s = DefaultState /\ inflight = {} /\ started = {} /\ seals = <<>>
    BY DEF Init
  <1>2. Good(s)
    BY <1>1, DefaultGood
  <1>3. DormantOK(s)
    BY <1>1 DEF DormantOK, DefaultState
  <1>4. CompletionOK(s)
    <2>1. Clients(DefaultState) = {}
      BY DEF Clients, DefaultState
    <2> QED BY <1>1, <2>1 DEF CompletionOK
  <1>5. HistoryOK(s, started, seals)
    <2>1. ~Sealed(s)
      BY <1>1 DEF Sealed, DefaultState
    <2>2. DOMAIN seals = {}
      BY <1>1
    <2> QED BY <1>1, <2>1, <2>2 DEF HistoryOK
  <1> QED BY <1>1, <1>2, <1>3, <1>4, <1>5 DEF Inv, Recorded

\* Journalling a batch whose entries fit.
LEMMA JournalKeeps ==
    ASSUME Inv, NEW T, NEW b, AllFit(InOrder, T, s, b), Journal(b)
    PROVE  /\ Good(s)' /\ NotBack(s, s')
           /\ (started \subseteq StageAttempt)' /\ (seals \in Seq(StageAttempt))'
           /\ (InOrder => Recorded(s, started, seals))'
           /\ "ChallengeCreated" \notin T => DormantOK(s)'
           /\ "ProcessingEnded" \notin T =>
                s'.processing.completed = s.processing.completed
  <1>1. s' = ApplyBatch(s, b) /\ seals' = seals \o SealedIn(b) /\ started' = started \cup StartedIn(b)
    BY DEF Journal
  <1>2. Good(s) /\ DormantOK(s) /\ seals \in Seq(StageAttempt) /\ started \subseteq StageAttempt
    BY DEF Inv
  <1>3. /\ Good(s') /\ NotBack(s, s')
        /\ "ChallengeCreated" \notin T => DormantOK(s')
        /\ "ProcessingEnded" \notin T => s'.processing.completed = s.processing.completed
    BY <1>1, <1>2, BatchGood
  <1>4. /\ StartedIn(b) \subseteq StageAttempt
        /\ \A i \in 1..5 : SealAt(b, i) \in Seq(StageAttempt)
    BY <1>2, HistoryTyped
  <1>5. started' \subseteq StageAttempt /\ seals' \in Seq(StageAttempt)
    BY <1>1, <1>2, <1>4, SealedInIs
  <1>6. InOrder => Recorded(s', started', seals')
    <2>1. SUFFICES ASSUME InOrder PROVE Recorded(s', started', seals')
      OBVIOUS
    <2>2. Recorded(s, started, seals)
      BY <2>1 DEF Inv
    <2> QED BY <1>1, <2>1, <2>2, BatchRecorded
  <1> QED BY <1>3, <1>5, <1>6

\* Nothing settles.
LEMMA NothingSettles ==
    ASSUME Good(s), s'.processing.completed = s.processing.completed
    PROVE  OwnAttempt
  <1>1. s.processing.completed \in Seq(TriggerRecord)
    BY DEF Good, State, Pipeline
  <1>2. Len(s.processing.completed) \in Nat
    BY <1>1, LenProperties
  <1> QED BY <1>2 DEF OwnAttempt

\* A command that neither starts nor ends an attempt of a run.
LEMMA HandleKeeps ==
    ASSUME Inv, NEW cmd, NEW T, Handle(cmd), AllFit(InOrder, T, s, Decide(s, cmd)),
           "ProcessingStarted" \notin T, "ProcessingEnded" \notin T,
           "ChallengeCreated" \notin T \/ HasActive(ApplyBatch(s, Decide(s, cmd)))
    PROVE  StepOK
  <1> DEFINE b == Decide(s, cmd)
  <1>1. Journal(b) /\ s' = ApplyBatch(s, b)
    BY DEF Handle, Journal
  <1>2. Good(s)
    BY DEF Inv
  <1>3. Spawned(b, s') = {}
    <2>1. \A i \in DOMAIN b : \E u : Good(u) /\ FitsAs(InOrder, T, u, b[i])
      BY <1>2, EachFits
    <2>2. \A i \in DOMAIN b : b[i].type # "ProcessingStarted"
      BY <2>1 DEF FitsAs
    <2> QED BY <2>2 DEF Spawned
  <1>4. inflight' = inflight
    BY <1>3 DEF Handle
  <1> HIDE DEF b
  <1>5. /\ Good(s)' /\ NotBack(s, s')
        /\ (started \subseteq StageAttempt)' /\ (seals \in Seq(StageAttempt))'
        /\ (InOrder => Recorded(s, started, seals))'
        /\ "ChallengeCreated" \notin T => DormantOK(s)'
        /\ s'.processing.completed = s.processing.completed
    <2>1. AllFit(InOrder, T, s, b)
      BY DEF b
    <2> QED BY <1>1, <2>1, JournalKeeps
  <1>6. DormantOK(s)'
    <2>1. CASE "ChallengeCreated" \notin T
      BY <1>5, <2>1
    <2>2. CASE HasActive(ApplyBatch(s, Decide(s, cmd)))
      BY <1>1, <2>2 DEF DormantOK, b
    <2> QED BY <2>1, <2>2
  <1>7. (inflight \subseteq Run)'
    BY <1>4 DEF Inv
  <1>8. OwnAttempt
    BY <1>2, <1>5, NothingSettles
  <1> QED BY <1>5, <1>6, <1>7, <1>8 DEF StepOK, Inv

-----------------------------------------------------------------------------
(* The actions                                                               *)

LEMMA CreateKeeps ==
    ASSUME Inv, CreateChallenge
    PROVE  StepOK
  <1>1. PICK c \in Client, t \in Token, m \in Mode, st \in Stage :
            Handle([type |-> "Create", client |-> c, token |-> t,
                    participant |-> c \in Participants, mode |-> m, stage |-> st])
    BY DEF CreateChallenge
  <1> DEFINE cmd == [type |-> "Create", client |-> c, token |-> t,
                     participant |-> c \in Participants, mode |-> m, stage |-> st]
  <1>2. /\ cmd.type = "Create" /\ cmd.client \in Client /\ cmd.token \in Token
        /\ cmd.participant \in BOOLEAN /\ cmd.mode \in Mode /\ cmd.stage \in Stage
        /\ Handle(cmd)
    BY <1>1
  <1> HIDE DEF cmd
  <1>3. ~Terminated(s) /\ Decide(s, cmd) = DecideCreate(s, cmd) /\ Decide(s, cmd) # <<>>
    BY <1>2, DecideIs DEF Handle, None
  <1>4. AllFit(InOrder, Opening, s, Decide(s, cmd)) /\ HasActive(ApplyBatch(s, Decide(s, cmd)))
    BY <1>2, <1>3, CreateFits DEF Inv
  <1> QED BY <1>2, <1>4, HandleKeeps DEF Opening

\* The other commands are for a challenge that was created; while it lasts they
\* journal batches of ordinary entries.
LEMMA OrdinaryKeeps ==
    ASSUME Inv, NEW cmd, Handle(cmd), AllFit(InOrder, Ordinary, s, Decide(s, cmd))
    PROVE  StepOK
  BY HandleKeeps DEF Ordinary

LEMMA CommandOpen ==
    ASSUME Inv, NEW cmd, Handle(cmd), s.created,
           cmd.type \notin {"Processed", "DeadlineFired"}
    PROVE  Open(s)
  BY DecideIs DEF Open, Inv, Handle, None

LEMMA JoinKeeps ==
    ASSUME Inv, JoinChallenge
    PROVE  StepOK
  <1>1. PICK c \in Client, t \in Token :
            Handle([type |-> "Join", client |-> c, token |-> t,
                    participant |-> c \in Participants])
    BY DEF JoinChallenge
  <1> DEFINE cmd == [type |-> "Join", client |-> c, token |-> t,
                     participant |-> c \in Participants]
  <1>2. /\ cmd.type = "Join" /\ cmd.client \in Client /\ cmd.token \in Token
        /\ cmd.participant \in BOOLEAN /\ Handle(cmd) /\ s.created
    BY <1>1 DEF JoinChallenge
  <1> HIDE DEF cmd
  <1>3. Open(s) /\ Decide(s, cmd) = DecideJoin(s, cmd)
    BY <1>2, CommandOpen, DecideIs DEF Open
  <1>4. AllFit(InOrder, Ordinary, s, Decide(s, cmd))
    BY <1>2, <1>3, JoinFits
  <1> QED BY <1>2, <1>4, OrdinaryKeeps

LEMMA UpdateKeeps ==
    ASSUME Inv, UpdateChallenge
    PROVE  StepOK
  <1>1. PICK c \in Client, m \in Mode \cup {NoMode}, party \in PartyUpdates, pr \in Progress :
            /\ Plausible(pr)
            /\ Handle([type |-> "Update", client |-> c, mode |-> m, party |-> party,
                       progress |-> pr])
    BY DEF UpdateChallenge
  <1> DEFINE cmd == [type |-> "Update", client |-> c, mode |-> m, party |-> party,
                     progress |-> pr]
  <1>2. cmd.type = "Update" /\ cmd.progress = pr /\ Handle(cmd) /\ s.created
    BY <1>1 DEF UpdateChallenge
  <1> HIDE DEF cmd
  <1>3. Open(s) /\ Decide(s, cmd) = DecideUpdate(s, cmd)
    BY <1>2, CommandOpen, DecideIs DEF Open
  <1>4. pr = NoProgress \/ Reported(InOrder, s, pr)
    BY <1>1 DEF Progress, Plausible, Reported, ProgressRecord
  <1>5. AllFit(InOrder, Ordinary, s, Decide(s, cmd))
    BY <1>2, <1>3, <1>4, UpdateFits
  <1> QED BY <1>2, <1>5, OrdinaryKeeps

LEMMA FinishKeeps ==
    ASSUME Inv, FinishClient
    PROVE  StepOK
  <1>1. PICK c \in Client, soft \in BOOLEAN, times \in BOOLEAN :
            Handle([type |-> "Finish", client |-> c, soft |-> soft, times |-> times])
    BY DEF FinishClient
  <1> DEFINE cmd == [type |-> "Finish", client |-> c, soft |-> soft, times |-> times]
  <1>2. cmd.type = "Finish" /\ Handle(cmd) /\ s.created
    BY <1>1 DEF FinishClient
  <1> HIDE DEF cmd
  <1>3. Open(s) /\ Decide(s, cmd) = DecideFinish(s, cmd)
    BY <1>2, CommandOpen, DecideIs DEF Open
  <1>4. AllFit(InOrder, Ordinary, s, Decide(s, cmd))
    BY <1>3, FinishFits
  <1> QED BY <1>2, <1>4, OrdinaryKeeps

LEMMA StatusKeeps ==
    ASSUME Inv, ChangeClientStatus
    PROVE  StepOK
  <1>1. PICK c \in Client, t \in Token, status \in {"ACTIVE", "IDLE", "DISCONNECTED"} :
            Handle([type |-> "ClientStatus", client |-> c, token |-> t, status |-> status])
    BY DEF ChangeClientStatus
  <1> DEFINE cmd == [type |-> "ClientStatus", client |-> c, token |-> t, status |-> status]
  <1>2. cmd.type = "ClientStatus" /\ Handle(cmd) /\ s.created
    BY <1>1 DEF ChangeClientStatus
  <1> HIDE DEF cmd
  <1>3. Open(s) /\ Decide(s, cmd) = DecideStatus(s, cmd)
    BY <1>2, CommandOpen, DecideIs DEF Open
  <1>4. AllFit(InOrder, Ordinary, s, Decide(s, cmd))
    BY <1>3, StatusFits
  <1> QED BY <1>2, <1>4, OrdinaryKeeps

LEMMA MovedOnKeeps ==
    ASSUME Inv, MoveClientOn
    PROVE  StepOK
  <1>1. PICK c \in Client : Handle([type |-> "ClientMovedOn", client |-> c])
    BY DEF MoveClientOn
  <1> DEFINE cmd == [type |-> "ClientMovedOn", client |-> c]
  <1>2. cmd.type = "ClientMovedOn" /\ Handle(cmd) /\ s.created
    BY <1>1 DEF MoveClientOn
  <1> HIDE DEF cmd
  <1>3. Open(s) /\ Decide(s, cmd) = DecideMovedOn(s, cmd)
    BY <1>2, CommandOpen, DecideIs DEF Open
  <1>4. AllFit(InOrder, Ordinary, s, Decide(s, cmd))
    BY <1>3, MovedOnFits
  <1> QED BY <1>2, <1>4, OrdinaryKeeps

LEMMA LifecycleDeadlineKeeps ==
    ASSUME Inv, FireLifecycleDeadline
    PROVE  StepOK
  <1> DEFINE cmd == [type |-> "DeadlineFired", kind |-> LifecycleDeadline(s)]
  <1>1. /\ cmd.type = "DeadlineFired" /\ cmd.kind = LifecycleDeadline(s)
        /\ LifecycleDeadline(s) # "None" /\ Handle(cmd)
    BY DEF FireLifecycleDeadline
  <1> HIDE DEF cmd
  <1>2. Decide(s, cmd) = DecideDeadline(s, cmd)
    BY <1>1, DecideIs
  <1>3. AllFit(InOrder, Ordinary, s, Decide(s, cmd))
    BY <1>1, <1>2, LifecycleDeadlineFits DEF Inv
  <1> QED BY <1>1, <1>3, OrdinaryKeeps

\* A batch of one entry about the pipeline.
LEMMA ProcessingKeeps ==
    ASSUME Inv, NEW e, NEW T, FitsAs(InOrder, T, s, e), T \subseteq Processing, Journal(<<e>>),
           (inflight \subseteq Run)', OwnAttempt
    PROVE  StepOK
  <1>1. AllFit(InOrder, T, s, <<e>>)
    BY OneFits
  <1>2. "ChallengeCreated" \notin T
    BY DEF Processing
  <1> QED BY <1>1, <1>2, JournalKeeps DEF StepOK, Inv

\* The active run's own numbers.
LEMMA RunTyped ==
    ASSUME NEW u, Good(u), u.processing.active # NoRun
    PROVE  LET run == u.processing.active
           IN  /\ run \in RunRecord
               /\ <<run.trigger.seq, run.attempts>> \in Run
  <1>1. u.processing.active \in RunRecord
    BY ActiveRun DEF Good, State
  <1> QED BY <1>1 DEF RunRecord, TriggerRecord, Run

\* An entry settles nothing but the run that was active.
LEMMA OneSettles ==
    ASSUME Inv, NEW e, Fits(s, e), s' = Apply(s, e)
    PROVE  /\ Good(s') /\ Effect(s, e, s')
           /\ Settles(s, e, s')
           /\ s'.processing.completed = s.processing.completed => OwnAttempt
  <1>1. Good(s)
    BY DEF Inv
  <1>2. Stepped(s, e, s')
    BY <1>1, EntryGood
  <1> QED BY <1>1, <1>2, NothingSettles DEF Stepped, Effect

LEMMA ProcessingDeadlineKeeps ==
    ASSUME Inv, FireProcessingDeadline
    PROVE  StepOK
  <1> DEFINE cmd == [type |-> "DeadlineFired", kind |-> ProcessingDeadline(s)]
             b == Decide(s, cmd)
  <1>1. /\ cmd.type = "DeadlineFired" /\ cmd.kind = ProcessingDeadline(s)
        /\ ProcessingDeadline(s) # "None" /\ Handle(cmd)
    BY DEF FireProcessingDeadline
  <1> HIDE DEF cmd
  <1>2. b = DecideDeadline(s, cmd) /\ Good(s)
    BY <1>1, DecideIs DEF Inv
  <1>3. PICK e : /\ b = <<e>>
                 /\ \/ FitsAs(InOrder, {"ProcessingStarted"}, s, e)
                    \/ /\ FitsAs(InOrder, {"ProcessingEnded"}, s, e)
                       /\ e.result = TimeoutResult /\ s.processing.active.running
    BY <1>1, <1>2, ProcessingDeadlineFits
  <1>4. Journal(b) /\ s' = ApplyBatch(s, b)
    BY <1>1 DEF Handle, Journal
  <1>5. Fits(s, e) /\ Journal(<<e>>) /\ s' = Apply(s, e)
    BY <1>3, <1>4, ApplyOne DEF FitsAs
  <1>6. /\ Good(s') /\ Effect(s, e, s') /\ Settles(s, e, s')
        /\ s'.processing.completed = s.processing.completed => OwnAttempt
    BY <1>5, OneSettles
  <1>7. inflight' = inflight \/ inflight' \subseteq inflight \cup Spawned(b, s')
    BY <1>1 DEF Handle
  <1> HIDE DEF b
  <1>8. \A i \in DOMAIN b : b[i] = e
    BY <1>3
  <1>9. CASE FitsAs(InOrder, {"ProcessingStarted"}, s, e)
    <2>1. e.type = "ProcessingStarted"
      BY <1>9 DEF FitsAs
    <2>2. s'.processing.active # NoRun
      BY <1>6, <2>1 DEF Effect
    <2>3. Spawned(b, s') \subseteq Run
      BY <1>6, <2>2, RunTyped DEF Spawned
    <2>4. (inflight \subseteq Run)'
      BY <1>7, <2>3 DEF Inv
    <2>5. OwnAttempt
      BY <1>6, <2>1 DEF Settles
    <2> QED BY <1>5, <1>9, <2>4, <2>5, ProcessingKeeps DEF Processing
  <1>10. CASE /\ FitsAs(InOrder, {"ProcessingEnded"}, s, e)
              /\ e.result = TimeoutResult /\ s.processing.active.running
    <2>1. e.type = "ProcessingEnded"
      BY <1>10 DEF FitsAs
    <2>2. Spawned(b, s') = {}
      BY <1>8, <2>1 DEF Spawned
    <2>3. (inflight \subseteq Run)'
      BY <1>7, <2>2 DEF Inv
    <2>4. \/ s'.processing.completed = s.processing.completed
          \/ s.processing.active.attempts >= AttemptsFor(s.processing.active.trigger)
      BY <1>6, <1>10 DEF Settles, TimeoutResult
    <2>5. OwnAttempt
      <3>1. CASE s'.processing.completed = s.processing.completed
        BY <1>6, <3>1
      <3>2. CASE s.processing.active.attempts >= AttemptsFor(s.processing.active.trigger)
        BY <1>10, <3>2 DEF OwnAttempt
      <3> QED BY <2>4, <3>1, <3>2
    <2> QED BY <1>5, <1>10, <2>3, <2>5, ProcessingKeeps DEF Processing
  <1> QED BY <1>3, <1>9, <1>10

LEMMA ReportKeeps ==
    ASSUME Inv, DeliverReport
    PROVE  StepOK
  <1>1. PICK run \in inflight, result \in Results :
            LET batch == Decide(s, [type |-> "Processed", seq |-> run[1], attempt |-> run[2],
                                    result |-> result])
            IN  Journal(batch) /\ inflight' = inflight \ {run}
    BY DEF DeliverReport
  <1> DEFINE cmd == [type |-> "Processed", seq |-> run[1], attempt |-> run[2],
                     result |-> result]
             b == Decide(s, cmd)
  <1>2. /\ cmd.type = "Processed" /\ cmd.seq = run[1] /\ cmd.attempt = run[2]
        /\ cmd.result = result /\ Journal(b) /\ inflight' = inflight \ {run}
    BY <1>1
  <1> HIDE DEF cmd
  <1>3. b = DecideProcessed(s, cmd) /\ Good(s)
    BY <1>2, DecideIs DEF Inv
  <1>4. cmd.result \in ResultRecord
    BY <1>2 DEF Results, ResultRecord
  <1>5. \/ b = <<>>
        \/ /\ ReportIsCurrent(s, cmd)
           /\ \E e : b = <<e>> /\ FitsAs(InOrder, {"ProcessingEnded"}, s, e)
    BY <1>3, <1>4, ProcessedFits
  <1>6. (inflight \subseteq Run)'
    BY <1>2 DEF Inv
  <1> HIDE DEF b
  <1>7. CASE b = <<>>
    <2>1. s' = s
      BY <1>2, <1>7, ApplyOne DEF Journal
    <2>2. AllFit(InOrder, {}, s, b)
      BY <1>7, NoneFits
    <2>3. OwnAttempt
      BY <1>3, <2>1, NothingSettles
    <2> QED BY <1>2, <1>6, <2>2, <2>3, JournalKeeps DEF StepOK, Inv
  <1>8. ASSUME ReportIsCurrent(s, cmd), NEW e, b = <<e>>,
               FitsAs(InOrder, {"ProcessingEnded"}, s, e)
        PROVE  StepOK
    <2>1. /\ s.processing.active.running
          /\ s.processing.active.trigger.seq = run[1] /\ s.processing.active.attempts = run[2]
      BY <1>2, <1>8 DEF ReportIsCurrent
    <2>2. run \in Run
      BY DEF Inv
    <2>3. run = <<run[1], run[2]>>
      BY <2>2 DEF Run
    <2>4. OwnAttempt
      BY <2>1, <2>3 DEF OwnAttempt
    <2> QED BY <1>2, <1>6, <1>8, <2>4, ProcessingKeeps DEF Processing
  <1> QED BY <1>5, <1>7, <1>8

LEMMA StandsStill ==
    ASSUME Inv, UNCHANGED <<s, started, seals>>, (inflight \subseteq Run)'
    PROVE  StepOK
  <1>1. Good(s) /\ s' = s
    BY DEF Inv
  <1>2. NotBack(s, s')
    BY <1>1, PositionTyped DEF NotBack, Good
  <1>3. OwnAttempt
    BY <1>1, NothingSettles
  <1> QED BY <1>1, <1>2, <1>3 DEF StepOK, Inv

LEMMA RestartKeeps ==
    ASSUME Inv, Restart
    PROVE  StepOK
  <1>1. s.processing.active # NoRun =>
            <<s.processing.active.trigger.seq, s.processing.active.attempts>> \in Run
    BY RunTyped DEF Inv
  <1>2. (inflight \subseteq Run)'
    BY <1>1 DEF Restart
  <1> QED BY <1>2, StandsStill DEF Restart

LEMMA NextKeeps ==
    ASSUME Inv, [Next]_vars
    PROVE  StepOK
  <1>1. CASE CreateChallenge \/ JoinChallenge \/ UpdateChallenge \/ FinishClient
    BY <1>1, CreateKeeps, JoinKeeps, UpdateKeeps, FinishKeeps
  <1>2. CASE ChangeClientStatus \/ MoveClientOn
    BY <1>2, StatusKeeps, MovedOnKeeps
  <1>3. CASE FireLifecycleDeadline \/ FireProcessingDeadline
    BY <1>3, LifecycleDeadlineKeeps, ProcessingDeadlineKeeps
  <1>4. CASE DeliverReport \/ Restart
    BY <1>4, ReportKeeps, RestartKeeps
  <1>5. CASE Done \/ UNCHANGED vars
    <2>1. UNCHANGED <<s, started, seals>> /\ inflight' = inflight
      BY <1>5 DEF Done, vars
    <2>2. (inflight \subseteq Run)'
      BY <2>1 DEF Inv
    <2> QED BY <2>1, <2>2, StandsStill
  <1> QED BY <1>1, <1>2, <1>3, <1>4, <1>5 DEF Next

-----------------------------------------------------------------------------
(* Theorems                                                                  *)

LEMMA InvHolds == Spec => []Inv
  <1>1. Inv /\ [Next]_vars => Inv'
    BY NextKeeps DEF StepOK
  <1> QED BY <1>1, InvInit, PTL DEF Spec

\* Every variable keeps its type, whatever the clients send, the clock and the
\* runs do (core/state.rs).
THEOREM TypeCorrect == Spec => []TypeOK
  <1>1. Inv => TypeOK
    <2> SUFFICES ASSUME Inv PROVE TypeOK
      OBVIOUS
    <2>1. s \in State /\ s.processing \in Pipeline
      BY DEF Inv, Good, State
    <2>2. /\ Clients(s) \subseteq Client
          /\ \A c \in Clients(s) : s.clients[c] \in ClientRecord
      BY <2>1, ClientsTyped
    <2>3. Triggers(s.processing) \in Seq(TriggerRecord)
      BY <2>1, TriggersTyped
    <2>4. \A i \in DOMAIN Triggers(s.processing) : Triggers(s.processing)[i] \in TriggerRecord
      BY <2>3, ElementOfSeq
    <2>5. \A i \in DOMAIN seals : seals[i] \in StageAttempt
      BY ElementOfSeq DEF Inv
    <2>6. s.processing.active \in RunRecord \cup {NoRun}
          /\ s.processing.status \in ChallengeStatus \cup {"NONE"}
      BY <2>1 DEF Pipeline
    <2>7. inflight \subseteq Run /\ started \subseteq StageAttempt
      BY DEF Inv
    <2> QED BY <2>1, <2>2, <2>4, <2>5, <2>6, <2>7 DEF TypeOK, State
  <1> QED BY <1>1, InvHolds, PTL

\* A client's attempt of the current stage is never above the challenge's, so
\* comparing attempts decides who has finished (decide.rs, client_finished_stage).
THEOREM ClientsStayBehind == Spec => []ClientNeverAhead
  <1>1. Inv => ClientNeverAhead
    BY DEF Inv, Good, PositionOK, ClientNeverAhead
  <1> QED BY <1>1, InvHolds, PTL

\* A live challenge with nobody active has a deadline: dormancy is tracked at
\* every entry (apply.rs) and no other deadline hides it for good (deadline.rs).
THEOREM NobodyStranded == Spec => []NeverStranded
  <1>1. Inv => NeverStranded
    BY DEF Inv, DormantOK, NeverStranded, LifecycleDeadline, ChallengeDeadline
  <1> QED BY <1>1, InvHolds, PTL

\* Triggers keep their order, the finish trigger comes once, last and after the
\* termination, and no challenge concludes without it.
THEOREM PipelineCloses == Spec => []FinishClosesPipeline
  <1>1. Inv => FinishClosesPipeline
    <2> SUFFICES ASSUME Inv PROVE FinishClosesPipeline
      OBVIOUS
    <2> DEFINE ts == Triggers(s.processing)
    <2>1. Ordered(s.processing) /\ FinishOK(s)
          /\ (Concluded(s) /\ MaxAttempts # 0 => s.processing.finishQueued)
      BY DEF Inv, Good, PipelineOK
    <2>2. \A i \in DOMAIN ts : ts[i].seq = i
      BY <2>1 DEF Ordered
    <2>3. \A i \in DOMAIN ts : ts[i].kind = "Finish" => i = Len(ts) /\ Terminated(s)
      BY <2>1 DEF Ordered, FinishOK
    <2>4. Concluded(s) /\ MaxAttempts > 0 => ts[Len(ts)].kind = "Finish"
      BY <2>1, CoreAssumption DEF Ordered
    <2> QED BY <2>2, <2>3, <2>4 DEF FinishClosesPipeline
  <1> QED BY <1>1, InvHolds, PTL

\* The status captured by the finish trigger is the one the challenge keeps:
\* nothing that settles later changes what is published.
THEOREM FinalStatusStored == Spec => []FinishStoresFinalStatus
  <1>1. Inv => FinishStoresFinalStatus
    <2> SUFFICES ASSUME Inv PROVE FinishStoresFinalStatus
      OBVIOUS
    <2>1. Ordered(s.processing) /\ FinishOK(s)
      BY DEF Inv, Good, PipelineOK
    <2> QED BY <2>1 DEF Ordered, FinishOK, FinishStoresFinalStatus
  <1> QED BY <1>1, InvHolds, PTL

\* No handler takes the challenge back to an earlier stage or attempt, in
\* whatever order reports arrive.
THEOREM NeverBack == Spec => NeverGoesBack
  <1>1. Inv /\ [Next]_vars =>
            [\/ s'.stage > s.stage
             \/ s'.stage = s.stage /\ s'.attempt >= s.attempt]_vars
    BY NextKeeps DEF StepOK, NotBack
  <1> QED BY <1>1, InvHolds, PTL DEF Spec, NeverGoesBack

\* A trigger settles through a report of its own current attempt, or because its
\* attempts are used up; late reports of earlier attempts settle nothing.
THEOREM OwnAttemptSettles == Spec => SettledByItsOwnAttempt
  <1>1. Inv /\ [Next]_vars =>
            [LET run == s.processing.active
             IN  Len(s'.processing.completed) > Len(s.processing.completed) =>
                   /\ run.running
                   /\ \/ <<run.trigger.seq, run.attempts>> \in inflight
                      \/ run.attempts >= AttemptsFor(run.trigger)]_vars
    BY NextKeeps DEF StepOK, OwnAttempt
  <1> QED BY <1>1, InvHolds, PTL DEF Spec, SettledByItsOwnAttempt

\* No two journal entries seal the same attempt of a stage, if clients report
\* the end of a stage only once the challenge has reached it.
THEOREM SealsOnce ==
    ASSUME InOrder
    PROVE  Spec => []SealedAtMostOnce
  <1>1. Inv => SealedAtMostOnce
    BY DEF Inv, Recorded, HistoryOK, SealedAtMostOnce
  <1> QED BY <1>1, InvHolds, PTL

\* Under the same condition every attempt that was started is the one being
\* recorded or has been sealed, however the challenge moved on or ended.
THEOREM StagesKept ==
    ASSUME InOrder
    PROVE  Spec => []NoStageLost
  <1>1. Inv => NoStageLost
    BY DEF Inv, Recorded, HistoryOK, NoStageLost, Current
  <1> QED BY <1>1, InvHolds, PTL

\* Under the same condition the first client to complete the current attempt
\* opens its straggler window.
THEOREM WindowOpens ==
    ASSUME InOrder
    PROVE  Spec => []CompletionOpensWindow
  <1>1. Inv => CompletionOpensWindow
    BY DEF Inv, Recorded, CompletionOK, CompletionOpensWindow
  <1> QED BY <1>1, InvHolds, PTL

================================================================================
