------------------------ MODULE ChallengeManager_proofs ------------------------
(***************************************************************************)
(* What ChallengeManager guarantees for any clients, tasks, stages, bounds  *)
(* and faults.  FinishedOnce and MergedOnce: on its way into the database a *)
(* challenge is in the hands of one worker, and an attempt that is read for *)
(* merging is in the hands of one (Inv).  TypeOK and EmptyIsTimed: whoever  *)
(* empties a challenge or writes its timer leaves it with one that ends it  *)
(* (Sound).                                                                 *)
(***************************************************************************)
EXTENDS ChallengeManager, FiniteSetTheorems, WellFoundedInduction, TLAPS

-----------------------------------------------------------------------------
(* The inductive invariant                                                   *)

\* A challenge that clients and workers may be in: its creation is over.
Known(c) == c \in 1..drawn /\ ch[c].state # "initializing"

\* A worker on its way to the database with a challenge that it has closed.
ClosingAs(a) ==
    \/ a.pc \in {"close", "finish"}
    \/ a.pc \in {"clear", "claim", "read", "merge"} /\ a.next = "finish"
Closing(w) == ClosingAs(at[w])

Live(c) == ch[c].state \in {"initializing", "active"}

Base ==
    /\ drawn \in 0..MaxChallenges
    /\ DOMAIN ch = Challenge
    /\ \A c \in Challenge :
        /\ DOMAIN ch[c] = DOMAIN Gone
        /\ ch[c].state \in {"none", "initializing", "active", "cleanup"}
    /\ finished \in [Challenge -> Nat]
    /\ party \subseteq 1..drawn

\* Clients, events, timers and workers are about known challenges.
ClientsOK ==
    /\ pointer \in [Client -> Challenge \cup {NoChallenge}]
    /\ joined \in [Client -> Challenge \cup {NoChallenge}]
    /\ conn \in [Client -> Nat]
    /\ \A k \in Client :
        /\ pointer[k] # NoChallenge => Known(pointer[k])
        /\ joined[k] # NoChallenge => Known(joined[k])

EventType == [kind : {"active", "idle", "disconnected"}, k : Client, token : Nat,
              c : Challenge \cup {NoChallenge}]

EventsOK ==
    /\ queue \in Seq(EventType)
    /\ event # NoEvent => event \in EventType /\ Known(event.c)

TimersOK ==
    /\ DOMAIN timer = Challenge
    /\ \A c \in Challenge : timer[c] # NoTimer => Known(c)

WorkOK(a) ==
    /\ DOMAIN a = DOMAIN Idle
    /\ a.next \in {"idle", "check", "finish"}
    /\ a.pc \in {"mark", "load"} => a.next # "finish"
    /\ a.pc # "idle" => Known(a.c)

WorkersOK == DOMAIN at = Worker /\ \A w \in Worker : WorkOK(at[w])

\* A challenge that is initialising has one request that creates it.
RequestOK(r) ==
    /\ r.k \in Client /\ r.c \in 1..drawn
    /\ r.kind = "create" => ch[r.c].state = "initializing"
    /\ r.kind \notin {"create", "defer"} => Known(r.c)

RequestsOK ==
    /\ \A r \in flight : RequestOK(r)
    /\ \A r, s \in flight :
        r.kind = "create" /\ s.kind = "create" /\ r.c = s.c => r = s

UndrawnUntouched ==
    \A c \in Challenge : c > drawn => ch[c].state = "none" /\ finished[c] = 0

\* A challenge is closed by one worker, while it is live, and finalised by it.
OneCloser ==
    /\ \A c \in Challenge : Live(c) => finished[c] = 0
    /\ \A w \in Worker : Closing(w) => ~Live(at[w].c) /\ finished[at[w].c] = 0
    /\ \A v, w \in Worker : Closing(v) /\ Closing(w) /\ at[v].c = at[w].c => v = w

\* An attempt is claimed before it is merged, and read by one worker.
Exists(c) == ch[c].state # "none"
Attempted(w) == <<at[w].stage, at[w].attempt>>
Reading(w) == at[w].pc = "read" /\ Exists(at[w].c)

ClaimsOK ==
    /\ DOMAIN processed = Challenge /\ DOMAIN merged = Challenge
    /\ \A c \in Challenge :
        /\ Exists(c) => merged[c] \subseteq processed[c]
        /\ c > drawn => merged[c] = {}
    /\ \A w \in Worker :
        Reading(w) => Attempted(w) \in processed[at[w].c] \ merged[at[w].c]
    /\ \A v, w \in Worker :
        Reading(v) /\ Reading(w) /\ at[v].c = at[w].c /\ Attempted(v) = Attempted(w) => v = w
    /\ again = {}

Inv == Base /\ ClientsOK /\ EventsOK /\ TimersOK /\ WorkersOK /\ RequestsOK
       /\ UndrawnUntouched /\ OneCloser /\ FinishedOnce /\ ClaimsOK

-----------------------------------------------------------------------------
(* What is kept when the states of the challenges are                        *)

KnownGrows == \A c : Known(c) => Known(c)'

\* No challenge changes its state or is finalised; and no claim changes either.
SameStates ==
    /\ drawn' = drawn /\ finished' = finished /\ party' = party
    /\ DOMAIN ch' = Challenge
    /\ \A c \in Challenge : DOMAIN ch'[c] = DOMAIN Gone /\ ch'[c].state = ch[c].state

Quiet == SameStates /\ UNCHANGED <<processed, merged, again>>

LEMMA Drawn ==
    ASSUME Inv
    PROVE  /\ drawn \in Nat /\ drawn <= MaxChallenges /\ MaxChallenges \in Nat
           /\ \A c \in 1..drawn : c \in Challenge /\ c # NoChallenge
           /\ \A c : Known(c) => c \in Challenge /\ c # NoChallenge
BY ManagerAssumption DEF Inv, Base, Challenge, NoChallenge, Known

LEMMA StatesKeep ==
    ASSUME Inv, SameStates
    PROVE  /\ KnownGrows
           /\ Base' /\ UndrawnUntouched' /\ FinishedOnce'
           /\ \A r : RequestOK(r) => RequestOK(r)'
           /\ UNCHANGED flight => RequestsOK'
<1> USE Drawn DEF SameStates, Inv, Base
<1>1. KnownGrows
    BY DEF KnownGrows, Known
<1>2. Base' /\ UndrawnUntouched' /\ FinishedOnce'
    BY DEF UndrawnUntouched, FinishedOnce
<1>3. \A r : RequestOK(r) => RequestOK(r)'
    BY <1>1 DEF RequestOK, KnownGrows
<1>4. UNCHANGED flight => RequestsOK'
    BY <1>3 DEF RequestsOK
<1>5. QED
    BY <1>1, <1>2, <1>3, <1>4

LEMMA QuietKeeps ==
    ASSUME Inv, Quiet
    PROVE  /\ KnownGrows
           /\ Base' /\ UndrawnUntouched' /\ FinishedOnce'
           /\ \A r : RequestOK(r) => RequestOK(r)'
           /\ UNCHANGED flight => RequestsOK'
BY StatesKeep DEF Quiet

\* Parts whose variables are not written.
LEMMA Untouched ==
    ASSUME Inv, KnownGrows
    PROVE  /\ UNCHANGED <<pointer, joined, conn>> => ClientsOK'
           /\ UNCHANGED <<queue, event>> => EventsOK'
           /\ UNCHANGED timer => TimersOK'
           /\ UNCHANGED at => WorkersOK'
<1> USE DEF Inv, KnownGrows
<1>1. UNCHANGED <<pointer, joined, conn>> => ClientsOK'
    BY DEF ClientsOK
<1>2. UNCHANGED <<queue, event>> => EventsOK'
    BY DEF EventsOK
<1>3. UNCHANGED timer => TimersOK'
    BY DEF TimersOK
<1>4. UNCHANGED at => WorkersOK'
    BY DEF WorkersOK, WorkOK
<1>5. QED
    BY <1>1, <1>2, <1>3, <1>4

\* No worker turns to closing, or to reading.
ClosersKept == \A w \in Worker : Closing(w)' => Closing(w) /\ at'[w].c = at[w].c
ReadersKept == \A w \in Worker : at'[w].pc = "read" => at'[w] = at[w]
RolesKept == ClosersKept /\ ReadersKept

LEMMA StatesCloser ==
    ASSUME Inv, SameStates, ClosersKept
    PROVE  OneCloser'
<1>1. \A c \in Challenge : Live(c)' = Live(c)
    BY DEF SameStates, Live
<1>2. \A w \in Worker : Closing(w) => at[w].c \in Challenge
    BY Drawn DEF Inv, WorkersOK, WorkOK, Closing, ClosingAs
<1>3. QED
    BY <1>1, <1>2 DEF Inv, OneCloser, SameStates, ClosersKept

\* Nobody claims or merges; what becomes of a challenge that is gone is left open.
LEMMA ClaimsKept ==
    ASSUME Inv, ReadersKept, drawn' >= drawn, drawn' \in Nat, UNCHANGED again,
           DOMAIN processed' = Challenge, DOMAIN merged' = Challenge,
           \A c \in Challenge :
               /\ ch'[c].state # "none" => ch[c].state # "none" \/ c > drawn
               /\ ch'[c].state # "none" => processed'[c] = processed[c] /\ merged'[c] = merged[c]
               /\ c > drawn => merged'[c] = {}
    PROVE  ClaimsOK'
<1>1. /\ drawn \in Nat /\ ClaimsOK
      /\ \A w \in Worker : at[w].pc = "read" => at[w].c \in Challenge /\ at[w].c <= drawn
    BY Drawn DEF Inv, WorkersOK, WorkOK, Known
<1>2. \A w \in Worker : Reading(w)' => Reading(w) /\ at'[w] = at[w]
    BY <1>1, Drawn DEF Reading, Exists, ReadersKept, Challenge
<1>3. \A c \in Challenge : c \in Nat
    BY DEF Challenge
<1>4. \A c \in Challenge :
        /\ Exists(c)' => merged'[c] \subseteq processed'[c]
        /\ c > drawn' => merged'[c] = {}
    BY <1>1, <1>3 DEF ClaimsOK, Exists
<1>5. \A w \in Worker :
        Reading(w)' => /\ Attempted(w)' = Attempted(w)
                       /\ Attempted(w) \in processed'[at'[w].c] \ merged'[at'[w].c]
    BY <1>1, <1>2 DEF ClaimsOK, Reading, Exists, Attempted
<1>6. QED
    BY <1>1, <1>2, <1>4, <1>5 DEF ClaimsOK, Attempted

LEMMA QuietRoles ==
    ASSUME Inv, Quiet, RolesKept
    PROVE  OneCloser' /\ ClaimsOK'
<1>1. OneCloser'
    BY StatesCloser DEF Quiet, RolesKept
<1>2. ClaimsOK'
    BY ClaimsKept, Drawn DEF Inv, ClaimsOK, Quiet, SameStates, RolesKept
<1>3. QED
    BY <1>1, <1>2

LEMMA NoWork == UNCHANGED at => RolesKept
BY DEF RolesKept, ClosersKept, ReadersKept, Closing, ClosingAs

\* The timers and hashes after SetTimer, ClearTimer and CallOff.
LEMMA TimerEffect ==
    ASSUME Inv, NEW c, Known(c), NEW state, NEW retries,
           SetTimer(c, state, retries) \/ ClearTimer(c) \/ CallOff(c) \/ KeepTimer
    PROVE  /\ DOMAIN ch' = Challenge
           /\ \A d \in Challenge : DOMAIN ch'[d] = DOMAIN Gone /\ ch'[d].state = ch[d].state
           /\ DOMAIN timer' = Challenge
           /\ \A d \in Challenge : d # c => timer'[d] = timer[d]
<1>1. \/ UNCHANGED <<ch, timer>>
      \/ \E x, y : ch' = [ch EXCEPT ![c].timeout = x] /\ timer' = [timer EXCEPT ![c] = y]
    BY DEF SetTimer, ClearTimer, CallOff, KeepTimer
<1>2. QED
    BY <1>1, Drawn DEF Inv, Base, TimersOK, Gone

-----------------------------------------------------------------------------
(* The parts after the writes that actions are made of                       *)

LEMMA QuietStep ==
    ASSUME Inv, Quiet, WorkersOK', RolesKept, ClientsOK', EventsOK', TimersOK', RequestsOK'
    PROVE  Inv'
BY QuietKeeps, QuietRoles DEF Inv

\* Nothing but the challenge's timer is written, and known challenges only are timed.
LEMMA TimersKept ==
    ASSUME Inv, KnownGrows, NEW c, Known(c),
           DOMAIN timer' = Challenge,
           \A d \in Challenge : d # c => timer'[d] = timer[d]
    PROVE  TimersOK'
BY Drawn DEF Inv, KnownGrows, TimersOK

LEMMA ClientsKept ==
    ASSUME Inv, KnownGrows, NEW k \in Client, NEW c, c = NoChallenge \/ Known(c),
           Base', UNCHANGED conn,
           \/ UNCHANGED pointer
           \/ pointer' = [pointer EXCEPT ![k] = c]
           \/ pointer' = [pointer EXCEPT ![k] = NoChallenge],
           \/ UNCHANGED joined
           \/ joined' = [joined EXCEPT ![k] = c]
           \/ joined' = [joined EXCEPT ![k] = NoChallenge]
    PROVE  ClientsOK'
<1>1. c \in Challenge \cup {NoChallenge} /\ (c # NoChallenge => Known(c)')
    BY Drawn DEF KnownGrows
<1>2. ClientsOK
    BY DEF Inv
<1>3. /\ pointer' \in [Client -> Challenge \cup {NoChallenge}]
      /\ \A j \in Client : pointer'[j] \in {pointer[j], c, NoChallenge}
    BY <1>1, <1>2 DEF ClientsOK
<1>4. /\ joined' \in [Client -> Challenge \cup {NoChallenge}]
      /\ \A j \in Client : joined'[j] \in {joined[j], c, NoChallenge}
    BY <1>1, <1>2 DEF ClientsOK
<1>5. QED
    BY <1>1, <1>2, <1>3, <1>4 DEF ClientsOK, KnownGrows

\* One worker goes on with a, and does not turn to closing.
LEMMA WorkerEffect ==
    ASSUME Inv, KnownGrows, NEW w \in Worker, NEW a,
           at' = [at EXCEPT ![w] = a],
           DOMAIN a = DOMAIN Idle,
           a.next \in {"idle", "check", "finish"},
           a.pc \in {"mark", "load"} => a.next # "finish",
           a.pc # "idle" => Known(a.c),
           a.pc # "read",
           ClosingAs(a) => Closing(w) /\ a.c = at[w].c
    PROVE  WorkersOK' /\ RolesKept
<1>1. DOMAIN at' = Worker /\ at'[w] = a /\ \A v \in Worker : v # w => at'[v] = at[v]
    BY DEF Inv, WorkersOK
<1>2. WorkersOK'
    BY <1>1 DEF Inv, WorkersOK, WorkOK, KnownGrows
<1>3. RolesKept
    BY <1>1 DEF RolesKept, ClosersKept, ReadersKept, Closing
<1>4. QED
    BY <1>2, <1>3

LEMMA StepWorks ==
    ASSUME Inv, KnownGrows, NEW w \in Worker, NEW pc, Step(w, pc),
           at[w].pc # "idle",
           pc \in {"mark", "load"} => at[w].next # "finish"
    PROVE  /\ WorkersOK'
           /\ at'[w].pc = pc /\ at'[w].c = at[w].c /\ at'[w].next = at[w].next
           /\ Attempted(w)' = Attempted(w)
           /\ \A v \in Worker : v # w => at'[v] = at[v]
<1>1. WorkOK(at[w]) /\ DOMAIN at = Worker
    BY DEF Inv, WorkersOK
<1>2. /\ DOMAIN at' = Worker
      /\ DOMAIN at'[w] = DOMAIN Idle
      /\ at'[w].pc = pc /\ at'[w].c = at[w].c /\ at'[w].next = at[w].next
      /\ Attempted(w)' = Attempted(w)
      /\ \A v \in Worker : v # w => at'[v] = at[v]
    BY <1>1 DEF Step, WorkOK, Idle, Attempted
<1>3. \A v \in Worker : WorkOK(at'[v])
    BY <1>1, <1>2 DEF Inv, WorkersOK, WorkOK
<1>4. \A v \in Worker : WorkOK(at[v])'
    BY <1>3 DEF WorkOK, KnownGrows
<1>5. QED
    BY <1>2, <1>4 DEF WorkersOK

LEMMA StepEffect ==
    ASSUME Inv, KnownGrows, NEW w \in Worker, NEW pc, Step(w, pc),
           at[w].pc # "idle", pc # "read",
           pc \in {"mark", "load"} => at[w].next # "finish",
           \/ Closing(w)
           \/ pc \notin {"close", "finish", "clear", "claim", "merge"}
           \/ pc \notin {"close", "finish"} /\ at[w].next # "finish"
    PROVE  WorkersOK' /\ RolesKept
BY StepWorks DEF RolesKept, ClosersKept, ReadersKept, Closing, ClosingAs

LEMMA DoneEffect ==
    ASSUME Inv, KnownGrows, NEW w \in Worker, Done(w)
    PROVE  WorkersOK' /\ RolesKept
<1>1. /\ Idle.next = "idle" /\ Idle.pc = "idle"
      /\ ~ClosingAs(Idle)
    BY DEF Idle, ClosingAs
<1>2. at' = [at EXCEPT ![w] = Idle]
    BY DEF Done
<1>3. QED
    BY <1>1, <1>2, WorkerEffect

LEMMA AfterEffect ==
    ASSUME Inv, KnownGrows, NEW w \in Worker, After(w),
           at[w].pc \in {"load", "clear", "claim", "read", "merge"}
    PROVE  WorkersOK' /\ RolesKept
<1>1. WorkOK(at[w])
    BY DEF Inv, WorkersOK
<1>2. CASE at[w].next = "idle"
    BY <1>2, DoneEffect DEF After
<1>3. CASE at[w].next = "check"
    BY <1>3, StepEffect DEF After
<1>4. CASE at[w].next = "finish"
  <2>1. Closing(w) /\ Step(w, "finish")
      BY <1>1, <1>4 DEF WorkOK, Closing, ClosingAs, After
  <2>2. QED
      BY <2>1, StepEffect
<1>5. QED
    BY <1>1, <1>2, <1>3, <1>4 DEF WorkOK

\* The latest of a party's challenges is one of them.
LEMMA LatestListed ==
    ASSUME Inv, party # {}
    PROVE  Latest \in 1..drawn
<1> DEFINE after(c) == {d \in party : d > c}
           tails == {after(c) : c \in party}
<1>1. drawn \in Nat /\ party \subseteq 1..drawn
    BY Drawn DEF Inv, Base
<1>2. \A c \in party : after(c) \in FiniteSubsetsOf(party)
  <2>1. IsFiniteSet(1..drawn)
      BY <1>1, FS_Interval
  <2>2. \A c \in party : IsFiniteSet(after(c))
      BY <1>1, <2>1, FS_Subset
  <2>3. QED
      BY <2>2 DEF FiniteSubsetsOf
<1>3. PICK T \in tails : \A U \in tails : ~(<<U, T>> \in StrictSubsetOrdering(party))
  <2>1. tails \subseteq FiniteSubsetsOf(party) /\ tails # {}
      BY <1>2
  <2> HIDE DEF tails
  <2>2. QED
      BY <2>1, FS_StrictSubsetOrderingWellFounded, WFMin
<1>4. PICK c \in party : T = after(c)
    OBVIOUS
<1>5. \A d \in party : d <= c
  <2>1. SUFFICES ASSUME NEW d \in party, d > c
                 PROVE  FALSE
      BY <1>1
  <2>2. c \in Nat /\ d \in Nat /\ \A e \in party : e \in Nat
      BY <1>1
  <2>3. \A e \in after(d) : e \in after(c)
      BY <2>1, <2>2
  <2>4. d \in after(c) /\ d \notin after(d)
      BY <2>1, <2>2
  <2>5. <<after(d), after(c)>> \in StrictSubsetOrdering(party)
      BY <2>3, <2>4 DEF StrictSubsetOrdering
  <2>6. QED
      BY <1>3, <1>4, <2>5
<1>6. Latest \in party
    BY <1>4, <1>5 DEF Latest
<1>7. QED
    BY <1>1, <1>6

-----------------------------------------------------------------------------
(* Steps that leave every challenge where it is                              *)

\* Nothing is written that the invariant speaks of, apart from requests.
LEMMA SameHashes ==
    ASSUME Inv, UNCHANGED <<ch, drawn, party, finished, processed, merged, again>>
    PROVE  Quiet
BY DEF Inv, Base, Quiet, SameStates

\* Timers are written, and nothing else of the challenges.
LEMMA TimerQuiet ==
    ASSUME Inv, NEW c, Known(c), NEW state, NEW retries,
           SetTimer(c, state, retries) \/ ClearTimer(c) \/ CallOff(c) \/ KeepTimer,
           UNCHANGED <<drawn, party, finished, processed, merged, again>>
    PROVE  Quiet /\ TimersOK'
<1>1. Quiet
    BY TimerEffect DEF Quiet, SameStates
<1>2. QED
    BY <1>1, TimerEffect, QuietKeeps, TimersKept

LEMMA UpdateKeeps ==
    ASSUME Inv, NEW k \in Client, NEW report \in Reports, NEW stage, Update(k, report, stage)
    PROVE  Inv'
<1> USE DEF Update, redis, player, ghost
<1>1. Quiet
    BY SameHashes
<1>2. ClientsOK' /\ EventsOK' /\ TimersOK' /\ WorkersOK' /\ RolesKept
    BY <1>1, QuietKeeps, Untouched, NoWork
<1>3. Known(joined[k]) /\ joined[k] \in 1..drawn
    BY DEF Inv, ClientsOK, Known
<1>4. report # "create"
    BY DEF StageReports, Reports
<1>5. QED
    BY <1>1, <1>2, <1>3, <1>4, QuietStep, QuietKeeps DEF Inv, RequestsOK, RequestOK, Request

LEMMA AddClientKeeps == ASSUME Inv, NEW k \in Client, AddClient(k)
                        PROVE  Inv'
<1> USE DEF AddClient, redis, ghost
<1>1. Quiet
    BY SameHashes
<1>2. EventsOK' /\ TimersOK' /\ WorkersOK' /\ RolesKept
    BY <1>1, QuietKeeps, Untouched, NoWork
<1>3. Known(joined[k]) /\ joined[k] \in 1..drawn
    BY DEF Inv, ClientsOK, Known
<1>4. ClientsOK'
    BY <1>1, <1>3, QuietKeeps, ClientsKept
<1>5. RequestsOK'
    BY <1>1, <1>3, QuietKeeps DEF Inv, RequestsOK, RequestOK, Request
<1>6. QED
    BY <1>1, <1>2, <1>4, <1>5, QuietStep

LEMMA FinishLostKeeps == ASSUME Inv, NEW k \in Client, FinishLost(k)
                         PROVE  Inv'
<1> USE DEF FinishLost, redis, work, ghost
<1>1. Quiet
    BY SameHashes
<1>2. EventsOK' /\ TimersOK' /\ WorkersOK' /\ RolesKept /\ RequestsOK'
    BY <1>1, QuietKeeps, Untouched, NoWork
<1>3. ClientsOK'
    BY <1>1, QuietKeeps, ClientsKept
<1>4. QED
    BY <1>1, <1>2, <1>3, QuietStep

LEMMA FinishKeeps == ASSUME Inv, NEW k \in Client, NEW definite, Finish(k, definite)
                     PROVE  Inv'
<1> DEFINE c == joined[k]
<1> USE DEF Finish, work, ghost
<1>1. Known(c)
    BY DEF Inv, ClientsOK
<1>2. Quiet /\ TimersOK'
    BY <1>1, TimerQuiet DEF KeepTimer
<1>3. EventsOK' /\ WorkersOK' /\ RolesKept /\ RequestsOK'
    BY <1>2, QuietKeeps, Untouched, NoWork
<1>4. \/ UNCHANGED pointer
      \/ pointer' = [pointer EXCEPT ![k] = NoChallenge]
    BY DEF Inv, ClientsOK, RemoveClient
<1>5. ClientsOK'
    BY <1>1, <1>2, <1>4, QuietKeeps, ClientsKept
<1>6. QED
    BY <1>2, <1>3, <1>5, QuietStep

LEMMA ConnectionKeeps ==
    ASSUME Inv, NEW k \in Client,
           Connect(k) \/ Disconnect(k) \/ Status(k, "active") \/ Status(k, "idle")
    PROVE  Inv'
<1> USE DEF Connect, Disconnect, Status, redis, work, ghost, player
<1>1. Quiet
    BY SameHashes
<1>2. TimersOK' /\ WorkersOK' /\ RolesKept /\ RequestsOK'
    BY <1>1, QuietKeeps, Untouched, NoWork
<1>3. UNCHANGED <<pointer, joined>> /\ conn' \in [Client -> Nat]
    BY DEF Inv, ClientsOK
<1>4. ClientsOK'
    BY <1>1, <1>3, QuietKeeps DEF Inv, ClientsOK, KnownGrows
<1>5. EventsOK'
  <2>1. \A kind \in {"active", "idle", "disconnected"} : Event(kind, k) \in EventType
      BY DEF Inv, ClientsOK, Event, EventType
  <2>2. \A e \in EventType : <<e>> \o queue \in Seq(EventType)
      BY DEF Inv, EventsOK
  <2>3. \/ queue' = queue
        \/ \E kind \in {"active", "idle", "disconnected"} : queue' = <<Event(kind, k)>> \o queue
      OBVIOUS
  <2>4. queue' \in Seq(EventType) /\ event' = event
      BY <2>1, <2>2, <2>3 DEF Inv, EventsOK
  <2>5. QED
      BY <1>1, <2>4, QuietKeeps DEF Inv, EventsOK, KnownGrows
<1>6. QED
    BY <1>1, <1>2, <1>4, <1>5, QuietStep

LEMMA PopEventKeeps == ASSUME Inv, PopEvent
                       PROVE  Inv'
<1> USE DEF PopEvent, redis, player, ghost
<1>1. Quiet
    BY SameHashes
<1>2. ClientsOK' /\ TimersOK' /\ WorkersOK' /\ RolesKept /\ RequestsOK'
    BY <1>1, QuietKeeps, Untouched, NoWork
<1>3. queue' \in Seq(EventType) /\ Head(queue) \in EventType
    BY DEF Inv, EventsOK
<1>4. event' # NoEvent => event' \in EventType /\ Known(event'.c)
  <2> DEFINE e == Head(queue)
  <2>1. SUFFICES ASSUME pointer[e.k] # NoChallenge, event' = [e EXCEPT !.c = pointer[e.k]]
                 PROVE  event' \in EventType /\ Known(event'.c)
      OBVIOUS
  <2>2. e.k \in Client
      BY <1>3 DEF EventType
  <2>3. pointer[e.k] \in Challenge /\ Known(pointer[e.k])
      BY <2>1, <2>2 DEF Inv, ClientsOK
  <2> HIDE DEF e
  <2>4. QED
      BY <1>3, <2>1, <2>3 DEF EventType, e
<1>5. EventsOK'
    BY <1>1, <1>3, <1>4, QuietKeeps DEF EventsOK, KnownGrows
<1>6. QED
    BY <1>1, <1>2, <1>5, QuietStep

LEMMA HandleEventKeeps == ASSUME Inv, HandleEvent
                          PROVE  Inv'
<1> DEFINE c == event.c
           k == event.k
<1> USE DEF HandleEvent, player
<1>1. Known(c) /\ k \in Client
    BY DEF Inv, EventsOK, EventType
<1>2. \/ \E state, retries : SetTimer(c, state, retries)
      \/ CallOff(c) \/ KeepTimer
    BY DEF SetClientActive, SetClientInactive, RemoveDisconnected, RemoveStray, IgnoreEvent, KeepTimer
<1>3. Quiet /\ TimersOK'
    BY <1>1, <1>2, TimerQuiet
<1>4. \/ UNCHANGED pointer
      \/ pointer' = [pointer EXCEPT ![k] = c]
      \/ pointer' = [pointer EXCEPT ![k] = NoChallenge]
    BY <1>1 DEF Inv, ClientsOK, SetClientActive, SetClientInactive, RemoveDisconnected, RemoveStray,
                IgnoreEvent, SetClient, RemoveClient
<1>5. ClientsOK'
    BY <1>1, <1>3, <1>4, QuietKeeps, ClientsKept
<1>6. WorkersOK' /\ RolesKept /\ RequestsOK'
    BY <1>3, QuietKeeps, Untouched, NoWork
<1>7. EventsOK'
    BY DEF Inv, EventsOK
<1>8. QED
    BY <1>3, <1>5, <1>6, <1>7, QuietStep

-----------------------------------------------------------------------------
(* The timeout task, stage completion and faults                             *)

\* A worker begins something that is not the end of a challenge.
LEMMA BeginEffect ==
    ASSUME Inv, KnownGrows, NEW w \in Worker, NEW a, Begin(w, a),
           DOMAIN a = DOMAIN Idle,
           a.next \in {"idle", "check"}, a.pc \notin {"close", "finish", "read"},
           Known(a.c)
    PROVE  WorkersOK' /\ RolesKept
BY WorkerEffect DEF Begin, ClosingAs

LEMMA Busy == ASSUME Inv, NEW w \in Worker, at[w].pc # "idle"
              PROVE  Known(at[w].c) /\ WorkOK(at[w])
BY DEF Inv, WorkersOK, WorkOK

LEMMA TickerWorks == Ticker \in Worker
BY DEF Worker

LEMMA FireKeeps == ASSUME Inv, NEW c \in Challenge, Fire(c)
                   PROVE  Inv'
<1> DEFINE a == [Idle EXCEPT !.pc = "due", !.c = c, !.retries = timer[c]]
<1> USE DEF Fire, redis, player, ghost
<1>1. Quiet
    BY SameHashes
<1>2. ClientsOK' /\ EventsOK' /\ TimersOK' /\ RequestsOK'
    BY <1>1, QuietKeeps, Untouched
<1>3. Known(c)
    BY DEF Inv, TimersOK
<1>4. DOMAIN a = DOMAIN Idle /\ a.next = "idle" /\ a.pc = "due" /\ a.c = c
    BY DEF Idle
<1>5. Begin(Ticker, a)
    OBVIOUS
<1> HIDE DEF a, Fire
<1>6. WorkersOK' /\ RolesKept
    BY <1>1, <1>3, <1>4, <1>5, QuietKeeps, TickerWorks, BeginEffect
<1>7. QED
    BY <1>1, <1>2, <1>6, QuietStep

\* A step of a worker that touches nothing else.
LEMMA OnlyWork ==
    ASSUME Inv, UNCHANGED <<redis, player, flight, queue, event, finished, merged, again>>,
           KnownGrows => WorkersOK' /\ RolesKept
    PROVE  Inv'
<1> USE DEF redis, player
<1>1. Quiet
    BY SameHashes
<1>2. ClientsOK' /\ EventsOK' /\ TimersOK' /\ RequestsOK'
    BY <1>1, QuietKeeps, Untouched
<1>3. QED
    BY <1>1, <1>2, QuietKeeps, QuietStep

LEMMA ReadStateKeeps == ASSUME Inv, ReadState
                        PROVE  Inv'
<1>1. PICK pc \in {"decide", "collect", "drop"} : Step(Ticker, pc)
    BY DEF ReadState
<1>2. KnownGrows => WorkersOK' /\ RolesKept
    BY <1>1, TickerWorks, StepEffect DEF ReadState
<1>3. QED
    BY <1>2, OnlyWork DEF ReadState, ghost

LEMMA HandleStageEndTimeoutKeeps == ASSUME Inv, HandleStageEndTimeout
                                    PROVE  Inv'
<1>1. KnownGrows => WorkersOK' /\ RolesKept
  <2>1. CASE Step(Ticker, "check")
      BY <2>1, TickerWorks, StepEffect DEF HandleStageEndTimeout
  <2>2. CASE \E top : Begin(Ticker, [at[Ticker] EXCEPT !.pc = "load", !.stage = top[1],
                                                       !.attempt = top[2], !.next = "check"])
    <3>1. PICK top : Begin(Ticker, [at[Ticker] EXCEPT !.pc = "load", !.stage = top[1],
                                                      !.attempt = top[2], !.next = "check"])
        BY <2>2
    <3> DEFINE a == [at[Ticker] EXCEPT !.pc = "load", !.stage = top[1],
                                       !.attempt = top[2], !.next = "check"]
    <3>2. Known(at[Ticker].c) /\ WorkOK(at[Ticker])
        BY TickerWorks, Busy DEF HandleStageEndTimeout
    <3>3. DOMAIN a = DOMAIN Idle /\ a.next = "check" /\ a.pc = "load" /\ a.c = at[Ticker].c
        BY <3>2 DEF WorkOK, Idle
    <3>4. Begin(Ticker, a)
        BY <3>1
    <3> HIDE DEF a
    <3>5. QED
        BY <3>2, <3>3, <3>4, TickerWorks, BeginEffect
  <2>3. QED
      BY <2>1, <2>2 DEF HandleStageEndTimeout
<1>2. QED
    BY <1>1, OnlyWork DEF HandleStageEndTimeout, ghost

\* A step of a worker that also writes its challenge's timer.
LEMMA TimerAndWork ==
    ASSUME Inv, NEW w \in Worker, at[w].pc # "idle", NEW state, NEW retries,
           LET c == at[w].c
           IN  SetTimer(c, state, retries) \/ ClearTimer(c) \/ KeepTimer,
           Elsewhere, UNCHANGED <<finished, merged, again>>,
           KnownGrows => WorkersOK' /\ RolesKept
    PROVE  Inv'
<1> USE DEF Elsewhere, player
<1>1. Quiet /\ TimersOK'
    BY Busy, TimerQuiet
<1>2. ClientsOK' /\ EventsOK' /\ RequestsOK'
    BY <1>1, QuietKeeps, Untouched
<1>3. QED
    BY <1>1, <1>2, QuietKeeps, QuietStep

LEMMA TickerTimers == ASSUME Inv, Drop \/ CheckForActiveClients
                      PROVE  Inv'
<1>1. KnownGrows => WorkersOK' /\ RolesKept
    BY TickerWorks, DoneEffect DEF Drop, CheckForActiveClients
<1>2. at[Ticker].pc # "idle" /\ Elsewhere /\ UNCHANGED <<finished, merged, again>>
    BY DEF Drop, CheckForActiveClients, ghost
<1>3. LET c == at[Ticker].c
      IN  SetTimer(c, "cleanup", 3) \/ ClearTimer(c) \/ KeepTimer
    BY DEF Drop, CheckForActiveClients
<1>4. QED
    BY <1>1, <1>2, <1>3, TickerWorks, TimerAndWork

LEMMA CloseKeeps == ASSUME Inv, NEW w \in Worker, Close(w)
                    PROVE  Inv'
<1> USE DEF Close
<1>1. Closing(w) /\ WorkOK(at[w]) /\ Known(at[w].c) /\ DOMAIN at = Worker
    BY Busy DEF Closing, ClosingAs, Inv, WorkersOK
<1>2. KnownGrows => WorkersOK' /\ RolesKept
  <2>1. CASE Step(w, "delete")
      BY <2>1, StepEffect
  <2>2. CASE \E stage, attempt : Complete(w, stage, attempt, "finish")
    <3>1. PICK stage, attempt : Complete(w, stage, attempt, "finish")
        BY <2>2
    <3>2. PICK pc \in {"clear", "claim"} :
             at' = [at EXCEPT ![w].pc = pc, ![w].stage = stage, ![w].attempt = attempt,
                              ![w].next = "finish"]
        BY <3>1 DEF Complete
    <3> DEFINE a == [at[w] EXCEPT !.pc = pc, !.stage = stage, !.attempt = attempt,
                                  !.next = "finish"]
    <3>3. at' = [at EXCEPT ![w] = a]
        BY <1>1, <3>2
    <3>4. DOMAIN a = DOMAIN Idle /\ a.next = "finish" /\ a.pc = pc /\ a.c = at[w].c
        BY <1>1 DEF WorkOK, Idle
    <3> HIDE DEF a
    <3>5. QED
        BY <1>1, <3>3, <3>4, WorkerEffect
  <2>3. QED
      BY <2>1, <2>2
<1>3. QED
    BY <1>2, OnlyWork DEF ghost

LEMMA LoadKeeps == ASSUME Inv, NEW w \in Worker, Load(w)
                   PROVE  Inv'
<1> USE DEF Load
<1>1. WorkOK(at[w]) /\ Known(at[w].c) /\ DOMAIN at = Worker /\ at[w].next # "finish"
    BY Busy DEF Inv, WorkersOK, WorkOK
<1>2. KnownGrows => WorkersOK' /\ RolesKept
  <2>1. CASE After(w) \/ Done(w)
      BY <2>1, AfterEffect, DoneEffect
  <2>2. CASE Complete(w, at[w].stage, at[w].attempt, at[w].next)
    <3>1. PICK pc \in {"clear", "claim"} : at' = [at EXCEPT ![w].pc = pc,
             ![w].stage = at[w].stage, ![w].attempt = at[w].attempt, ![w].next = at[w].next]
        BY <2>2 DEF Complete
    <3> DEFINE a == [at[w] EXCEPT !.pc = pc, !.stage = at[w].stage, !.attempt = at[w].attempt,
                                  !.next = at[w].next]
    <3>2. at' = [at EXCEPT ![w] = a]
        BY <1>1, <3>1
    <3>3. DOMAIN a = DOMAIN Idle /\ a.next = at[w].next /\ a.pc = pc /\ a.c = at[w].c
        BY <1>1 DEF WorkOK, Idle
    <3>4. ~ClosingAs(a)
        BY <1>1, <3>3 DEF ClosingAs
    <3> HIDE DEF a
    <3>5. QED
        BY <1>1, <3>2, <3>3, <3>4, WorkerEffect DEF WorkOK
  <2>3. QED
      BY <2>1, <2>2
<1>3. QED
    BY <1>2, OnlyWork DEF ghost

LEMMA ClearStageEndKeeps == ASSUME Inv, NEW w \in Worker, ClearStageEnd(w)
                            PROVE  Inv'
<1> USE DEF ClearStageEnd
<1>1. Closing(w) \/ at[w].next # "finish"
    BY DEF Closing, ClosingAs
<1>2. KnownGrows => WorkersOK' /\ RolesKept
    BY <1>1, StepEffect
<1>3. QED
    BY <1>2, TimerAndWork

\* A step of a worker that also writes its challenge's hash, but not its state.
LEMMA HashAndWork ==
    ASSUME Inv, NEW w \in Worker, at[w].pc # "idle", NEW status, NEW processing,
           \/ UNCHANGED ch
           \/ ch' = [ch EXCEPT ![at[w].c].processing = processing]
           \/ ch' = [ch EXCEPT ![at[w].c].status = status, ![at[w].c].processing = processing],
           UNCHANGED <<timer, pointer, drawn, party, player, flight, queue, event, finished,
                       processed, merged, again>>,
           KnownGrows => WorkersOK' /\ RolesKept
    PROVE  Inv'
<1> USE DEF player
<1>1. Quiet
    BY Busy, Drawn DEF Quiet, SameStates, Inv, Base, Gone
<1>2. ClientsOK' /\ EventsOK' /\ TimersOK' /\ RequestsOK'
    BY <1>1, QuietKeeps, Untouched
<1>3. QED
    BY <1>1, <1>2, QuietKeeps, QuietStep

LEMMA MarkKeeps == ASSUME Inv, NEW w \in Worker, Mark(w)
                   PROVE  Inv'
<1> USE DEF Mark
<1>1. at[w].next # "finish"
    BY DEF Inv, WorkersOK, WorkOK
<1>2. KnownGrows => WorkersOK' /\ RolesKept
    BY <1>1, StepEffect
<1>3. QED
    BY <1>2, HashAndWork DEF Elsewhere, ghost

\* A task that finds its attempt claimed, or nothing to merge, or has merged.
LEMMA CompletedKeeps ==
    ASSUME Inv, NEW w \in Worker, Claim(w) \/ ReadStream(w) \/ WriteBack(w),
           After(w), UNCHANGED <<processed, merged, again>>
    PROVE  Inv'
<1> USE DEF Claim, ReadStream, WriteBack
<1>1. at[w].pc \in {"claim", "read", "merge"}
    OBVIOUS
<1>2. KnownGrows => WorkersOK' /\ RolesKept
    BY <1>1, AfterEffect
<1>3. PICK status, processing :
        \/ UNCHANGED ch
        \/ ch' = [ch EXCEPT ![at[w].c].processing = processing]
        \/ ch' = [ch EXCEPT ![at[w].c].status = status, ![at[w].c].processing = processing]
    OBVIOUS
<1>4. UNCHANGED <<timer, pointer, drawn, party, player, flight, queue, event, finished>>
    BY DEF Elsewhere, ghost
<1>5. at[w].pc # "idle"
    BY <1>1
<1> HIDE DEF Claim, ReadStream, WriteBack
<1>6. QED
    BY <1>2, <1>3, <1>4, <1>5, HashAndWork

\* A worker goes from one step of completing a stage to the next.
LEMMA AdvanceKeeps ==
    ASSUME Inv, NEW w \in Worker, NEW pc \in {"read", "merge"}, Step(w, pc),
           at[w].pc \in {"claim", "read"}, NEW processing,
           UNCHANGED ch \/ ch' = [ch EXCEPT ![at[w].c].processing = processing],
           UNCHANGED <<timer, pointer, drawn, party, player, flight, queue, event, finished>>,
           ClaimsOK'
    PROVE  Inv'
<1> USE DEF player
<1>1. SameStates
    BY Busy, Drawn DEF SameStates, Inv, Base, Gone
<1>2. ClientsOK' /\ EventsOK' /\ TimersOK' /\ RequestsOK'
    BY <1>1, StatesKeep, Untouched
<1>3. WorkersOK' /\ ClosersKept
    BY <1>1, StatesKeep, StepWorks DEF ClosersKept, Closing, ClosingAs
<1>4. QED
    BY <1>1, <1>2, <1>3, StatesKeep, StatesCloser DEF Inv

LEMMA ClaimKeeps == ASSUME Inv, NEW w \in Worker, Claim(w)
                    PROVE  Inv'
<1> DEFINE c == at[w].c
<1>1. CASE After(w) /\ UNCHANGED processed
    BY <1>1, CompletedKeeps DEF Claim, ghost
<1>2. CASE ~HasProcessed(w) /\ Step(w, "read")
  <2> USE DEF Claim
  <2>1. /\ Known(c) /\ c \in Challenge /\ ClaimsOK /\ Attempted(w) \notin processed[c]
        /\ at[w].pc = "claim"
      BY <1>2, Busy, Drawn DEF HasProcessed, Attempted, Inv
  <2>2. /\ DOMAIN processed' = Challenge
        /\ processed'[c] = processed[c] \cup {Attempted(w)}
        /\ \A d \in Challenge : d # c => processed'[d] = processed[d]
      BY <1>2, <2>1 DEF ClaimsOK, Attempted, HasProcessed
  <2>3. ch' = [ch EXCEPT ![c].processing = "fresh"]
      BY <1>2, <2>1 DEF HasProcessed, Attempted
  <2>4. UNCHANGED <<timer, pointer, drawn, party, player, flight, queue, event, finished,
                    merged, again>>
      BY DEF ghost
  <2>5. SameStates
      BY <2>1, <2>3, <2>4 DEF SameStates, Inv, Base, Gone
  <2>6. /\ at'[w].pc = "read" /\ at'[w].c = c /\ Attempted(w)' = Attempted(w)
        /\ \A v \in Worker : v # w => at'[v] = at[v] /\ Attempted(v)' = Attempted(v)
      BY <1>2, <2>1, <2>5, StatesKeep, StepWorks DEF Attempted
  <2>7. ClaimsOK'
    <3>1. \A d \in Challenge : Exists(d)' = Exists(d)
        BY <2>5 DEF Exists, SameStates
    <3>2. \A v \in Worker : v # w => /\ Reading(v) => at[v].c \in Challenge
                                     /\ Reading(v)' = Reading(v)
        BY <2>5, <2>6, Drawn DEF Inv, WorkersOK, WorkOK, Reading, Exists, SameStates
    <3>3. Reading(w)' => Exists(c)
        BY <2>1, <2>5, <2>6 DEF Reading, Exists, SameStates
    <3> HIDE DEF c, Claim
    <3>4. \A v \in Worker : v # w /\ Reading(v)' /\ at'[v].c = c => Attempted(v)' # Attempted(w)
        BY <2>1, <2>6, <3>2 DEF ClaimsOK
    <3>5. \A d \in Challenge :
            /\ Exists(d)' => merged'[d] \subseteq processed'[d]
            /\ d > drawn' => merged'[d] = {}
        BY <2>1, <2>2, <2>4, <3>1 DEF ClaimsOK
    <3>6. \A v \in Worker :
            Reading(v)' => Attempted(v)' \in processed'[at'[v].c] \ merged'[at'[v].c]
      <4>1. TAKE v \in Worker
      <4>2. CASE v = w
          BY <2>1, <2>2, <2>4, <2>6, <3>3, <4>2 DEF ClaimsOK
      <4>3. CASE v # w
          BY <2>1, <2>2, <2>4, <2>6, <3>2, <4>3 DEF ClaimsOK
      <4>4. QED
          BY <4>2, <4>3
    <3>7. \A u, v \in Worker :
            Reading(u)' /\ Reading(v)' /\ at'[u].c = at'[v].c /\ Attempted(u)' = Attempted(v)' => u = v
        BY <2>1, <2>6, <3>2, <3>4 DEF ClaimsOK
    <3>8. QED
        BY <2>1, <2>2, <2>4, <3>5, <3>6, <3>7 DEF ClaimsOK
  <2> HIDE DEF Claim
  <2>8. QED
      BY <1>2, <2>1, <2>3, <2>4, <2>7, AdvanceKeeps
<1>3. QED
    BY <1>1, <1>2 DEF Claim

LEMMA ReadStreamKeeps == ASSUME Inv, NEW w \in Worker, ReadStream(w)
                         PROVE  Inv'
<1> DEFINE c == at[w].c
<1>1. CASE After(w) /\ UNCHANGED <<merged, again>>
    BY <1>1, CompletedKeeps DEF ReadStream, Elsewhere
<1>2. CASE /\ Step(w, "merge") /\ UNCHANGED ch
           /\ merged' = [merged EXCEPT ![c] = @ \cup {Attempted(w)}]
           /\ again' = IF Exists(c) /\ Attempted(w) \in merged[c] THEN again \cup {c} ELSE again
  <2>1. /\ Known(c) /\ c \in Challenge /\ c <= drawn /\ ClaimsOK /\ at[w].pc = "read"
      BY Busy, Drawn DEF ReadStream, Known, Inv
  <2>2. /\ DOMAIN merged' = Challenge
        /\ merged'[c] = merged[c] \cup {Attempted(w)}
        /\ \A d \in Challenge : d # c => merged'[d] = merged[d]
      BY <1>2, <2>1 DEF ClaimsOK
  <2>3. UNCHANGED <<timer, pointer, drawn, party, player, flight, queue, event, finished, processed>>
      BY DEF ReadStream, Elsewhere
  <2>4. SameStates
      BY <1>2, <2>3 DEF SameStates, Inv, Base
  <2>5. at'[w].pc = "merge" /\ \A v \in Worker : v # w => at'[v] = at[v]
      BY <1>2, <2>1, <2>4, StatesKeep, StepWorks
  <2>6. Exists(c) => Attempted(w) \in processed[c] \ merged[c]
      BY <2>1 DEF ClaimsOK, Reading
  <2>7. ClaimsOK'
    <3>1. \A d \in Challenge : Exists(d)' = Exists(d)
        BY <1>2 DEF Exists
    <3>2. \A v \in Worker :
            Reading(v)' => /\ v # w /\ Reading(v) /\ at'[v] = at[v] /\ Attempted(v)' = Attempted(v)
                           /\ at[v].c \in Challenge
        BY <1>2, <2>5, Drawn DEF Inv, WorkersOK, WorkOK, Reading, Exists, Attempted
    <3>3. \A v \in Worker : Reading(v)' /\ at[v].c = c => Exists(c) /\ Attempted(v) # Attempted(w)
        BY <2>1, <3>2 DEF ClaimsOK, Reading
    <3>4. again' = {}
        BY <1>2, <2>1, <2>6 DEF ClaimsOK
    <3> HIDE DEF c
    <3>5. \A d \in Challenge :
            /\ Exists(d)' => merged'[d] \subseteq processed'[d]
            /\ d > drawn' => merged'[d] = {}
        BY <2>1, <2>2, <2>3, <2>6, <3>1, Drawn DEF ClaimsOK, Challenge
    <3>6. \A v \in Worker :
            Reading(v)' => Attempted(v)' \in processed'[at'[v].c] \ merged'[at'[v].c]
        BY <2>1, <2>2, <2>3, <3>2, <3>3 DEF ClaimsOK
    <3>7. \A u, v \in Worker :
            Reading(u)' /\ Reading(v)' /\ at'[u].c = at'[v].c /\ Attempted(u)' = Attempted(v)' => u = v
        BY <2>1, <3>2 DEF ClaimsOK
    <3>8. QED
        BY <2>1, <2>2, <2>3, <3>4, <3>5, <3>6, <3>7 DEF ClaimsOK
  <2>8. QED
      BY <1>2, <2>1, <2>3, <2>7, AdvanceKeeps
<1>3. QED
    BY <1>1, <1>2 DEF ReadStream, Attempted, Exists

LEMMA WriteBackKeeps == ASSUME Inv, NEW w \in Worker, WriteBack(w)
                        PROVE  Inv'
BY CompletedKeeps DEF WriteBack, Elsewhere, ghost

LEMMA TakesTooLongKeeps == ASSUME Inv, NEW c \in Challenge, TakesTooLong(c)
                           PROVE  Inv'
<1> USE DEF TakesTooLong, player, work, ghost
<1>1. Quiet
    BY DEF Quiet, SameStates, Inv, Base, Gone
<1>2. ClientsOK' /\ EventsOK' /\ TimersOK' /\ RequestsOK' /\ WorkersOK' /\ RolesKept
    BY <1>1, QuietKeeps, Untouched, NoWork
<1>3. QED
    BY <1>1, <1>2, QuietStep

LEMMA StepFailsKeeps == ASSUME Inv, NEW w \in Worker, StepFails(w)
                        PROVE  Inv'
<1>1. KnownGrows => WorkersOK' /\ RolesKept
    BY AfterEffect, DoneEffect DEF StepFails
<1>2. QED
    BY <1>1, OnlyWork DEF StepFails, ghost

LEMMA CrashKeeps == ASSUME Inv, Crash
                    PROVE  Inv'
<1> USE DEF Crash, redis, player, ghost
<1>1. Quiet
    BY SameHashes
<1>2. ClientsOK' /\ TimersOK'
    BY <1>1, QuietKeeps, Untouched
<1>3. EventsOK'
    BY DEF Inv, EventsOK
<1>4. RequestsOK'
    BY DEF RequestsOK
<1>5. DOMAIN at' = Worker /\ \A w \in Worker : at'[w] = Idle
    OBVIOUS
<1>6. Idle.next = "idle" /\ Idle.pc = "idle" /\ DOMAIN Idle = DOMAIN Idle
    BY DEF Idle
<1>7. WorkersOK' /\ RolesKept
    BY <1>5, <1>6 DEF WorkersOK, WorkOK, RolesKept, ClosersKept, ReadersKept, Closing, ClosingAs
<1>8. QED
    BY <1>1, <1>2, <1>3, <1>4, <1>7, QuietStep

-----------------------------------------------------------------------------
(* Updates                                                                   *)

\* What an update may do to its challenge, and the task it may start.
LEMMA HandleUpdateKeeps == ASSUME Inv, NEW r \in flight, HandleUpdate(r)
                           PROVE  Inv'
<1> DEFINE c == r.c
<1> USE DEF HandleUpdate, player
<1>1. Known(c) /\ r.k \in Client /\ c \in Challenge
    BY Drawn DEF Inv, RequestsOK, RequestOK, Reports, StageReports
<1>2. \/ UNCHANGED <<ch, timer>>
      \/ \E state, retries : SetTimer(c, state, retries)
      \/ CallOff(c)
      \/ \E stage, attempt, timeout :
            /\ ch' = [ch EXCEPT ![c].stage = stage, ![c].attempt = attempt, ![c].timeout = timeout]
            /\ timer' = [timer EXCEPT ![c] = NoTimer] \/ UNCHANGED timer
  <2>1. CASE NoProgress(r) \/ EntryMode(r) \/ ReportEntered(r, clients[c][r.k])
      BY <2>1 DEF NoProgress, EntryMode, ReportEntered
  <2>2. CASE ReportStarted(r, clients[c][r.k])
    <3> DEFINE attempt == StartedAttempt(c, clients[c][r.k], r.stage)
               timeout == IF CalledOff(c) THEN "none" ELSE ch[c].timeout
    <3>1. ch' = [ch EXCEPT ![c].stage = r.stage, ![c].attempt = attempt, ![c].timeout = timeout]
        BY <1>1, <2>2 DEF ReportStarted, Inv, Base, Gone
    <3>2. timer' = [timer EXCEPT ![c] = NoTimer] \/ UNCHANGED timer
        BY <2>2 DEF ReportStarted
    <3> HIDE DEF attempt, timeout
    <3>3. QED
        BY <3>1, <3>2
  <2>3. CASE ReportFinished(r, clients[c][r.k])
      BY <2>3 DEF ReportFinished, KeepTimer, ClearTimer
  <2>4. QED
      BY <2>1, <2>2, <2>3
<1>3. Quiet /\ TimersOK'
  <2>1. CASE \/ UNCHANGED <<ch, timer>>
             \/ \E state, retries : SetTimer(c, state, retries)
             \/ CallOff(c)
    <3>1. UNCHANGED <<drawn, party, finished, processed, merged, again>>
        OBVIOUS
    <3> HIDE DEF HandleUpdate, c
    <3>2. QED
        BY <1>1, <2>1, <3>1, TimerQuiet DEF KeepTimer
  <2>2. CASE \E stage, attempt, timeout :
            /\ ch' = [ch EXCEPT ![c].stage = stage, ![c].attempt = attempt, ![c].timeout = timeout]
            /\ timer' = [timer EXCEPT ![c] = NoTimer] \/ UNCHANGED timer
    <3>1. Quiet
        BY <1>1, <2>2 DEF Quiet, SameStates, Inv, Base, Gone
    <3>2. DOMAIN timer' = Challenge /\ \A d \in Challenge : d # c => timer'[d] = timer[d]
        BY <2>2 DEF Inv, TimersOK
    <3>3. QED
        BY <1>1, <3>1, <3>2, QuietKeeps, TimersKept
  <2>3. QED
      BY <1>2, <2>1, <2>2
<1>4. UNCHANGED pointer \/ pointer' = [pointer EXCEPT ![r.k] = c]
    BY DEF NoProgress, EntryMode, ReportEntered, ReportStarted, ReportFinished, SetClient
<1>5. ClientsOK'
    BY <1>1, <1>3, <1>4, QuietKeeps, ClientsKept
<1>6. EventsOK'
    BY <1>3, QuietKeeps, Untouched
<1>7. RequestsOK'
    BY <1>3, QuietKeeps DEF Inv, RequestsOK
<1>8. WorkersOK' /\ RolesKept
  <2>1. \/ UNCHANGED at
        \/ \E w \in Task : Begin(w, [Idle EXCEPT !.pc = "decide", !.c = c, !.retries = NoTimer])
        \/ \E w \in Task : \E stage, attempt :
              Begin(w, [Idle EXCEPT !.pc = "mark", !.c = c, !.stage = stage, !.attempt = attempt])
      BY DEF NoProgress, EntryMode, ReportEntered, ReportStarted, ReportFinished
  <2>2. CASE UNCHANGED at
      BY <1>3, <2>2, QuietKeeps, Untouched, NoWork
  <2>3. CASE \E w \in Task : Begin(w, [Idle EXCEPT !.pc = "decide", !.c = c, !.retries = NoTimer])
    <3> DEFINE a == [Idle EXCEPT !.pc = "decide", !.c = c, !.retries = NoTimer]
    <3>1. PICK w \in Task : Begin(w, a)
        BY <2>3
    <3>2. DOMAIN a = DOMAIN Idle /\ a.next = "idle" /\ a.pc = "decide" /\ a.c = c
        BY DEF Idle
    <3>3. w \in Worker
        BY DEF Worker
    <3> HIDE DEF a, HandleUpdate
    <3>4. QED
        BY <1>1, <1>3, <3>1, <3>2, <3>3, QuietKeeps, BeginEffect
  <2>4. CASE \E w \in Task : \E stage, attempt :
               Begin(w, [Idle EXCEPT !.pc = "mark", !.c = c, !.stage = stage, !.attempt = attempt])
    <3>0. PICK w \in Task : \E stage, attempt :
             Begin(w, [Idle EXCEPT !.pc = "mark", !.c = c, !.stage = stage, !.attempt = attempt])
        BY <2>4
    <3>1. PICK stage, attempt :
             Begin(w, [Idle EXCEPT !.pc = "mark", !.c = c, !.stage = stage, !.attempt = attempt])
        BY <3>0
    <3> DEFINE a == [Idle EXCEPT !.pc = "mark", !.c = c, !.stage = stage, !.attempt = attempt]
    <3>2. DOMAIN a = DOMAIN Idle /\ a.next = "idle" /\ a.pc = "mark" /\ a.c = c
        BY DEF Idle
    <3>3. Begin(w, a) /\ w \in Worker
        BY <3>1 DEF Worker
    <3> HIDE DEF a, HandleUpdate
    <3>4. QED
        BY <1>1, <1>3, <3>2, <3>3, QuietKeeps, BeginEffect
  <2>5. QED
      BY <2>1, <2>2, <2>3, <2>4
<1>9. QED
    BY <1>3, <1>5, <1>6, <1>7, <1>8, QuietStep

-----------------------------------------------------------------------------
(* Steps that move a challenge on                                            *)

\* One challenge that was drawn leaves its state for one other than initializing.
LEMMA StateEffect ==
    ASSUME Inv, NEW c \in 1..drawn,
           UNCHANGED <<drawn, finished>>, party' \subseteq party,
           DOMAIN ch' = Challenge,
           \A d \in Challenge : DOMAIN ch'[d] = DOMAIN Gone /\ (d # c => ch'[d].state = ch[d].state),
           ch'[c].state \in {"none", "active", "cleanup"}
    PROVE  /\ KnownGrows
           /\ Base' /\ UndrawnUntouched' /\ FinishedOnce'
           /\ \A r : RequestOK(r) /\ (r.kind = "create" => r.c # c) => RequestOK(r)'
<1> USE Drawn DEF Inv, Base
<1>1. KnownGrows
    BY DEF KnownGrows, Known
<1>2. Base' /\ FinishedOnce'
    BY DEF FinishedOnce
<1>3. UndrawnUntouched'
    BY DEF UndrawnUntouched
<1>4. \A r : RequestOK(r) /\ (r.kind = "create" => r.c # c) => RequestOK(r)'
    BY <1>1 DEF RequestOK, KnownGrows
<1>5. QED
    BY <1>1, <1>2, <1>3, <1>4

LEMMA CleanupChallengeKeeps == ASSUME Inv, NEW w \in Worker, CleanupChallenge(w)
                               PROVE  Inv'
<1> DEFINE c == at[w].c
<1> USE DEF CleanupChallenge
<1>1. Known(c) /\ c \in Challenge /\ c \in 1..drawn /\ WorkOK(at[w])
    BY Busy, Drawn DEF Known
<1>2. UNCHANGED <<finished, merged, again>>
    BY DEF ghost
<1>3. CASE Taken(c) /\ Step(w, "delete") /\ KeepTimer
  <2>1. KnownGrows => WorkersOK' /\ RolesKept
      BY <1>3, StepEffect
  <2>2. QED
      BY <1>2, <1>3, <2>1, TimerAndWork
<1>4. CASE \/ PutOff(w) \/ NotDue(w)
           \/ CloseOrRetry(w) /\ Done(w) /\ \E s, n : SetTimer(c, s, n)
  <2>1. KnownGrows => WorkersOK' /\ RolesKept
      BY <1>4, DoneEffect DEF PutOff, NotDue
  <2>2. KeepTimer \/ \E s, n : SetTimer(c, s, n)
      BY <1>4 DEF PutOff, NotDue
  <2> HIDE DEF CleanupChallenge
  <2>3. Elsewhere /\ at[w].pc # "idle"
      BY DEF CleanupChallenge
  <2>4. QED
      BY <1>2, <2>1, <2>2, <2>3, TimerAndWork
<1>5. CASE /\ ~Taken(c) /\ UNCHANGED timer /\ Step(w, "close")
           /\ ch' = [ch EXCEPT ![c].state = "cleanup", ![c].processing = "no"]
  <2>1. ch[c].state = "active"
      BY <1>1, <1>5 DEF Taken, Known, Inv, Base
  <2>2. /\ DOMAIN ch' = Challenge /\ ch'[c].state = "cleanup"
        /\ \A d \in Challenge : DOMAIN ch'[d] = DOMAIN Gone /\ (d # c => ch'[d].state = ch[d].state)
      BY <1>1, <1>5 DEF Inv, Base, Gone
  <2>3. /\ KnownGrows /\ Base' /\ UndrawnUntouched' /\ FinishedOnce'
        /\ \A r : RequestOK(r) /\ (r.kind = "create" => r.c # c) => RequestOK(r)'
      BY <1>1, <1>2, <2>2, StateEffect DEF Elsewhere
  <2>4. ClientsOK' /\ EventsOK' /\ TimersOK'
      BY <1>5, <2>3, Untouched DEF Elsewhere, player
  <2>5. RequestsOK'
      BY <2>1, <2>3 DEF Inv, RequestsOK, RequestOK, Elsewhere
  <2>6. /\ WorkersOK'
        /\ at'[w].pc = "close" /\ at'[w].c = c
        /\ \A v \in Worker : v # w => at'[v] = at[v]
      BY <1>5, <2>3, StepWorks
  <2>7. OneCloser'
    <3>1. Live(c) /\ finished[c] = 0 /\ \A v \in Worker : Closing(v) => at[v].c # c
        BY <1>1, <2>1 DEF Inv, OneCloser, Live
    <3>2. \A d \in Challenge : Live(d)' => Live(d) /\ d # c
        BY <2>2 DEF Live
    <3>3. \A v \in Worker : Closing(v)' => v = w \/ Closing(v)
        BY <2>6 DEF Closing
    <3>4. \A v \in Worker : Closing(v) => at[v].c \in Challenge
        BY Drawn DEF Inv, WorkersOK, WorkOK, Closing, ClosingAs
    <3>5. QED
        BY <1>1, <1>2, <2>2, <2>6, <3>1, <3>2, <3>3, <3>4 DEF Inv, OneCloser, Live
  <2>8. ClaimsOK'
    <3>1. ReadersKept
        BY <2>6 DEF ReadersKept
    <3>2. UNCHANGED <<processed, drawn>>
        BY DEF Elsewhere
    <3>3. \A d \in Challenge : ch'[d].state # "none" => ch[d].state # "none"
        BY <2>1, <2>2
    <3>4. QED
        BY <1>2, <3>1, <3>2, <3>3, ClaimsKept, Drawn DEF Inv, ClaimsOK
  <2>9. QED
      BY <2>3, <2>4, <2>5, <2>6, <2>7, <2>8 DEF Inv
<1>6. QED
    BY <1>3, <1>4, <1>5 DEF CloseOrRetry

LEMMA FinishChallengeKeeps == ASSUME Inv, NEW w \in Worker, FinishChallenge(w)
                              PROVE  Inv'
<1> DEFINE c == at[w].c
<1> USE DEF FinishChallenge, redis, player
<1>1. Closing(w) /\ Known(c) /\ c \in Challenge /\ c \in 1..drawn
    BY Busy, Drawn DEF Known, Closing, ClosingAs
<1>2. ~Live(c) /\ finished[c] = 0
    BY <1>1 DEF Inv, OneCloser
<1>3. finished' \in [Challenge -> Nat] /\ finished'[c] = 1
      /\ \A d \in Challenge : d # c => finished'[d] = finished[d]
    BY <1>1, <1>2 DEF Inv, Base
<1>4. KnownGrows
    BY DEF KnownGrows, Known
<1>5. Base' /\ UndrawnUntouched' /\ FinishedOnce'
    BY <1>1, <1>3, Drawn DEF Inv, Base, UndrawnUntouched, FinishedOnce
<1>6. ClientsOK' /\ EventsOK' /\ TimersOK'
    BY <1>4, Untouched
<1>7. RequestsOK'
    BY <1>4 DEF Inv, RequestsOK, RequestOK, KnownGrows
<1>8. /\ WorkersOK'
      /\ at'[w].pc = "delete"
      /\ \A v \in Worker : v # w => at'[v] = at[v]
    BY <1>4, StepWorks
<1>9. OneCloser'
  <2>1. \A v \in Worker : Closing(v)' => v # w /\ Closing(v) /\ at'[v] = at[v]
      BY <1>8 DEF Closing, ClosingAs
  <2>2. \A v \in Worker : Closing(v) => at[v].c \in Challenge
      BY Drawn DEF Inv, WorkersOK, WorkOK, Closing, ClosingAs
  <2>3. \A d \in Challenge : Live(d)' = Live(d)
      BY DEF Live
  <2>4. QED
      BY <1>1, <1>2, <1>3, <2>1, <2>2, <2>3 DEF Inv, OneCloser
<1>10. ReadersKept
    BY <1>8 DEF ReadersKept
<1>11. ClaimsOK'
    BY <1>10, ClaimsKept, Drawn DEF Inv, ClaimsOK
<1>12. QED
    BY <1>5, <1>6, <1>7, <1>8, <1>9, <1>11 DEF Inv

LEMMA DeleteChallengeKeeps == ASSUME Inv, NEW w \in Worker, DeleteChallenge(w)
                              PROVE  Inv'
<1> DEFINE c == at[w].c
<1> USE DEF DeleteChallenge, Delete, player
<1>1. Known(c) /\ c \in Challenge /\ c \in 1..drawn
    BY Busy, Drawn DEF Known
<1>2. /\ DOMAIN ch' = Challenge /\ ch'[c].state = "none"
      /\ \A d \in Challenge : DOMAIN ch'[d] = DOMAIN Gone /\ (d # c => ch'[d].state = ch[d].state)
    BY <1>1 DEF Inv, Base, Gone
<1>3. /\ KnownGrows /\ Base' /\ UndrawnUntouched' /\ FinishedOnce'
      /\ \A r : RequestOK(r) /\ (r.kind = "create" => r.c # c) => RequestOK(r)'
    BY <1>1, <1>2, StateEffect
<1>4. ClientsOK' /\ EventsOK'
    BY <1>3, Untouched
<1>5. TimersOK'
    BY <1>1, <1>3, TimersKept DEF Inv, TimersOK
<1>6. RequestsOK'
    BY <1>1, <1>3 DEF Inv, RequestsOK, RequestOK, Known
<1>7. WorkersOK' /\ RolesKept
    BY <1>3, DoneEffect
<1>8. OneCloser'
  <2>1. \A d \in Challenge : Live(d)' => Live(d)
      BY <1>2 DEF Live
  <2>2. \A v \in Worker : Closing(v) => at[v].c \in Challenge
      BY Drawn DEF Inv, WorkersOK, WorkOK, Closing, ClosingAs
  <2>3. QED
      BY <1>7, <2>1, <2>2 DEF Inv, OneCloser, RolesKept, ClosersKept, Live
<1>9. ClaimsOK'
    BY <1>1, <1>2, <1>7, ClaimsKept, Drawn DEF Inv, ClaimsOK, RolesKept
<1>10. QED
    BY <1>3, <1>4, <1>5, <1>6, <1>7, <1>8, <1>9 DEF Inv

\* The request that created a challenge is done: it is the only one.
LEMMA CreateDone ==
    ASSUME Inv, NEW r \in flight, r.kind = "create", flight' = flight \ {r},
           \A s : RequestOK(s) /\ (s.kind = "create" => s.c # r.c) => RequestOK(s)'
    PROVE  RequestsOK'
BY DEF Inv, RequestsOK

\* Nobody is in a challenge that is being created.
LEMMA Untaken ==
    ASSUME Inv, NEW r \in flight, r.kind = "create"
    PROVE  /\ r.c \in 1..drawn /\ r.c \in Challenge /\ r.k \in Client
           /\ ch[r.c].state = "initializing" /\ finished[r.c] = 0
           /\ \A w \in Worker : Closing(w) => at[w].c # r.c /\ at[w].c \in Challenge
<1>1. /\ r.c \in 1..drawn /\ r.c \in Challenge /\ r.k \in Client
      /\ ch[r.c].state = "initializing"
    BY Drawn DEF Inv, RequestsOK, RequestOK
<1>2. finished[r.c] = 0
    BY <1>1 DEF Inv, OneCloser, Live
<1>3. \A w \in Worker : Closing(w) => Known(at[w].c)
    BY DEF Inv, WorkersOK, WorkOK, Closing, ClosingAs
<1>4. QED
    BY <1>1, <1>2, <1>3, Drawn DEF Known

LEMMA CreateFailedKeeps == ASSUME Inv, NEW r \in flight, CreateFailed(r)
                           PROVE  Inv'
<1> USE DEF CreateFailed, Delete, player
<1>1. r.c \in 1..drawn /\ r.c \in Challenge
    BY Untaken
<1>2. /\ DOMAIN ch' = Challenge /\ ch'[r.c].state = "none"
      /\ \A d \in Challenge : DOMAIN ch'[d] = DOMAIN Gone /\ (d # r.c => ch'[d].state = ch[d].state)
    BY <1>1 DEF Inv, Base, Gone
<1>3. /\ KnownGrows /\ Base' /\ UndrawnUntouched' /\ FinishedOnce'
      /\ \A s : RequestOK(s) /\ (s.kind = "create" => s.c # r.c) => RequestOK(s)'
    BY <1>1, <1>2, StateEffect
<1>4. ClientsOK' /\ EventsOK' /\ WorkersOK'
    BY <1>3, Untouched
<1>5. TimersOK'
    BY <1>3 DEF Inv, TimersOK, KnownGrows
<1>6. RequestsOK'
    BY <1>3, CreateDone
<1>7. OneCloser'
  <2>1. \A d \in Challenge : Live(d)' => Live(d)
      BY <1>2 DEF Live
  <2>2. QED
      BY <2>1, Untaken DEF Inv, OneCloser, Closing, ClosingAs, Live
<1>8. ClaimsOK'
  <2>1. ReadersKept
      BY DEF ReadersKept
  <2>2. QED
      BY <1>1, <1>2, <2>1, ClaimsKept, Drawn DEF Inv, ClaimsOK
<1>9. QED
    BY <1>3, <1>4, <1>5, <1>6, <1>7, <1>8 DEF Inv

LEMMA CreatedKeeps == ASSUME Inv, NEW r \in flight, Created(r)
                      PROVE  Inv'
<1> USE DEF Created
<1>1. r.c \in 1..drawn /\ r.c \in Challenge /\ r.k \in Client
    BY Untaken
<1>2. /\ DOMAIN ch' = Challenge /\ ch'[r.c].state = "active"
      /\ \A d \in Challenge : DOMAIN ch'[d] = DOMAIN Gone /\ (d # r.c => ch'[d].state = ch[d].state)
    BY <1>1 DEF Inv, Base, Gone
<1>3. /\ KnownGrows /\ Base' /\ UndrawnUntouched' /\ FinishedOnce'
      /\ \A s : RequestOK(s) /\ (s.kind = "create" => s.c # r.c) => RequestOK(s)'
    BY <1>1, <1>2, StateEffect DEF ghost
<1>4. TimersOK' /\ EventsOK' /\ WorkersOK'
    BY <1>3, Untouched
<1>5. RequestsOK'
    BY <1>3, CreateDone
<1>6. ClientsOK'
  <2>1. r.c \in 1..drawn' /\ ch'[r.c].state # "initializing"
      BY <1>1, <1>2
  <2>2. pointer' = [pointer EXCEPT ![r.k] = r.c] /\ conn' = conn
      BY DEF Enter, SetClient
  <2>3. joined' = joined \/ joined' = [joined EXCEPT ![r.k] = r.c]
      BY DEF Told
  <2>4. \A c : Known(c) \/ c = r.c => c \in 1..drawn' /\ ch'[c].state # "initializing"
      BY <1>3, <2>1 DEF KnownGrows, Known
  <2>5. /\ pointer' \in [Client -> Challenge \cup {NoChallenge}]
        /\ joined' \in [Client -> Challenge \cup {NoChallenge}]
        /\ \A k \in Client : pointer'[k] \in {pointer[k], r.c} /\ joined'[k] \in {joined[k], r.c}
      BY <1>1, <2>2, <2>3 DEF Inv, ClientsOK
  <2>6. QED
      BY <2>2, <2>4, <2>5 DEF Inv, ClientsOK, Known
<1>7. OneCloser'
  <2>1. \A d \in Challenge : Live(d)' => Live(d) \/ d = r.c
      BY <1>2 DEF Live
  <2>2. UNCHANGED <<at, finished>>
      BY DEF ghost
  <2>3. \A w \in Worker : Closing(w)' = Closing(w)
      BY <2>2 DEF Closing, ClosingAs
  <2>4. QED
      BY <1>2, <2>1, <2>2, <2>3, Untaken DEF Inv, OneCloser, Live
<1>8. ClaimsOK'
  <2>1. ReadersKept /\ UNCHANGED <<drawn, processed, merged, again>>
      BY DEF ReadersKept, ghost
  <2>2. \A d \in Challenge : ch'[d].state # "none" => ch[d].state # "none"
      BY <1>2, Untaken
  <2>3. QED
      BY <2>1, <2>2, ClaimsKept, Drawn DEF Inv, ClaimsOK
<1>9. QED
    BY <1>3, <1>4, <1>5, <1>6, <1>7, <1>8 DEF Inv

-----------------------------------------------------------------------------
(* Starting and joining                                                      *)

LEMMA CreateKeeps ==
    ASSUME Inv, NEW k \in Client, NEW stage, Create(k, stage),
           UNCHANGED <<conn, queue, event, at, ghost, processed>>
    PROVE  Inv'
<1> DEFINE c == drawn + 1
<1> USE DEF Create, ghost
<1>1. /\ drawn \in Nat /\ drawn' = drawn + 1 /\ drawn' \in 0..MaxChallenges
      /\ c \in Challenge /\ ch[c].state = "none" /\ finished[c] = 0
    BY Drawn, ManagerAssumption DEF Challenge, Inv, UndrawnUntouched
<1>2. /\ DOMAIN ch' = Challenge /\ ch'[c].state = "initializing"
      /\ \A d \in Challenge : DOMAIN ch'[d] = DOMAIN Gone /\ (d # c => ch'[d].state = ch[d].state)
    BY <1>1 DEF Inv, Base, Gone
<1>3. KnownGrows
    BY <1>1, <1>2, Drawn DEF KnownGrows, Known
<1>4. party' \subseteq 1..drawn'
    BY <1>1 DEF Inv, Base
<1>5. Base' /\ FinishedOnce'
    BY <1>1, <1>2, <1>4 DEF Inv, Base, FinishedOnce
<1>6. UndrawnUntouched'
    BY <1>1, <1>2, ManagerAssumption DEF Inv, UndrawnUntouched, Challenge
<1>7. ClientsOK' /\ EventsOK' /\ TimersOK' /\ WorkersOK'
    BY <1>3, Untouched
<1>8. RequestsOK'
  <2>1. PICK r : r.kind = "create" /\ r.k = k /\ r.c = c /\ flight' = flight \cup {r}
      BY DEF Request
  <2>2. \A s \in flight : RequestOK(s) /\ s.c \in 1..drawn /\ s.c # c
      BY <1>1 DEF Inv, RequestsOK, RequestOK
  <2>3. \A s \in flight : RequestOK(s)'
      BY <1>1, <1>2, <1>3, <2>2, Drawn DEF RequestOK, KnownGrows
  <2>4. RequestOK(r)'
      BY <1>1, <1>2, <2>1 DEF RequestOK
  <2>5. QED
      BY <2>1, <2>2, <2>3, <2>4 DEF Inv, RequestsOK
<1>9. OneCloser'
  <2>1. \A d \in Challenge : Live(d)' => Live(d) \/ d = c
      BY <1>2 DEF Live
  <2>2. \A w \in Worker : Closing(w)' = Closing(w)
      BY DEF Closing, ClosingAs
  <2>3. \A w \in Worker : Closing(w) => at[w].c \in Challenge /\ at[w].c # c
      BY <1>1, Drawn DEF Inv, WorkersOK, WorkOK, Closing, ClosingAs, Known
  <2>4. QED
      BY <1>1, <1>2, <2>1, <2>2, <2>3 DEF Inv, OneCloser, Live
<1>10. ClaimsOK'
  <2>1. ReadersKept
      BY DEF ReadersKept
  <2>2. \A d \in Challenge : ch'[d].state # "none" => ch[d].state # "none" \/ d > drawn
      BY <1>1, <1>2
  <2>3. QED
      BY <1>1, <2>1, <2>2, ClaimsKept DEF Inv, ClaimsOK
<1>11. QED
    BY <1>5, <1>6, <1>7, <1>8, <1>9, <1>10 DEF Inv

\* Somebody enters a known challenge.
LEMMA EnterKeeps ==
    ASSUME Inv, NEW k \in Client, NEW c, Known(c), NEW token,
           pointer' = [pointer EXCEPT ![k] = c],
           \/ UNCHANGED joined
           \/ joined' = [joined EXCEPT ![k] = c],
           CallOff(c) \/ KeepTimer,
           UNCHANGED <<drawn, party, conn, queue, event, at, finished, processed, merged, again>>,
           flight' \subseteq flight
    PROVE  Inv'
<1>1. Quiet /\ TimersOK'
    BY TimerQuiet
<1>2. EventsOK' /\ WorkersOK' /\ RolesKept
    BY <1>1, QuietKeeps, Untouched, NoWork
<1>3. ClientsOK'
    BY <1>1, QuietKeeps, ClientsKept
<1>4. RequestsOK'
    BY <1>1, QuietKeeps DEF Inv, RequestsOK
<1>5. QED
    BY <1>1, <1>2, <1>3, <1>4, QuietStep

\* A request that is put away, with its answer at most.
LEMMA PutAwayKeeps ==
    ASSUME Inv, NEW k \in Client,
           UNCHANGED <<ch, timer, pointer, drawn, party, conn, queue, event, at, finished, processed,
                       merged, again>>,
           joined' = joined \/ joined' = [joined EXCEPT ![k] = NoChallenge],
           flight' \subseteq flight
    PROVE  Inv'
<1>1. Quiet
    BY SameHashes
<1>2. EventsOK' /\ TimersOK' /\ WorkersOK' /\ RolesKept
    BY <1>1, QuietKeeps, Untouched, NoWork
<1>3. ClientsOK'
    BY <1>1, QuietKeeps, ClientsKept
<1>4. RequestsOK'
    BY <1>1, QuietKeeps DEF Inv, RequestsOK
<1>5. QED
    BY <1>1, <1>2, <1>3, <1>4, QuietStep

LEMMA StartKeeps == ASSUME Inv, NEW k \in Client, NEW stage, Start(k, stage)
                    PROVE  Inv'
<1> USE DEF Start
<1>1. CASE Create(k, stage)
    BY <1>1, CreateKeeps
<1>2. CASE party # {} /\ JoinAtOnce(k)
  <2>1. Known(Latest)
      BY <1>2, LatestListed DEF JoinAtOnce, Known
  <2>2. pointer' = [pointer EXCEPT ![k] = Latest] /\ CallOff(Latest)
      BY <1>2 DEF JoinAtOnce, Enter, SetClient
  <2>3. UNCHANGED joined \/ joined' = [joined EXCEPT ![k] = Latest]
      BY <1>2 DEF JoinAtOnce, Told
  <2>4. UNCHANGED <<drawn, party, conn, queue, event, at, finished, flight, processed, merged,
                    again>>
      BY <1>2 DEF JoinAtOnce, ghost
  <2> HIDE DEF Start
  <2>5. QED
      BY <2>1, <2>2, <2>3, <2>4, EnterKeeps
<1>3. CASE party # {} /\ JoinLater(k, stage)
  <2> DEFINE r == Request("defer", k, Latest, stage)
  <2>1. Latest \in 1..drawn /\ r.kind = "defer" /\ r.k = k /\ r.c = Latest /\ RequestOK(r)
      BY <1>3, LatestListed DEF Request, RequestOK
  <2>2. UNCHANGED <<ch, timer, pointer, joined, conn, drawn, party, queue, event, at, finished,
                   processed, merged, again>>
        /\ flight' = flight \cup {r}
      BY <1>3 DEF JoinLater, ghost
  <2> HIDE DEF Start, r
  <2>3. Quiet
      BY <2>2, SameHashes
  <2>4. ClientsOK' /\ EventsOK' /\ TimersOK' /\ WorkersOK' /\ RolesKept
      BY <2>2, <2>3, QuietKeeps, Untouched, NoWork
  <2>5. RequestsOK'
      BY <2>1, <2>2, <2>3, QuietKeeps DEF Inv, RequestsOK
  <2>6. QED
      BY <2>3, <2>4, <2>5, QuietStep
<1>4. QED
    BY <1>1, <1>2, <1>3

LEMMA JoinedKeeps == ASSUME Inv, NEW r \in flight, DeferredJoin(r) \/ Added(r)
                     PROVE  Inv'
<1> USE DEF DeferredJoin, Added
<1>1. r.k \in Client /\ r.c \in 1..drawn
    BY DEF Inv, RequestsOK, RequestOK
<1>2. flight' \subseteq flight /\ UNCHANGED <<drawn, party, conn, queue, event, at, finished, processed, merged, again>>
    BY DEF ghost
<1>3. CASE ch[r.c].state = "active"
  <2>1. Known(r.c)
      BY <1>1, <1>3 DEF Known
  <2>2. pointer' = [pointer EXCEPT ![r.k] = r.c] /\ (CallOff(r.c) \/ KeepTimer)
      BY <1>3 DEF Enter, SetClient, KeepTimer
  <2>3. UNCHANGED joined \/ joined' = [joined EXCEPT ![r.k] = r.c]
      BY <1>3 DEF Told
  <2> HIDE DEF DeferredJoin, Added
  <2>4. QED
      BY <1>1, <1>2, <2>1, <2>2, <2>3, EnterKeeps
<1>4. CASE ch[r.c].state # "active"
  <2>1. UNCHANGED <<ch, timer, pointer>>
        /\ (joined' = joined \/ joined' = [joined EXCEPT ![r.k] = NoChallenge])
      BY <1>4
  <2> HIDE DEF DeferredJoin, Added
  <2>2. QED
      BY <1>1, <1>2, <2>1, PutAwayKeeps
<1>5. QED
    BY <1>3, <1>4

-----------------------------------------------------------------------------
(* The theorem                                                               *)

LEMMA InitInv == ASSUME Init
                 PROVE  Inv
<1> USE DEF Init
<1>1. 0 \in 0..MaxChallenges /\ MaxChallenges \in Nat /\ \A c \in Challenge : c > 0
    BY ManagerAssumption DEF Challenge
<1>2. Base /\ UndrawnUntouched /\ FinishedOnce
    BY <1>1 DEF Base, UndrawnUntouched, FinishedOnce, Gone
<1>3. ClientsOK /\ TimersOK /\ RequestsOK
    BY DEF ClientsOK, TimersOK, RequestsOK
<1>4. EventsOK
    BY DEF EventsOK
<1>5. WorkersOK /\ OneCloser
    BY DEF WorkersOK, WorkOK, OneCloser, Closing, ClosingAs, Idle, Live, Gone
<1>6. ClaimsOK
    BY DEF ClaimsOK, Exists, Reading, Idle
<1>7. QED
    BY <1>2, <1>3, <1>4, <1>5, <1>6 DEF Inv

LEMMA StutterKeeps == ASSUME Inv, UNCHANGED vars
                      PROVE  Inv'
<1>1. KnownGrows => WorkersOK' /\ RolesKept
    BY Untouched, NoWork DEF vars, work
<1>2. QED
    BY <1>1, OnlyWork DEF vars, work, ghost

LEMMA NextKeeps == ASSUME Inv, Next
                   PROVE  Inv'
<1>1. CASE Requests
    BY <1>1, StartKeeps, AddClientKeeps, FinishLostKeeps, FinishKeeps, UpdateKeeps DEF Requests
<1>2. CASE Connections
    BY <1>2, ConnectionKeeps DEF Connections
<1>3. CASE HandleRequest
    BY <1>3, CreatedKeeps, CreateFailedKeeps, JoinedKeeps, HandleUpdateKeeps DEF HandleRequest
<1>4. CASE PopEvent \/ HandleEvent
    BY <1>4, PopEventKeeps, HandleEventKeeps
<1>5. CASE Timeouts
    BY <1>5, FireKeeps, ReadStateKeeps, HandleStageEndTimeoutKeeps, TickerTimers DEF Timeouts
<1>6. ASSUME NEW w \in Worker, WorkerStep(w)
      PROVE  Inv'
    BY <1>6, CleanupChallengeKeeps, CloseKeeps, FinishChallengeKeeps, DeleteChallengeKeeps,
       MarkKeeps, LoadKeeps, ClearStageEndKeeps, ClaimKeeps, ReadStreamKeeps, WriteBackKeeps DEF WorkerStep
<1>7. ASSUME NEW w \in Worker, StepFails(w)
      PROVE  Inv'
    BY <1>7, StepFailsKeeps
<1>8. CASE Crash \/ \E c \in Challenge : TakesTooLong(c)
    BY <1>8, CrashKeeps, TakesTooLongKeeps
<1>9. QED
    BY <1>1, <1>2, <1>3, <1>4, <1>5, <1>6, <1>7, <1>8 DEF Next

LEMMA InvHolds == Spec => []Inv
<1>1. Init => Inv
    BY InitInv
<1>2. Inv /\ [Next]_vars => Inv'
    BY NextKeeps, StutterKeeps
<1>3. QED
    BY <1>1, <1>2, PTL DEF Spec

\* However timeouts, forced and retried cleanups, failures and restarts
\* interleave, a challenge is finalised in the database at most once
\* (cleanupChallenge).
THEOREM FinalisedOnce == Spec => []FinishedOnce
<1>1. Inv => FinishedOnce
    BY DEF Inv
<1>2. QED
    BY <1>1, InvHolds, PTL

\* However many tasks complete a stage at once, no attempt of it is merged
\* twice while the challenge exists (completeChallengeStage).
THEOREM AttemptMergedOnce == Spec => []MergedOnce
<1>1. Inv => MergedOnce
    BY DEF Inv, ClaimsOK, MergedOnce
<1>2. QED
    BY <1>1, InvHolds, PTL
-----------------------------------------------------------------------------
(* Types, and the timers of challenges that everyone has left                *)

Timeout == {"none", "stage_end", "cleanup", "challenge_end"}
Retries == {NoTimer} \cup (0..3)

HashType ==
    [state : {"none", "initializing", "active", "cleanup"},
     status : {"none", "in_progress", "completed", "other"},
     stage : Stage \cup {0}, attempt : Attempt,
     timeout : Timeout, processing : {"no", "fresh", "stale"}]

HashesTyped ==
    /\ ch \in [Challenge -> HashType]
    /\ \A c \in Challenge : Exists(c) => ch[c].stage \in Stage

TimersTyped == timer \in [Challenge -> Retries]

Roster(f) == DOMAIN f \subseteq Client /\ \A k \in DOMAIN f : f[k] \in ClientType

ClientsTyped == DOMAIN clients = Challenge /\ \A c \in Challenge : Roster(clients[c])

RequestTyped(r) ==
    r.token \in Nat /\ (r.kind \in StageReports \cup {"create"} => r.stage \in Stage)

RequestsTyped == \A r \in flight : RequestTyped(r)

RetriesTyped == \A w \in Worker : at[w].retries \in Retries

Typed ==
    /\ HashesTyped /\ TimersTyped /\ ClientsTyped /\ RequestsTyped /\ RetriesTyped
    /\ cut \subseteq Challenge

\* The timer of a challenge that everyone has left is one that ends it.  A
\* stage end timer would be cleared without putting another in its place.
Watched(c) ==
    c \notin cut /\ ch[c].state = "active" /\ Members(c) = {} =>
        timer[c] # NoTimer /\ EndTimer(c)

Timed == \A c \in Challenge : Watched(c)

Sound == Typed /\ Timed

-----------------------------------------------------------------------------
(* Writes, typed                                                             *)

LEMMA Bounds ==
    /\ Attempt = 0..MaxAttempt /\ 0 \in Attempt /\ NoTimer \notin Nat
    /\ \A n \in 0..3 : n # NoTimer /\ n \in Retries
    /\ NoTimer \in Retries
BY ManagerAssumption DEF Attempt, Retries

\* The challenges beside the one that is written.
Beside(c) ==
    \A d \in Challenge : d # c =>
        /\ ch'[d].state = ch[d].state /\ ch'[d].timeout = ch[d].timeout
        /\ timer'[d] = timer[d]

LEMMA TimerTyped ==
    ASSUME Typed, NEW c \in Challenge, NEW state \in Timeout, NEW retries \in Retries,
           SetTimer(c, state, retries) \/ ClearTimer(c) \/ CallOff(c) \/ KeepTimer
    PROVE  HashesTyped' /\ TimersTyped' /\ Beside(c) /\ ch'[c].state = ch[c].state
<1>1. CASE UNCHANGED <<ch, timer>>
    BY <1>1 DEF Typed, HashesTyped, TimersTyped, Exists, Beside
<1>2. ASSUME NEW x \in Timeout, NEW y \in Retries,
             ch' = [ch EXCEPT ![c].timeout = x], timer' = [timer EXCEPT ![c] = y]
      PROVE  HashesTyped' /\ TimersTyped' /\ Beside(c) /\ ch'[c].state = ch[c].state
  <2>1. ch \in [Challenge -> HashType] /\ timer \in [Challenge -> Retries]
      BY DEF Typed, HashesTyped, TimersTyped
  <2>2. ch' \in [Challenge -> HashType] /\ timer' \in [Challenge -> Retries]
      BY <1>2, <2>1 DEF HashType
  <2>3. \A d \in Challenge : ch'[d].state = ch[d].state /\ ch'[d].stage = ch[d].stage
      BY <1>2, <2>1 DEF HashType
  <2>4. Beside(c)
      BY <1>2, <2>1 DEF HashType, Beside
  <2>5. QED
      BY <2>2, <2>3, <2>4 DEF Typed, HashesTyped, TimersTyped, Exists
<1>3. \/ UNCHANGED <<ch, timer>>
      \/ \E x \in Timeout, y \in Retries :
            ch' = [ch EXCEPT ![c].timeout = x] /\ timer' = [timer EXCEPT ![c] = y]
    BY Bounds DEF SetTimer, ClearTimer, CallOff, KeepTimer, Timeout
<1>4. QED
    BY <1>1, <1>2, <1>3

LEMMA SetTimerIs ==
    ASSUME Typed, NEW c \in Challenge, NEW state, NEW retries, SetTimer(c, state, retries)
    PROVE  ch'[c].timeout = state /\ timer'[c] = retries
BY DEF Typed, HashesTyped, HashType, TimersTyped, SetTimer

LEMMA SetClientTyped ==
    ASSUME Typed, NEW c \in Challenge, NEW k \in Client, NEW m \in ClientType, SetClient(c, k, m)
    PROVE  /\ ClientsTyped' /\ clients'[c] # NoClients /\ k \in DOMAIN clients'[c]
           /\ \A d \in Challenge : d # c => clients'[d] = clients[d]
<1> DEFINE f == [j \in DOMAIN clients[c] \cup {k} |-> IF j = k THEN m ELSE clients[c][j]]
<1>1. DOMAIN clients = Challenge /\ \A d \in Challenge : Roster(clients[d])
    BY DEF Typed, ClientsTyped
<1>2. Roster(f) /\ k \in DOMAIN f
    BY <1>1 DEF Roster
<1>3. clients' = [clients EXCEPT ![c] = f]
    BY DEF SetClient
<1> HIDE DEF f
<1>4. DOMAIN clients' = Challenge /\ clients'[c] = f
      /\ \A d \in Challenge : d # c => clients'[d] = clients[d]
    BY <1>1, <1>3
<1>5. QED
    BY <1>1, <1>2, <1>4 DEF ClientsTyped, NoClients

LEMMA RemoveClientTyped ==
    ASSUME Typed, NEW c \in Challenge, NEW k, RemoveClient(c, k)
    PROVE  /\ ClientsTyped' /\ DOMAIN clients'[c] = DOMAIN clients[c] \ {k}
           /\ \A d \in Challenge : d # c => clients'[d] = clients[d]
<1> DEFINE f == [j \in DOMAIN clients[c] \ {k} |-> clients[c][j]]
<1>1. DOMAIN clients = Challenge /\ \A d \in Challenge : Roster(clients[d])
    BY DEF Typed, ClientsTyped
<1>2. Roster(f) /\ DOMAIN f = DOMAIN clients[c] \ {k}
    BY <1>1 DEF Roster
<1>3. clients' = [clients EXCEPT ![c] = f]
    BY DEF RemoveClient
<1> HIDE DEF f
<1>4. DOMAIN clients' = Challenge /\ clients'[c] = f
      /\ \A d \in Challenge : d # c => clients'[d] = clients[d]
    BY <1>1, <1>3
<1>5. QED
    BY <1>1, <1>2, <1>4 DEF ClientsTyped

\* Whoever enters a challenge that exists is a client of a stage.
LEMMA EnterTyped ==
    ASSUME Typed, NEW c \in Challenge, Exists(c), NEW k \in Client, NEW token \in Nat
    PROVE  NewClient(c, k, token, ch[c].stage, ch[c].attempt) \in ClientType
<1>1. ch[c].stage \in Stage /\ ch[c].attempt \in Attempt
    BY DEF Typed, HashesTyped, HashType
<1>2. k \in Members(c) => clients[c][k].last \in (Stage \cup {0}) \X Attempt
    BY DEF Typed, ClientsTyped, Roster, Members, ClientType
<1>3. <<0, 0>> \in (Stage \cup {0}) \X Attempt
    BY Bounds
<1>4. QED
    BY <1>1, <1>2, <1>3 DEF NewClient, ClientType

LEMMA WorkerTyped ==
    ASSUME Inv, Typed, NEW w \in Worker
    PROVE  /\ \A pc : Step(w, pc) => RetriesTyped'
           /\ Done(w) => RetriesTyped'
           /\ After(w) => RetriesTyped'
           /\ \A a : Begin(w, a) /\ a.retries \in Retries => RetriesTyped'
           /\ \A stage, attempt, next : Complete(w, stage, attempt, next) => RetriesTyped'
           /\ UNCHANGED at => RetriesTyped'
<1>1. /\ DOMAIN at = Worker /\ \A v \in Worker : at[v].retries \in Retries
      /\ DOMAIN at[w] = DOMAIN Idle
    BY DEF Inv, WorkersOK, WorkOK, Typed, RetriesTyped
<1>2. \A pc : Step(w, pc) => RetriesTyped'
    BY <1>1 DEF Step, RetriesTyped, Idle
<1>3. Done(w) => RetriesTyped'
  <2>1. Idle.retries \in Retries
      BY Bounds DEF Idle
  <2>2. QED
      BY <1>1, <2>1 DEF Done, RetriesTyped
<1>4. After(w) => RetriesTyped'
    BY <1>2, <1>3 DEF After
<1>5. \A a : Begin(w, a) /\ a.retries \in Retries => RetriesTyped'
    BY <1>1 DEF Begin, RetriesTyped
<1>6. \A stage, attempt, next : Complete(w, stage, attempt, next) => RetriesTyped'
    BY <1>1 DEF Complete, RetriesTyped, Idle
<1>7. UNCHANGED at => RetriesTyped'
    BY <1>1 DEF RetriesTyped
<1>8. QED
    BY <1>2, <1>3, <1>4, <1>5, <1>6, <1>7

LEMMA FlightTyped ==
    ASSUME Typed
    PROVE  /\ flight' \subseteq flight => RequestsTyped'
           /\ \A r : flight' = flight \cup {r} /\ RequestTyped(r) => RequestsTyped'
BY DEF Typed, RequestsTyped, RequestTyped

-----------------------------------------------------------------------------
(* Challenges stay watched                                                   *)

\* One challenge is written, and watched afterwards.
LEMMA OneWatched ==
    ASSUME Timed, NEW c \in Challenge, Beside(c), cut \subseteq cut', Watched(c)',
           \A d \in Challenge : d # c => clients'[d] = clients[d]
    PROVE  Timed'
<1>1. SUFFICES ASSUME NEW d \in Challenge
               PROVE  Watched(d)'
    BY DEF Timed
<1>2. CASE d = c
    BY <1>2
<1>3. CASE d # c
    BY <1>3 DEF Timed, Watched, Members, Beside, EndTimer
<1>4. QED
    BY <1>2, <1>3

\* Nothing is timed anew, nobody leaves, and no challenge becomes active.
LEMMA AllWatched ==
    ASSUME Timed, UNCHANGED <<timer, clients, cut>>,
           \A d \in Challenge : /\ ch'[d].timeout = ch[d].timeout
                                /\ ch'[d].state = "active" => ch[d].state = "active"
    PROVE  Timed'
BY DEF Timed, Watched, Members, EndTimer

LEMMA NothingWritten ==
    ASSUME Sound, UNCHANGED <<ch, clients, timer, cut>>, RequestsTyped', RetriesTyped'
    PROVE  Sound'
<1>1. Timed'
    BY AllWatched DEF Sound
<1>2. QED
    BY <1>1 DEF Sound, Typed, HashesTyped, TimersTyped, ClientsTyped, Exists

\* Somebody is in the challenge whose timer is set, cleared or called off.
LEMMA SetClientSound ==
    ASSUME Sound, NEW c \in Challenge, NEW k \in Client, NEW m \in ClientType, SetClient(c, k, m),
           HashesTyped', TimersTyped', Beside(c), UNCHANGED cut, RequestsTyped', RetriesTyped'
    PROVE  Sound'
<1>1. /\ ClientsTyped' /\ k \in DOMAIN clients'[c]
      /\ \A d \in Challenge : d # c => clients'[d] = clients[d]
    BY SetClientTyped DEF Sound
<1>2. Watched(c)'
    BY <1>1 DEF Watched, Members
<1>3. Timed'
    BY <1>1, <1>2, OneWatched DEF Sound
<1>4. QED
    BY <1>1, <1>3 DEF Sound, Typed

LEMMA EnterSound ==
    ASSUME Sound, NEW c \in Challenge, Exists(c), NEW k \in Client, NEW token \in Nat,
           Enter(c, k, token), CallOff(c) \/ KeepTimer, UNCHANGED cut,
           RequestsTyped', RetriesTyped'
    PROVE  Sound'
<1> DEFINE m == NewClient(c, k, token, ch[c].stage, ch[c].attempt)
<1>1. m \in ClientType
    BY EnterTyped DEF Sound
<1>2. SetClient(c, k, m)
    BY DEF Enter
<1>3. HashesTyped' /\ TimersTyped' /\ Beside(c)
    BY Bounds, TimerTyped DEF Sound, Timeout
<1> HIDE DEF m
<1>4. QED
    BY <1>1, <1>2, <1>3, SetClientSound

\* A client is removed, and if it was the last one the challenge is watched.
LEMMA RemoveClientSound ==
    ASSUME Sound, NEW c \in Challenge, NEW k, RemoveClient(c, k), NEW state \in Timeout,
           NEW retries \in Retries, SetTimer(c, state, retries) \/ KeepTimer,
           cut \subseteq cut', cut' \subseteq Challenge, RequestsTyped', RetriesTyped',
           \/ c \in cut' \/ ch[c].state # "active"
           \/ KeepTimer /\ (k \notin Members(c) \/ Members(c) # {k})
           \/ /\ SetTimer(c, state, retries)
              /\ retries # NoTimer /\ state \in {"cleanup", "challenge_end"}
    PROVE  Sound'
<1>1. /\ ClientsTyped' /\ DOMAIN clients'[c] = DOMAIN clients[c] \ {k}
      /\ \A d \in Challenge : d # c => clients'[d] = clients[d]
    BY RemoveClientTyped DEF Sound
<1>2. HashesTyped' /\ TimersTyped' /\ Beside(c) /\ ch'[c].state = ch[c].state
    BY TimerTyped DEF Sound
<1>3. Watched(c)'
  <2>1. CASE c \in cut' \/ ch[c].state # "active"
      BY <1>2, <2>1 DEF Watched
  <2>2. CASE KeepTimer /\ (k \notin Members(c) \/ Members(c) # {k})
    <3>1. DOMAIN clients'[c] = {} => DOMAIN clients[c] = {}
        BY <1>1, <2>2 DEF Members
    <3>2. QED
        BY <2>2, <3>1 DEF Sound, Timed, Watched, Members, KeepTimer, EndTimer
  <2>3. CASE /\ SetTimer(c, state, retries)
             /\ retries # NoTimer /\ state \in {"cleanup", "challenge_end"}
    <3>1. ch'[c].timeout = state /\ timer'[c] = retries
        BY <2>3, SetTimerIs DEF Sound
    <3>2. QED
        BY <2>3, <3>1 DEF Watched, EndTimer
  <2>4. QED
      BY <2>1, <2>2, <2>3
<1>4. Timed'
    BY <1>1, <1>2, <1>3, OneWatched DEF Sound
<1>5. QED
    BY <1>1, <1>2, <1>4 DEF Sound, Typed

\* A timer is written, and nobody comes or goes.
LEMMA TimerSound ==
    ASSUME Sound, NEW c \in Challenge, NEW state \in Timeout, NEW retries \in Retries,
           SetTimer(c, state, retries) \/ ClearTimer(c) \/ CallOff(c) \/ KeepTimer,
           UNCHANGED clients, cut \subseteq cut', cut' \subseteq Challenge,
           RequestsTyped', RetriesTyped', Watched(c)'
    PROVE  Sound'
<1>1. HashesTyped' /\ TimersTyped' /\ Beside(c)
    BY TimerTyped DEF Sound
<1>2. Timed'
    BY <1>1, OneWatched DEF Sound
<1>3. QED
    BY <1>1, <1>2 DEF Sound, Typed, ClientsTyped

\* Fields of a hash that are about the processing of stages.
LEMMA HashSound ==
    ASSUME Sound, NEW c \in Challenge, NEW status \in {"none", "in_progress", "completed", "other"},
           NEW processing \in {"no", "fresh", "stale"},
           \/ UNCHANGED ch
           \/ ch' = [ch EXCEPT ![c].processing = processing]
           \/ ch' = [ch EXCEPT ![c].status = status, ![c].processing = processing],
           UNCHANGED <<clients, timer, cut>>, RequestsTyped', RetriesTyped'
    PROVE  Sound'
<1>1. ch \in [Challenge -> HashType] /\ \A d \in Challenge : Exists(d) => ch[d].stage \in Stage
    BY DEF Sound, Typed, HashesTyped
<1>2. ch' \in [Challenge -> HashType]
    BY <1>1 DEF HashType
<1>3. \A d \in Challenge : /\ ch'[d].state = ch[d].state /\ ch'[d].timeout = ch[d].timeout
                           /\ ch'[d].stage = ch[d].stage
    BY <1>1 DEF HashType
<1>4. HashesTyped'
    BY <1>1, <1>2, <1>3 DEF HashesTyped, Exists
<1>5. Timed'
    BY <1>3, AllWatched DEF Sound
<1>6. QED
    BY <1>4, <1>5 DEF Sound, Typed, TimersTyped, ClientsTyped

-----------------------------------------------------------------------------
(* Requests                                                                  *)

LEMMA RequestMade ==
    ASSUME Inv, NEW k \in Client, NEW kind, NEW c, NEW stage,
           kind \in StageReports \cup {"create"} => stage \in Stage
    PROVE  RequestTyped(Request(kind, k, c, stage))
BY DEF Inv, ClientsOK, Request, RequestTyped

LEMMA InitSound == ASSUME Init
                   PROVE  Sound
<1> USE DEF Init
<1>1. HashesTyped
  <2>1. Gone \in HashType
      BY Bounds DEF Gone, HashType, Timeout
  <2>2. \A c \in Challenge : ~Exists(c)
      BY DEF Exists, Gone
  <2>3. QED
      BY <2>1, <2>2 DEF HashesTyped
<1>2. TimersTyped /\ RequestsTyped /\ cut \subseteq Challenge
    BY Bounds DEF TimersTyped, RequestsTyped
<1>3. ClientsTyped
    BY DEF ClientsTyped, Roster, NoClients
<1>4. RetriesTyped
    BY Bounds DEF RetriesTyped, Idle
<1>5. Timed
    BY DEF Timed, Watched, Gone
<1>6. QED
    BY <1>1, <1>2, <1>3, <1>4, <1>5 DEF Sound, Typed

LEMMA CreateSound ==
    ASSUME Inv, Sound, NEW k \in Client, NEW stage \in Stage, Create(k, stage),
           UNCHANGED <<at, ghost>>
    PROVE  Sound'
<1> DEFINE c == drawn + 1
           h == [Gone EXCEPT !.state = "initializing", !.status = "in_progress", !.stage = stage]
<1>1. c \in Challenge
    BY Drawn DEF Create, Challenge
<1>2. ch' = [ch EXCEPT ![c] = h]
    BY DEF Create
<1>3. h \in HashType /\ h.state = "initializing" /\ h.stage = stage
    BY Bounds DEF HashType, Timeout, Gone
<1>4. ch \in [Challenge -> HashType] /\ \A d \in Challenge : Exists(d) => ch[d].stage \in Stage
    BY DEF Sound, Typed, HashesTyped
<1> HIDE DEF c, h
<1>5. HashesTyped'
    BY <1>1, <1>2, <1>3, <1>4 DEF HashesTyped, Exists
<1>6. UNCHANGED <<clients, timer, cut, at>>
    BY DEF Create, ghost
<1>7. Timed'
    BY <1>1, <1>2, <1>3, <1>4, <1>6 DEF Sound, Timed, Watched, Members, EndTimer
<1>8. RequestsTyped'
    BY RequestMade, FlightTyped DEF Create, Sound
<1>9. RetriesTyped'
    BY <1>6, TickerWorks, WorkerTyped DEF Sound
<1>10. QED
    BY <1>5, <1>6, <1>7, <1>8, <1>9 DEF Sound, Typed, TimersTyped, ClientsTyped

LEMMA StartSound == ASSUME Inv, Sound, NEW k \in Client, NEW stage \in Stage, Start(k, stage)
                    PROVE  Sound'
<1> USE DEF Start
<1>1. CASE Create(k, stage)
    BY <1>1, CreateSound
<1>2. UNCHANGED <<at, cut>> /\ RetriesTyped'
    BY TickerWorks, WorkerTyped DEF ghost, Sound
<1>3. CASE party # {} /\ JoinAtOnce(k)
  <2>1. Latest \in Challenge /\ Exists(Latest)
      BY <1>3, LatestListed, Drawn DEF JoinAtOnce, Exists
  <2>2. conn[k] \in Nat
      BY DEF Inv, ClientsOK
  <2>3. Enter(Latest, k, conn[k]) /\ CallOff(Latest) /\ RequestsTyped'
      BY <1>3, FlightTyped DEF JoinAtOnce, Sound
  <2> HIDE DEF Start
  <2>4. QED
      BY <1>2, <2>1, <2>2, <2>3, EnterSound
<1>4. CASE JoinLater(k, stage)
  <2>1. RequestsTyped'
      BY <1>4, RequestMade, FlightTyped DEF JoinLater, Sound, StageReports
  <2>2. UNCHANGED <<ch, clients, timer>>
      BY <1>4 DEF JoinLater
  <2>3. QED
      BY <1>2, <2>1, <2>2, NothingWritten
<1>5. QED
    BY <1>1, <1>3, <1>4

\* What the requests of clients that set no timer leave alone.
LEMMA RequestSound ==
    ASSUME Inv, Sound, NEW k \in Client,
           AddClient(k) \/ FinishLost(k) \/ \E report \in Reports, stage \in Stage \cup {0} :
                                               Update(k, report, stage)
    PROVE  Sound'
<1>1. UNCHANGED <<ch, clients, timer, cut, at>>
    BY DEF AddClient, FinishLost, Update, redis, ghost, work
<1>2. RequestsTyped'
  <2>1. CASE AddClient(k) \/ FinishLost(k)
      BY <2>1, RequestMade, FlightTyped DEF AddClient, FinishLost, work, Sound, StageReports
  <2>2. ASSUME NEW report \in Reports, NEW stage \in Stage \cup {0}, Update(k, report, stage)
        PROVE  RequestsTyped'
    <3>1. report \in StageReports \cup {"create"} => stage \in Stage
        BY <2>2 DEF Update, Reports, StageReports
    <3>2. QED
        BY <2>2, <3>1, RequestMade, FlightTyped DEF Update, Sound
  <2>3. QED
      BY <2>1, <2>2
<1>3. RetriesTyped'
    BY <1>1, TickerWorks, WorkerTyped DEF Sound
<1>4. QED
    BY <1>1, <1>2, <1>3, NothingWritten

LEMMA FinishSound == ASSUME Inv, Sound, NEW k \in Client, NEW definite, Finish(k, definite)
                     PROVE  Sound'
<1> DEFINE c == joined[k]
<1> USE DEF Finish
<1>1. UNCHANGED <<cut, at, flight>> /\ c \in Challenge
    BY DEF ghost, work, Inv, ClientsOK
<1>2. RequestsTyped' /\ RetriesTyped' /\ cut' \subseteq Challenge
    BY <1>1, TickerWorks, WorkerTyped, FlightTyped DEF Sound, Typed
<1>3. CASE pointer[k] # c
    BY <1>1, <1>2, <1>3, NothingWritten
<1>4. CASE pointer[k] = c
  <2>1. PICK state \in {"cleanup", "challenge_end"}, retries \in {1, 3} :
           /\ SetTimer(c, state, retries) \/ KeepTimer
           /\ ~SetTimer(c, state, retries) => ch[c].state # "active" \/ k \notin Members(c)
      BY <1>4
  <2>2. state \in Timeout /\ retries \in Retries /\ retries # NoTimer
      BY Bounds DEF Timeout
  <2>3. RemoveClient(c, k)
      BY <1>4
  <2> HIDE DEF Finish, c
  <2>4. QED
      BY <1>1, <1>2, <2>1, <2>2, <2>3, RemoveClientSound
<1>5. QED
    BY <1>3, <1>4

LEMMA CreatedSound == ASSUME Inv, Sound, NEW r \in flight, Created(r)
                      PROVE  Sound'
<1> DEFINE c == r.c
           m == NewClient(c, r.k, r.token, ch[c].stage, ch[c].attempt)
<1> USE DEF Created
<1>1. c \in Challenge /\ r.k \in Client /\ Exists(c) /\ r.token \in Nat
    BY Untaken DEF Exists, Sound, Typed, RequestsTyped, RequestTyped
<1>2. m \in ClientType /\ SetClient(c, r.k, m)
    BY <1>1, EnterTyped DEF Enter, Sound
<1>3. ch' = [ch EXCEPT ![c].state = "active"] /\ UNCHANGED <<timer, cut, at>>
    BY DEF ghost
<1>4. ch \in [Challenge -> HashType] /\ \A d \in Challenge : Exists(d) => ch[d].stage \in Stage
    BY DEF Sound, Typed, HashesTyped
<1> HIDE DEF c, m, Created
<1>5. ch' \in [Challenge -> HashType]
    BY <1>1, <1>3, <1>4 DEF HashType
<1>6. \A d \in Challenge : ch'[d].stage = ch[d].stage /\ (d # c => ch'[d] = ch[d])
    BY <1>3, <1>4 DEF HashType
<1>7. HashesTyped' /\ TimersTyped' /\ Beside(c)
    BY <1>1, <1>3, <1>4, <1>5, <1>6 DEF HashesTyped, TimersTyped, Exists, Beside, Sound, Typed
<1>8. RequestsTyped' /\ RetriesTyped'
    BY <1>3, TickerWorks, WorkerTyped, FlightTyped DEF Sound, Created
<1>9. QED
    BY <1>1, <1>2, <1>3, <1>7, <1>8, SetClientSound

\* All keys of a challenge are deleted.
LEMMA DeleteSound ==
    ASSUME Inv, Sound, NEW c \in Challenge, NEW listed, Delete(c, listed),
           RequestsTyped', RetriesTyped'
    PROVE  Sound'
<1> USE DEF Delete
<1>1. Gone \in HashType /\ Roster(NoClients) /\ Gone.state = "none"
    BY Bounds DEF Gone, HashType, Timeout, Roster, NoClients
<1>2. /\ ch \in [Challenge -> HashType] /\ \A d \in Challenge : Exists(d) => ch[d].stage \in Stage
      /\ timer \in [Challenge -> Retries]
      /\ DOMAIN clients = Challenge /\ \A d \in Challenge : Roster(clients[d])
    BY DEF Sound, Typed, HashesTyped, TimersTyped, ClientsTyped
<1>3. HashesTyped' /\ TimersTyped' /\ ClientsTyped'
    BY <1>1, <1>2, Bounds DEF HashesTyped, TimersTyped, ClientsTyped, Exists
<1>4. Watched(c)'
    BY <1>1, <1>2 DEF Watched
<1>5. Beside(c) /\ \A d \in Challenge : d # c => clients'[d] = clients[d]
    BY <1>2 DEF Beside
<1>6. Timed'
    BY <1>4, <1>5, OneWatched DEF Sound
<1>7. QED
    BY <1>3, <1>6 DEF Sound, Typed

LEMMA CreateFailedSound == ASSUME Inv, Sound, NEW r \in flight, CreateFailed(r)
                           PROVE  Sound'
<1>1. r.c \in Challenge /\ Delete(r.c, TRUE) /\ UNCHANGED at /\ flight' \subseteq flight
    BY Untaken DEF CreateFailed
<1>2. RequestsTyped' /\ RetriesTyped'
    BY <1>1, TickerWorks, WorkerTyped, FlightTyped DEF Sound
<1>3. QED
    BY <1>1, <1>2, DeleteSound

LEMMA JoinedSound == ASSUME Inv, Sound, NEW r \in flight, DeferredJoin(r) \/ Added(r)
                     PROVE  Sound'
<1> USE DEF DeferredJoin, Added
<1>1. r.k \in Client /\ r.c \in Challenge /\ r.token \in Nat
    BY Drawn DEF Inv, RequestsOK, RequestOK, Sound, Typed, RequestsTyped, RequestTyped
<1>2. UNCHANGED <<cut, at>> /\ RequestsTyped' /\ RetriesTyped'
    BY TickerWorks, WorkerTyped, FlightTyped DEF Sound, ghost
<1>3. CASE ch[r.c].state = "active"
  <2>1. Enter(r.c, r.k, r.token) /\ (CallOff(r.c) \/ KeepTimer) /\ Exists(r.c)
      BY <1>3 DEF KeepTimer, Exists
  <2> HIDE DEF DeferredJoin, Added
  <2>2. QED
      BY <1>1, <1>2, <2>1, EnterSound
<1>4. CASE ch[r.c].state # "active"
    BY <1>2, <1>4, NothingWritten
<1>5. QED
    BY <1>3, <1>4

-----------------------------------------------------------------------------
(* Updates and events                                                        *)

\* An update that reports nothing: a cleanup that is called off for nobody in
\* the challenge is put down in cut.
LEMMA CalledOffSound ==
    ASSUME Sound, NEW c \in Challenge, NEW k, CallOff(c), UNCHANGED clients,
           cut' = IF CalledOff(c) /\ k \notin Members(c) THEN cut \cup {c} ELSE cut,
           RequestsTyped', RetriesTyped'
    PROVE  Sound'
<1>1. cut \subseteq cut' /\ cut' \subseteq Challenge
    BY DEF Sound, Typed
<1>2. Watched(c)'
  <2>1. CASE CalledOff(c)
      BY <2>1 DEF Watched, Members
  <2>2. CASE ~CalledOff(c)
      BY <1>1, <2>2 DEF CallOff, KeepTimer, Sound, Timed, Watched, Members, EndTimer
  <2>3. QED
      BY <2>1, <2>2
<1>3. QED
    BY <1>1, <1>2, Bounds, TimerSound DEF Timeout

\* A client reports progress of a challenge that it is in.
LEMMA ReportSound ==
    ASSUME Inv, Sound, NEW r \in flight, NEW m \in ClientType, r.c \in Challenge, r.k \in Client,
           Exists(r.c), UNCHANGED cut, RequestsTyped',
           ReportEntered(r, m) \/ ReportStarted(r, m) \/ ReportFinished(r, m)
    PROVE  Sound'
<1> DEFINE c == r.c
<1>1. r.stage \in Stage
    BY DEF ReportEntered, ReportStarted, ReportFinished, StageReports, Sound, Typed, RequestsTyped,
           RequestTyped
<1>2. CASE ReportEntered(r, m)
  <2> DEFINE n == [m EXCEPT !.stage = r.stage, !.done = FALSE, !.active = TRUE]
  <2>1. n \in ClientType
      BY <1>1 DEF ClientType
  <2>2. SetClient(c, r.k, n) /\ CallOff(c) /\ RetriesTyped'
      BY <1>2, TickerWorks, WorkerTyped DEF ReportEntered, Sound
  <2>3. HashesTyped' /\ TimersTyped' /\ Beside(c)
      BY <2>2, Bounds, TimerTyped DEF Sound, Timeout
  <2> HIDE DEF n
  <2>4. QED
      BY <2>1, <2>2, <2>3, SetClientSound
<1>3. CASE ReportStarted(r, m)
  <2> DEFINE attempt == StartedAttempt(c, m, r.stage)
             n == [m EXCEPT !.stage = r.stage, !.attempt = attempt, !.done = FALSE, !.active = TRUE]
             timeout == IF CalledOff(c) THEN "none" ELSE ch[c].timeout
  <2>1. ch \in [Challenge -> HashType] /\ timer \in [Challenge -> Retries]
        /\ \A d \in Challenge : Exists(d) => ch[d].stage \in Stage
      BY DEF Sound, Typed, HashesTyped, TimersTyped
  <2>2. attempt \in Attempt
    <3>1. ch[c].attempt \in Nat
        BY <2>1, ManagerAssumption DEF HashType, Attempt
    <3>2. attempt \in Nat
        BY <3>1 DEF StartedAttempt, FirstAttempt
    <3>3. QED
        BY <1>3, <3>2, ManagerAssumption DEF ReportStarted, Attempt
  <2>3. SetClient(c, r.k, n) /\ RetriesTyped'
      BY <1>3, TickerWorks, WorkerTyped DEF ReportStarted, Sound
  <2>4. ch' = [ch EXCEPT ![c].stage = r.stage, ![c].attempt = attempt, ![c].timeout = timeout]
      BY <1>3, <2>1 DEF ReportStarted, HashType
  <2>5. timeout \in Timeout
      BY <2>1 DEF HashType, Timeout
  <2> HIDE DEF attempt, timeout
  <2>6. n \in ClientType
      BY <1>1, <2>2 DEF ClientType
  <2>7. /\ ch' \in [Challenge -> HashType]
        /\ \A d \in Challenge : /\ ch'[d].state = ch[d].state
                                /\ d # c => ch'[d] = ch[d]
        /\ ch'[c].stage = r.stage
      BY <1>1, <2>1, <2>2, <2>4, <2>5 DEF HashType
  <2>8. timer' \in [Challenge -> Retries] /\ \A d \in Challenge : d # c => timer'[d] = timer[d]
      BY <1>3, <2>1, Bounds DEF ReportStarted
  <2>9. HashesTyped' /\ TimersTyped' /\ Beside(c)
      BY <1>1, <2>1, <2>7, <2>8 DEF HashesTyped, TimersTyped, Exists, Beside
  <2> HIDE DEF n
  <2>10. QED
      BY <2>3, <2>6, <2>9, SetClientSound
<1>4. CASE ReportFinished(r, m)
  <2> DEFINE n == [m EXCEPT !.stage = r.stage, !.done = TRUE, !.active = TRUE,
                            !.last = <<r.stage, m.attempt>>]
  <2>1. n \in ClientType
      BY <1>1 DEF ClientType
  <2>2. SetClient(c, r.k, n) /\ (KeepTimer \/ ClearTimer(c) \/ SetTimer(c, "stage_end", 0))
      BY <1>4 DEF ReportFinished
  <2>3. HashesTyped' /\ TimersTyped' /\ Beside(c)
    <3>1. "stage_end" \in Timeout /\ 0 \in Retries
        BY Bounds DEF Timeout
    <3>2. QED
        BY <2>2, <3>1, TimerTyped DEF Sound
  <2>4. RetriesTyped'
    <3>1. CASE UNCHANGED at
        BY <3>1, TickerWorks, WorkerTyped DEF Sound
    <3> DEFINE a == [Idle EXCEPT !.pc = "mark", !.c = c, !.stage = r.stage, !.attempt = m.attempt]
    <3>2. a.retries \in Retries /\ Task \subseteq Worker
        BY Bounds DEF Idle, Worker
    <3>3. UNCHANGED at \/ \E w \in Task : Begin(w, a)
        BY <1>4 DEF ReportFinished
    <3> HIDE DEF a
    <3>4. QED
        BY <3>1, <3>2, <3>3, WorkerTyped DEF Sound
  <2> HIDE DEF n
  <2>5. QED
      BY <2>1, <2>2, <2>3, <2>4, SetClientSound
<1>5. QED
    BY <1>2, <1>3, <1>4

LEMMA HandleUpdateSound == ASSUME Inv, Sound, NEW r \in flight, HandleUpdate(r)
                           PROVE  Sound'
<1> DEFINE c == r.c
<1> USE DEF HandleUpdate
<1>1. c \in Challenge /\ r.k \in Client
    BY Drawn DEF Inv, RequestsOK, RequestOK
<1>2. RequestsTyped'
    BY FlightTyped DEF Sound
<1>3. CASE ch[c].state = "none" /\ UNCHANGED <<ch, clients, timer, pointer, at, cut>>
  <2>1. RetriesTyped'
      BY <1>3, TickerWorks, WorkerTyped DEF Sound
  <2>2. QED
      BY <1>2, <1>3, <2>1, NothingWritten
<1>4. CASE NoProgress(r)
  <2>1. RetriesTyped'
      BY <1>4, TickerWorks, WorkerTyped DEF Sound, NoProgress
  <2> HIDE DEF HandleUpdate
  <2>2. QED
      BY <1>1, <1>2, <1>4, <2>1, CalledOffSound DEF NoProgress
<1>5. CASE EntryMode(r)
  <2> DEFINE a == [Idle EXCEPT !.pc = "decide", !.c = c, !.retries = NoTimer]
  <2>1. PICK w \in Task : Begin(w, a)
      BY <1>5 DEF EntryMode
  <2>2. a.retries \in Retries /\ w \in Worker
      BY Bounds DEF Idle, Worker
  <2> HIDE DEF a, HandleUpdate
  <2>3. RetriesTyped'
      BY <2>1, <2>2, WorkerTyped DEF Sound
  <2>4. QED
      BY <1>1, <1>2, <1>5, <2>3, CalledOffSound DEF EntryMode
<1>6. CASE /\ ch[c].state # "none" /\ r.k \in Members(c) /\ UNCHANGED cut
           /\ LET m == clients[c][r.k]
              IN ReportEntered(r, m) \/ ReportStarted(r, m) \/ ReportFinished(r, m)
  <2> DEFINE m == clients[c][r.k]
  <2>1. m \in ClientType /\ Exists(c)
      BY <1>1, <1>6 DEF Sound, Typed, ClientsTyped, Roster, Members, Exists
  <2>2. ReportEntered(r, m) \/ ReportStarted(r, m) \/ ReportFinished(r, m)
      BY <1>6
  <2> HIDE DEF HandleUpdate, m
  <2>3. QED
      BY <1>1, <1>2, <1>6, <2>1, <2>2, ReportSound
<1>7. QED
    BY <1>3, <1>4, <1>5, <1>6

LEMMA HandleEventSound == ASSUME Inv, Sound, HandleEvent
                          PROVE  Sound'
<1> DEFINE c == event.c
           k == event.k
<1> USE DEF HandleEvent
<1>1. c \in Challenge /\ k \in Client
    BY Drawn DEF Inv, EventsOK, EventType
<1>2. RequestsTyped' /\ RetriesTyped'
    BY TickerWorks, WorkerTyped, FlightTyped DEF Sound
<1>3. CASE IgnoreEvent
    BY <1>2, <1>3, NothingWritten DEF IgnoreEvent
<1>4. CASE RemoveStray(event)
  <2>1. /\ RemoveClient(c, k) /\ KeepTimer /\ (c \in cut' \/ Members(c) # {k})
        /\ cut \subseteq cut' /\ cut' \subseteq Challenge
      BY <1>1, <1>4 DEF RemoveStray, Sound, Typed
  <2> HIDE DEF HandleEvent, c, k
  <2>2. QED
      BY <1>1, <1>2, <2>1, Bounds, RemoveClientSound DEF Timeout
<1>5. ASSUME NEW active \in BOOLEAN, k \in Members(c), UNCHANGED cut,
             SetClient(c, k, [clients[c][k] EXCEPT !.active = active]),
             CallOff(c) \/ SetTimer(c, "cleanup", 0) \/ KeepTimer
      PROVE  Sound'
  <2> DEFINE m == [clients[c][k] EXCEPT !.active = active]
  <2>1. m \in ClientType
    <3>1. clients[c][k] \in ClientType
        BY <1>1, <1>5 DEF Sound, Typed, ClientsTyped, Roster, Members
    <3>2. QED
        BY <3>1 DEF ClientType
  <2>2. HashesTyped' /\ TimersTyped' /\ Beside(c)
    <3>1. "cleanup" \in Timeout /\ 0 \in Retries
        BY Bounds DEF Timeout
    <3>2. QED
        BY <1>1, <1>5, <3>1, TimerTyped DEF Sound
  <2>3. SetClient(c, k, m)
      BY <1>5
  <2> HIDE DEF HandleEvent, c, k, m
  <2>4. QED
      BY <1>1, <1>2, <1>5, <2>1, <2>2, <2>3, SetClientSound
<1>6. CASE SetClientActive(event)
    BY <1>3, <1>4, <1>5, <1>6 DEF SetClientActive, Ours
<1>7. CASE SetClientInactive(event)
  <2>1. CASE k \notin Members(c) /\ RemoveClient(c, k) /\ KeepTimer /\ UNCHANGED cut
    <3>1. cut' \subseteq Challenge
        BY <2>1 DEF Sound, Typed
    <3> HIDE DEF HandleEvent, c, k
    <3>2. QED
        BY <1>1, <1>2, <2>1, <3>1, Bounds, RemoveClientSound DEF Timeout
  <2>2. QED
      BY <1>3, <1>4, <1>5, <1>7, <2>1 DEF SetClientInactive, Ours
<1>8. CASE RemoveDisconnected(event)
  <2>1. CASE /\ k \in Members(c) /\ RemoveClient(c, k) /\ UNCHANGED cut
             /\ IF ~Taken(c) /\ LastOut(event) THEN SetTimer(c, "cleanup", 3) ELSE KeepTimer
    <3>1. cut' \subseteq Challenge /\ 3 \in Retries /\ 3 # NoTimer /\ "cleanup" \in Timeout
        BY <2>1, Bounds DEF Sound, Typed, Timeout
    <3>2. SetTimer(c, "cleanup", 3) \/ KeepTimer
        BY <2>1
    <3>3. \/ SetTimer(c, "cleanup", 3)
          \/ ch[c].state # "active"
          \/ KeepTimer /\ Members(c) # {k}
        BY <2>1 DEF Taken, LastOut
    <3> HIDE DEF HandleEvent, c, k
    <3>4. QED
        BY <1>1, <1>2, <2>1, <3>1, <3>2, <3>3, RemoveClientSound
  <2>2. QED
      BY <1>3, <1>8, <2>1 DEF RemoveDisconnected, Ours
<1>9. QED
    BY <1>6, <1>7, <1>8

-----------------------------------------------------------------------------
(* Timeouts, cleanup and stage completion                                    *)

\* Steps that write neither hashes nor clients nor timers.
LEMMA IdleSound ==
    ASSUME Sound, UNCHANGED <<redis, cut>>, flight' \subseteq flight, RetriesTyped'
    PROVE  Sound'
BY FlightTyped, NothingWritten DEF redis, Sound

LEMMA QuietWorkSound ==
    ASSUME Inv, Sound, NEW w \in Worker,
           \/ Close(w) \/ FinishChallenge(w) \/ Load(w) \/ StepFails(w)
           \/ w = Ticker /\ (ReadState \/ HandleStageEndTimeout)
           \/ w = Ticker /\ \E c \in Challenge : Fire(c)
    PROVE  Sound'
<1>1. UNCHANGED <<redis, cut>> /\ flight' \subseteq flight
    BY DEF Close, FinishChallenge, Load, StepFails, ReadState, HandleStageEndTimeout, Fire, ghost
<1>2. CASE Close(w) \/ FinishChallenge(w) \/ Load(w) \/ StepFails(w) \/ (w = Ticker /\ ReadState)
  <2>1. RetriesTyped'
      BY <1>2, WorkerTyped DEF Sound, Close, FinishChallenge, Load, StepFails, ReadState
  <2>2. QED
      BY <1>1, <2>1, IdleSound
<1>3. CASE w = Ticker /\ HandleStageEndTimeout
  <2>1. CASE Step(w, "check")
      BY <1>1, <2>1, WorkerTyped, IdleSound DEF Sound
  <2>2. CASE \E top : Begin(Ticker, [at[Ticker] EXCEPT !.pc = "load", !.stage = top[1],
                                                       !.attempt = top[2], !.next = "check"])
    <3> PICK top : Begin(Ticker, [at[Ticker] EXCEPT !.pc = "load", !.stage = top[1],
                                                    !.attempt = top[2], !.next = "check"])
        BY <2>2
    <3> DEFINE a == [at[w] EXCEPT !.pc = "load", !.stage = top[1], !.attempt = top[2],
                                  !.next = "check"]
    <3>1. DOMAIN at[w] = DOMAIN Idle /\ at[w].retries \in Retries
        BY DEF Inv, WorkersOK, WorkOK, Sound, Typed, RetriesTyped
    <3>2. a.retries \in Retries /\ Begin(w, a)
        BY <1>3, <3>1 DEF Idle
    <3> HIDE DEF a
    <3>3. QED
        BY <1>1, <3>2, WorkerTyped, IdleSound DEF Sound
  <2>3. QED
      BY <1>3, <2>1, <2>2 DEF HandleStageEndTimeout
<1>4. ASSUME NEW c \in Challenge, w = Ticker, Fire(c)
      PROVE  Sound'
  <2> DEFINE a == [Idle EXCEPT !.pc = "due", !.c = c, !.retries = timer[c]]
  <2>1. timer[c] \in Retries
      BY DEF Sound, Typed, TimersTyped
  <2>2. a.retries \in Retries
      BY <2>1 DEF Idle
  <2>3. Begin(w, a)
      BY <1>4 DEF Fire
  <2> HIDE DEF a
  <2>4. QED
      BY <1>1, <2>2, <2>3, WorkerTyped, IdleSound DEF Sound
<1>5. QED
    BY <1>2, <1>3, <1>4

\* A worker clears a timer.  If it is not the one it takes it for, that is put
\* down in cut; a stage end timer is not the timer of an empty challenge.
LEMMA ClearSound ==
    ASSUME Inv, Sound, NEW w \in Worker, NEW c \in Challenge, ClearTimer(c), UNCHANGED clients,
           NEW known \in {"none", "stage_end"},
           cut' = IF ch[c].timeout # known THEN cut \cup {c} ELSE cut,
           RequestsTyped', RetriesTyped'
    PROVE  Sound'
<1>1. cut \subseteq cut' /\ cut' \subseteq Challenge
    BY DEF Sound, Typed
<1>2. ch'[c].state = ch[c].state
    BY Bounds, TimerTyped DEF Sound, Timeout
<1>3. Watched(c)'
    BY <1>2 DEF Sound, Timed, Watched, Members, EndTimer
<1>4. QED
    BY <1>1, <1>3, Bounds, TimerSound DEF Timeout

LEMMA TimerWorkSound ==
    ASSUME Inv, Sound, NEW w \in Worker,
           \/ w = Ticker /\ (Drop \/ CheckForActiveClients)
           \/ ClearStageEnd(w)
    PROVE  Sound'
<1>1. PICK c \in Challenge : c = at[w].c
    BY Busy, Drawn DEF Drop, CheckForActiveClients, ClearStageEnd
<1>2. UNCHANGED clients /\ RequestsTyped' /\ RetriesTyped'
    BY WorkerTyped, FlightTyped DEF Drop, CheckForActiveClients, ClearStageEnd, Elsewhere, Sound
<1>3. CASE w = Ticker /\ Drop
  <2>1. ClearTimer(c) /\ cut' = IF ch[c].timeout # "none" THEN cut \cup {c} ELSE cut
      BY <1>1, <1>3 DEF Drop
  <2>2. QED
      BY <1>1, <1>2, <2>1, ClearSound
<1>4. CASE ClearStageEnd(w)
  <2>1. ClearTimer(c) /\ cut' = IF ch[c].timeout # "stage_end" THEN cut \cup {c} ELSE cut
      BY <1>1, <1>4 DEF ClearStageEnd
  <2>2. QED
      BY <1>1, <1>2, <2>1, ClearSound
<1>5. CASE w = Ticker /\ CheckForActiveClients
  <2>1. (SetTimer(c, "cleanup", 3) \/ KeepTimer) /\ UNCHANGED cut
      BY <1>1, <1>5 DEF CheckForActiveClients, ghost
  <2>2. "cleanup" \in Timeout /\ 3 \in Retries /\ 3 # NoTimer /\ cut' \subseteq Challenge
      BY <2>1, Bounds DEF Timeout, Sound, Typed
  <2>3. Watched(c)'
    <3>1. CASE SetTimer(c, "cleanup", 3)
        BY <1>1, <2>2, <3>1, SetTimerIs DEF Sound, Watched, EndTimer
    <3>2. CASE KeepTimer
        BY <1>1, <1>2, <2>1, <3>2 DEF KeepTimer, Sound, Timed, Watched, Members, EndTimer
    <3>3. QED
        BY <2>1, <3>1, <3>2
  <2>4. QED
      BY <1>1, <1>2, <2>1, <2>2, <2>3, TimerSound
<1>6. QED
    BY <1>3, <1>4, <1>5

LEMMA CleanupSound == ASSUME Inv, Sound, NEW w \in Worker, CleanupChallenge(w)
                      PROVE  Sound'
<1> DEFINE n == at[w].retries
<1>1. PICK c \in Challenge : c = at[w].c /\ n \in Retries
    BY Busy, Drawn DEF CleanupChallenge, Sound, Typed, RetriesTyped
<1>2. UNCHANGED <<clients, cut>> /\ cut' \subseteq Challenge /\ RequestsTyped'
    BY FlightTyped DEF CleanupChallenge, Elsewhere, ghost, Sound, Typed
<1>3. RetriesTyped'
    BY WorkerTyped DEF CleanupChallenge, PutOff, NotDue, CloseOrRetry, Sound
<1>4. ch[c].timeout \in Timeout
    BY <1>1 DEF Sound, Typed, HashesTyped, HashType
<1>5. CASE KeepTimer
    BY <1>2, <1>3, <1>5, NothingWritten DEF KeepTimer
<1>6. ASSUME NEW state \in Timeout, NEW retries \in Retries, SetTimer(c, state, retries),
             retries # NoTimer,
             ch[c].timeout \in {"cleanup", "challenge_end"} => state = ch[c].timeout
      PROVE  Sound'
  <2>1. ch'[c].timeout = state /\ timer'[c] = retries /\ ch'[c].state = ch[c].state
      BY <1>1, <1>6, SetTimerIs, TimerTyped DEF Sound
  <2>2. Watched(c)'
      BY <1>1, <1>2, <1>6, <2>1 DEF Sound, Timed, Watched, Members, EndTimer
  <2>3. QED
      BY <1>1, <1>2, <1>3, <1>6, <2>2, TimerSound
<1>7. CASE PutOff(w)
  <2>1. CASE ~Forced(w)
      BY <1>1, <1>4, <1>6, <1>7, <2>1 DEF PutOff, Forced
  <2>2. CASE Forced(w)
    <3> DEFINE state == IF ch[c].timeout = "none" THEN "challenge_end" ELSE ch[c].timeout
    <3>1. state \in Timeout /\ 0 \in Retries /\ 0 # NoTimer
        BY <1>4, Bounds DEF Timeout
    <3>2. SetTimer(c, state, 0)
        BY <1>1, <1>7, <2>2 DEF PutOff
    <3>3. ch[c].timeout \in {"cleanup", "challenge_end"} => state = ch[c].timeout
        OBVIOUS
    <3> HIDE DEF state
    <3>4. QED
        BY <1>6, <3>1, <3>2, <3>3
  <2>3. QED
      BY <2>1, <2>2
<1>8. CASE ~LastTry(w) /\ SetTimer(c, ch[c].timeout, n - 1)
  <2>1. n - 1 \in Retries /\ n - 1 # NoTimer
      BY <1>1, <1>8, Bounds DEF LastTry, Retries
  <2>2. QED
      BY <1>4, <1>6, <1>8, <2>1
<1>9. CASE ch' = [ch EXCEPT ![c].state = "cleanup", ![c].processing = "no"] /\ UNCHANGED timer
           /\ ~Taken(c)
  <2>1. ch \in [Challenge -> HashType] /\ \A d \in Challenge : Exists(d) => ch[d].stage \in Stage
      BY DEF Sound, Typed, HashesTyped
  <2>2. ch' \in [Challenge -> HashType]
    <3> DEFINE h == [ch[c] EXCEPT !.state = "cleanup", !.processing = "no"]
    <3>1. h \in HashType
        BY <2>1 DEF HashType
    <3>2. ch' = [ch EXCEPT ![c] = h]
        BY <1>9
    <3> HIDE DEF h
    <3>3. QED
        BY <2>1, <3>1, <3>2
  <2>3. \A d \in Challenge : /\ ch'[d].stage = ch[d].stage /\ ch'[d].timeout = ch[d].timeout
                             /\ d # c => ch'[d].state = ch[d].state
      BY <1>9, <2>1 DEF HashType
  <2>4. ch'[c].state = "cleanup" /\ Exists(c)
      BY <1>1, <1>9, <2>1 DEF HashType, Taken, Exists
  <2>5. HashesTyped'
      BY <2>1, <2>2, <2>3, <2>4 DEF HashesTyped, Exists
  <2>6. Timed'
      BY <1>2, <1>9, <2>3, <2>4, AllWatched DEF Sound
  <2>7. QED
      BY <1>2, <1>3, <1>9, <2>5, <2>6 DEF Sound, Typed, TimersTyped, ClientsTyped
<1>10. QED
    BY <1>1, <1>5, <1>7, <1>8, <1>9 DEF CleanupChallenge, NotDue, CloseOrRetry

LEMMA DeleteChallengeSound == ASSUME Inv, Sound, NEW w \in Worker, DeleteChallenge(w)
                              PROVE  Sound'
<1> DEFINE c == at[w].c
           listed == ch[c].state \in {"active", "cleanup"}
<1>1. c \in Challenge /\ Delete(c, listed)
    BY Busy, Drawn DEF DeleteChallenge
<1>2. RequestsTyped' /\ RetriesTyped'
    BY WorkerTyped, FlightTyped DEF DeleteChallenge, Sound
<1> HIDE DEF c, listed
<1>3. QED
    BY <1>1, <1>2, DeleteSound

LEMMA CompletionSound ==
    ASSUME Inv, Sound, NEW w \in Worker, Mark(w) \/ Claim(w) \/ ReadStream(w) \/ WriteBack(w)
    PROVE  Sound'
<1> DEFINE c == at[w].c
<1>1. c \in Challenge
    BY Busy, Drawn DEF Mark, Claim, ReadStream, WriteBack
<1>2. UNCHANGED <<clients, timer, cut>> /\ RequestsTyped'
    BY FlightTyped DEF Mark, Claim, ReadStream, WriteBack, Elsewhere, ghost, Sound
<1>3. RetriesTyped'
    BY WorkerTyped DEF Mark, Claim, ReadStream, WriteBack, Sound
<1>4. PICK status \in {"none", "in_progress", "completed", "other"},
           processing \in {"no", "fresh", "stale"} :
        \/ UNCHANGED ch
        \/ ch' = [ch EXCEPT ![c].processing = processing]
        \/ ch' = [ch EXCEPT ![c].status = status, ![c].processing = processing]
  <2>1. CASE Mark(w) \/ Claim(w) \/ ReadStream(w)
      BY <2>1 DEF Mark, Claim, ReadStream
  <2>2. CASE WriteBack(w)
    <3>1. ch[c].status \in {"none", "in_progress", "completed", "other"}
        BY <1>1 DEF Sound, Typed, HashesTyped, HashType
    <3>2. QED
        BY <2>2, <3>1 DEF WriteBack
  <2>3. QED
      BY <2>1, <2>2
<1> HIDE DEF c
<1>5. QED
    BY <1>1, <1>2, <1>3, <1>4, HashSound

-----------------------------------------------------------------------------
(* Types hold, and empty challenges end                                      *)

LEMMA NextSound == ASSUME Inv, Sound, Next
                   PROVE  Sound'
<1>1. CASE Requests
    BY <1>1, StartSound, RequestSound, FinishSound DEF Requests
<1>2. CASE Connections \/ PopEvent
  <2>1. UNCHANGED <<redis, cut, flight, at>>
      BY <1>2 DEF Connections, Connect, Disconnect, Status, PopEvent, work, ghost
  <2>2. QED
      BY <2>1, TickerWorks, WorkerTyped, IdleSound DEF Sound
<1>3. CASE HandleRequest
    BY <1>3, CreatedSound, CreateFailedSound, JoinedSound, HandleUpdateSound DEF HandleRequest
<1>4. CASE HandleEvent
    BY <1>4, HandleEventSound
<1>5. CASE Timeouts
    BY <1>5, TickerWorks, QuietWorkSound, TimerWorkSound DEF Timeouts
<1>6. ASSUME NEW w \in Worker, WorkerStep(w) \/ StepFails(w)
      PROVE  Sound'
    BY <1>6, CleanupSound, QuietWorkSound, DeleteChallengeSound, CompletionSound, TimerWorkSound
       DEF WorkerStep
<1>7. ASSUME NEW c \in Challenge, TakesTooLong(c)
      PROVE  Sound'
  <2>1. /\ ch' = [ch EXCEPT ![c].processing = "stale"]
        /\ UNCHANGED <<clients, timer, cut, flight, at>>
      BY <1>7 DEF TakesTooLong, work, ghost
  <2>2. RequestsTyped' /\ RetriesTyped'
      BY <2>1, TickerWorks, WorkerTyped, FlightTyped DEF Sound
  <2>3. QED
      BY <2>1, <2>2, HashSound
<1>8. CASE Crash
  <2>1. UNCHANGED <<redis, cut>> /\ flight' \subseteq flight
      BY <1>8 DEF Crash, ghost
  <2>2. RetriesTyped'
      BY <1>8, Bounds DEF Crash, RetriesTyped, Idle
  <2>3. QED
      BY <2>1, <2>2, IdleSound
<1>9. QED
    BY <1>1, <1>2, <1>3, <1>4, <1>5, <1>6, <1>7, <1>8 DEF Next

LEMMA SoundHolds == Spec => [](Inv /\ Sound)
<1>1. Init => Inv /\ Sound
    BY InitInv, InitSound
<1>2. Inv /\ Sound /\ [Next]_vars => (Inv /\ Sound)'
  <2>1. ASSUME Inv, Sound, UNCHANGED vars
        PROVE  Sound'
    <3>1. UNCHANGED <<redis, cut, flight, at>>
        BY <2>1 DEF vars, work, ghost
    <3>2. QED
        BY <2>1, <3>1, TickerWorks, WorkerTyped, IdleSound DEF Sound
  <2>2. QED
      BY <2>1, NextKeeps, StutterKeeps, NextSound
<1>3. QED
    BY <1>1, <1>2, PTL DEF Spec

\* Hashes, clients and timers keep their types: a timer never has less than no
\* retries left, and a client never has a stage or attempt that does not exist.
THEOREM TypeCorrect == Spec => []TypeOK
<1>1. Inv /\ Sound => TypeOK
  <2> SUFFICES ASSUME Inv, Sound
               PROVE  TypeOK
      OBVIOUS
  <2>1. party \subseteq Challenge
      BY Drawn DEF Inv, Base
  <2>2. /\ pointer \in [Client -> Challenge \cup {NoChallenge}]
        /\ joined \in [Client -> Challenge \cup {NoChallenge}]
        /\ drawn \in 0..MaxChallenges /\ finished \in [Challenge -> Nat]
        /\ cut \subseteq Challenge
      BY DEF Inv, ClientsOK, Base, Sound, Typed
  <2>3. \A c \in Challenge :
          /\ ch[c] \in HashType /\ timer[c] \in Retries
          /\ Members(c) \subseteq Client /\ \A k \in Members(c) : clients[c][k] \in ClientType
      BY DEF Sound, Typed, HashesTyped, TimersTyped, ClientsTyped, Roster, Members
  <2>4. QED
      BY <2>1, <2>2, <2>3 DEF TypeOK, HashType, Timeout, Retries
<1>2. QED
    BY <1>1, SoundHolds, PTL

\* A challenge that everyone has left has a timer that will end it, whoever left
\* it and whatever was timed before (finish, handleClientEvent), unless its timer
\* was taken away by someone who had read something else.
THEOREM EmptyEnds == Spec => []EmptyIsTimed
<1>1. Sound => EmptyIsTimed
    BY DEF Sound, Timed, Watched, EmptyIsTimed, EndTimer
<1>2. QED
    BY <1>1, SoundHolds, PTL
=============================================================================
