---------------------------- MODULE ChallengeManager ----------------------------
(***************************************************************************)
(* The older challenge server (challenge-server/challenge-manager.ts and    *)
(* the Redis client under it): one party's challenges, the clients that     *)
(* record them, the timers that end them and the tasks that complete their  *)
(* stages.                                                                  *)
(*                                                                          *)
(* A transaction of RedisClient watches what it reads and is repeated until *)
(* nothing changed under it: it is one step.  What a handler reads outside  *)
(* its transaction, and what a pipeline writes, are steps of their own, and *)
(* anything may happen in between.                                          *)
(*                                                                          *)
(* Abstractions.  Time is left out: a timer that is set may fire, and a     *)
(* stage that is being processed may take too long, at any moment.  A null  *)
(* attempt is 0.  What stages contain is left out: a stream may be found    *)
(* empty or not, the merged events may complete the challenge or not.  A    *)
(* hash that was deleted has state "none", also when a late write brings    *)
(* some other field back: it cannot be loaded.                              *)
(***************************************************************************)
EXTENDS Integers, Sequences

CONSTANTS
    Client,                 \* recording clients
    NoTimer,
    LastStage, Retriable,   \* stages are 1..LastStage; those that can be restarted
    Ticker, Task,           \* the timeout task, and slots for background tasks
    MaxAttempt, MaxSends, MaxChallenges, MaxFaults  \* bounds

ASSUME ManagerAssumption ==
    /\ LastStage \in Nat \ {0} /\ Retriable \subseteq 1..LastStage
    /\ NoTimer \notin Int
    /\ Ticker \notin Task
    /\ {MaxAttempt, MaxChallenges, MaxSends, MaxFaults} \subseteq Nat

Challenge   == 1..MaxChallenges      \* uuids, in the order they are drawn
NoChallenge == 0
Stage   == 1..LastStage
Attempt == 0..MaxAttempt
Worker  == Task \cup {Ticker}

VARIABLES
    ch,         \* challenge hashes: lifecycle, status, stage, attempt, timeout, processing
    clients,    \* their clients
    timer,      \* expiring-challenges: the retries a challenge's timer has left
    processed,  \* stages claimed for completion
    pointer,    \* clientChallenges: the challenge a client is in
    drawn,      \* uuids drawn
    party,      \* the party's list of challenges: in the order drawn, as a set
    online, conn,           \* client connections and their count, the session token
    joined,     \* the challenge a client was told it is in
    flight,     \* requests between two steps
    queue, event,           \* client events, last pushed first; the one in hand
    at,         \* what each worker is doing
    merged,     \* attempts of stages merged, as long as the challenge exists
    again,      \* challenges of which an attempt was merged that had been before
    finished,   \* times a challenge was finalised in the database
    cut,        \* challenges whose timer was cleared on an outdated reading, or
                \* whose last client was removed without setting one
    sends,      \* messages of clients
    faults

redis  == <<ch, clients, timer, processed, pointer, drawn, party>>
player == <<online, conn, joined>>
work   == <<flight, queue, event, at>>
ghost  == <<merged, again, finished, cut>>
count  == <<sends, faults>>
vars   == <<redis, player, work, ghost, count>>

\* A deleted hash; a field set later brings back that field alone.
Gone == [state |-> "none", status |-> "none", stage |-> 0, attempt |-> 0,
         timeout |-> "none", processing |-> "no"]

NoClients == [k \in {} |-> 0]
Members(c) == DOMAIN clients[c]
Idle == [pc |-> "idle", c |-> NoChallenge, stage |-> 0, attempt |-> 0, retries |-> 0,
         next |-> "idle"]
NoEvent == [kind |-> "none", k |-> 0, token |-> 0, c |-> NoChallenge]

Init ==
    /\ ch = [c \in Challenge |-> Gone]
    /\ clients = [c \in Challenge |-> NoClients]
    /\ timer = [c \in Challenge |-> NoTimer]
    /\ processed = [c \in Challenge |-> {}]
    /\ pointer = [k \in Client |-> NoChallenge]
    /\ drawn = 0 /\ party = {}
    /\ online = [k \in Client |-> TRUE]
    /\ conn = [k \in Client |-> 1]
    /\ joined = [k \in Client |-> NoChallenge]
    /\ flight = {}
    /\ queue = <<>> /\ event = NoEvent
    /\ at = [w \in Worker |-> Idle]
    /\ merged = [c \in Challenge |-> {}] /\ again = {}
    /\ finished = [c \in Challenge |-> 0]
    /\ cut = {}
    /\ sends = 0 /\ faults = 0

-----------------------------------------------------------------------------
(* Writes                                                                    *)

SetTimer(c, state, retries) ==
    /\ ch' = [ch EXCEPT ![c].timeout = state]
    /\ timer' = [timer EXCEPT ![c] = retries]

ClearTimer(c) == SetTimer(c, "none", NoTimer)

KeepTimer == UNCHANGED <<ch, timer>>

\* Activity calls off a pending cleanup, whosever activity it is.
CalledOff(c) == ch[c].timeout = "cleanup"
CallOff(c) == IF CalledOff(c) THEN ClearTimer(c) ELSE KeepTimer

\* A client is put in a challenge, and is in no other as far as it is concerned.
SetClient(c, k, m) ==
    /\ clients' = [clients EXCEPT ![c] = [j \in DOMAIN @ \cup {k} |-> IF j = k THEN m ELSE @[j]]]
    /\ pointer' = [pointer EXCEPT ![k] = c]

RemoveClient(c, k) ==
    /\ clients' = [clients EXCEPT ![c] = [j \in DOMAIN @ \ {k} |-> @[j]]]
    /\ pointer' = [pointer EXCEPT ![k] = IF @ = c THEN NoChallenge ELSE @]

\* Whoever rejoins keeps what it completed last.
NewClient(c, k, token, stage, attempt) ==
    [token |-> token, active |-> TRUE, stage |-> stage, attempt |-> attempt, done |-> FALSE,
     last |-> IF k \in Members(c) THEN clients[c][k].last ELSE <<0, 0>>]

Enter(c, k, token) ==
    SetClient(c, k, NewClient(c, k, token, ch[c].stage, ch[c].attempt))

\* A challenge that has gone, or that somebody else has closed.
TakenIfGone(c) == ch[c].state = "none"      \* mutant: whoever finds it closed closes it again
Taken(c) == ch[c].state \in {"none", "cleanup"}

NoneActive(c) == \A k \in Members(c) : ~clients[c][k].active

\* The answer reaches the client on the connection that asked, or is lost.
Told(k, token, c) ==
    \/ /\ joined' = IF online[k] /\ conn[k] = token THEN [joined EXCEPT ![k] = c] ELSE joined
       /\ UNCHANGED faults
    \/ /\ faults < MaxFaults /\ faults' = faults + 1
       /\ UNCHANGED joined

Request(kind, k, c, stage) ==
    [kind |-> kind, k |-> k, token |-> conn[k], c |-> c, stage |-> stage]

\* A connection's messages are handled one after the other.
Ready(k) ==
    /\ online[k] /\ sends < MaxSends
    /\ \A r \in flight : r.k # k \/ r.token # conn[k]

-----------------------------------------------------------------------------
(* Starting and joining                                                      *)

Latest == CHOOSE c \in party : \A d \in party : d <= c
NotFound == Taken(Latest)
Superseded(stage) ==
    \/ ch[Latest].status = "completed"
    \/ ch[Latest].timeout = "challenge_end"
    \/ stage < ch[Latest].stage

\* A uuid is drawn and announced to the party; a challenge that has gone is
\* taken off the party's list.
Create(k, stage) ==
    /\ party # {} => NotFound \/ Superseded(stage)
    /\ drawn < MaxChallenges
    /\ LET c == drawn + 1
       IN /\ drawn' = c
          /\ party' = (IF party # {} /\ NotFound THEN party \ {Latest} ELSE party) \cup {c}
          /\ ch' = [ch EXCEPT ![c] = [Gone EXCEPT !.state = "initializing",
                                                  !.status = "in_progress", !.stage = stage]]
          /\ flight' = flight \cup {Request("create", k, c, stage)}
    /\ UNCHANGED <<clients, timer, pointer, joined, faults>>

JoinAtOnce(k) ==
    /\ ch[Latest].state = "active"
    /\ Enter(Latest, k, conn[k])
    /\ CallOff(Latest)
    /\ Told(k, conn[k], Latest)
    /\ UNCHANGED <<drawn, party, flight>>

JoinLater(k, stage) ==
    /\ ch[Latest].state = "initializing"
    /\ flight' = flight \cup {Request("defer", k, Latest, stage)}
    /\ UNCHANGED <<ch, clients, timer, pointer, drawn, party, joined, faults>>

Start(k, stage) ==
    /\ Ready(k)
    /\ sends' = sends + 1
    /\ \/ Create(k, stage)
       \/ /\ party # {} /\ ~NotFound /\ ~Superseded(stage)
          /\ JoinAtOnce(k) \/ JoinLater(k, stage)
    /\ UNCHANGED <<processed, online, conn, queue, event, at, ghost>>

\* The challenge is in the database: it becomes active with its first client.
Created(r) ==
    /\ r.kind = "create"
    /\ flight' = flight \ {r}
    /\ ch' = [ch EXCEPT ![r.c].state = "active"]
    /\ Enter(r.c, r.k, r.token)
    /\ Told(r.k, r.token, r.c)
    /\ UNCHANGED <<timer, processed, drawn, party, online, conn, queue, event, at, ghost, sends>>

\* All of a challenge's keys but its clients' pointers.  Its party's list is
\* found through the hash.
Delete(c, listed) ==
    /\ ch' = [ch EXCEPT ![c] = Gone]
    /\ clients' = [clients EXCEPT ![c] = NoClients]
    /\ processed' = [processed EXCEPT ![c] = {}]
    /\ timer' = [timer EXCEPT ![c] = NoTimer]
    /\ party' = IF listed THEN party \ {c} ELSE party
    /\ merged' = [merged EXCEPT ![c] = {}]
    /\ UNCHANGED <<pointer, drawn, again, finished, cut>>

CreateFailed(r) ==
    /\ r.kind = "create"
    /\ faults < MaxFaults /\ faults' = faults + 1
    /\ flight' = flight \ {r}
    /\ Delete(r.c, TRUE)
    /\ UNCHANGED <<player, queue, event, at, sends>>

DeferredJoin(r) ==
    /\ r.kind = "defer"
    /\ flight' = flight \ {r}
    /\ \/ /\ ch[r.c].state = "active"
          /\ Enter(r.c, r.k, r.token)
          /\ Told(r.k, r.token, r.c)
       \/ /\ ch[r.c].state # "active"       \* gone, or still initialising after all retries
          /\ UNCHANGED <<clients, pointer, joined, faults>>
    /\ UNCHANGED <<ch, timer, processed, drawn, party, online, conn, queue, event, at, ghost,
                   sends>>

\* A client that reconnects says where it was.
AddClient(k) ==
    LET c == joined[k]
    IN /\ Ready(k)
       /\ sends' = sends + 1
       /\ c # NoChallenge
       /\ IF pointer[k] \in {NoChallenge, c}
          THEN flight' = flight \cup {Request("add", k, c, 0)} /\ UNCHANGED joined
          ELSE joined' = [joined EXCEPT ![k] = NoChallenge] /\ UNCHANGED flight
       /\ UNCHANGED <<redis, online, conn, queue, event, at, ghost, faults>>

\* It is put back, which calls off the cleanup if nobody was there.
Added(r) ==
    /\ r.kind = "add"
    /\ flight' = flight \ {r}
    /\ \/ /\ ch[r.c].state = "active"
          /\ Enter(r.c, r.k, r.token)
          /\ IF NoneActive(r.c) THEN CallOff(r.c) ELSE KeepTimer
          /\ UNCHANGED joined
       \/ /\ ch[r.c].state # "active"
          /\ joined' = IF conn[r.k] = r.token THEN [joined EXCEPT ![r.k] = NoChallenge] ELSE joined
          /\ UNCHANGED <<ch, clients, timer, pointer>>
    /\ UNCHANGED <<processed, drawn, party, online, conn, queue, event, at, ghost, count>>

-----------------------------------------------------------------------------
(* Finishing                                                                 *)

\* definite: a participant knows that the challenge is over, or times came along.
\* The queue of a transaction is executed even when its function returns early.
Finish(k, definite) ==
    LET c == joined[k]
        alone == Members(c) = {k}
        over == alone \/ definite \/ ch[c].timeout = "challenge_end"
    IN /\ Ready(k)
       /\ sends' = sends + 1
       /\ c # NoChallenge
       /\ joined' = [joined EXCEPT ![k] = NoChallenge]
       /\ \/ /\ pointer[k] # c
             /\ UNCHANGED <<ch, clients, timer, pointer>>
          \/ /\ pointer[k] = c
             /\ RemoveClient(c, k)
             /\ IF ch[c].state # "active" \/ k \notin Members(c) THEN KeepTimer
                ELSE IF over THEN SetTimer(c, "challenge_end", 3)
                ELSE SetTimer(c, "cleanup", 1)
       /\ UNCHANGED <<processed, drawn, party, online, conn, work, ghost, faults>>

\* The request never arrives; the client forgets the challenge all the same.
FinishLost(k) ==
    /\ Ready(k) /\ joined[k] # NoChallenge
    /\ sends' = sends + 1
    /\ faults < MaxFaults /\ faults' = faults + 1
    /\ joined' = [joined EXCEPT ![k] = NoChallenge]
    /\ UNCHANGED <<redis, online, conn, work, ghost>>

-----------------------------------------------------------------------------
(* Reports                                                                   *)

\* What is reported of a stage, and without one.
StageReports == {"entered", "started", "finished"}
Reports == StageReports \cup {"other", "entry_mode"}

\* The pointer is read before the transaction.
Update(k, report, stage) ==
    /\ Ready(k)
    /\ sends' = sends + 1
    /\ joined[k] # NoChallenge /\ pointer[k] = joined[k]
    /\ report \in StageReports <=> stage # 0
    /\ flight' = flight \cup {Request(report, k, joined[k], stage)}
    /\ UNCHANGED <<redis, player, queue, event, at, ghost, faults>>

Free(w) == w \in Task /\ at[w] = Idle
Begin(w, a) == at' = [at EXCEPT ![w] = a]

\* A client is through with the challenge's stage as it is now.
Through(m, c) ==
    \/ m.stage > ch[c].stage
    \/ m.done /\ m.attempt >= ch[c].attempt

FirstAttempt(stage) == IF stage \in Retriable THEN 1 ELSE 0

\* The challenge's attempt after a client reports that it starts a stage.
StartedAttempt(c, m, stage) ==
    IF stage # ch[c].stage THEN FirstAttempt(stage)
    ELSE IF stage \in Retriable /\ m.attempt # 0 /\ m.attempt = ch[c].attempt
         THEN ch[c].attempt + 1
         ELSE ch[c].attempt

\* An update without a stage, or one that comes from an earlier stage or from
\* a client that has left.
NoProgress(r) ==
    /\ r.kind # "entry_mode"
    /\ r.kind = "other" \/ r.stage < ch[r.c].stage \/ r.k \notin Members(r.c)
    /\ CallOff(r.c)
    /\ cut' = IF CalledOff(r.c) /\ r.k \notin Members(r.c) THEN cut \cup {r.c} ELSE cut
    /\ UNCHANGED <<clients, pointer, at>>

\* An entry mode challenge is not recorded: it is cleaned up without a timer.
EntryMode(r) ==
    /\ r.kind = "entry_mode"
    /\ CallOff(r.c)
    /\ cut' = IF CalledOff(r.c) /\ r.k \notin Members(r.c) THEN cut \cup {r.c} ELSE cut
    /\ \E w \in Task : Free(w) /\ Begin(w, [Idle EXCEPT !.pc = "decide", !.c = r.c, !.retries = NoTimer])
    /\ UNCHANGED <<clients, pointer>>

ReportEntered(r, m) ==
    /\ r.kind = "entered"
    /\ SetClient(r.c, r.k, [m EXCEPT !.stage = r.stage, !.done = FALSE, !.active = TRUE])
    /\ CallOff(r.c)
    /\ UNCHANGED at

ReportStarted(r, m) ==
    LET attempt == StartedAttempt(r.c, m, r.stage)
    IN /\ r.kind = "started"
       /\ attempt <= MaxAttempt
       /\ SetClient(r.c, r.k, [m EXCEPT !.stage = r.stage, !.attempt = attempt, !.done = FALSE,
                                        !.active = TRUE])
       /\ ch' = [ch EXCEPT ![r.c].stage = r.stage, ![r.c].attempt = attempt,
                           ![r.c].timeout = IF CalledOff(r.c) THEN "none" ELSE @]
       /\ timer' = IF CalledOff(r.c) THEN [timer EXCEPT ![r.c] = NoTimer] ELSE timer
       /\ UNCHANGED at

\* When the last client is through, the stage is completed in the background;
\* until then a timer waits for the others.
ReportFinished(r, m) ==
    LET me == [m EXCEPT !.stage = r.stage, !.done = TRUE, !.active = TRUE,
                        !.last = <<r.stage, m.attempt>>]
        all == Through(me, r.c) /\ \A k \in Members(r.c) \ {r.k} : Through(clients[r.c][k], r.c)
    IN /\ r.kind = "finished"
       /\ SetClient(r.c, r.k, me)
       /\ \/ /\ all
             /\ IF ch[r.c].timeout = "challenge_end" THEN KeepTimer ELSE ClearTimer(r.c)
             /\ \E w \in Task : Free(w) /\ Begin(w, [Idle EXCEPT !.pc = "mark", !.c = r.c,
                                                       !.stage = r.stage, !.attempt = m.attempt])
          \/ /\ ~all
             /\ IF ch[r.c].timeout = "stage_end" THEN KeepTimer ELSE SetTimer(r.c, "stage_end", 0)
             /\ UNCHANGED at

HandleUpdate(r) ==
    /\ r.kind \in Reports
    /\ flight' = flight \ {r}
    /\ \/ ch[r.c].state = "none" /\ UNCHANGED <<ch, clients, timer, pointer, at, cut>>
       \/ /\ ch[r.c].state # "none"
          /\ \/ NoProgress(r)
             \/ EntryMode(r)
             \/ /\ r.k \in Members(r.c) /\ r.stage >= ch[r.c].stage
                /\ LET m == clients[r.c][r.k]
                   IN ReportEntered(r, m) \/ ReportStarted(r, m) \/ ReportFinished(r, m)
                /\ UNCHANGED cut
    /\ UNCHANGED <<processed, drawn, party, player, queue, event, merged, again, finished, count>>

-----------------------------------------------------------------------------
(* Connections and their events                                              *)

Event(kind, k) == [kind |-> kind, k |-> k, token |-> conn[k], c |-> NoChallenge]

Connect(k) ==
    /\ ~online[k]
    /\ sends < MaxSends /\ sends' = sends + 1
    /\ online' = [online EXCEPT ![k] = TRUE]
    /\ conn' = [conn EXCEPT ![k] = @ + 1]
    /\ UNCHANGED <<redis, joined, work, ghost, faults>>

\* Events are pushed and popped at the same end of the list.
Disconnect(k) ==
    /\ online[k]
    /\ online' = [online EXCEPT ![k] = FALSE]
    /\ queue' = <<Event("disconnected", k)>> \o queue
    /\ UNCHANGED <<redis, conn, joined, flight, event, at, ghost, count>>

Status(k, status) ==
    /\ online[k]
    /\ sends < MaxSends /\ sends' = sends + 1
    /\ queue' = <<Event(status, k)>> \o queue
    /\ UNCHANGED <<redis, player, flight, event, at, ghost, faults>>

\* The challenge an event is about is read when it is popped.
PopEvent ==
    /\ event = NoEvent /\ queue # <<>>
    /\ queue' = Tail(queue)
    /\ LET e == Head(queue)
       IN event' = IF pointer[e.k] = NoChallenge THEN NoEvent ELSE [e EXCEPT !.c = pointer[e.k]]
    /\ UNCHANGED <<redis, player, flight, at, ghost, count>>

\* The event's connection is the one its client joined with.
Ours(e) == e.k \in Members(e.c) /\ clients[e.c][e.k].token = e.token

\* A client that has moved on is removed as it stands, and no timer is set.
Strayed(e) == pointer[e.k] # e.c \/ ch[e.c].state = "none"
RemoveStray(e) ==
    /\ RemoveClient(e.c, e.k)
    /\ cut' = IF Members(e.c) = {e.k} THEN cut \cup {e.c} ELSE cut
    /\ KeepTimer

IgnoreEvent == UNCHANGED <<ch, clients, timer, pointer, cut>>

SetClientActive(e) ==
    /\ e.kind = "active"
    /\ \/ ~Ours(e) /\ IgnoreEvent
       \/ Ours(e) /\ Strayed(e) /\ RemoveStray(e)
       \/ Ours(e) /\ ~Strayed(e) /\ clients[e.c][e.k].active /\ IgnoreEvent
       \/ /\ Ours(e) /\ ~Strayed(e) /\ ~clients[e.c][e.k].active
          /\ SetClient(e.c, e.k, [clients[e.c][e.k] EXCEPT !.active = TRUE])
          /\ CallOff(e.c)
          /\ UNCHANGED cut

SetClientInactive(e) ==
    /\ e.kind = "idle"
    /\ \/ /\ e.k \notin Members(e.c)
          /\ RemoveClient(e.c, e.k)
          /\ KeepTimer /\ UNCHANGED cut
       \/ e.k \in Members(e.c) /\ ~Ours(e) /\ IgnoreEvent
       \/ Ours(e) /\ Strayed(e) /\ RemoveStray(e)
       \/ Ours(e) /\ ~Strayed(e) /\ ~clients[e.c][e.k].active /\ IgnoreEvent
       \/ /\ Ours(e) /\ ~Strayed(e) /\ clients[e.c][e.k].active
          /\ SetClient(e.c, e.k, [clients[e.c][e.k] EXCEPT !.active = FALSE])
          /\ IF /\ \A k \in Members(e.c) \ {e.k} : ~clients[e.c][k].active
                /\ ch[e.c].timeout = "none"
             THEN SetTimer(e.c, "cleanup", 0)
             ELSE KeepTimer
          /\ UNCHANGED cut

\* The last client to leave starts the reconnection timer.
LastOutNobody(e) == Members(e.c) = {}   \* mutant: counts those who are left, too early
LastOut(e) == Members(e.c) = {e.k}

RemoveDisconnected(e) ==
    /\ e.kind = "disconnected"
    /\ \/ ~Ours(e) /\ IgnoreEvent
       \/ /\ Ours(e)
          /\ RemoveClient(e.c, e.k)
          /\ IF ~Taken(e.c) /\ LastOut(e)
             THEN SetTimer(e.c, "cleanup", 3)
             ELSE KeepTimer
          /\ UNCHANGED cut

HandleEvent ==
    /\ event # NoEvent /\ event' = NoEvent
    /\ SetClientActive(event) \/ SetClientInactive(event) \/ RemoveDisconnected(event)
    /\ UNCHANGED <<processed, drawn, party, player, flight, queue, at, merged, again, finished, count>>

-----------------------------------------------------------------------------
(* The timeout task                                                          *)

Step(w, pc) == at' = [at EXCEPT ![w].pc = pc]
Done(w) == at' = [at EXCEPT ![w] = Idle]
After(w) == IF at[w].next = "idle" THEN Done(w) ELSE Step(w, at[w].next)
Elsewhere == UNCHANGED <<processed, pointer, drawn, party, player, flight, queue, event, count>>

\* Some timer has expired: its parameters are in hand, its meaning is not.
Fire(c) ==
    /\ at[Ticker] = Idle /\ timer[c] # NoTimer
    /\ Begin(Ticker, [Idle EXCEPT !.pc = "due", !.c = c, !.retries = timer[c]])
    /\ UNCHANGED <<redis, player, flight, queue, event, ghost, count>>

ReadState ==
    /\ at[Ticker].pc = "due"
    /\ Step(Ticker, CASE ch[at[Ticker].c].timeout \in {"cleanup", "challenge_end"} -> "decide"
                       [] ch[at[Ticker].c].timeout = "stage_end" -> "collect"
                       [] OTHER -> "drop")
    /\ UNCHANGED <<redis, player, flight, queue, event, ghost, count>>

\* A timer without a meaning is dropped, whatever it means by now.
Drop ==
    LET c == at[Ticker].c
    IN /\ at[Ticker].pc = "drop"
       /\ ClearTimer(c)
       /\ cut' = IF ch[c].timeout # "none" THEN cut \cup {c} ELSE cut
       /\ Done(Ticker)
       /\ UNCHANGED <<clients, merged, again, finished>> /\ Elsewhere

Further(a, b) == a[1] > b[1] \/ (a[1] = b[1] /\ a[2] >= b[2])

\* The stage to complete is the furthest that a client has completed.
HandleStageEndTimeout ==
    /\ at[Ticker].pc = "collect"
    /\ LET c == at[Ticker].c
           lasts == {clients[c][k].last : k \in Members(c)} \cup {<<0, 0>>}
           top == CHOOSE a \in lasts : \A b \in lasts : Further(a, b)
       IN IF top[1] = 0 THEN Step(Ticker, "check")
          ELSE Begin(Ticker, [at[Ticker] EXCEPT !.pc = "load", !.stage = top[1],
                                                !.attempt = top[2], !.next = "check"])
    /\ UNCHANGED <<redis, player, flight, queue, event, ghost, count>>

CheckForActiveClients ==
    LET c == at[Ticker].c
    IN /\ at[Ticker].pc = "check"
       /\ IF (timer[c] = NoTimer \/ ch[c].timeout = "none") /\ NoneActive(c)
          THEN SetTimer(c, "cleanup", 3)
          ELSE KeepTimer
       /\ Done(Ticker)
       /\ UNCHANGED <<clients, ghost>> /\ Elsewhere

-----------------------------------------------------------------------------
(* Cleaning up                                                               *)

\* A cleanup is forced if it comes without a timer.  The last retry of a timer
\* closes the challenge whoever is in it.
Forced(w) == at[w].retries = NoTimer
LastTryForced(w) == at[w].retries = NoTimer     \* mutant: retries are counted below 0
LastTry(w) == at[w].retries \in {NoTimer, 0}

EndTimer(c) == ch[c].timeout \in {"cleanup", "challenge_end"}

\* A stage that is being processed puts the cleanup off.
PutOff(w) ==
    LET c == at[w].c
    IN /\ ~Taken(c) /\ ch[c].processing = "fresh"
       /\ IF ~Forced(w) THEN SetTimer(c, ch[c].timeout, at[w].retries)
          ELSE SetTimer(c, IF ch[c].timeout = "none" THEN "challenge_end" ELSE ch[c].timeout, 0)
       /\ Done(w)

\* A timer that has come to mean something else is left alone.
NotDue(w) ==
    LET c == at[w].c
    IN /\ ~Taken(c) /\ ch[c].processing # "fresh" /\ ~Forced(w) /\ ~EndTimer(c)
       /\ KeepTimer
       /\ Done(w)

\* The challenge is in state cleanup from now on, and nobody else is to touch it.
CloseOrRetry(w) ==
    LET c == at[w].c
    IN /\ ~Taken(c) /\ ch[c].processing # "fresh" /\ (Forced(w) \/ EndTimer(c))
       /\ IF LastTry(w) \/ Members(c) = {}
          THEN /\ ch' = [ch EXCEPT ![c].state = "cleanup", ![c].processing = "no"]
               /\ UNCHANGED timer
               /\ Step(w, "close")
          ELSE /\ SetTimer(c, ch[c].timeout, at[w].retries - 1)
               /\ Done(w)

CleanupChallenge(w) ==
    /\ at[w].pc = "decide"
    /\ \/ Taken(at[w].c) /\ Step(w, "delete") /\ KeepTimer
       \/ PutOff(w) \/ NotDue(w) \/ CloseOrRetry(w)
    /\ UNCHANGED <<clients, ghost>> /\ Elsewhere

\* Stage completion works on the challenge as it was when it was loaded.
Complete(w, stage, attempt, next) ==
    at' = [at EXCEPT ![w].pc = IF ch[at[w].c].timeout = "stage_end" THEN "clear" ELSE "claim",
                     ![w].stage = stage, ![w].attempt = attempt, ![w].next = next]

Close(w) ==
    LET c == at[w].c
    IN /\ at[w].pc = "close"
       /\ IF ch[c].state = "none" THEN Step(w, "delete")
          ELSE Complete(w, ch[c].stage, ch[c].attempt, "finish")
       /\ UNCHANGED <<redis, player, flight, queue, event, ghost, count>>

FinishChallenge(w) ==
    /\ at[w].pc = "finish"
    /\ finished' = [finished EXCEPT ![at[w].c] = @ + 1]
    /\ Step(w, "delete")
    /\ UNCHANGED <<redis, player, flight, queue, event, merged, again, cut, count>>

DeleteChallenge(w) ==
    LET c == at[w].c
    IN /\ at[w].pc = "delete"
       /\ Delete(c, ch[c].state \in {"active", "cleanup"})
       /\ Done(w)
       /\ UNCHANGED <<player, flight, queue, event, count>>

-----------------------------------------------------------------------------
(* Completing a stage                                                        *)

Mark(w) ==
    /\ at[w].pc = "mark"
    /\ ch' = [ch EXCEPT ![at[w].c].processing = "fresh"]
    /\ Step(w, "load")
    /\ UNCHANGED <<clients, timer, ghost>> /\ Elsewhere

\* A challenge that has gone is left alone; one that cannot be loaded ends the
\* whole task.
Load(w) ==
    /\ at[w].pc = "load"
    /\ \/ /\ ch[at[w].c].state # "none"
          /\ Complete(w, at[w].stage, at[w].attempt, at[w].next)
       \/ ch[at[w].c].state = "none" /\ (After(w) \/ Done(w))
    /\ UNCHANGED <<redis, player, flight, queue, event, ghost, count>>

\* The timer is cleared, whatever it is for by now.
ClearStageEnd(w) ==
    LET c == at[w].c
    IN /\ at[w].pc = "clear"
       /\ ClearTimer(c)
       /\ cut' = IF ch[c].timeout # "stage_end" THEN cut \cup {c} ELSE cut
       /\ Step(w, "claim")
       /\ UNCHANGED <<clients, merged, again, finished>> /\ Elsewhere

HasProcessedNever(w) == FALSE       \* mutant: no stage counts as processed
HasProcessed(w) == <<at[w].stage, at[w].attempt>> \in processed[at[w].c]

\* Each attempt of a stage is completed once, by whoever claims it.
Claim(w) ==
    LET c == at[w].c
    IN /\ at[w].pc = "claim"
       /\ \/ HasProcessed(w) /\ After(w) /\ UNCHANGED <<ch, processed>>
          \/ /\ ~HasProcessed(w)
             /\ processed' = [processed EXCEPT ![c] = @ \cup {<<at[w].stage, at[w].attempt>>}]
             /\ ch' = [ch EXCEPT ![c].processing = "fresh"]
             /\ Step(w, "read")
       /\ UNCHANGED <<clients, timer, pointer, drawn, party, player, flight, queue, event, ghost,
                      count>>

\* The stream of the stage is read; if there is anything in it, it is merged.
\* What is left of a task merges after the challenge was deleted does not count.
ReadStream(w) ==
    LET c == at[w].c
        attempt == <<at[w].stage, at[w].attempt>>
    IN /\ at[w].pc = "read"
       /\ \/ /\ ch' = [ch EXCEPT ![c].processing = "no"]
             /\ After(w)
             /\ UNCHANGED <<merged, again>>
          \/ /\ merged' = [merged EXCEPT ![c] = @ \cup {attempt}]
             /\ again' = IF ch[c].state # "none" /\ attempt \in merged[c] THEN again \cup {c} ELSE again
             /\ Step(w, "merge")
             /\ UNCHANGED ch
       /\ UNCHANGED <<clients, timer, finished, cut>> /\ Elsewhere

\* A challenge counts as completed once its last stage has been.
WriteBack(w) ==
    LET c == at[w].c
    IN /\ at[w].pc = "merge"
       /\ \E status \in {ch[c].status} \cup (IF at[w].stage >= LastStage
                                              THEN {"completed", "other"} ELSE {"other"}) :
             ch' = [ch EXCEPT ![c].status = status, ![c].processing = "no"]
       /\ After(w)
       /\ UNCHANGED <<clients, timer, ghost>> /\ Elsewhere

-----------------------------------------------------------------------------
(* Time and faults                                                           *)

\* Beyond the longest processing time a stage no longer holds up the cleanup.
TakesTooLong(c) ==
    /\ ch[c].processing = "fresh"
    /\ faults < MaxFaults /\ faults' = faults + 1
    /\ ch' = [ch EXCEPT ![c].processing = "stale"]
    /\ UNCHANGED <<clients, timer, processed, pointer, drawn, party, player, work, ghost, sends>>

\* A step fails.  Within a stage that is completed for its own sake the error
\* is caught; it ends a cleanup.
StepFails(w) ==
    /\ at[w] # Idle
    /\ faults < MaxFaults /\ faults' = faults + 1
    /\ IF at[w].pc \in {"clear", "claim", "read", "merge"} /\ at[w].next # "finish"
       THEN After(w) ELSE Done(w)
    /\ UNCHANGED <<redis, player, flight, queue, event, ghost, sends>>

\* The server stops and starts: whatever it had in hand is lost.
Crash ==
    /\ faults < MaxFaults /\ faults' = faults + 1
    /\ at' = [w \in Worker |-> Idle]
    /\ flight' = {} /\ event' = NoEvent
    /\ UNCHANGED <<redis, player, queue, ghost, sends>>

-----------------------------------------------------------------------------

Requests ==
    \/ \E k \in Client, stage \in Stage : Start(k, stage)
    \/ \E k \in Client : AddClient(k) \/ FinishLost(k)
    \/ \E k \in Client, definite \in BOOLEAN : Finish(k, definite)
    \/ \E k \in Client, report \in Reports, stage \in Stage \cup {0} : Update(k, report, stage)

Connections ==
    \E k \in Client : Connect(k) \/ Disconnect(k) \/ Status(k, "active") \/ Status(k, "idle")

HandleRequest ==
    \E r \in flight : Created(r) \/ CreateFailed(r) \/ DeferredJoin(r) \/ Added(r) \/ HandleUpdate(r)

Timeouts ==
    \/ \E c \in Challenge : Fire(c)
    \/ ReadState \/ Drop \/ HandleStageEndTimeout \/ CheckForActiveClients

WorkerStep(w) ==
    \/ CleanupChallenge(w) \/ Close(w) \/ FinishChallenge(w) \/ DeleteChallenge(w)
    \/ Mark(w) \/ Load(w) \/ ClearStageEnd(w) \/ Claim(w) \/ ReadStream(w) \/ WriteBack(w)

Next ==
    \/ Requests \/ Connections \/ HandleRequest \/ PopEvent \/ HandleEvent \/ Timeouts
    \/ \E w \in Worker : WorkerStep(w) \/ StepFails(w)
    \/ \E c \in Challenge : TakesTooLong(c)
    \/ Crash

Spec == Init /\ [][Next]_vars

-----------------------------------------------------------------------------
(* Properties                                                                *)

ClientType == [token : Nat, active : BOOLEAN, stage : Stage, attempt : Attempt, done : BOOLEAN,
               last : (Stage \cup {0}) \X Attempt]

\* Types.  A timer never has less than no retries left, and a client never has
\* an attempt that its challenge did not have.
TypeOK ==
    /\ \A c \in Challenge :
        /\ ch[c].state \in {"none", "initializing", "active", "cleanup"}
        /\ ch[c].status \in {"none", "in_progress", "completed", "other"}
        /\ ch[c].stage \in Stage \cup {0} /\ ch[c].attempt \in Attempt
        /\ ch[c].timeout \in {"none", "stage_end", "cleanup", "challenge_end"}
        /\ ch[c].processing \in {"no", "fresh", "stale"}
        /\ Members(c) \subseteq Client
        /\ \A k \in Members(c) : clients[c][k] \in ClientType
        /\ timer[c] \in {NoTimer} \cup (0..3)
        /\ finished[c] \in Nat
    /\ pointer \in [Client -> Challenge \cup {NoChallenge}]
    /\ joined \in [Client -> Challenge \cup {NoChallenge}]
    /\ party \subseteq Challenge /\ drawn \in 0..MaxChallenges
    /\ cut \subseteq Challenge

\* A challenge is finalised in the database at most once, although timeouts,
\* forced cleanups, retried cleanups and restarts all lead there
\* (cleanupChallenge).
FinishedOnce == \A c \in Challenge : finished[c] <= 1

\* No attempt of a stage is merged twice in a challenge's life, although the
\* last client's report, the stage end timeout and the cleanup all complete it
\* (completeChallengeStage).
MergedOnce == again = {}

\* Whoever takes the last client out of a challenge (a finish, a disconnection, an
\* expired reconnection) leaves it timed, whatever was timed before: it will be
\* cleaned up.  Challenges in cut are not spoken of: those that lose that timer
\* to someone who had read something else (an update of a client that has left
\* since, a stage end timeout that has been replaced since), and those whose last
\* client is removed after it had moved on, which sets no timer.
EmptyIsTimed ==
    \A c \in Challenge \ cut :
        ch[c].state = "active" /\ Members(c) = {} =>
            timer[c] # NoTimer /\ ch[c].timeout # "none"
=============================================================================
