---------------------------- MODULE ServerManager ----------------------------
(* The status of a socket server: timed shutdowns, drains and rebalances,    *)
(* which administrators start, override and cancel while their timers run    *)
(* and clients come and go (socket-server/server-manager.ts, app.ts).        *)
(* Time is counted in whole units. Timers fire when they are due, those due  *)
(* at the same time in any order. Messages to clients are left out.          *)
EXTENDS Integers, FiniteSets

CONSTANTS
    Session,        \* connections of clients; each is opened once
    None,           \* null
    Duration,       \* the times administrators give for a shutdown
    Notice,         \* how long before a shutdown it becomes pending
    Reminders,      \* how long before it clients are reminded
    LastWords,      \* from the imminent shutdown to its execution
    CancelShown,    \* how long the status shows a cancellation
    Settle, Grace,  \* of a drain
    DrainTick,      \* between two looks at the remaining clients
    BatchSize, BatchInterval,
    Horizon,        \* bound: the last moment
    MaxTimers       \* bound: commands are given while fewer timers were set

VARIABLES
    now,            \* the clock
    status,
    shutdownTime,   \* None, or when the shutdown or the drain is due
    timers,         \* the timers that are set
    made,           \* how many have been set: the identifier of the last one
    shutdownTimer, messageTimer,  \* None, or the identifier of a timer
    drain,          \* None, the identifier of the settle timer, or 0 past it
    closing,        \* completeDrain waits for the connections to close
    rebalance,      \* None, or the sessions still to be asked and the timer
    session,        \* new, admitted (past the check on its upgrade), idle,
                    \* starting (past the check on its start), busy or closed
    allowed,        \* the message handler's allowStartingChallenges
    listening,      \* the HTTP server takes requests and upgrades
    exited          \* the process is gone

manager == <<shutdownTime, timers, made, shutdownTimer, messageTimer, drain,
             closing, rebalance, status, allowed, listening, exited>>
vars == <<now, session, manager>>

Connected == {s \in Session : session[s] \in {"idle", "starting", "busy"}}
NoChallenge == {s \in Connected : session[s] # "busy"}

Timer(i, kind, due) == [id |-> i, kind |-> kind, due |-> due]
Due(t, kind) == t \in timers /\ t.kind = kind /\ t.due <= now /\ ~exited
Without(ids) == {t \in timers : t.id \notin ids}

\* A request to the admin endpoints.
Command == listening /\ ~exited /\ made < MaxTimers

UpdateStatus(s) ==
    /\ status' = s
    /\ allowed' = (\/ s = "SHUTDOWN_CANCELED"
                   \/ allowed /\ s \notin {"SHUTDOWN_PENDING", "DRAINING"})
    /\ listening' = (listening /\ s # "OFFLINE")

(* ---- the timed shutdown ---- *)

\* The timer of the next reminder of a shutdown due at the given time, if any.
Reminder(i, at) ==
    LET next == {r \in Reminders : at - now > r}
    IN  {Timer(i, "message", at - r) : r \in {p \in next : \A q \in next : q <= p}}

SetReminder(i, at, left) ==
    /\ messageTimer' = IF Reminder(i, at) = {} THEN None ELSE i
    /\ timers' = left \cup Reminder(i, at)
    /\ made' = i - 1 + Cardinality(Reminder(i, at))

\* A further timer for the shutdown; that of an earlier schedule is not cleared.
EnterShutdownPending(at, left) ==
    /\ shutdownTimer' = made + 1
    /\ UpdateStatus("SHUTDOWN_PENDING")
    /\ SetReminder(made + 2, at, left \cup {Timer(made + 1, "shutdown", at)})

ScheduleShutdown(d, force) ==
    /\ Command
    /\ shutdownTime = None \/ force
    /\ shutdownTime' = now + d
    /\ IF d > Notice
       THEN /\ timers' = timers \cup {Timer(made + 1, "pending", now + d - Notice)}
            /\ shutdownTimer' = made + 1
            /\ made' = made + 1
            /\ UNCHANGED <<messageTimer, status, allowed, listening>>
       ELSE EnterShutdownPending(now + d, timers)
    /\ UNCHANGED <<now, drain, closing, rebalance, session, exited>>

PendingFires(t) ==
    /\ Due(t, "pending")
    /\ IF shutdownTime = None
       THEN /\ timers' = timers \ {t}
            /\ UNCHANGED <<made, shutdownTimer, messageTimer, status, allowed, listening>>
       ELSE EnterShutdownPending(shutdownTime, timers \ {t})
    /\ UNCHANGED <<now, shutdownTime, drain, closing, rebalance, session, exited>>

MessageFires(t) ==
    /\ Due(t, "message")
    /\ IF status = "SHUTDOWN_PENDING"
       THEN SetReminder(made + 1, shutdownTime, timers \ {t})
       ELSE /\ messageTimer' = None
            /\ timers' = timers \ {t}
            /\ UNCHANGED made
    /\ UNCHANGED <<now, status, shutdownTime, shutdownTimer, drain, closing,
                   rebalance, session, allowed, listening, exited>>

CancelShutdown ==
    /\ Command
    /\ shutdownTime # None
    /\ shutdownTime' = None
    /\ shutdownTimer' = None
    /\ messageTimer' = None
    /\ timers' = Without({shutdownTimer, messageTimer})
                   \cup {Timer(made + 1, "running", now + CancelShown)}
    /\ made' = made + 1
    /\ UpdateStatus("SHUTDOWN_CANCELED")
    /\ UNCHANGED <<now, drain, closing, rebalance, session, exited>>

\* A timer whose callback only changes the status, and may set another timer.
StatusTimer(t, kind, s, next) ==
    /\ Due(t, kind)
    /\ UpdateStatus(s)
    /\ timers' = (timers \ {t}) \cup next
    /\ made' = made + Cardinality(next)
    /\ UNCHANGED <<now, shutdownTime, shutdownTimer, messageTimer, drain, closing,
                   rebalance, session, exited>>

RunningFires(t) == StatusTimer(t, "running", "RUNNING", {})

Shutdown(t) == StatusTimer(t, "shutdown", "SHUTDOWN_IMMINENT",
                           {Timer(made + 1, "offline", now + LastWords)})

\* The connections close by themselves afterwards (Leave).
OfflineFires(t) == StatusTimer(t, "offline", "OFFLINE", {})

(* ---- the drain ---- *)

RebalanceTimers == IF rebalance = None THEN {} ELSE {rebalance.timer}

StartDrain ==
    /\ Command
    /\ drain = None /\ status # "OFFLINE"
    /\ shutdownTime' = now + Settle + Grace
    /\ shutdownTimer' = None
    /\ messageTimer' = None
    /\ rebalance' = None
    /\ timers' = Without({shutdownTimer, messageTimer} \cup RebalanceTimers)
                   \cup {Timer(made + 1, "settle", now + Settle)}
    /\ made' = made + 1
    /\ drain' = made + 1
    /\ UpdateStatus("DRAINING")
    /\ UNCHANGED <<now, closing, session, exited>>

CancelDrain ==
    /\ Command
    /\ drain # None
    /\ drain' = None
    /\ shutdownTime' = None
    /\ timers' = Without({drain}) \cup {Timer(made + 1, "running", now + CancelShown)}
    /\ made' = made + 1
    /\ UpdateStatus("SHUTDOWN_CANCELED")
    /\ UNCHANGED <<now, shutdownTimer, messageTimer, closing, rebalance, session, exited>>

\* runDrain's loop goes on: at first when the settle timer fires, then at ticks.
Look(t) == Due(t, "settle") \/ Due(t, "tick")

LookNoDrain(t) ==
    /\ Look(t) /\ drain = None
    /\ timers' = timers \ {t}
    /\ UNCHANGED <<now, status, shutdownTime, made, shutdownTimer, messageTimer, drain,
                   closing, rebalance, session, allowed, listening, exited>>

LookAgain(t) ==
    /\ Look(t) /\ drain # None
    /\ Connected # {} /\ shutdownTime # None /\ now < shutdownTime
    /\ drain' = IF t.kind = "settle" THEN 0 ELSE drain
    /\ timers' = (timers \ {t}) \cup {Timer(made + 1, "tick", now + DrainTick)}
    /\ made' = made + 1
    /\ UNCHANGED <<now, status, shutdownTime, shutdownTimer, messageTimer, closing,
                   rebalance, session, allowed, listening, exited>>

\* hasDrained reads a deadline that was cancelled: the rejection is unhandled
\* and ends the process.
LookThrows(t) ==
    /\ Look(t) /\ drain # None
    /\ Connected # {} /\ shutdownTime = None
    /\ exited' = TRUE
    /\ UNCHANGED <<now, status, shutdownTime, timers, made, shutdownTimer, messageTimer,
                   drain, closing, rebalance, session, allowed, listening>>

LookOverdue(t) ==
    /\ Look(t) /\ drain # None
    /\ Connected # {} /\ shutdownTime # None /\ now >= shutdownTime
    /\ drain' = None
    /\ closing' = TRUE
    /\ timers' = timers \ {t}
    /\ UNCHANGED <<now, status, shutdownTime, made, shutdownTimer, messageTimer,
                   rebalance, session, allowed, listening, exited>>

\* completeDrain after its await, or without one, and the teardown it calls.
CompleteDrain ==
    /\ ~exited
    /\ \/ closing
       \/ Connected = {} /\ drain # None /\ \E t \in timers : Look(t)
    /\ session' = [s \in Session |-> IF s \in Connected THEN "closed" ELSE session[s]]
    /\ drain' = None
    /\ closing' = FALSE
    /\ UpdateStatus("OFFLINE")
    /\ exited' = TRUE
    /\ UNCHANGED <<now, shutdownTime, timers, made, shutdownTimer, messageTimer, rebalance>>

(* ---- the rebalance ---- *)

\* Clients of a batch are asked unless they left or started a challenge.
SendRebalanceBatch(queue, left) ==
    \E batch \in SUBSET queue :
        /\ Cardinality(batch) <= BatchSize
        /\ batch = queue \/ Cardinality(batch) = BatchSize
        /\ IF batch = queue
           THEN /\ rebalance' = None
                /\ timers' = left
                /\ UNCHANGED made
           ELSE /\ rebalance' = [queue |-> queue \ batch, timer |-> made + 1]
                /\ timers' = left \cup {Timer(made + 1, "batch", now + BatchInterval)}
                /\ made' = made + 1

StartRebalance(target) ==
    /\ Command
    /\ status = "RUNNING" /\ rebalance = None
    /\ \E selected \in SUBSET NoChallenge :
          /\ selected # {}
          /\ Cardinality(selected) <= Cardinality(Connected) - target
          /\ \/ Cardinality(selected) = Cardinality(Connected) - target
             \/ selected = NoChallenge
          /\ SendRebalanceBatch(selected, timers)
    /\ UNCHANGED <<now, status, shutdownTime, shutdownTimer, messageTimer, drain, closing,
                   session, allowed, listening, exited>>

BatchFires(t) ==
    /\ Due(t, "batch")
    /\ SendRebalanceBatch(rebalance.queue, timers \ {t})
    /\ UNCHANGED <<now, status, shutdownTime, shutdownTimer, messageTimer, drain, closing,
                   session, allowed, listening, exited>>

(* ---- clients ---- *)

Move(s, from, to) ==
    /\ ~exited
    /\ session[s] \in from
    /\ session' = [session EXCEPT ![s] = to]
    /\ UNCHANGED <<now, manager>>

\* An upgrade is let in by the status it finds; it is authenticated and its
\* plugin verified before it completes, and a drain or a shutdown may begin
\* meanwhile. The client then counts as connected all the same.
Connect(s) == listening /\ status \notin {"DRAINING", "OFFLINE"} /\ Move(s, {"new"}, "admitted")
Upgrade(s) == Move(s, {"admitted"}, "idle")

\* So is the start of a challenge, which takes effect, or fails, after its calls.
StartChallenge(s) == allowed /\ Move(s, {"idle"}, "starting")
ChallengeStarted(s) == Move(s, {"starting"}, "busy")
StartFails(s) == Move(s, {"starting"}, "idle")
EndChallenge(s) == Move(s, {"busy"}, "idle")

\* A client goes, or an upgrade is rejected.
Leave(s) == Move(s, {"admitted", "idle", "starting", "busy"}, "closed")

\* The clock moves on when nothing is due.
Tick ==
    /\ ~exited /\ now < Horizon
    /\ \A t \in timers : t.due > now
    /\ now' = now + 1
    /\ UNCHANGED <<session, manager>>

(* ---- the specification ---- *)

Init ==
    /\ now = 0
    /\ status = "RUNNING"
    /\ shutdownTime = None
    /\ timers = {}
    /\ made = 0
    /\ shutdownTimer = None
    /\ messageTimer = None
    /\ drain = None
    /\ closing = FALSE
    /\ rebalance = None
    /\ session = [s \in Session |-> "new"]
    /\ allowed = TRUE
    /\ listening = TRUE
    /\ exited = FALSE

Next ==
    \/ \E d \in Duration, force \in BOOLEAN : ScheduleShutdown(d, force)
    \/ CancelShutdown \/ StartDrain \/ CancelDrain \/ CompleteDrain \/ Tick
    \/ \E target \in 0 .. Cardinality(Session) : StartRebalance(target)
    \/ \E t \in timers :
          \/ PendingFires(t) \/ MessageFires(t) \/ RunningFires(t)
          \/ Shutdown(t) \/ OfflineFires(t) \/ BatchFires(t)
          \/ LookNoDrain(t) \/ LookAgain(t) \/ LookThrows(t) \/ LookOverdue(t)
    \/ \E s \in Session :
          \/ Connect(s) \/ Upgrade(s) \/ StartChallenge(s) \/ ChallengeStarted(s)
          \/ StartFails(s) \/ EndChallenge(s) \/ Leave(s)

Spec == Init /\ [][Next]_vars

(* ---- properties ---- *)

\* The server shuts down when the schedule in force says so: an overriding
\* schedule replaces the earlier one (the comment of scheduleShutdown).
ShutsDownOnSchedule ==
    [][status' = "SHUTDOWN_IMMINENT" /\ status # "SHUTDOWN_IMMINENT"
         => shutdownTime # None /\ now >= shutdownTime]_vars

\* Status messages with a time are sent while one is set: the assertions
\* shutdownTime! of serverStatusMessage and of the reminders hold.
AnnouncedHasTime ==
    status \in {"SHUTDOWN_PENDING", "DRAINING"} => shutdownTime # None
=============================================================================
