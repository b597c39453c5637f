--------------------------- MODULE ChallengeLifecycle ---------------------------
(***************************************************************************)
(* One challenge as its actor runs it (challenge-harder/src/lifecycle/      *)
(* challenge.rs): commands from its inbox, deadlines derived from its state *)
(* and reports of processing runs are decided and applied one at a time.    *)
(* The environment is the set of clients, the clock (any pending deadline   *)
(* may come due) and the processing tasks, whose reports can be late.       *)
(***************************************************************************)
EXTENDS LifecycleCore

CONSTANTS
    Participants,       \* the clients that record as participants
    PartyUpdates,       \* whether updates may carry a changed party
    InOrder,            \* clients report a stage's end only once it is current
    MaxStageAttempt,    \* bound: attempts of a retriable stage
    MaxLate,            \* bound: late reports alongside a running task
    MaxTriggers         \* bound: no mode change once this many triggers exist

ASSUME LifecycleAssumption ==
    /\ Participants \subseteq Client
    /\ PartyUpdates \subseteq BOOLEAN
    /\ InOrder \in BOOLEAN
    /\ MaxLate \in Nat
    /\ MaxStageAttempt \in Nat \ {0}
    /\ MaxTriggers \in Nat

VARIABLES
    s,          \* the challenge's state
    inflight,   \* <<trigger, attempt>> of runs that may still report
    started,    \* history: stage attempts that were ever started
    seals       \* history: stage attempts sealed, in journal order

vars == <<s, inflight, started, seals>>

StageAttempt == Stage \X Nat
Run          == Nat \X Nat

(***************************************************************************)
(* Handling one command: decide, journal, apply, and spawn a task for a run *)
(* the batch started.  A task aborted by a timeout may have sent its report *)
(* already: it stays in flight, and may be lost when the next one spawns.   *)
(***************************************************************************)
SealAt(batch, i) ==
    IF i \in DOMAIN batch /\ batch[i].type = "StageSealed"
    THEN <<<<batch[i].stage, batch[i].attempt>>>> ELSE <<>>

SealedIn(batch) ==
    SealAt(batch, 1) \o SealAt(batch, 2) \o SealAt(batch, 3) \o SealAt(batch, 4) \o
    SealAt(batch, 5)

StartedIn(batch) ==
    {<<batch[i].stage, FirstAttempt(batch[i].stage)>> :
        i \in {j \in DOMAIN batch : batch[j].type = "StageStarted"}} \cup
    {<<batch[i].stage, batch[i].attempt>> :
        i \in {j \in DOMAIN batch : batch[j].type = "StageAttemptStarted"}}

Spawned(batch, t) ==
    IF \E i \in DOMAIN batch : batch[i].type = "ProcessingStarted"
    THEN {<<t.processing.active.trigger.seq, t.processing.active.attempts>>} ELSE {}

Journal(batch) ==
    /\ s'       = ApplyBatch(s, batch)
    /\ seals'   = seals \o SealedIn(batch)
    /\ started' = started \cup StartedIn(batch)

Handle(cmd) ==
    LET batch == Decide(s, cmd)
    IN  /\ ~Concluded(s)
        /\ batch # None
        /\ Journal(batch)
        /\ IF Spawned(batch, s') = {} THEN inflight' = inflight
           ELSE \E late \in {l \in SUBSET inflight : Cardinality(l) <= MaxLate} :
                    inflight' = late \cup Spawned(batch, s')

Init ==
    /\ s        = DefaultState
    /\ inflight = {}
    /\ started  = {}
    /\ seals    = <<>>

(***************************************************************************)
(* Inbox commands.  A create is always the first message of an inbox.       *)
(***************************************************************************)
CreateChallenge ==
    \E c \in Client, t \in Token, m \in Mode, st \in Stage :
        Handle([type |-> "Create", client |-> c, token |-> t, participant |-> c \in Participants,
                mode |-> m, stage |-> st])

JoinChallenge ==
    /\ s.created
    /\ \E c \in Client, t \in Token :
        Handle([type |-> "Join", client |-> c, token |-> t, participant |-> c \in Participants])

Progress == {NoProgress} \cup [stage : Stage, status : StageStatus]

\* The environment's side of InOrder, and the bound on attempts.
Plausible(progress) ==
    /\ InOrder /\ progress.status \in Finished => progress.stage <= s.stage
    /\ progress.status = "STARTED" /\ progress.stage = s.stage
          => s.attempt < MaxStageAttempt

UpdateChallenge ==
    /\ s.created
    /\ \E c \in Client, m \in Mode \cup {NoMode}, party \in PartyUpdates, pr \in Progress :
        /\ Plausible(pr)
        /\ m # NoMode => Len(Triggers(s.processing)) < MaxTriggers
        /\ Handle([type |-> "Update", client |-> c, mode |-> m, party |-> party,
                   progress |-> pr])

FinishClient ==
    /\ s.created
    /\ \E c \in Client, soft \in BOOLEAN, times \in BOOLEAN :
        Handle([type |-> "Finish", client |-> c, soft |-> soft, times |-> times])

ChangeClientStatus ==
    /\ s.created
    /\ \E c \in Client, t \in Token, status \in {"ACTIVE", "IDLE", "DISCONNECTED"} :
        Handle([type |-> "ClientStatus", client |-> c, token |-> t, status |-> status])

MoveClientOn ==
    /\ s.created
    /\ \E c \in Client : Handle([type |-> "ClientMovedOn", client |-> c])

(***************************************************************************)
(* Deadlines, reports and restarts.                                         *)
(***************************************************************************)
FireLifecycleDeadline ==
    /\ LifecycleDeadline(s) # "None"
    /\ Handle([type |-> "DeadlineFired", kind |-> LifecycleDeadline(s)])

FireProcessingDeadline ==
    /\ ProcessingDeadline(s) # "None"
    /\ Handle([type |-> "DeadlineFired", kind |-> ProcessingDeadline(s)])

Results == [ok : {TRUE}, status : {"NONE", "STARTED", "COMPLETED", "WIPED"},
            retriable : {FALSE}] \cup
           [ok : {FALSE}, status : {"NONE"}, retriable : BOOLEAN]

\* Only a stage run has an outcome status.
CanReport(run, result) ==
    result.status # "NONE" =>
        /\ run[1] \in DOMAIN Triggers(s.processing)
        /\ Triggers(s.processing)[run[1]].kind = "Stage"

\* A report reaches the actor.  A stale one decides nothing.
DeliverReport ==
    \E run \in inflight, result \in Results :
        LET batch == Decide(s, [type |-> "Processed", seq |-> run[1], attempt |-> run[2],
                                result |-> result])
        IN  /\ ~Concluded(s)
            /\ CanReport(run, result)
            /\ Journal(batch)
            /\ inflight' = inflight \ {run}

\* The actor stops at any point and the next one folds the same journal: its
\* tasks and their reports are gone, and a run found Running is respawned
\* under the same attempt number.
Restart ==
    LET run == s.processing.active
    IN  /\ s.created /\ ~Concluded(s)
        /\ inflight' = IF run # NoRun /\ run.running
                       THEN {<<run.trigger.seq, run.attempts>>} ELSE {}
        /\ UNCHANGED <<s, started, seals>>

\* A concluded challenge is deleted; its actor exits.
Done == Concluded(s) /\ UNCHANGED vars

Next ==
    \/ CreateChallenge \/ JoinChallenge \/ UpdateChallenge \/ FinishClient
    \/ ChangeClientStatus \/ MoveClientOn
    \/ FireLifecycleDeadline \/ FireProcessingDeadline
    \/ DeliverReport \/ Restart \/ Done

Spec == Init /\ [][Next]_vars

\* Weak fairness of the two timers: the actor sleeps until the earlier deadline
\* and a deadline that stays derived stays at its time, so each of the two is
\* eventually handled.  A timer's handler is enabled exactly while its deadline
\* is derived; writing that out spares TLC the ENABLED of a whole decision.
Fairness ==
    /\ \/ []<>(LifecycleDeadline(s) = "None")
       \/ []<><<FireLifecycleDeadline>>_vars
    /\ \/ []<>(ProcessingDeadline(s) = "None")
       \/ []<><<FireProcessingDeadline>>_vars

FairSpec == Spec /\ Fairness

--------------------------------------------------------------------------------
(***************************************************************************)
(* Properties.                                                              *)
(***************************************************************************)
\* Every variable has its type: clients present are records over known stages,
\* the pipeline holds well formed triggers (core/state.rs).
TypeOK ==
    /\ s.created \in BOOLEAN /\ s.dormant \in BOOLEAN /\ s.partyChanged \in BOOLEAN
    /\ s.mode \in Mode \cup {NoMode}
    /\ s.phase \in {"Active", "Finishing", "Terminated"}
    /\ s.stage \in Stage \cup {0} /\ s.attempt \in Nat /\ s.status \in StageStatus
    /\ s.stageState \in {"InProgress", "Ending", "Complete"}
    /\ Clients(s) \subseteq Client
    /\ \A c \in Clients(s) : s.clients[c] \in ClientRecord
    /\ s.recordedBy \subseteq Client
    /\ s.processing.active \in RunRecord \cup {NoRun}
    /\ \A i \in DOMAIN Triggers(s.processing) : Triggers(s.processing)[i] \in TriggerRecord
    /\ s.processing.status \in ChallengeStatus \cup {"NONE"}
    /\ inflight \subseteq Run
    /\ started \subseteq StageAttempt
    /\ \A i \in DOMAIN seals : seals[i] \in StageAttempt

\* A stage attempt's streams are finalized once: no two journal entries seal
\* the same (stage, attempt), whichever mix of completions, straggler windows,
\* restarts of the attempt and terminations asked for it (decide.rs seals in
\* six places).
SealedAtMostOnce == \A i, j \in DOMAIN seals : i # j => seals[i] # seals[j]

\* Nothing recorded is lost: a stage attempt that was started is either the one
\* being recorded or has been sealed, so its streams get processed.  Moving to
\* another stage, starting a new attempt and every way a challenge can end must
\* seal what they leave behind.
NoStageLost ==
    \A x \in started :
        \/ \E i \in DOMAIN seals : seals[i] = x
        \/ x = <<s.stage, s.attempt>> /\ ~Terminated(s) /\ ~Sealed(s)

\* A client's completion of the current attempt opens the straggler window (or
\* finds the stage sealed): the other clients cannot hold the stage open.
CompletionOpensWindow ==
    \A c \in Clients(s) :
        /\ s.clients[c].stage = s.stage
        /\ s.clients[c].attempt = s.attempt
        /\ s.clients[c].status \in Finished
        => s.stageState # "InProgress"

\* A client never records ahead of its challenge: within the current stage its
\* attempt is at most the challenge's, which is what makes the all-finished
\* test of decide.rs a comparison of attempts.
ClientNeverAhead ==
    \A c \in Clients(s) :
        s.clients[c].stage = s.stage => s.clients[c].attempt <= s.attempt

\* A live challenge with nobody active always has a deadline that will seal or
\* end it, so no challenge is stranded without a timer (deadline.rs derives it
\* from dormant_since, which apply.rs maintains entry by entry).
NeverStranded ==
    s.created /\ ~Terminated(s) /\ ~HasActive(s) => LifecycleDeadline(s) # "None"

\* Triggers settle in the order they were queued and none is skipped; the
\* finish trigger comes once, last, only after termination, and a challenge
\* concludes with it processed.
FinishClosesPipeline ==
    LET ts == Triggers(s.processing)
    IN  /\ \A i \in DOMAIN ts : ts[i].seq = i
        /\ \A i \in DOMAIN ts : ts[i].kind = "Finish" => i = Len(ts) /\ Terminated(s)
        /\ Concluded(s) /\ MaxAttempts > 0 => ts[Len(ts)].kind = "Finish"

\* The status the finish run stores is the challenge's final one: no outcome
\* that could change the published status settles after the finish trigger
\* captured it.
FinishStoresFinalStatus ==
    LET ts == Triggers(s.processing)
    IN  \A i \in DOMAIN ts : ts[i].kind = "Finish" => ts[i].info = Status(s)

\* A stage that is over is processed with its own outcome only: a run settles
\* through a report of its own, current attempt, or because its attempts are
\* exhausted; a late report of a timed out attempt or of an earlier trigger
\* settles nothing.
SettledByItsOwnAttempt ==
    [][LET run == s.processing.active
       IN  Len(s'.processing.completed) > Len(s.processing.completed) =>
             /\ run.running
             /\ \/ <<run.trigger.seq, run.attempts>> \in inflight
                \/ run.attempts >= AttemptsFor(run.trigger)]_vars

\* The challenge never goes back: its (stage, attempt) only grows, whatever
\* order the clients' reports arrive in.
NeverGoesBack ==
    [][\/ s'.stage > s.stage
       \/ s'.stage = s.stage /\ s'.attempt >= s.attempt]_vars

\* A straggler window always closes: once a client has finished the stage, the
\* stage is sealed without waiting for the others.
WindowCloses == s.stageState = "Ending" ~> s.stageState # "Ending"

\* An abandoned challenge winds down on its own: with no active client it is
\* terminated, its pipeline settles and it concludes, unless someone comes back.
AbandonedConcludes ==
    s.created /\ ~HasActive(s) ~> Concluded(s) \/ HasActive(s)

\* A terminated challenge concludes: failing, hanging and timed out runs are
\* retried only so often.
TerminatedConcludes == Terminated(s) ~> Concluded(s)

================================================================================
