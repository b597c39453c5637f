----------------------------- MODULE LifecycleCore -----------------------------
(***************************************************************************)
(* The pure heart of a challenge (challenge-harder/src/lifecycle/core): a   *)
(* challenge's state is a fold over journal entries, "decide" turns a       *)
(* command into a batch of entries and "apply" folds one entry in.  This    *)
(* module has no variables: ChallengeLifecycle drives it with clients,      *)
(* deadlines and processing runs.                                           *)
(*                                                                          *)
(* Abstractions.  Timestamps are reduced to the presence of the window they *)
(* anchor.  A journal position that triggers a run is numbered by its order *)
(* among the triggers.  Parties, times, tokens and ticks keep only what the *)
(* decisions read.  The ClientRemoved entries a deadline emits for every    *)
(* client are one entry over a set.                                         *)
(***************************************************************************)
EXTENDS Integers, Sequences, FiniteSets

CONSTANTS
    Client,             \* client ids
    Token,              \* session tokens
    Mode,               \* challenge modes, without NO_MODE
    Stage,              \* the stages of the challenge type, in order
    LastStage,          \* the stage whose completion completes the challenge
    Retriable,          \* stages that can be re-attempted
    MaxAttempts,        \* ProcessingConfig.max_attempts
    FinishMaxAttempts   \* ProcessingConfig.finish_max_attempts

ASSUME CoreAssumption ==
    /\ Stage \subseteq Nat \ {0}
    /\ LastStage \in Stage
    /\ Retriable \subseteq Stage
    /\ MaxAttempts \in Nat
    /\ FinishMaxAttempts \in Nat \ {0}

\* Only the delves past the last one can be re-attempted (types.rs), and no
\* stage comes after them.
ASSUME RetriableIsLast == \A r \in Retriable, st \in Stage : st <= r

NoMode     == "NO_MODE"
NoAttempt  == 0                         \* None of Option<u32>: below every Some
NoRun      == [kind |-> "NoRun"]
NoProgress == [stage |-> 0, status |-> "NONE"]

StageStatus == {"ENTERED", "STARTED", "COMPLETED", "WIPED"}
Finished    == {"COMPLETED", "WIPED"}
ChallengeStatus == {"IN_PROGRESS", "ABANDONED", "COMPLETED", "RESET", "WIPED"}

(***************************************************************************)
(* State.                                                                   *)
(***************************************************************************)
EmptyProcessing ==
    [active |-> NoRun, pending |-> <<>>, completed |-> <<>>,
     finishQueued |-> FALSE, status |-> "NONE"]

ClientRecord ==
    [token : Token, participant : BOOLEAN, active : BOOLEAN, stage : Stage,
     status : StageStatus, attempt : Nat]

TriggerRecord ==
    [seq : Nat, kind : {"Create", "Recorder", "StageStart", "Mode", "Stage", "Finish"},
     stage : Stage, attempt : Nat, info : ChallengeStatus]

RunRecord ==
    [kind : {"Run"}, trigger : TriggerRecord, attempts : Nat, retriable : BOOLEAN,
     running : BOOLEAN]

ResultRecord ==
    [ok : BOOLEAN, status : {"NONE", "STARTED", "COMPLETED", "WIPED"}, retriable : BOOLEAN]

DefaultState ==
    [created |-> FALSE, mode |-> NoMode, partyChanged |-> FALSE,
     phase |-> "Active", stage |-> 0, attempt |-> NoAttempt,
     status |-> "ENTERED", stageState |-> "InProgress",
     clients |-> <<>>, recordedBy |-> {}, dormant |-> FALSE,
     processing |-> EmptyProcessing]

Clients(s)    == DOMAIN s.clients
Terminated(s) == s.phase = "Terminated"
SealedNever(s) == FALSE                         \* mutant: forgets the seal
Sealed(s)     == s.stageState = "Complete"
Settled(p)    == p.active = NoRun /\ p.pending = <<>>
Concluded(s)  == Terminated(s) /\ Settled(s.processing)
HasActive(s)  == \E c \in Clients(s) : s.clients[c].active
Dormancy(s)   == IF Clients(s) = {} THEN "Empty"
                 ELSE IF HasActive(s) THEN "Active" ELSE "Idle"

\* Every trigger the challenge has queued, in the order it was queued.
Triggers(p) ==
    p.completed \o (IF p.active = NoRun THEN <<>> ELSE <<p.active.trigger>>) \o p.pending

StatusIfFinishedNow(stage, status) ==
    IF status = "STARTED" THEN "ABANDONED"
    ELSE IF stage > LastStage \/ (stage = LastStage /\ status = "COMPLETED") THEN "COMPLETED"
    ELSE IF status = "WIPED" THEN "WIPED"
    ELSE "RESET"

\* The published status of the challenge.
Status(s) ==
    IF ~Terminated(s) THEN "IN_PROGRESS"
    ELSE IF s.processing.status # "NONE" THEN s.processing.status
    ELSE StatusIfFinishedNow(s.stage, s.status)

(***************************************************************************)
(* Processing pipeline.                                                     *)
(***************************************************************************)
Trigger(p, kind, stage, attempt, info) ==
    [seq |-> Len(Triggers(p)) + 1, kind |-> kind, stage |-> stage,
     attempt |-> attempt, info |-> info]

NewRun(trigger) ==
    [kind |-> "Run", trigger |-> trigger, attempts |-> 0, retriable |-> TRUE,
     running |-> FALSE]

AttemptsFor(trigger) ==
    IF trigger.kind = "Finish" THEN FinishMaxAttempts ELSE MaxAttempts

Exhausted(run) == ~run.retriable \/ run.attempts >= AttemptsFor(run.trigger)

Push(p, kind, stage, attempt, info) ==
    LET t == Trigger(p, kind, stage, attempt, info)
        q == [p EXCEPT !.finishQueued = @ \/ kind = "Finish"]
    IN  IF MaxAttempts = 0 THEN p
        ELSE IF p.active = NoRun THEN [q EXCEPT !.active = NewRun(t)]
        ELSE [q EXCEPT !.pending = Append(@, t)]

\* Mutant: an attempt that is not counted.
StartRunUncounted(p, seq) == [p EXCEPT !.active.running = TRUE]

StartRun(p, seq) ==
    IF p.active # NoRun /\ p.active.trigger.seq = seq
    THEN [p EXCEPT !.active.attempts = @ + 1, !.active.running = TRUE]
    ELSE p

\* Mutant: the next trigger is taken over as if it were a run.
CompleteRunUnwrapped(p) ==
    [p EXCEPT !.completed = Append(@, p.active.trigger),
              !.active    = IF p.pending = <<>> THEN NoRun ELSE Head(p.pending),
              !.pending   = IF @ = <<>> THEN @ ELSE Tail(@)]

\* The run is over: record it and hand the pipeline to the next trigger.
CompleteRun(p) ==
    [p EXCEPT !.completed = Append(@, p.active.trigger),
              !.active    = IF p.pending = <<>> THEN NoRun ELSE NewRun(Head(p.pending)),
              !.pending   = IF @ = <<>> THEN @ ELSE Tail(@)]

\* A result is [ok, status, retriable]; an ok status of "NONE" is a run that
\* had no stage data.
FinishRun(p, result) ==
    LET ofStage == p.active.trigger.kind = "Stage"
        failed  == [p EXCEPT !.active.retriable = @ /\ result.retriable]
    IN  IF p.active = NoRun THEN p
        ELSE IF ~result.ok
             THEN IF Exhausted(failed.active) THEN CompleteRun(failed)
                  ELSE [failed EXCEPT !.active.running = FALSE]
        ELSE IF ofStage
             THEN CompleteRun([p EXCEPT !.status =
                      IF result.status = "NONE" THEN "NONE"
                      ELSE StatusIfFinishedNow(p.active.trigger.stage, result.status)])
        ELSE CompleteRun(p)

(***************************************************************************)
(* apply: one journal entry.                                                *)
(***************************************************************************)
With(s, c, record)   == [x \in Clients(s) \cup {c} |-> IF x = c THEN record ELSE s.clients[x]]
Without(s, gone)     == [x \in Clients(s) \ gone |-> s.clients[x]]
FirstAttempt(stage)  == IF stage \in Retriable THEN 1 ELSE NoAttempt

PushInfo(s, kind, stage, attempt) ==
    [s EXCEPT !.processing = Push(@, kind, stage, attempt, Status(s))]

AtCurrentStage(s, c, token, participant) ==
    [token |-> token, participant |-> participant, active |-> TRUE,
     stage |-> s.stage, status |-> "ENTERED", attempt |-> s.attempt]

ApplyJoined(s, e) ==
    LET t == IF e.client \in s.recordedBy THEN s
             ELSE [PushInfo(s, "Recorder", s.stage, s.attempt)
                   EXCEPT !.recordedBy = @ \cup {e.client}]
    IN  [t EXCEPT !.clients = With(s, e.client,
                                   AtCurrentStage(s, e.client, e.token, e.participant))]

ApplyRejoined(s, e) ==
    IF e.client \notin Clients(s) THEN s
    ELSE [s EXCEPT !.clients = With(s, e.client,
            AtCurrentStage(s, e.client, e.token, s.clients[e.client].participant))]

\* Mutant: only a stage that was started can end.
OpensWindowIfStarted(s, e) ==
    /\ e.status \in Finished /\ e.attempt = s.attempt
    /\ s.stageState = "InProgress" /\ s.status = "STARTED"

\* The first completion of the current attempt.
OpensWindow(s, e) ==
    e.status \in Finished /\ e.attempt = s.attempt /\ s.stageState = "InProgress"

ApplyReported(s, e) ==
    LET reported == IF e.client \notin Clients(s) THEN s
                    ELSE [s EXCEPT !.clients[e.client] =
                            [@ EXCEPT !.stage = e.stage, !.status = e.status,
                                      !.attempt = e.attempt, !.active = TRUE]]
    IN  IF OpensWindow(s, e)
        THEN [reported EXCEPT !.status = e.status, !.stageState = "Ending"]
        ELSE reported

ApplyStageStarted(s, e) ==
    LET started == [s EXCEPT !.stage = e.stage, !.attempt = FirstAttempt(e.stage),
                             !.status = "STARTED", !.stageState = "InProgress"]
    IN  IF e.stage = s.stage THEN started
        ELSE PushInfo(started, "StageStart", e.stage, started.attempt)

\* Mutant: the challenge keeps its old attempt.
ApplyAttemptForgotten(s, e) == [s EXCEPT !.status = "STARTED", !.stageState = "InProgress"]

ApplyAttemptStarted(s, e) ==
    [s EXCEPT !.attempt = e.attempt, !.status = "STARTED", !.stageState = "InProgress"]

ApplyProcessed(s, e) ==
    LET run  == s.processing.active
        mine == /\ run # NoRun /\ run.trigger.kind = "Stage"
                /\ run.trigger.stage = s.stage /\ run.trigger.attempt = s.attempt
        t    == IF e.result.ok /\ e.result.status # "NONE" /\ mine
                THEN [s EXCEPT !.status = e.result.status] ELSE s
    IN  [t EXCEPT !.processing = FinishRun(@, e.result)]

ApplyEvent(s, e) ==
    CASE e.type = "ChallengeCreated" ->
            PushInfo([s EXCEPT !.created = TRUE, !.mode = e.mode, !.stage = e.stage,
                               !.attempt = NoAttempt, !.status = "ENTERED",
                               !.stageState = "InProgress"],
                     "Create", e.stage, NoAttempt)
      [] e.type = "ClientJoined"        -> ApplyJoined(s, e)
      [] e.type = "ClientRejoined"      -> ApplyRejoined(s, e)
      [] e.type = "ClientStageReported" -> ApplyReported(s, e)
      [] e.type = "StageStarted"        -> ApplyStageStarted(s, e)
      [] e.type = "StageAttemptStarted" -> ApplyAttemptStarted(s, e)
      [] e.type = "StageSealed"         ->
            PushInfo([s EXCEPT !.stageState = "Complete"], "Stage", e.stage, e.attempt)
      [] e.type = "ChallengeFinishing"  -> [s EXCEPT !.phase = "Finishing"]
      [] e.type \in {"ClientFinished", "ClientsRemoved"} ->
            [s EXCEPT !.clients = Without(s, e.clients)]
      [] e.type = "ClientActivity"      ->
            IF e.client \in Clients(s) THEN [s EXCEPT !.clients[e.client].active = e.active]
            ELSE s
      [] e.type = "ChallengeTerminated" -> [s EXCEPT !.phase = "Terminated"]
      [] e.type = "ModeChanged"         ->
            PushInfo([s EXCEPT !.mode = e.mode], "Mode", s.stage, s.attempt)
      [] e.type = "PartyChanged"        -> [s EXCEPT !.partyChanged = TRUE]
      [] e.type = "ProcessingStarted"   -> [s EXCEPT !.processing = StartRun(@, e.seq)]
      [] e.type = "ProcessingEnded"     -> ApplyProcessed(s, e)

\* Mutants: the finish trigger does not wait for the pipeline, is queued again.
QueueFinishEarly(s) ==
    IF Terminated(s) /\ ~s.processing.finishQueued
    THEN PushInfo(s, "Finish", s.stage, s.attempt) ELSE s
QueueFinishAgain(s) ==
    IF Concluded(s) /\ Len(s.processing.completed) < 9
    THEN PushInfo(s, "Finish", s.stage, s.attempt) ELSE s

\* The bookkeeping after every entry: the finish trigger of a settled
\* terminated challenge, and the start of a dormancy window.
QueueFinish(s) ==
    IF Concluded(s) /\ ~s.processing.finishQueued
    THEN PushInfo(s, "Finish", s.stage, s.attempt) ELSE s

\* Mutant: an empty challenge does not count as dormant.
TrackDormancyOfIdle(before, s) ==
    [s EXCEPT !.dormant = Dormancy(s) = "Idle" /\ (@ \/ Dormancy(before) # "Idle")]

TrackDormancy(before, s) ==
    [s EXCEPT !.dormant = /\ Dormancy(s) # "Active"
                          /\ @ \/ Dormancy(s) # Dormancy(before)]

Apply(s, e) == TrackDormancy(s, QueueFinish(ApplyEvent(s, e)))

\* A batch is folded entry by entry.  No decision journals more than five
\* entries (mode, party, seal, start and report in one update).
ApplyNth(s, batch, i) == IF i \in DOMAIN batch THEN Apply(s, batch[i]) ELSE s

ApplyBatch(s, batch) ==
    LET s1 == ApplyNth(s,  batch, 1)
        s2 == ApplyNth(s1, batch, 2)
        s3 == ApplyNth(s2, batch, 3)
        s4 == ApplyNth(s3, batch, 4)
    IN  ApplyNth(s4, batch, 5)

(***************************************************************************)
(* Deadlines derived from the state.  Which of the two is earlier depends   *)
(* on the clock, so either may fire.                                        *)
(***************************************************************************)
\* Mutant: nobody cleans up after idle clients.
ChallengeDeadlineIfEmpty(s) ==
    IF s.phase = "Finishing" THEN "ChallengeEnd"
    ELSE IF s.dormant /\ Clients(s) = {} THEN "CleanupDisconnect" ELSE "None"

ChallengeDeadline(s) ==
    IF s.phase = "Finishing" THEN "ChallengeEnd"
    ELSE IF ~s.dormant THEN "None"
    ELSE IF Clients(s) = {} THEN "CleanupDisconnect" ELSE "CleanupAllIdle"

\* Mutant: the straggler window has no end of its own.
LifecycleDeadlineNoWindow(s) ==
    IF Terminated(s) \/ s.stageState = "Ending" THEN "None" ELSE ChallengeDeadline(s)

\* Stage ends come before challenge ends.
LifecycleDeadline(s) ==
    IF Terminated(s) THEN "None"
    ELSE IF s.stageState = "Ending" THEN "StageEnd" ELSE ChallengeDeadline(s)

ProcessingDeadline(s) ==
    IF s.processing.active = NoRun THEN "None"
    ELSE IF s.processing.active.running THEN "ProcessingTimeout" ELSE "ProcessingDue"

(***************************************************************************)
(* decide: the batch of entries a command journals; the empty batch is a    *)
(* command without effect.                                                  *)
(***************************************************************************)
None == <<>>

DecideCreate(s, cmd) ==
    IF s.created THEN None
    ELSE <<[type |-> "ChallengeCreated", mode |-> cmd.mode, stage |-> cmd.stage],
           [type |-> "ClientJoined", client |-> cmd.client, token |-> cmd.token,
            participant |-> cmd.participant]>>

DecideJoin(s, cmd) ==
    IF cmd.client \in Clients(s)
    THEN <<[type |-> "ClientRejoined", client |-> cmd.client, token |-> cmd.token]>>
    ELSE <<[type |-> "ClientJoined", client |-> cmd.client, token |-> cmd.token,
            participant |-> cmd.participant]>>

Seal(stage, attempt, forced) ==
    [type |-> "StageSealed", stage |-> stage, attempt |-> attempt, forced |-> forced]

Report(cmd, attempt) ==
    [type |-> "ClientStageReported", client |-> cmd.client, attempt |-> attempt,
     stage |-> cmd.progress.stage, status |-> cmd.progress.status]

\* Whether a client at this position no longer records the current stage.
FinishedStage(s, stage, status, attempt) ==
    \/ stage > s.stage
    \/ status \in Finished /\ attempt >= s.attempt

AllFinished(s, cmd) ==
    \A c \in Clients(s) :
        IF c = cmd.client
        THEN FinishedStage(s, cmd.progress.stage, cmd.progress.status, s.clients[c].attempt)
        ELSE FinishedStage(s, s.clients[c].stage, s.clients[c].status, s.clients[c].attempt)

DecideFinished(s, cmd) ==
    LET attempt == s.clients[cmd.client].attempt
    IN  <<Report(cmd, attempt)>> \o
        (IF AllFinished(s, cmd) /\ ~Sealed(s)
         THEN <<Seal(cmd.progress.stage, attempt, FALSE)>> ELSE None)

DecideStarted(s, cmd) ==
    LET stage  == cmd.progress.stage
        client == s.clients[cmd.client]
        cutOff == IF Sealed(s) THEN None ELSE <<Seal(s.stage, s.attempt, TRUE)>>
    IN  IF stage # s.stage \/ s.status = "ENTERED"
        THEN (IF stage # s.stage /\ s.status # "ENTERED" THEN cutOff ELSE None) \o
             <<[type |-> "StageStarted", stage |-> stage],
               Report(cmd, FirstAttempt(stage))>>
        ELSE IF s.attempt # NoAttempt /\ client.stage = s.stage /\ client.attempt = s.attempt
        THEN cutOff \o
             <<[type |-> "StageAttemptStarted", stage |-> s.stage, attempt |-> s.attempt + 1],
               Report(cmd, s.attempt + 1)>>
        ELSE <<Report(cmd, s.attempt)>>

DecideProgress(s, cmd) ==
    CASE cmd.progress.status \in Finished   -> DecideFinished(s, cmd)
      [] cmd.progress.status = "STARTED"    -> DecideStarted(s, cmd)
      [] cmd.progress.status = "ENTERED"    -> <<Report(cmd, s.clients[cmd.client].attempt)>>

TooLateNever(s, stage) == FALSE        \* mutant: late reports are taken at face value
TooLate(s, stage)      == stage < s.stage

\* cmd.party: the update carries a party with other members.
DecideUpdate(s, cmd) ==
    LET info == (IF cmd.mode \in Mode \ {s.mode}
                 THEN <<[type |-> "ModeChanged", mode |-> cmd.mode]>> ELSE None) \o
                (IF cmd.party /\ ~s.partyChanged THEN <<[type |-> "PartyChanged"]>> ELSE None)
    IN  IF cmd.progress = NoProgress THEN info
        ELSE IF cmd.client \notin Clients(s) \/ TooLate(s, cmd.progress.stage) THEN None
        ELSE info \o DecideProgress(s, cmd)

DecideStatus(s, cmd) ==
    IF cmd.client \notin Clients(s) \/ s.clients[cmd.client].token # cmd.token THEN None
    ELSE IF cmd.status = "DISCONNECTED"
         THEN <<[type |-> "ClientsRemoved", clients |-> {cmd.client}]>>
    ELSE IF (cmd.status = "ACTIVE") = s.clients[cmd.client].active THEN None
    ELSE <<[type |-> "ClientActivity", client |-> cmd.client,
            active |-> cmd.status = "ACTIVE"]>>

DecideMovedOn(s, cmd) ==
    IF cmd.client \in Clients(s)
    THEN <<[type |-> "ClientsRemoved", clients |-> {cmd.client}]>> ELSE None

SealOpenStageNever(s) == None          \* mutant: the end leaves the stage open
SealOpenStage(s) ==
    IF ~Sealed(s) /\ s.status # "ENTERED" THEN <<Seal(s.stage, s.attempt, TRUE)>> ELSE None

Terminate == <<[type |-> "ChallengeTerminated"]>>

DecideFinish(s, cmd) ==
    LET definitive == (~cmd.soft /\ s.clients[cmd.client].participant) \/ cmd.times
        finished   == <<[type |-> "ClientFinished", clients |-> {cmd.client}]>>
    IN  IF cmd.client \notin Clients(s) THEN None
        ELSE IF Cardinality(Clients(s)) > 1
        THEN (IF definitive /\ s.phase = "Active"
              THEN <<[type |-> "ChallengeFinishing"]>> ELSE None) \o finished
        ELSE finished \o SealOpenStage(s) \o Terminate

DecideDeadline(s, cmd) ==
    LET removeAll == <<[type |-> "ClientsRemoved", clients |-> Clients(s)]>>
        seq       == s.processing.active.trigger.seq
    IN  IF cmd.kind \notin {LifecycleDeadline(s), ProcessingDeadline(s)} THEN None
        ELSE CASE cmd.kind = "StageEnd" -> <<Seal(s.stage, s.attempt, TRUE)>>
               [] cmd.kind \in {"ChallengeEnd", "CleanupAllIdle"} ->
                     removeAll \o SealOpenStage(s) \o Terminate
               [] cmd.kind = "CleanupDisconnect" -> SealOpenStage(s) \o Terminate
               [] cmd.kind = "ProcessingDue"     ->
                     <<[type |-> "ProcessingStarted", seq |-> seq]>>
               [] cmd.kind = "ProcessingTimeout" ->
                     <<[type |-> "ProcessingEnded", seq |-> seq, timedOut |-> TRUE,
                        result |-> [ok |-> FALSE, status |-> "NONE", retriable |-> TRUE]]>>

\* Mutant: any report of the active trigger counts.
ReportIsForTrigger(s, cmd) ==
    s.processing.active # NoRun /\ s.processing.active.trigger.seq = cmd.seq

\* A report counts only while its own attempt is still running.
ReportIsCurrent(s, cmd) ==
    LET run == s.processing.active
    IN  /\ run # NoRun
        /\ run.trigger.seq = cmd.seq /\ run.attempts = cmd.attempt /\ run.running

DecideProcessed(s, cmd) ==
    IF ReportIsCurrent(s, cmd)
    THEN <<[type |-> "ProcessingEnded", seq |-> cmd.seq, timedOut |-> FALSE,
            result |-> cmd.result]>>
    ELSE None

\* Only processing continues after termination.
Decide(s, cmd) ==
    IF Terminated(s) /\ cmd.type \notin {"Processed", "DeadlineFired"} THEN None
    ELSE CASE cmd.type = "Create"        -> DecideCreate(s, cmd)
           [] cmd.type = "Join"          -> DecideJoin(s, cmd)
           [] cmd.type = "Update"        -> DecideUpdate(s, cmd)
           [] cmd.type = "Finish"        -> DecideFinish(s, cmd)
           [] cmd.type = "ClientStatus"  -> DecideStatus(s, cmd)
           [] cmd.type = "ClientMovedOn" -> DecideMovedOn(s, cmd)
           [] cmd.type = "DeadlineFired" -> DecideDeadline(s, cmd)
           [] cmd.type = "Processed"     -> DecideProcessed(s, cmd)

================================================================================
