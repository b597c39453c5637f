------------------------------ MODULE ChallengeActor ------------------------------
(***************************************************************************)
(* The actor of one challenge between its inbox and its durable state       *)
(* (challenge-harder/src/lifecycle/challenge.rs): it takes a message, a     *)
(* report or a deadline, journals what LifecycleCore decides, applies it,   *)
(* seals the streams of ended stages, cleans up after settled runs and      *)
(* publishes its state.  It may stop between any two of these steps; the    *)
(* next actor starts from the journal.                                      *)
(*                                                                          *)
(* Abstractions.  One actor runs at a time (ChallengeLease).  A message id  *)
(* is its position in the inbox.  The journal is kept as what folding it    *)
(* yields.  A call that fails for good stops the actor, so it is a Crash.   *)
(***************************************************************************)
EXTENDS LifecycleCore

CONSTANTS
    FirstCommand,   \* the create START queues
    Commands,       \* what clients may queue after it
    Outcomes,       \* results of processing runs
    MaxInbox,       \* bound: messages queued
    MaxFaults       \* bound: crashes and failed calls

CreateCommand ==
    [type : {"Create"}, client : Client, token : Token, participant : BOOLEAN,
     mode : Mode, stage : Stage]

ClientCommand ==
    [type : {"Join"}, client : Client, token : Token, participant : BOOLEAN] \cup
    [type : {"Update"}, client : Client, mode : Mode \cup {NoMode}, party : BOOLEAN,
     progress : {NoProgress} \cup [stage : Stage, status : StageStatus]] \cup
    [type : {"Finish"}, client : Client, soft : BOOLEAN, times : BOOLEAN] \cup
    [type : {"ClientStatus"}, client : Client, token : Token,
     status : {"ACTIVE", "IDLE", "DISCONNECTED"}] \cup
    [type : {"ClientMovedOn"}, client : Client]

ASSUME ActorAssumption ==
    /\ FirstCommand \in CreateCommand
    /\ Commands \subseteq ClientCommand
    /\ Outcomes \subseteq ResultRecord
    /\ MaxInbox \in Nat
    /\ MaxFaults \in Nat

VARIABLES
    inbox,      \* queued messages, in order
    durable,    \* [state, cursor] the journal folds to
    marked,     \* stage streams closed to writes
    removed,    \* stage streams deleted
    announced,  \* StageEnd announcements, in order
    published,  \* the last snapshot, with its cursor
    actor,      \* [at, state, cursor, batch, cause, sealed, ended]
    work,       \* <<trigger, attempt>> the processing task runs
    chanel,     \* reports on their way to the actor
    handled,    \* history: messages ever handled
    ran,        \* history: triggers whose run was started
    faults      \* disturbances so far

disk == <<durable, marked, removed, announced, published>>
vars == <<inbox, disk, actor, work, chanel, handled, ran, faults>>

NoWork == <<>>

CHANEL_BUFFER_LEN == 4

Snapshot(state, cursor) ==
    [phase |-> state.phase, stage |-> state.stage, attempt |-> state.attempt,
     status |-> Status(state), clients |-> state.clients, cursor |-> cursor]

StreamOf(trigger) == <<trigger.stage, trigger.attempt>>

Streams(ts) == {StreamOf(ts[i]) : i \in {j \in DOMAIN ts : ts[j].kind = "Stage"}}

Outstanding(p) ==
    (IF p.active = NoRun THEN <<>> ELSE <<p.active.trigger>>) \o p.pending

\* An actor that waits at a step with nothing in hand.
Actor(at, state, cursor) ==
    [at |-> at, state |-> state, cursor |-> cursor, batch |-> None, cause |-> 0,
     sealed |-> {}, ended |-> <<>>]

Down == Actor("down", DefaultState, 0)

Max2(a, b) == IF a > b THEN a ELSE b

Fault == faults < MaxFaults /\ faults' = faults + 1

Init ==
    /\ inbox = <<FirstCommand>>
    /\ durable = [state |-> DefaultState, cursor |-> 0]
    /\ marked = {} /\ removed = {} /\ announced = <<>>
    /\ published = Snapshot(DefaultState, 0)
    /\ actor = Down /\ work = NoWork /\ chanel = <<>>
    /\ handled = 0 /\ ran = {} /\ faults = 0

\* A command is queued whether or not an actor runs.
Send ==
    /\ Len(inbox) < MaxInbox /\ actor.at # "gone"
    /\ \E cmd \in Commands : inbox' = Append(inbox, cmd)
    /\ UNCHANGED <<disk, actor, work, chanel, handled, ran, faults>>

(***************************************************************************)
(* Starting from the journal.                                               *)
(***************************************************************************)
\* Mutant: the inbox is followed from its end.
BootAtEnd ==
    /\ actor.at = "down"
    /\ actor' = Actor(IF Concluded(durable.state) THEN "conclude" ELSE "republish",
                      durable.state, Len(inbox))
    /\ UNCHANGED <<inbox, disk, work, chanel, handled, ran, faults>>

Boot ==
    /\ actor.at = "down"
    /\ actor' = Actor(IF Concluded(durable.state) THEN "conclude" ELSE "republish",
                      durable.state, durable.cursor)
    /\ UNCHANGED <<inbox, disk, work, chanel, handled, ran, faults>>

\* Mutant: what a predecessor journaled stays unpublished.
RepublishNever ==
    /\ actor.at = "republish"
    /\ actor' = [actor EXCEPT !.at = "remark"]
    /\ UNCHANGED <<inbox, disk, work, chanel, handled, ran, faults>>

Republish ==
    /\ actor.at = "republish"
    /\ published' = IF actor.state.created THEN Snapshot(actor.state, actor.cursor)
                    ELSE published
    /\ actor' = [actor EXCEPT !.at = "remark"]
    /\ UNCHANGED <<inbox, durable, marked, removed, announced, work, chanel, handled, ran, faults>>

Respawned(p) ==
    IF p.active # NoRun /\ p.active.running
    THEN <<p.active.trigger.seq, p.active.attempts>> ELSE NoWork

\* Mutant: the streams are taken to be sealed already.
RemarkNever ==
    /\ actor.at = "remark"
    /\ work' = Respawned(actor.state.processing)
    /\ actor' = [actor EXCEPT !.at = "loop"]
    /\ UNCHANGED <<inbox, disk, chanel, handled, ran, faults>>

\* The streams of outstanding runs are sealed again, then a run the journal
\* shows as started is spawned again.
Remark ==
    /\ actor.at = "remark"
    /\ marked' = marked \cup Streams(Outstanding(actor.state.processing))
    /\ work' = Respawned(actor.state.processing)
    /\ actor' = [actor EXCEPT !.at = "loop"]
    /\ UNCHANGED <<inbox, durable, removed, announced, published, chanel, handled, ran, faults>>

(***************************************************************************)
(* The loop.  The inbox feed may deliver late, so an available message is   *)
(* no obstacle for the other inputs, but a report comes before a deadline.  *)
(***************************************************************************)
\* Mutant: an empty batch is journaled like any other.
IgnoredJournaled(cursor) ==
    /\ actor' = [actor EXCEPT !.at = "append", !.cause = cursor]
    /\ handled' = Max2(handled, cursor)

\* A message that changes nothing still moves the published cursor.
Ignored(cursor) ==
    /\ actor' = [actor EXCEPT !.at = "project", !.cursor = cursor]
    /\ handled' = Max2(handled, cursor)

TakeMessage ==
    LET id    == actor.cursor + 1
        batch == Decide(actor.state, inbox[id])
    IN  /\ actor.at = "loop" /\ id <= Len(inbox)
        /\ \/ batch = None /\ Ignored(id)
           \/ /\ batch # None
              /\ actor' = [actor EXCEPT !.at = "append", !.batch = batch, !.cause = id]
              /\ handled' = handled
        /\ UNCHANGED <<inbox, disk, work, chanel, ran, faults>>

TakeReport ==
    LET report == Head(chanel)
        batch  == Decide(actor.state, [type |-> "Processed", seq |-> report.seq,
                                       attempt |-> report.attempt, result |-> report.result])
    IN  /\ actor.at = "loop" /\ chanel # <<>>
        /\ chanel' = Tail(chanel)
        /\ actor' = IF batch = None THEN actor
                    ELSE [actor EXCEPT !.at = "append", !.batch = batch, !.cause = 0]
        /\ UNCHANGED <<inbox, disk, work, handled, ran, faults>>

TakeDeadline ==
    /\ actor.at = "loop" /\ chanel = <<>>
    /\ \E kind \in {LifecycleDeadline(actor.state), ProcessingDeadline(actor.state)} \ {"None"} :
        actor' = [actor EXCEPT !.at    = "append",
                               !.batch = Decide(actor.state, [type |-> "DeadlineFired",
                                                              kind |-> kind]),
                               !.cause = 0]
    /\ UNCHANGED <<inbox, disk, work, chanel, handled, ran, faults>>

(***************************************************************************)
(* Journaling and the effects of a batch.                                   *)
(***************************************************************************)
Has(batch, type) == \E i \in DOMAIN batch : batch[i].type = type

SealsIn(batch) ==
    {<<batch[i].stage, batch[i].attempt>> :
        i \in {j \in DOMAIN batch : batch[j].type = "StageSealed"}}

\* The triggers whose runs the batch settled.
NewlyCompleted(before, after) ==
    SubSeq(after.processing.completed, Len(before.processing.completed) + 1,
           Len(after.processing.completed))

\* Mutant: the entries forget which message caused them.
JournaledUncaused ==
    [state |-> ApplyBatch(durable.state, actor.batch), cursor |-> durable.cursor]

Journaled ==
    [state |-> ApplyBatch(durable.state, actor.batch), cursor |-> Max2(durable.cursor, actor.cause)]

\* Only a batch that queues no trigger: a repeated trigger would repeat its
\* journal position, which this numbering of triggers cannot express.
Repeatable(batch) ==
    \A i \in DOMAIN batch : batch[i].type \in {"ProcessingEnded", "ProcessingStarted"}

AppendBatch ==
    LET after == ApplyBatch(actor.state, actor.batch)
    IN  /\ actor.at = "append"
        /\ durable' = Journaled
        /\ actor' = [Actor("mark", after, Max2(actor.cursor, actor.cause)) EXCEPT
                       !.sealed = SealsIn(actor.batch),
                       !.ended  = NewlyCompleted(actor.state, after)]
        /\ handled' = Max2(handled, actor.cause)
        /\ IF Has(actor.batch, "ProcessingStarted")
           THEN work' = Respawned(after.processing)
                /\ ran' = ran \cup {after.processing.active.trigger.seq}
           ELSE work' = (IF Has(actor.batch, "ProcessingEnded") THEN NoWork ELSE work)
                /\ ran' = ran
        /\ UNCHANGED <<inbox, marked, removed, announced, published, chanel, faults>>

\* with_retries cannot tell a lost reply from a lost request: the batch is
\* journaled and will be appended again.
AppendUnseen ==
    /\ actor.at = "append" /\ Repeatable(actor.batch)
    /\ Fault /\ durable' = Journaled
    /\ UNCHANGED <<inbox, marked, removed, announced, published, actor, work, chanel, handled, ran>>

Mark ==
    /\ actor.at = "mark"
    /\ marked' = marked \cup actor.sealed
    /\ actor' = [actor EXCEPT !.at = IF actor.ended = <<>> THEN "project" ELSE "remove",
                              !.sealed = {}]
    /\ UNCHANGED <<inbox, durable, removed, announced, published, work, chanel, handled, ran, faults>>

\* The settled runs one by one.
EndedNext ==
    [actor EXCEPT !.at    = IF Len(actor.ended) = 1 THEN "project" ELSE "remove",
                  !.ended = Tail(@)]

PassOver ==
    /\ actor.at = "remove" /\ Head(actor.ended).kind # "Stage"
    /\ actor' = EndedNext
    /\ UNCHANGED <<inbox, disk, work, chanel, handled, ran, faults>>

\* A settled stage run: its stream goes, and its end is announced.  Failures of
\* either call are logged and passed over.
RemoveStream ==
    /\ actor.at = "remove" /\ Head(actor.ended).kind = "Stage"
    /\ actor' = [actor EXCEPT !.at = "announce"]
    /\ \/ removed' = removed \cup {StreamOf(Head(actor.ended))} /\ UNCHANGED faults
       \/ Fault /\ UNCHANGED removed
    /\ UNCHANGED <<inbox, durable, marked, announced, published, work, chanel, handled, ran>>

AnnounceStageEnd ==
    /\ actor.at = "announce"
    /\ actor' = EndedNext
    /\ \/ announced' = Append(announced, StreamOf(Head(actor.ended))) /\ UNCHANGED faults
       \/ Fault /\ UNCHANGED announced
    /\ UNCHANGED <<inbox, durable, marked, removed, published, work, chanel, handled, ran>>

Project ==
    /\ actor.at = "project"
    /\ published' = Snapshot(actor.state, actor.cursor)
    /\ actor' = [actor EXCEPT !.at = IF Concluded(actor.state) THEN "conclude" ELSE "loop"]
    /\ UNCHANGED <<inbox, durable, marked, removed, announced, work, chanel, handled, ran, faults>>

\* The challenge is deleted and its actor exits, ending what it spawned.
Conclude ==
    /\ actor.at = "conclude"
    /\ actor' = Actor("gone", actor.state, actor.cursor)
    /\ work' = NoWork /\ chanel' = <<>>
    /\ UNCHANGED <<inbox, disk, handled, ran, faults>>

(***************************************************************************)
(* The processing task and the end of an actor.                             *)
(***************************************************************************)
WorkTrigger == Triggers(durable.state.processing)[work[1]]

\* The task's report enters the channel; by the time it is read the attempt may
\* have timed out.
FinishWork ==
    /\ work # NoWork /\ Len(chanel) < CHANEL_BUFFER_LEN
    /\ \E result \in Outcomes :
        /\ result.status # "NONE" => WorkTrigger.kind = "Stage"
        /\ chanel' = Append(chanel, [seq |-> work[1], attempt |-> work[2], result |-> result])
    /\ work' = NoWork
    /\ UNCHANGED <<inbox, disk, actor, handled, ran, faults>>

Crash ==
    /\ actor.at \notin {"down", "gone"}
    /\ Fault
    /\ actor' = Down /\ work' = NoWork /\ chanel' = <<>>
    /\ UNCHANGED <<inbox, disk, handled, ran>>

Gone == actor.at = "gone" /\ UNCHANGED vars

ActorStep ==
    \/ Boot \/ Republish \/ Remark
    \/ TakeMessage \/ TakeReport \/ TakeDeadline
    \/ AppendBatch \/ Mark \/ PassOver \/ RemoveStream \/ AnnounceStageEnd \/ Project \/ Conclude

Next == Send \/ ActorStep \/ FinishWork \/ Crash \/ Gone

Spec == Init /\ [][Next]_vars

\* The actor over a store whose replies may get lost.
LossySpec == Init /\ [][Next \/ AppendUnseen]_vars

\* The challenge is claimed again after a crash (ChallengeLease) and the actor is
\* scheduled.  Neither clients nor processing tasks need to act.
Fairness == WF_vars(ActorStep)

FairSpec == Spec /\ Fairness

--------------------------------------------------------------------------------
(***************************************************************************)
(* Properties.                                                              *)
(***************************************************************************)
Steps == {"down", "republish", "remark", "loop", "append", "mark", "remove", "announce",
          "project", "conclude", "gone"}

\* Every variable has its type, and the actor holds a batch exactly while it is
\* about to journal one.
TypeOK ==
    /\ actor.at \in Steps
    /\ (actor.at = "append") = (actor.batch # None)
    /\ (actor.at \in {"remove", "announce"}) => actor.ended # <<>>
    /\ actor.cursor \in 0 .. Len(inbox) /\ durable.cursor \in 0 .. Len(inbox)
    /\ handled \in 0 .. Len(inbox)
    /\ marked \cup removed \subseteq Stage \X Nat
    /\ work \in {NoWork} \cup (Nat \X Nat)
    /\ ran \subseteq Nat

\* Messages after the journal's cursor are delivered again after a restart.
\* Those an earlier actor had already handled had no effect, and have none now,
\* whatever deadlines and reports changed in between: handling twice is safe.
RedeliveryIsHarmless ==
    \A i \in durable.cursor + 1 .. handled : Decide(durable.state, inbox[i]) = None

\* A stage is processed from a stream that is closed to writes and still there,
\* also when its actor died between journaling the seal and closing the stream.
RunSeesItsStream ==
    work # NoWork /\ WorkTrigger.kind = "Stage" =>
        StreamOf(WorkTrigger) \in marked \ removed

\* An actor waits for input only after publishing everything journaled and
\* every message handled, so a caller waiting for its command is not left behind.
WaitsPublished ==
    actor.at = "loop" /\ durable.state.created =>
        published = Snapshot(durable.state, actor.cursor)

\* Every queued message is handled, or the challenge ends first.
EveryMessageHandled ==
    \A i \in 1 .. MaxInbox : Len(inbox) >= i ~> handled >= i \/ actor.at = "gone"

\* sim/mod.rs: "Every settled stage run deletes its stream and publishes a stage
\* end."
StageEndsPublished ==
    LET IsStage(t) == t.kind = "Stage"
        done       == SelectSeq(durable.state.processing.completed, IsStage)
    IN  actor.at = "gone" => announced = [i \in DOMAIN done |-> StreamOf(done[i])]

\* state.rs: "completed" holds "Triggers whose runs settled".
SettledWereRun ==
    LET done == durable.state.processing.completed
    IN  \A i \in DOMAIN done : done[i].seq \in ran

================================================================================
