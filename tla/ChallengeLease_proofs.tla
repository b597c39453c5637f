-------------------------- MODULE ChallengeLease_proofs --------------------------
(***************************************************************************)
(* Proofs about ChallengeLease for any servers, bounds and number of        *)
(* faults, whether or not replies get lost.                                 *)
(***************************************************************************)
EXTENDS ChallengeLease, SequenceTheorems, TLAPS

(***************************************************************************)
(* Every step of a task replaces that one task.                             *)
(***************************************************************************)
\* What a task may become while it stays in its place.
LEMMA TaskUpdate ==
    ASSUME task \in Seq(Task), NEW e \in DOMAIN task, NEW t \in Task, Become(e, t)
    PROVE  /\ task' \in Seq(Task)
           /\ Len(task') = Len(task)
           /\ DOMAIN task' = DOMAIN task
           /\ task'[e] = t
           /\ \A d \in DOMAIN task : d # e => task'[d] = task[d]
<1>1. e \in 1 .. Len(task)
    BY LenProperties
<1>2. QED
    BY <1>1, ExceptSeq, LenProperties DEF Become

\* A task of the sequence is a well formed record.
LEMMA TaskIsRecord ==
    ASSUME task \in Seq(Task), NEW e \in DOMAIN task
    PROVE  task[e] \in Task
BY ElementOfSeq

\* The helpers of the actions leave a well formed task.
LEMMA HelpersTyped ==
    ASSUME NEW t \in Task, NEW pc \in PC
    PROVE  /\ NewTask(t.server, pc) \in Task
           /\ [t EXCEPT !.pc = pc, !.tries = StoreAttempts] \in Task
           /\ t.tries > 1 => [t EXCEPT !.tries = @ - 1] \in Task
<1>1. StoreAttempts \in 1 .. StoreAttempts
    BY LeaseAssumption
<1>2. NewTask(t.server, pc) \in Task
    BY <1>1 DEF Task, NewTask, NoBatch, Batch
<1>3. [t EXCEPT !.pc = pc, !.tries = StoreAttempts] \in Task
    BY <1>1 DEF Task
<1>4. t.tries > 1 => [t EXCEPT !.tries = @ - 1] \in Task
    BY LeaseAssumption DEF Task
<1>5. QED
    BY <1>2, <1>3, <1>4

LEMMA UpdatesTyped ==
    ASSUME NEW t \in Task, NEW pc \in PC, NEW n \in Nat, NEW b \in BOOLEAN, NEW x \in Batch
    PROVE  /\ [t EXCEPT !.pc = pc, !.next = n, !.ended = b] \in Task
           /\ [t EXCEPT !.pc = pc, !.ended = b, !.batch = x, !.tries = StoreAttempts] \in Task
           /\ [t EXCEPT !.pc = pc, !.next = n, !.batch = x] \in Task
<1>1. StoreAttempts \in 1 .. StoreAttempts
    BY LeaseAssumption
<1>2. [t EXCEPT !.pc = pc, !.next = n, !.ended = b] \in Task
    BY DEF Task
<1>3. [t EXCEPT !.pc = pc, !.ended = b, !.batch = x, !.tries = StoreAttempts] \in Task
    BY <1>1 DEF Task
<1>4. [t EXCEPT !.pc = pc, !.next = n, !.batch = x] \in Task
    BY DEF Task
<1>5. QED
    BY <1>2, <1>3, <1>4

\* What a task reads off the journal has its type.
LEMMA JournalTyped ==
    ASSUME journal \in Seq(Entry)
    PROVE  NextSeq(journal) \in Nat /\ Ended(journal) \in BOOLEAN
<1>1. CASE journal = <<>>
    BY <1>1 DEF NextSeq, Ended
<1>2. CASE journal # <<>>
    <2>1. journal[Len(journal)] \in Entry
        BY <1>2, LenProperties, ElementOfSeq, EmptySeq
    <2>2. QED
        BY <1>2, <2>1 DEF NextSeq, Ended, Entry
<1>3. QED
    BY <1>1, <1>2

\* A task journals well formed batches.
LEMMA StampedTyped ==
    ASSUME TypeOK, NEW e \in DOMAIN task
    PROVE  Stamped(e) \in Entry
<1>1. task[e] \in Task
    BY TaskIsRecord DEF TypeOK
<1>2. e \in Nat
    BY LenProperties DEF TypeOK
<1>3. QED
    BY <1>1, <1>2 DEF Stamped, Task, Batch, Entry

\* Every operation of a task turns it into a well formed task.
TaskAction(e) ==
    \/ TaskStep(e) \/ Quarantine(e) \/ Ignore(e) \/ Decide(e) \/ Release(e) \/ Crash(e)

LEMMA UnavailableBecomes ==
    ASSUME task \in Seq(Task), NEW e \in DOMAIN task, NEW pc \in PC, Unavailable(e, pc)
    PROVE  \E t \in Task : Become(e, t)
<1>1. task[e] \in Task
    BY TaskIsRecord
<1>2. "exited" \in PC
    BY DEF PC
<1>3. CASE task[e].tries > 1
    BY <1>1, <1>3, HelpersTyped DEF Unavailable, Retry
<1>4. CASE ~(task[e].tries > 1)
    BY <1>1, <1>2, <1>4, HelpersTyped DEF Unavailable, Exit, Go
<1>5. QED
    BY <1>3, <1>4

LEMMA TaskActionBecomes ==
    ASSUME TypeOK, NEW e \in DOMAIN task, TaskAction(e)
    PROVE  \E t \in Task : Become(e, t)
<1>1. task[e] \in Task
    BY TaskIsRecord DEF TypeOK
<1>2. /\ {"load", "resume", "project", "idle", "append", "announce", "delete", "hold",
           "exited"} \subseteq PC
    BY DEF PC
<1>go. ASSUME NEW pc \in PC, Go(e, pc) PROVE \E t \in Task : Become(e, t)
    BY <1>1, <1>go, HelpersTyped DEF Go
<1>exit. ASSUME Exit(e) PROVE \E t \in Task : Become(e, t)
    BY <1>1, <1>2, <1>exit, HelpersTyped DEF Exit
<1>call. ASSUME NEW pc \in PC, Unavailable(e, pc) PROVE \E t \in Task : Become(e, t)
    BY <1>call, UnavailableBecomes DEF TypeOK
<1>3. CASE Register(e)
    BY <1>2, <1>3, <1>go, <1>exit DEF Register
<1>4. CASE Load(e)
    <2> DEFINE pc == IF Ended(journal) THEN "announce" ELSE "resume"
               n  == NextSeq(journal)
               b  == Ended(journal)
    <2>1. pc \in PC
        BY DEF PC
    <2>2. n \in Nat /\ b \in BOOLEAN
        BY JournalTyped DEF TypeOK
    <2>3. NoBatch \in Batch
        BY DEF NoBatch, Batch
    <2>4. Become(e, [task[e] EXCEPT !.pc = pc, !.next = n, !.ended = b])
        BY <1>4 DEF Load
    <2> HIDE DEF pc, n, b
    <2>5. [task[e] EXCEPT !.pc = pc, !.next = n, !.ended = b] \in Task
        BY <1>1, <2>1, <2>2, <2>3, UpdatesTyped
    <2>6. QED
        BY <2>4, <2>5
<1>5. CASE Resume(e)
    BY <1>2, <1>5, <1>go DEF Resume
<1>6. CASE AppendBatch(e)
    <2>1. NoBatch \in Batch /\ task[e].batch.final \in BOOLEAN
        BY <1>1 DEF NoBatch, Batch, Task
    <2>2. [task[e] EXCEPT !.pc = "project", !.ended = task[e].batch.final,
                          !.batch = NoBatch, !.tries = StoreAttempts] \in Task
        BY <1>1, <1>2, <2>1, UpdatesTyped
    <2>3. QED
        BY <1>2, <1>6, <2>2, <1>exit, <1>call DEF AppendBatch
<1>7. CASE Project(e)
    BY <1>2, <1>7, <1>go, <1>exit, <1>call DEF Project
<1>8. CASE Announce(e)
    BY <1>2, <1>8, <1>go, <1>call DEF Announce
<1>9. CASE Delete(e)
    BY <1>2, <1>9, <1>exit, <1>call DEF Delete
<1>10. CASE Quarantine(e)
    BY <1>2, <1>10, <1>go DEF Quarantine
<1>11. CASE Ignore(e)
    BY <1>2, <1>11, <1>go DEF Ignore
<1>12. CASE Decide(e)
    <2>1. PICK n \in 1 .. MaxBatch, final \in BOOLEAN :
            Become(e, [task[e] EXCEPT
                         !.pc = "append", !.next = @ + n,
                         !.batch = [first |-> task[e].next, count |-> n, final |-> final]])
        BY <1>12 DEF Decide
    <2>2. /\ task[e].next + n \in Nat
          /\ [first |-> task[e].next, count |-> n, final |-> final] \in Batch
        BY <1>1, LeaseAssumption DEF Task, Batch
    <2>3. QED
        BY <1>1, <1>2, <2>1, <2>2, UpdatesTyped
<1>13. CASE Release(e)
    BY <1>13, <1>exit DEF Release
<1>14. CASE Crash(e)
    BY <1>14, <1>exit DEF Crash
<1>15. QED
    BY <1>3, <1>4, <1>5, <1>6, <1>7, <1>8, <1>9, <1>10, <1>11, <1>12, <1>13, <1>14
    DEF TaskAction, TaskStep

--------------------------------------------------------------------------------
(***************************************************************************)
(* Type correctness.                                                        *)
(***************************************************************************)
\* Every variable keeps its type through every step of servers, tasks and time:
\* in particular a retried call never runs out below one try.
THEOREM TypeCorrect == Spec => []TypeOK
<1>1. Init => TypeOK
    BY EmptySeq DEF Init, TypeOK
<1>2. TypeOK /\ [Next]_vars => TypeOK'
    <2> SUFFICES ASSUME TypeOK, [Next]_vars
                 PROVE  TypeOK'
        OBVIOUS
    <2>1. ASSUME NEW sv \in Server, Start(sv)
          PROVE  TypeOK'
        <3>1. NewTask(sv, "starting") \in Task
            BY LeaseAssumption DEF NewTask, Task, PC, NoBatch, Batch
        <3>2. <<NewTask(sv, "starting")>> \in Seq(Task)
            BY <3>1
        <3>3. QED
            BY <2>1, <3>2 DEF Start, TypeOK
    <2>2. ASSUME NEW sv \in Server, Claim(sv)
          PROVE  TypeOK'
        <3>1. NewTask(sv, "load") \in Task /\ NewTask(sv, "exited") \in Task
            BY LeaseAssumption DEF NewTask, Task, PC, NoBatch, Batch
        <3>2. /\ Append(task, NewTask(sv, "load")) \in Seq(Task)
              /\ Append(task, NewTask(sv, "exited")) \in Seq(Task)
            BY <3>1, AppendProperties DEF TypeOK
        <3>3. task' \in Seq(Task)
            BY <2>2, <3>2 DEF Claim
        <3>4. QED
            BY <2>2, <3>3 DEF Claim, Fault, TypeOK
    <2>3. ASSUME NEW e \in DOMAIN task, TaskAction(e)
          PROVE  TypeOK'
        <3>1. task' \in Seq(Task)
            BY <2>3, TaskActionBecomes, TaskUpdate DEF TypeOK
        <3>2. journal' \in Seq(Entry)
            <4>1. CASE AppendBatch(e)
                <5>1. Journaled(e) \in Seq(Entry)
                    BY StampedTyped, AppendProperties DEF Journaled, TypeOK
                <5>2. QED
                    BY <4>1, <5>1 DEF AppendBatch, TypeOK
            <4>2. CASE ~AppendBatch(e)
                BY <2>3, <4>2 DEF TaskAction, TaskStep, Register, Load, Resume, Project,
                    Announce, Delete, Quarantine, Ignore, Decide, Release, Crash, TypeOK
            <4>3. QED
                BY <4>1, <4>2
        <3>3. projected' \in Nat
            <4>1. task[e].next \in Nat
                BY TaskIsRecord DEF TypeOK, Task
            <4>2. QED
                BY <2>3, <4>1 DEF TaskAction, TaskStep, Register, Load, Resume, Project,
                    AppendBatch, Announce, Delete, Quarantine, Ignore, Decide, Release, Crash,
                    TypeOK
        <3>4. faults + 1 \in Nat /\ finishes + 1 \in Nat
            BY DEF TypeOK
        <3>5. faults' \in {faults, faults + 1} /\ finishes' \in {finishes, finishes + 1}
            BY <2>3, Zenon DEF TaskAction, TaskStep, Register, Load, Resume, Project,
                AppendBatch, Announce, Delete, Quarantine, Ignore, Decide, Release, Crash,
                Unavailable, Fault
        <3>6. faults' \in Nat /\ finishes' \in Nat
            BY <3>4, <3>5 DEF TypeOK
        <3>7. /\ phase' \in {"NEW", "LIVE", "GONE"} /\ fence' \in Nat
              /\ owner' \in Server \cup {NoServer} /\ deadline' \in {"ahead", "past"}
            <4>1. CASE Delete(e)
                BY <4>1 DEF Delete, store, TypeOK
            <4>2. CASE Release(e)
                BY <4>2 DEF Release, TypeOK
            <4>3. CASE ~Delete(e) /\ ~Release(e)
                BY <2>3, <4>3 DEF TaskAction, TaskStep, Register, Load, Resume, Project,
                    AppendBatch, Announce, Quarantine, Ignore, Decide, Crash, store, TypeOK
            <4>4. QED
                BY <4>1, <4>2, <4>3
        <3>8. QED
            BY <3>1, <3>2, <3>3, <3>6, <3>7 DEF TypeOK
    <2>4. ASSUME NEW e \in DOMAIN task, Renew(e)
          PROVE  TypeOK'
        <3>1. CASE Accepted(e)
            BY <2>4, <3>1 DEF Renew, TypeOK
        <3>2. CASE ~Accepted(e)
            <4>1. "exited" \in PC
                BY DEF PC
            <4>2. NewTask(task[e].server, "exited") \in Task
                BY <4>1, TaskIsRecord, HelpersTyped DEF TypeOK
            <4>3. task' \in Seq(Task)
                BY <2>4, <3>2, <4>2, TaskUpdate DEF Renew, Exit, TypeOK
            <4>4. QED
                BY <2>4, <3>2, <4>3 DEF Renew, TypeOK
        <3>3. QED
            BY <3>1, <3>2
    <2>5. CASE Lapse
        BY <2>5 DEF Lapse, Fault, TypeOK
    <2>6. CASE UNCHANGED vars
        BY <2>6 DEF vars, TypeOK
    <2>7. QED
        BY <2>1, <2>2, <2>3, <2>4, <2>5, <2>6 DEF Next, Gone, TaskAction
<1>3. QED
    BY <1>1, <1>2, PTL DEF Spec

--------------------------------------------------------------------------------
(***************************************************************************)
(* What a step leaves of the task it acts on.                               *)
(***************************************************************************)
LEMMA GoEffect ==
    ASSUME task \in Seq(Task), NEW e \in DOMAIN task, NEW pc \in PC, Go(e, pc)
    PROVE  /\ task'[e].pc = pc
           /\ task'[e].next = task[e].next
           /\ task'[e].ended = task[e].ended
           /\ task'[e].batch = task[e].batch
<1> DEFINE t == task[e]
<1>1. t \in Task
    BY TaskIsRecord
<1>2. Become(e, [t EXCEPT !.pc = pc, !.tries = StoreAttempts])
    BY DEF Go
<1> HIDE DEF t
<1>3. [t EXCEPT !.pc = pc, !.tries = StoreAttempts] \in Task
    BY <1>1, HelpersTyped
<1>4. task'[e] = [t EXCEPT !.pc = pc, !.tries = StoreAttempts]
    BY <1>2, <1>3, TaskUpdate
<1>5. task'[e].pc = pc /\ task'[e].next = t.next /\ task'[e].ended = t.ended
      /\ task'[e].batch = t.batch
    BY <1>1, <1>4 DEF Task
<1>6. QED
    BY <1>5 DEF t

LEMMA ExitEffect ==
    ASSUME task \in Seq(Task), NEW e \in DOMAIN task, Exit(e)
    PROVE  task'[e].pc = "exited"
<1>1. "exited" \in PC
    BY DEF PC
<1>2. NewTask(task[e].server, "exited") \in Task
    BY <1>1, TaskIsRecord, HelpersTyped
<1>3. task'[e] = NewTask(task[e].server, "exited")
    BY <1>2, TaskUpdate DEF Exit
<1>4. QED
    BY <1>3 DEF NewTask

LEMMA UnavailableEffect ==
    ASSUME task \in Seq(Task), NEW e \in DOMAIN task, NEW pc \in PC, Unavailable(e, pc)
    PROVE  \/ task'[e].pc = "exited"
           \/ /\ task'[e].pc \in {task[e].pc, pc}
              /\ task'[e].next = task[e].next
              /\ task'[e].ended = task[e].ended
              /\ task'[e].batch = task[e].batch
<1> DEFINE t == task[e]
<1>1. t \in Task
    BY TaskIsRecord
<1>2. CASE t.tries > 1
    <2>1. Become(e, [t EXCEPT !.tries = @ - 1])
        BY <1>2 DEF Unavailable, Retry
    <2> HIDE DEF t
    <2>2. [t EXCEPT !.tries = @ - 1] \in Task
        <3>1. "exited" \in PC
            BY DEF PC
        <3>2. QED
            BY <1>1, <1>2, <3>1, HelpersTyped
    <2>3. task'[e] = [t EXCEPT !.tries = @ - 1]
        BY <2>1, <2>2, TaskUpdate
    <2>4. task'[e].pc = t.pc /\ task'[e].next = t.next /\ task'[e].ended = t.ended
          /\ task'[e].batch = t.batch
        BY <1>1, <2>3 DEF Task
    <2>5. QED
        BY <2>4 DEF t
<1>3. CASE ~(t.tries > 1) /\ pc = "exited"
    BY <1>3, ExitEffect DEF Unavailable
<1>4. CASE ~(t.tries > 1) /\ pc # "exited"
    <2>1. Go(e, pc)
        BY <1>4 DEF Unavailable
    <2>2. QED
        BY <2>1, GoEffect
<1>5. QED
    BY <1>2, <1>3, <1>4

(***************************************************************************)
(* The inductive invariant: what the holder of the fence knows, and that    *)
(* nobody else can disturb it.                                              *)
(***************************************************************************)
\* The fence is the newest epoch for as long as the challenge lives.
FenceIsNewest ==
    /\ phase = "NEW"  => fence = 0 /\ task = <<>> /\ journal = <<>>
    /\ phase = "LIVE" => fence = Len(task)
    /\ phase = "GONE" => fence = 0 /\ Ended(journal)

\* What its next write will rely on.
HolderOK(e) ==
    Accepted(e) =>
        /\ task[e].pc \in {"resume", "idle", "project"} => task[e].next = NextSeq(journal)
        /\ task[e].pc \in {"resume", "idle"} => ~Ended(journal) /\ ~task[e].ended
        /\ task[e].pc = "project" => (task[e].ended <=> Ended(journal))
        /\ task[e].pc \in {"announce", "delete"} => Ended(journal)
        /\ task[e].pc = "append" =>
             /\ task[e].next = task[e].batch.first + task[e].batch.count
             /\ \/ task[e].batch.first = NextSeq(journal) /\ ~Ended(journal)
                \/ LostReplies /\ journal # <<>> /\ journal[Len(journal)] = Stamped(e)

EpochsIssued == \A i \in DOMAIN journal : journal[i].epoch <= Len(task)

IInv ==
    /\ TypeOK
    /\ FenceIsNewest
    /\ \A e \in DOMAIN task : HolderOK(e)
    /\ EpochsIssued
    /\ projected <= NextSeq(journal)
    /\ OneHistory

\* A batch that follows the last one extends the history.
LEMMA AppendHistory ==
    ASSUME journal \in Seq(Entry), OneHistory, NEW b \in Entry,
           journal' = Append(journal, b),
           journal = <<>> => b.first = 0,
           journal # <<>> => Follows(journal[Len(journal)], b)
    PROVE  /\ OneHistory'
           /\ journal' # <<>> /\ journal'[Len(journal')] = b
           /\ NextSeq(journal') = b.first + b.count
           /\ Ended(journal') = b.final
<1>1. /\ Len(journal') = Len(journal) + 1
      /\ \A i \in 1 .. Len(journal) : journal'[i] = journal[i]
      /\ journal'[Len(journal) + 1] = b
      /\ Len(journal) \in Nat
    BY AppendProperties, LenProperties
<1>2. journal' # <<>>
    BY <1>1, AppendProperties
<1>3. journal'[1].first = 0
    <2>1. CASE journal = <<>>
        BY <1>1, <2>1
    <2>2. CASE journal # <<>>
        <3>1. 1 \in 1 .. Len(journal)
            BY <1>1, <2>2, EmptySeq
        <3>2. QED
            BY <1>1, <2>2, <3>1 DEF OneHistory
    <2>3. QED
        BY <2>1, <2>2
<1>4. ASSUME NEW i \in 1 .. Len(journal') - 1
      PROVE  Follows(journal'[i], journal'[i + 1])
    <2>1. CASE i = Len(journal)
        <3>1. journal # <<>>
            BY <1>1, <2>1, EmptySeq
        <3>2. journal'[i] = journal[Len(journal)] /\ journal'[i + 1] = b
            BY <1>1, <2>1
        <3>3. QED
            BY <3>1, <3>2
    <2>2. CASE i # Len(journal)
        <3>1. i \in 1 .. Len(journal) - 1
            BY <1>1, <2>2
        <3>2. journal'[i] = journal[i] /\ journal'[i + 1] = journal[i + 1]
            BY <1>1, <3>1
        <3>3. QED
            BY <3>1, <3>2 DEF OneHistory
    <2>3. QED
        BY <2>1, <2>2
<1>5. journal'[Len(journal')] = b
    BY <1>1
<1>6. NextSeq(journal') = b.first + b.count
    BY <1>2, <1>5 DEF NextSeq
<1>7. Ended(journal') = b.final
    <2>1. b.final \in BOOLEAN
        BY DEF Entry
    <2>2. QED
        BY <1>2, <1>5, <2>1 DEF Ended
<1>8. QED
    BY <1>2, <1>3, <1>4, <1>5, <1>6, <1>7 DEF OneHistory

\* The steps of a task that write nothing but its own record.
Quiet == UNCHANGED <<phase, fence, journal, projected>>

LEMMA QuietStep ==
    ASSUME IInv, NEW e \in DOMAIN task, NEW t \in Task, Become(e, t), Quiet,
           HolderOK(e)', TypeOK'
    PROVE  IInv'
<1>1. /\ Len(task') = Len(task) /\ DOMAIN task' = DOMAIN task
      /\ \A d \in DOMAIN task : d # e => task'[d] = task[d]
    BY TaskUpdate DEF IInv, TypeOK
<1>2. FenceIsNewest'
    <2>1. task # <<>>
        OBVIOUS
    <2>2. QED
        BY <1>1, <2>1 DEF IInv, FenceIsNewest, Quiet
<1>3. ASSUME NEW d \in DOMAIN task'
      PROVE  HolderOK(d)'
    <2>1. CASE d = e
        BY <2>1
    <2>2. CASE d # e
        <3>1. task'[d] = task[d] /\ HolderOK(d)
            BY <1>1, <2>2 DEF IInv
        <3>2. QED
            BY <3>1 DEF HolderOK, Accepted, Stamped, Quiet
    <2>3. QED
        BY <2>1, <2>2
<1>4. EpochsIssued' /\ (projected <= NextSeq(journal))' /\ OneHistory'
    BY <1>1 DEF IInv, EpochsIssued, OneHistory, Quiet
<1>5. QED
    BY <1>2, <1>3, <1>4 DEF IInv

\* A task that reads, waits, decides, is told to stop or dies.
LEMMA QuietActions ==
    ASSUME IInv, TypeOK', NEW e \in DOMAIN task,
           \/ Register(e) \/ Load(e) \/ Resume(e) \/ Quarantine(e) \/ Ignore(e)
           \/ Decide(e) \/ Release(e) \/ Crash(e) \/ Announce(e)
    PROVE  IInv'
<1>1. PICK t \in Task : Become(e, t)
    BY TaskActionBecomes DEF TaskAction, TaskStep, IInv
<1>2. Quiet
    BY DEF Quiet, store, Register, Load, Resume, Quarantine, Ignore, Decide, Release, Crash,
        Announce
<1>3. task'[e] = t /\ task[e] \in Task
    BY <1>1, TaskUpdate, TaskIsRecord DEF IInv, TypeOK
<1>4. HolderOK(e) /\ task \in Seq(Task)
    BY DEF IInv, TypeOK
<1>5. {"load", "resume", "project", "idle", "append", "announce", "delete", "hold",
       "exited"} \subseteq PC
    BY DEF PC
<1>6. HolderOK(e)'
    <2>1. CASE task'[e].pc \in {"exited", "load", "hold"}
        BY <2>1 DEF HolderOK
    <2>2. CASE Register(e)
        <3>1. task'[e].pc \in {"exited", "load"}
            BY <1>4, <1>5, <2>2, GoEffect, ExitEffect DEF Register
        <3>2. QED
            BY <2>1, <3>1
    <2>3. CASE Load(e)
        <3> DEFINE pc == IF Ended(journal) THEN "announce" ELSE "resume"
                   n  == NextSeq(journal)
                   b  == Ended(journal)
                   u  == task[e]
        <3>1. Become(e, [u EXCEPT !.pc = pc, !.next = n, !.ended = b])
            BY <2>3 DEF Load
        <3>2. pc \in PC
            BY DEF PC
        <3>3. n \in Nat /\ b \in BOOLEAN
            BY JournalTyped DEF IInv, TypeOK
        <3>4. NoBatch \in Batch
            BY DEF NoBatch, Batch
        <3>5. u \in Task
            BY <1>3
        <3> HIDE DEF pc, n, b, u
        <3>6. [u EXCEPT !.pc = pc, !.next = n, !.ended = b] \in Task
            BY <3>2, <3>3, <3>4, <3>5, UpdatesTyped
        <3>7. task'[e] = [u EXCEPT !.pc = pc, !.next = n, !.ended = b]
            BY <1>4, <3>1, <3>6, TaskUpdate
        <3>8. task'[e].pc = pc /\ task'[e].next = n /\ task'[e].ended = b
            BY <3>5, <3>7 DEF Task
        <3>9. QED
            BY <1>2, <3>8 DEF HolderOK, Accepted, Quiet, pc, n, b
    <2>4. CASE Resume(e)
        <3>1. /\ task'[e].pc \in {"project", "idle"} /\ task[e].pc = "resume"
              /\ task'[e].next = task[e].next /\ task'[e].ended = task[e].ended
            BY <1>4, <1>5, <2>4, GoEffect DEF Resume
        <3>2. QED
            BY <1>2, <1>4, <3>1 DEF HolderOK, Accepted, Quiet
    <2>5. CASE Quarantine(e)
        <3>1. task'[e].pc = "hold"
            BY <1>4, <1>5, <2>5, GoEffect DEF Quarantine
        <3>2. QED
            BY <2>1, <3>1
    <2>6. CASE Ignore(e)
        <3>1. /\ task'[e].pc = "project" /\ task[e].pc = "idle"
              /\ task'[e].next = task[e].next /\ task'[e].ended = task[e].ended
            BY <1>4, <1>5, <2>6, GoEffect DEF Ignore
        <3>2. QED
            BY <1>2, <1>4, <3>1 DEF HolderOK, Accepted, Quiet
    <2>7. CASE Decide(e)
        <3> DEFINE u == task[e]
        <3>1. PICK n \in 1 .. MaxBatch, final \in BOOLEAN :
                Become(e, [u EXCEPT
                             !.pc = "append", !.next = @ + n,
                             !.batch = [first |-> u.next, count |-> n, final |-> final]])
            BY <2>7 DEF Decide
        <3> DEFINE m == u.next + n
                   x == [first |-> u.next, count |-> n, final |-> final]
        <3>2. u \in Task
            BY <1>3
        <3>3. m \in Nat /\ x \in Batch
            BY <3>2, LeaseAssumption DEF Task, Batch
        <3>4. Become(e, [u EXCEPT !.pc = "append", !.next = m, !.batch = x])
            BY <3>1
        <3>5. x.first = u.next /\ x.count = n
            OBVIOUS
        <3>6. u.pc = "idle"
            BY <2>7 DEF Decide
        <3>7. m = x.first + x.count
            BY <3>5
        <3>8. Accepted(e) => u.next = NextSeq(journal) /\ ~Ended(journal)
            BY <1>4, <3>6 DEF HolderOK
        <3> HIDE DEF m, x, u
        <3>9. [u EXCEPT !.pc = "append", !.next = m, !.batch = x] \in Task
            BY <1>5, <3>2, <3>3, UpdatesTyped
        <3>10. task'[e] = [u EXCEPT !.pc = "append", !.next = m, !.batch = x]
            BY <1>4, <3>4, <3>9, TaskUpdate
        <3>11. task'[e].pc = "append" /\ task'[e].next = m /\ task'[e].batch = x
            BY <3>2, <3>10 DEF Task
        <3>12. QED
            BY <1>2, <3>5, <3>7, <3>8, <3>11 DEF HolderOK, Accepted, Quiet
    <2>8. CASE Release(e) \/ Crash(e)
        <3>1. task'[e].pc = "exited"
            BY <1>4, <2>8, ExitEffect DEF Release, Crash
        <3>2. QED
            BY <2>1, <3>1
    <2>9. CASE Announce(e)
        <3>1. /\ task'[e].pc \in {"announce", "delete", "exited"}
              /\ task[e].pc = "announce"
            BY <1>4, <1>5, <2>9, GoEffect, UnavailableEffect DEF Announce
        <3>2. QED
            BY <1>2, <1>4, <3>1 DEF HolderOK, Accepted, Quiet
    <2>10. QED
        BY <2>2, <2>3, <2>4, <2>5, <2>6, <2>7, <2>8, <2>9
<1>7. QED
    BY <1>1, <1>2, <1>6, QuietStep

\* Only the holder appends, and its batch follows what the journal holds.
LEMMA AppendBatchKeeps ==
    ASSUME IInv, TypeOK', NEW e \in DOMAIN task, AppendBatch(e)
    PROVE  IInv'
<1>1. PICK t \in Task : Become(e, t)
    BY TaskActionBecomes DEF TaskAction, TaskStep, IInv
<1>2. /\ Len(task') = Len(task) /\ DOMAIN task' = DOMAIN task
      /\ task'[e] = t
      /\ \A d \in DOMAIN task : d # e => task'[d] = task[d]
    BY <1>1, TaskUpdate DEF IInv, TypeOK
<1>3. /\ HolderOK(e) /\ task \in Seq(Task) /\ task[e] \in Task
      /\ journal \in Seq(Entry)
    BY TaskIsRecord DEF IInv, TypeOK
<1>4. "exited" \in PC
    BY DEF PC
<1>5. CASE journal' = journal
    <2>1. task'[e].pc = "exited" \/ (/\ task'[e].pc = task[e].pc
                                     /\ task'[e].next = task[e].next
                                     /\ task'[e].batch = task[e].batch)
        <3>1. journal # Journaled(e)
            <4>1. Len(Journaled(e)) = Len(journal) + 1 /\ Len(journal) \in Nat
                BY <1>3, StampedTyped, AppendProperties, LenProperties DEF Journaled, IInv
            <4>2. QED
                BY <4>1
        <3>2. \/ Exit(e)
              \/ Unavailable(e, "exited")
            BY <1>5, <3>1 DEF AppendBatch
        <3>3. QED
            BY <1>3, <1>4, <3>2, ExitEffect, UnavailableEffect
    <2>2. Quiet
        BY <1>5 DEF AppendBatch, Quiet, store
    <2>3. HolderOK(e)'
        <3>1. CASE task'[e].pc = "exited"
            BY <3>1 DEF HolderOK
        <3>2. CASE task'[e].pc = task[e].pc /\ task'[e].next = task[e].next
                   /\ task'[e].batch = task[e].batch
            <4>1. task[e].pc = "append"
                BY DEF AppendBatch
            <4>2. QED
                BY <1>3, <2>2, <3>2, <4>1 DEF HolderOK, Accepted, Stamped, Quiet
        <3>3. QED
            BY <2>1, <3>1, <3>2
    <2>4. QED
        BY <1>1, <2>2, <2>3, QuietStep
<1>6. CASE journal' # journal
    <2> DEFINE b == Stamped(e)
    <2>1. /\ Accepted(e) /\ journal' = Append(journal, b)
          /\ UNCHANGED <<phase, fence, projected>>
          /\ task[e].pc = "append"
        BY <1>6 DEF AppendBatch, Journaled, store
    <2>2. b \in Entry
        BY StampedTyped DEF IInv
    <2>3. /\ b.epoch = e /\ b.first = task[e].batch.first
          /\ b.count = task[e].batch.count /\ b.final = task[e].batch.final
        BY DEF Stamped
    <2>4. /\ task[e].next = b.first + b.count
          /\ \/ b.first = NextSeq(journal) /\ ~Ended(journal)
             \/ LostReplies /\ journal # <<>> /\ journal[Len(journal)] = b
        BY <1>3, <2>1, <2>3 DEF HolderOK
    <2>5. phase = "LIVE" /\ fence = Len(task) /\ e = Len(task) /\ task # <<>>
        BY <1>3, <2>1, LenProperties, EmptySeq DEF IInv, FenceIsNewest, TypeOK, Accepted
    <2>6. journal # <<>> => Follows(journal[Len(journal)], b)
        <3>1. ASSUME journal # <<>>, b.first = NextSeq(journal), ~Ended(journal)
              PROVE  Follows(journal[Len(journal)], b)
            <4>1. Len(journal) \in DOMAIN journal
                BY <1>3, <3>1, LenProperties, EmptySeq
            <4>2. b.epoch >= journal[Len(journal)].epoch
                BY <1>3, <2>2, <2>3, <2>5, <4>1, ElementOfSeq, LenProperties
                DEF IInv, EpochsIssued, Entry
            <4>3. ~journal[Len(journal)].final
                BY <3>1 DEF Ended
            <4>4. b.first = journal[Len(journal)].first + journal[Len(journal)].count
                BY <3>1 DEF NextSeq
            <4>5. QED
                BY <4>2, <4>3, <4>4 DEF Follows
        <3>2. QED
            BY <2>4, <3>1 DEF Follows
    <2>7. journal = <<>> => b.first = 0
        BY <2>4 DEF NextSeq
    <2>8. /\ OneHistory'
          /\ journal' # <<>> /\ journal'[Len(journal')] = b
          /\ NextSeq(journal') = b.first + b.count
          /\ Ended(journal') = b.final
        BY <1>3, <2>1, <2>2, <2>6, <2>7, AppendHistory DEF IInv
    <2>9. HolderOK(e)'
        <3>1. \/ Become(e, [task[e] EXCEPT !.pc = "project", !.ended = task[e].batch.final,
                                           !.batch = NoBatch, !.tries = StoreAttempts])
              \/ LostReplies /\ Unavailable(e, "exited")
            BY <1>6 DEF AppendBatch
        <3>2. CASE Become(e, [task[e] EXCEPT !.pc = "project", !.ended = task[e].batch.final,
                                             !.batch = NoBatch, !.tries = StoreAttempts])
            <4> DEFINE u == task[e]
                       f == task[e].batch.final
            <4>1. Become(e, [u EXCEPT !.pc = "project", !.ended = f,
                                      !.batch = NoBatch, !.tries = StoreAttempts])
                BY <3>2
            <4>2. u \in Task /\ f \in BOOLEAN /\ NoBatch \in Batch /\ "project" \in PC
                BY <1>3 DEF Task, Batch, NoBatch, PC
            <4>3. f = b.final /\ u.next = b.first + b.count
                BY <2>3, <2>4
            <4> HIDE DEF u, f
            <4>4. [u EXCEPT !.pc = "project", !.ended = f,
                            !.batch = NoBatch, !.tries = StoreAttempts] \in Task
                BY <4>2, UpdatesTyped
            <4>5. task'[e] = [u EXCEPT !.pc = "project", !.ended = f,
                                       !.batch = NoBatch, !.tries = StoreAttempts]
                BY <1>3, <4>1, <4>4, TaskUpdate
            <4>6. task'[e].pc = "project" /\ task'[e].next = u.next /\ task'[e].ended = f
                BY <4>2, <4>5 DEF Task
            <4>7. QED
                BY <2>8, <4>3, <4>6 DEF HolderOK
        <3>3. CASE LostReplies /\ Unavailable(e, "exited")
            <4>1. task'[e].pc = "exited" \/ (/\ task'[e].pc = "append"
                                             /\ task'[e].next = task[e].next
                                             /\ task'[e].batch = task[e].batch)
                BY <1>3, <1>4, <2>1, <3>3, UnavailableEffect
            <4>2. CASE task'[e].pc = "exited"
                BY <4>2 DEF HolderOK
            <4>3. CASE /\ task'[e].pc = "append" /\ task'[e].next = task[e].next
                       /\ task'[e].batch = task[e].batch
                <5>1. Stamped(e)' = b
                    BY <4>3 DEF Stamped
                <5>2. task'[e].next = task'[e].batch.first + task'[e].batch.count
                    BY <2>3, <2>4, <4>3
                <5>3. QED
                    BY <2>8, <3>3, <4>3, <5>1, <5>2 DEF HolderOK
            <4>4. QED
                BY <4>1, <4>2, <4>3
        <3>4. QED
            BY <3>1, <3>2, <3>3
    <2>10. ASSUME NEW d \in DOMAIN task'
           PROVE  HolderOK(d)'
        <3>1. CASE d = e
            BY <2>9, <3>1
        <3>2. CASE d # e
            BY <2>1, <3>2 DEF HolderOK, Accepted
        <3>3. QED
            BY <3>1, <3>2
    <2>11. FenceIsNewest'
        BY <1>2, <2>1, <2>5 DEF FenceIsNewest
    <2>12. EpochsIssued'
        <3>1. /\ \A i \in 1 .. Len(journal) : journal'[i] = journal[i]
              /\ journal'[Len(journal) + 1] = b
              /\ DOMAIN journal' = 1 .. Len(journal) + 1
              /\ DOMAIN journal = 1 .. Len(journal) /\ Len(journal) \in Nat
            BY <1>3, <2>1, <2>2, AppendProperties, LenProperties
        <3>2. Len(task) \in Nat
            BY <1>3, LenProperties
        <3>3. ASSUME NEW i \in DOMAIN journal'
              PROVE  journal'[i].epoch <= Len(task')
            <4>1. CASE i = Len(journal) + 1
                BY <1>2, <2>3, <2>5, <3>1, <3>2, <4>1
            <4>2. CASE i # Len(journal) + 1
                <5>1. i \in DOMAIN journal /\ journal'[i] = journal[i]
                    BY <3>1, <4>2
                <5>2. QED
                    BY <1>2, <5>1 DEF IInv, EpochsIssued
            <4>3. QED
                BY <4>1, <4>2
        <3>4. QED
            BY <3>3 DEF EpochsIssued
    <2>13. (projected <= NextSeq(journal))'
        <3>1. NextSeq(journal) \in Nat /\ projected \in Nat /\ b.first \in Nat
              /\ b.count \in Nat
            BY <1>3, <2>2, JournalTyped DEF Entry, IInv, TypeOK
        <3>2. b.first + b.count >= NextSeq(journal)
            BY <2>4, <3>1 DEF NextSeq
        <3>3. QED
            BY <2>1, <2>8, <3>1, <3>2 DEF IInv
    <2>14. QED
        BY <2>8, <2>10, <2>11, <2>12, <2>13 DEF IInv
<1>7. QED
    BY <1>5, <1>6

\* Only the holder publishes, and nothing older than what is published.
LEMMA ProjectKeeps ==
    ASSUME IInv, TypeOK', NEW e \in DOMAIN task, Project(e)
    PROVE  IInv' /\ projected' >= projected
<1>1. PICK t \in Task : Become(e, t)
    BY TaskActionBecomes DEF TaskAction, TaskStep, IInv
<1>2. /\ Len(task') = Len(task) /\ DOMAIN task' = DOMAIN task
      /\ \A d \in DOMAIN task : d # e => task'[d] = task[d]
    BY <1>1, TaskUpdate DEF IInv, TypeOK
<1>3. HolderOK(e) /\ task \in Seq(Task) /\ journal \in Seq(Entry) /\ projected \in Nat
    BY DEF IInv, TypeOK
<1>4. {"exited", "announce", "idle"} \subseteq PC
    BY DEF PC
<1>5. UNCHANGED <<phase, fence, journal>> /\ task[e].pc = "project"
    BY DEF Project, store
<1>6. projected' = projected \/ (Accepted(e) /\ projected' = task[e].next)
    BY DEF Project
<1>7. Accepted(e) => task[e].next = NextSeq(journal) /\ (task[e].ended <=> Ended(journal))
    BY <1>3, <1>5 DEF HolderOK
<1>8. HolderOK(e)'
    <2>1. CASE Exit(e)
        BY <1>3, <2>1, ExitEffect DEF HolderOK
    <2>2. CASE Unavailable(e, "exited")
        <3>1. task'[e].pc = "exited" \/ (/\ task'[e].pc = "project"
                                         /\ task'[e].next = task[e].next
                                         /\ task'[e].ended = task[e].ended)
            BY <1>3, <1>4, <1>5, <2>2, UnavailableEffect
        <3>2. QED
            BY <1>5, <1>7, <3>1 DEF HolderOK, Accepted
    <2>3. CASE Accepted(e) /\ Go(e, IF task[e].ended THEN "announce" ELSE "idle")
        <3>1. CASE task[e].ended
            <4>1. task'[e].pc = "announce"
                BY <1>3, <1>4, <2>3, <3>1, GoEffect
            <4>2. QED
                BY <1>5, <1>7, <2>3, <3>1, <4>1 DEF HolderOK, Accepted
        <3>2. CASE ~task[e].ended
            <4>1. /\ task'[e].pc = "idle" /\ task'[e].next = task[e].next
                  /\ task'[e].ended = task[e].ended
                BY <1>3, <1>4, <2>3, <3>2, GoEffect
            <4>2. QED
                BY <1>5, <1>7, <2>3, <3>2, <4>1 DEF HolderOK, Accepted
        <3>3. QED
            BY <3>1, <3>2
    <2>4. QED
        BY <2>1, <2>2, <2>3 DEF Project
<1>9. ASSUME NEW d \in DOMAIN task'
      PROVE  HolderOK(d)'
    <2>1. CASE d = e
        BY <1>8, <2>1
    <2>2. CASE d # e
        <3>1. task'[d] = task[d] /\ HolderOK(d)
            BY <1>2, <2>2 DEF IInv
        <3>2. QED
            BY <1>5, <3>1 DEF HolderOK, Accepted, Stamped
    <2>3. QED
        BY <2>1, <2>2
<1>10. NextSeq(journal) \in Nat /\ projected <= NextSeq(journal)
    BY <1>3, JournalTyped DEF IInv
<1>11. projected' >= projected /\ projected' <= NextSeq(journal)
    BY <1>3, <1>6, <1>7, <1>10
<1>12. FenceIsNewest'
    BY <1>2, <1>5 DEF IInv, FenceIsNewest
<1>13. EpochsIssued' /\ (projected <= NextSeq(journal))' /\ OneHistory'
    BY <1>2, <1>5, <1>11 DEF IInv, EpochsIssued, OneHistory
<1>14. QED
    BY <1>9, <1>11, <1>12, <1>13 DEF IInv

\* Only the holder deletes, with the journal at its end.
LEMMA DeleteKeeps ==
    ASSUME IInv, TypeOK', NEW e \in DOMAIN task, Delete(e)
    PROVE  IInv'
<1>1. PICK t \in Task : Become(e, t)
    BY TaskActionBecomes DEF TaskAction, TaskStep, IInv
<1>2. /\ HolderOK(e) /\ task \in Seq(Task) /\ task[e].pc = "delete"
      /\ "exited" \in PC
    BY DEF IInv, TypeOK, Delete, PC
<1>3. CASE phase' = "GONE" /\ fence' = 0 /\ Accepted(e) /\ UNCHANGED <<journal, projected>>
    <2>1. /\ Len(task') = Len(task) /\ DOMAIN task' = DOMAIN task
          /\ DOMAIN task = 1 .. Len(task)
        BY <1>1, TaskUpdate, LenProperties DEF IInv, TypeOK
    <2>2. \A d \in DOMAIN task' : HolderOK(d)'
        BY <1>3, <2>1 DEF HolderOK, Accepted
    <2>3. FenceIsNewest'
        BY <1>2, <1>3 DEF FenceIsNewest, HolderOK
    <2>4. EpochsIssued' /\ (projected <= NextSeq(journal))' /\ OneHistory'
        BY <1>3, <2>1 DEF IInv, EpochsIssued, OneHistory
    <2>5. QED
        BY <2>2, <2>3, <2>4 DEF IInv
<1>4. CASE Quiet /\ (Exit(e) \/ Unavailable(e, "exited"))
    <2>1. task'[e].pc \in {"exited", "delete"}
        BY <1>2, <1>4, ExitEffect, UnavailableEffect
    <2>2. HolderOK(e)'
        BY <1>2, <1>4, <2>1 DEF HolderOK, Accepted, Quiet
    <2>3. QED
        BY <1>1, <1>4, <2>2, QuietStep
<1>5. QED
    BY <1>3, <1>4 DEF Delete, Quiet, store

\* A new challenge: its task is not writing yet.
LEMMA StartKeeps ==
    ASSUME IInv, TypeOK', NEW sv \in Server, Start(sv)
    PROVE  IInv'
<1>1. /\ phase' = "LIVE" /\ fence' = 1 /\ task' = <<NewTask(sv, "starting")>>
      /\ UNCHANGED <<journal, projected>> /\ journal = <<>>
    BY DEF Start, IInv, FenceIsNewest
<1>2. Len(task') = 1 /\ task'[1].pc = "starting" /\ DOMAIN task' = {1}
    BY <1>1 DEF NewTask
<1>3. \A d \in DOMAIN task' : HolderOK(d)'
    BY <1>2 DEF HolderOK
<1>4. FenceIsNewest'
    BY <1>1, <1>2 DEF FenceIsNewest
<1>5. EpochsIssued' /\ OneHistory' /\ (projected <= NextSeq(journal))'
    BY <1>1 DEF IInv, EpochsIssued, OneHistory
<1>6. QED
    BY <1>3, <1>4, <1>5 DEF IInv

\* A claim: the fence leaves every earlier task behind, and the new one has yet
\* to load.
LEMMA ClaimKeeps ==
    ASSUME IInv, TypeOK', NEW sv \in Server, Claim(sv)
    PROVE  IInv'
<1>1. /\ phase = "LIVE" /\ fence = Len(task) /\ fence' = fence + 1
      /\ UNCHANGED <<phase, journal, projected>>
    BY DEF Claim, Claimable, IInv, FenceIsNewest
<1>2. PICK pc \in {"load", "exited"} : task' = Append(task, NewTask(sv, pc))
    BY DEF Claim
<1>3. NewTask(sv, pc) \in Task
    BY <1>2, LeaseAssumption DEF NewTask, Task, PC, NoBatch, Batch
<1>4. /\ Len(task') = Len(task) + 1 /\ Len(task) \in Nat
      /\ DOMAIN task' = 1 .. Len(task) + 1 /\ DOMAIN task = 1 .. Len(task)
      /\ task'[Len(task) + 1] = NewTask(sv, pc)
    BY <1>2, <1>3, AppendProperties, LenProperties DEF IInv, TypeOK
<1>5. ASSUME NEW d \in DOMAIN task'
      PROVE  HolderOK(d)'
    <2>1. CASE d = Len(task) + 1
        <3>1. task'[d].pc \in {"load", "exited"}
            BY <1>2, <1>4, <2>1 DEF NewTask
        <3>2. QED
            BY <3>1 DEF HolderOK
    <2>2. CASE d # Len(task) + 1
        BY <1>1, <2>2 DEF HolderOK, Accepted
    <2>3. QED
        BY <2>1, <2>2
<1>6. FenceIsNewest'
    BY <1>1, <1>4 DEF FenceIsNewest
<1>7. EpochsIssued'
    <2>1. ASSUME NEW i \in DOMAIN journal
          PROVE  journal[i].epoch <= Len(task')
        <3>1. journal[i].epoch \in Nat
            <4>1. journal \in Seq(Entry)
                BY DEF IInv, TypeOK
            <4>2. journal[i] \in Entry
                BY <4>1, LenProperties, ElementOfSeq
            <4>3. QED
                BY <4>2 DEF Entry
        <3>2. journal[i].epoch <= Len(task)
            BY DEF IInv, EpochsIssued
        <3>3. QED
            BY <1>4, <3>1, <3>2
    <2>2. QED
        BY <1>1, <2>1 DEF EpochsIssued
<1>8. OneHistory' /\ (projected <= NextSeq(journal))'
    BY <1>1 DEF IInv, OneHistory
<1>9. QED
    BY <1>5, <1>6, <1>7, <1>8 DEF IInv

LEMMA RenewKeeps ==
    ASSUME IInv, TypeOK', NEW e \in DOMAIN task, Renew(e)
    PROVE  IInv'
<1>1. Quiet
    BY DEF Renew, Quiet
<1>2. CASE Accepted(e)
    BY <1>1, <1>2 DEF Renew, Quiet, IInv, FenceIsNewest, HolderOK, Accepted, Stamped,
        EpochsIssued, OneHistory
<1>3. CASE ~Accepted(e)
    <2>1. "exited" \in PC /\ task \in Seq(Task)
        BY DEF PC, IInv, TypeOK
    <2>2. Exit(e)
        BY <1>3 DEF Renew
    <2>3. NewTask(task[e].server, "exited") \in Task
        BY <2>1, TaskIsRecord, HelpersTyped
    <2>4. HolderOK(e)'
        BY <2>1, <2>2, ExitEffect DEF HolderOK
    <2>5. QED
        BY <1>1, <2>2, <2>3, <2>4, QuietStep DEF Exit
<1>4. QED
    BY <1>2, <1>3

LEMMA InvInductive ==
    ASSUME IInv, TypeOK', [Next]_vars
    PROVE  IInv'
<1>1. ASSUME NEW sv \in Server, Start(sv) \/ Claim(sv)
      PROVE  IInv'
    BY <1>1, StartKeeps, ClaimKeeps
<1>2. ASSUME NEW e \in DOMAIN task,
             \/ TaskStep(e) \/ Quarantine(e) \/ Ignore(e) \/ Decide(e)
             \/ Renew(e) \/ Release(e) \/ Crash(e)
      PROVE  IInv'
    BY <1>2, QuietActions, AppendBatchKeeps, ProjectKeeps, DeleteKeeps, RenewKeeps
    DEF TaskStep
<1>3. CASE Lapse \/ UNCHANGED vars
    BY <1>3 DEF Lapse, vars, IInv, FenceIsNewest, HolderOK, Accepted, Stamped,
        EpochsIssued, OneHistory
<1>4. QED
    BY <1>1, <1>2, <1>3 DEF Next, Gone

LEMMA InvInitially == Init => IInv
<1> SUFFICES ASSUME Init PROVE IInv
    OBVIOUS
<1>1. TypeOK
    BY EmptySeq DEF Init, TypeOK
<1>2. DOMAIN task = {} /\ DOMAIN journal = {} /\ journal = <<>>
    BY DEF Init
<1>3. FenceIsNewest /\ EpochsIssued /\ projected <= NextSeq(journal)
    BY <1>2 DEF Init, FenceIsNewest, EpochsIssued, NextSeq
<1>4. OneHistory
    BY <1>2, EmptySeq DEF OneHistory
<1>5. QED
    BY <1>1, <1>2, <1>3, <1>4 DEF IInv

LEMMA InvHolds == Spec => []IInv
<1>1. IInv /\ TypeOK' /\ [Next]_vars => IInv'
    BY InvInductive
<1>2. QED
    BY <1>1, InvInitially, TypeCorrect, PTL DEF Spec

(***************************************************************************)
(* What the fence guarantees.                                               *)
(***************************************************************************)
\* The journal is one history, whoever wrote its parts: every batch follows its
\* predecessor, or repeats it where replies get lost.
THEOREM JournalIsOneHistory == Spec => []OneHistory
<1>1. IInv => OneHistory
    BY DEF IInv
<1>2. QED
    BY <1>1, InvHolds, PTL

\* The task that may write is up to date with everything written before.
THEOREM HolderStaysCurrent == Spec => []HolderIsCurrent
<1>1. IInv => HolderIsCurrent
    BY DEF IInv, HolderIsCurrent, HolderOK
<1>2. QED
    BY <1>1, InvHolds, PTL

\* The published state moves forward through the journal only.
THEOREM ProjectionMonotone == Spec => ProjectionNeverRegresses
<1>1. IInv /\ TypeOK' /\ [Next]_vars => [projected' >= projected]_vars
    <2> SUFFICES ASSUME IInv, TypeOK', [Next]_vars
                 PROVE  [projected' >= projected]_vars
        OBVIOUS
    <2>1. projected \in Nat
        BY DEF IInv, TypeOK
    <2>2. ASSUME NEW e \in DOMAIN task, Project(e)
          PROVE  projected' >= projected
        BY <2>2, ProjectKeeps
    <2>3. ASSUME projected' = projected
          PROVE  projected' >= projected
        BY <2>1, <2>3
    <2>4. ASSUME NEW sv \in Server, Start(sv) \/ Claim(sv)
          PROVE  projected' = projected
        BY <2>4 DEF Start, Claim
    <2>5. ASSUME NEW e \in DOMAIN task,
                 \/ Register(e) \/ Load(e) \/ Resume(e) \/ AppendBatch(e) \/ Announce(e)
                 \/ Delete(e) \/ Quarantine(e) \/ Ignore(e) \/ Decide(e)
                 \/ Renew(e) \/ Release(e) \/ Crash(e)
          PROVE  projected' = projected
        BY <2>5 DEF Register, Load, Resume, AppendBatch, Announce, Delete, Quarantine,
            Ignore, Decide, Renew, Release, Crash
    <2>6. CASE Lapse
        BY <2>3, <2>6 DEF Lapse
    <2>7. CASE Gone \/ UNCHANGED vars
        BY <2>3, <2>7 DEF Gone, vars
    <2>8. CASE \E sv \in Server : Start(sv) \/ Claim(sv)
        BY <2>3, <2>4, <2>8
    <2>9. CASE \E e \in DOMAIN task :
                  \/ TaskStep(e) \/ Quarantine(e) \/ Ignore(e) \/ Decide(e)
                  \/ Renew(e) \/ Release(e) \/ Crash(e)
        BY <2>2, <2>3, <2>5, <2>9 DEF TaskStep
    <2>10. QED
        BY <2>3, <2>6, <2>7, <2>8, <2>9 DEF Next
<1>2. QED
    BY <1>1, InvHolds, TypeCorrect, PTL DEF Spec, ProjectionNeverRegresses

(***************************************************************************)
(* The finish is announced at the end of the journal only.                  *)
(***************************************************************************)
\* What an append leaves last.
LEMMA AppendedLast ==
    ASSUME TypeOK, NEW e \in DOMAIN task, journal' = Journaled(e)
    PROVE  journal' # <<>> /\ journal'[Len(journal')] = Stamped(e)
<1>1. journal \in Seq(Entry) /\ Stamped(e) \in Entry
    BY StampedTyped DEF TypeOK
<1>2. QED
    BY <1>1, AppendProperties, LenProperties DEF Journaled

LEMMA FinishStep ==
    ASSUME IInv, FinishIsFinal, [Next]_vars
    PROVE  FinishIsFinal'
<1>1. ASSUME finishes' = finishes, journal' = journal
      PROVE  FinishIsFinal'
    BY <1>1 DEF FinishIsFinal
<1>2. ASSUME NEW e \in DOMAIN task, Announce(e)
      PROVE  FinishIsFinal'
    <2>1. journal' = journal /\ task[e].pc = "announce"
        BY <1>2 DEF Announce
    <2>2. CASE Accepted(e)
        BY <2>1, <2>2 DEF IInv, HolderOK, FinishIsFinal
    <2>3. CASE ~Accepted(e)
        BY <1>1, <1>2, <2>1, <2>3 DEF Announce
    <2>4. QED
        BY <2>2, <2>3
<1>3. ASSUME NEW e \in DOMAIN task, AppendBatch(e)
      PROVE  FinishIsFinal'
    <2>1. finishes' = finishes
        BY <1>3 DEF AppendBatch
    <2>2. CASE journal' = journal
        BY <1>1, <2>1, <2>2
    <2>3. CASE journal' # journal /\ Ended(journal)
        <3>1. Accepted(e) /\ journal' = Journaled(e) /\ task[e].pc = "append"
            BY <1>3, <2>3 DEF AppendBatch
        <3>2. journal[Len(journal)] = Stamped(e)
            BY <2>3, <3>1 DEF IInv, HolderOK
        <3>3. journal' # <<>> /\ journal'[Len(journal')] = Stamped(e)
            BY <3>1, AppendedLast DEF IInv
        <3>4. QED
            BY <2>3, <3>2, <3>3 DEF Ended, FinishIsFinal
    <2>4. CASE ~Ended(journal)
        BY <2>1, <2>4 DEF FinishIsFinal
    <2>5. QED
        BY <2>2, <2>3, <2>4
<1>4. ASSUME NEW sv \in Server, Start(sv) \/ Claim(sv)
      PROVE  FinishIsFinal'
    BY <1>1, <1>4 DEF Start, Claim
<1>5. ASSUME NEW e \in DOMAIN task,
             \/ Register(e) \/ Load(e) \/ Resume(e) \/ Project(e) \/ Delete(e)
             \/ Quarantine(e) \/ Ignore(e) \/ Decide(e) \/ Renew(e) \/ Release(e) \/ Crash(e)
      PROVE  FinishIsFinal'
    <2>1. CASE Decide(e)
        BY <1>1, <2>1 DEF Decide
    <2>2. CASE Register(e) \/ Load(e) \/ Resume(e) \/ Quarantine(e) \/ Ignore(e)
        BY <1>1, <2>2 DEF Register, Load, Resume, Quarantine, Ignore
    <2>3. CASE Project(e) \/ Delete(e) \/ Renew(e) \/ Release(e) \/ Crash(e)
        BY <1>1, <2>3 DEF Project, Delete, Renew, Release, Crash
    <2>4. QED
        BY <1>5, <2>1, <2>2, <2>3
<1>6. CASE Lapse \/ Gone \/ UNCHANGED vars
    BY <1>1, <1>6 DEF Lapse, Gone, vars
<1>7. QED
    BY <1>2, <1>3, <1>4, <1>5, <1>6 DEF Next, TaskStep

\* No finish is announced for a challenge whose journal goes on, or goes on later.
THEOREM FinishAnnouncedAtEnd == Spec => []FinishIsFinal
<1>1. Init => FinishIsFinal
    BY DEF Init, FinishIsFinal
<1>2. QED
    BY <1>1, FinishStep, InvHolds, PTL DEF Spec

(***************************************************************************)
(* One task per server.                                                     *)
(***************************************************************************)
\* A task stays with the server that started it.
KeepsServer(e) == \E t \in Task : Become(e, t) /\ t.server = task[e].server

LEMMA UpdatesKeepServer ==
    ASSUME NEW t \in Task, NEW pc, NEW n, NEW b, NEW x
    PROVE  /\ NewTask(t.server, pc).server = t.server
           /\ [t EXCEPT !.pc = pc, !.tries = StoreAttempts].server = t.server
           /\ [t EXCEPT !.tries = @ - 1].server = t.server
           /\ [t EXCEPT !.pc = pc, !.next = n, !.ended = b].server = t.server
           /\ [t EXCEPT !.pc = pc, !.ended = b, !.batch = x,
                        !.tries = StoreAttempts].server = t.server
           /\ [t EXCEPT !.pc = pc, !.next = n, !.batch = x].server = t.server
BY DEF Task, NewTask

LEMMA GoKeepsServer ==
    ASSUME TypeOK, NEW e \in DOMAIN task, NEW pc \in PC, Go(e, pc)
    PROVE  KeepsServer(e)
<1> DEFINE u == task[e]
<1>1. u \in Task
    BY TaskIsRecord DEF TypeOK
<1>2. Become(e, [u EXCEPT !.pc = pc, !.tries = StoreAttempts])
    BY DEF Go
<1>3. KeepsServer(e) <=> \E t \in Task : Become(e, t) /\ t.server = u.server
    BY DEF KeepsServer
<1> HIDE DEF u
<1>4. [u EXCEPT !.pc = pc, !.tries = StoreAttempts] \in Task
    BY <1>1, HelpersTyped
<1>5. [u EXCEPT !.pc = pc, !.tries = StoreAttempts].server = u.server
    BY <1>1, UpdatesKeepServer
<1>6. QED
    BY <1>2, <1>3, <1>4, <1>5

LEMMA ExitKeepsServer ==
    ASSUME TypeOK, NEW e \in DOMAIN task, Exit(e)
    PROVE  KeepsServer(e)
<1>1. "exited" \in PC
    BY DEF PC
<1>2. task[e] \in Task
    BY TaskIsRecord DEF TypeOK
<1>3. NewTask(task[e].server, "exited") \in Task
    BY <1>1, <1>2, HelpersTyped
<1>4. NewTask(task[e].server, "exited").server = task[e].server
    BY DEF NewTask
<1>5. QED
    BY <1>3, <1>4 DEF Exit, KeepsServer

LEMMA UnavailableKeepsServer ==
    ASSUME TypeOK, NEW e \in DOMAIN task, NEW pc \in PC, Unavailable(e, pc)
    PROVE  KeepsServer(e)
<1> DEFINE u == task[e]
<1>1. u \in Task
    BY TaskIsRecord DEF TypeOK
<1>2. CASE u.tries > 1
    <2>1. Become(e, [u EXCEPT !.tries = @ - 1])
        BY <1>2 DEF Unavailable, Retry
    <2>2. KeepsServer(e) <=> \E t \in Task : Become(e, t) /\ t.server = u.server
        BY DEF KeepsServer
    <2>3. "exited" \in PC
        BY DEF PC
    <2> HIDE DEF u
    <2>4. [u EXCEPT !.tries = @ - 1] \in Task
        BY <1>1, <1>2, <2>3, HelpersTyped
    <2>5. [u EXCEPT !.tries = @ - 1].server = u.server
        BY <1>1, UpdatesKeepServer
    <2>6. QED
        BY <2>1, <2>2, <2>4, <2>5
<1>3. CASE ~(u.tries > 1) /\ pc = "exited"
    BY <1>3, ExitKeepsServer DEF Unavailable
<1>4. CASE ~(u.tries > 1) /\ pc # "exited"
    <2>1. Go(e, pc)
        BY <1>4 DEF Unavailable
    <2>2. QED
        BY <2>1, GoKeepsServer
<1>5. QED
    BY <1>2, <1>3, <1>4

LEMMA LoadKeepsServer ==
    ASSUME TypeOK, NEW e \in DOMAIN task, Load(e)
    PROVE  KeepsServer(e)
<1> DEFINE pc == IF Ended(journal) THEN "announce" ELSE "resume"
           n  == NextSeq(journal)
           b  == Ended(journal)
           u  == task[e]
<1>1. Become(e, [u EXCEPT !.pc = pc, !.next = n, !.ended = b])
    BY DEF Load
<1>2. pc \in PC
    BY DEF PC
<1>3. n \in Nat /\ b \in BOOLEAN
    BY JournalTyped DEF TypeOK
<1>4. u \in Task
    BY TaskIsRecord DEF TypeOK
<1>5. NoBatch \in Batch
    BY DEF NoBatch, Batch
<1>6. KeepsServer(e) <=> \E t \in Task : Become(e, t) /\ t.server = u.server
    BY DEF KeepsServer
<1> HIDE DEF pc, n, b, u
<1>7. [u EXCEPT !.pc = pc, !.next = n, !.ended = b] \in Task
    BY <1>2, <1>3, <1>4, <1>5, UpdatesTyped
<1>8. [u EXCEPT !.pc = pc, !.next = n, !.ended = b].server = u.server
    BY <1>4, UpdatesKeepServer
<1>9. QED
    BY <1>1, <1>6, <1>7, <1>8

LEMMA DecideKeepsServer ==
    ASSUME TypeOK, NEW e \in DOMAIN task, Decide(e)
    PROVE  KeepsServer(e)
<1> DEFINE u == task[e]
<1>1. PICK n \in 1 .. MaxBatch, final \in BOOLEAN :
        Become(e, [u EXCEPT
                     !.pc = "append", !.next = @ + n,
                     !.batch = [first |-> u.next, count |-> n, final |-> final]])
    BY DEF Decide
<1> DEFINE m == u.next + n
           x == [first |-> u.next, count |-> n, final |-> final]
<1>2. u \in Task
    BY TaskIsRecord DEF TypeOK
<1>3. m \in Nat /\ x \in Batch
    BY <1>2, LeaseAssumption DEF Task, Batch
<1>4. Become(e, [u EXCEPT !.pc = "append", !.next = m, !.batch = x])
    BY <1>1
<1>5. "append" \in PC
    BY DEF PC
<1>6. KeepsServer(e) <=> \E t \in Task : Become(e, t) /\ t.server = u.server
    BY DEF KeepsServer
<1> HIDE DEF m, x, u
<1>7. [u EXCEPT !.pc = "append", !.next = m, !.batch = x] \in Task
    BY <1>2, <1>3, <1>5, UpdatesTyped
<1>8. [u EXCEPT !.pc = "append", !.next = m, !.batch = x].server = u.server
    BY <1>2, UpdatesKeepServer
<1>9. QED
    BY <1>4, <1>6, <1>7, <1>8

LEMMA AppendedKeepsServer ==
    ASSUME TypeOK, NEW e \in DOMAIN task,
           Become(e, [task[e] EXCEPT !.pc = "project", !.ended = task[e].batch.final,
                                     !.batch = NoBatch, !.tries = StoreAttempts])
    PROVE  KeepsServer(e)
<1> DEFINE u == task[e]
           f == task[e].batch.final
<1>1. Become(e, [u EXCEPT !.pc = "project", !.ended = f,
                          !.batch = NoBatch, !.tries = StoreAttempts])
    OBVIOUS
<1>2. u \in Task
    BY TaskIsRecord DEF TypeOK
<1>3. f \in BOOLEAN /\ NoBatch \in Batch /\ "project" \in PC
    BY <1>2 DEF Task, Batch, NoBatch, PC
<1>4. KeepsServer(e) <=> \E t \in Task : Become(e, t) /\ t.server = u.server
    BY DEF KeepsServer
<1> HIDE DEF u, f
<1>5. [u EXCEPT !.pc = "project", !.ended = f,
                !.batch = NoBatch, !.tries = StoreAttempts] \in Task
    BY <1>2, <1>3, UpdatesTyped
<1>6. [u EXCEPT !.pc = "project", !.ended = f,
                !.batch = NoBatch, !.tries = StoreAttempts].server = u.server
    BY <1>2, UpdatesKeepServer
<1>7. QED
    BY <1>1, <1>4, <1>5, <1>6

LEMMA TaskActionKeepsServer ==
    ASSUME TypeOK, NEW e \in DOMAIN task, TaskAction(e) \/ (Renew(e) /\ ~Accepted(e))
    PROVE  KeepsServer(e) /\ Running(e)
<1>1. {"load", "resume", "project", "idle", "announce", "delete", "hold", "exited"} \subseteq PC
    BY DEF PC
<1>go. ASSUME NEW pc \in PC, Go(e, pc) PROVE KeepsServer(e)
    BY <1>go, GoKeepsServer
<1>exit. ASSUME Exit(e) PROVE KeepsServer(e)
    BY <1>exit, ExitKeepsServer
<1>call. ASSUME NEW pc \in PC, Unavailable(e, pc) PROVE KeepsServer(e)
    BY <1>call, UnavailableKeepsServer
<1>2. CASE Register(e) \/ Resume(e) \/ Quarantine(e) \/ Ignore(e)
    BY <1>1, <1>2, <1>go, <1>exit DEF Register, Resume, Quarantine, Ignore, Running
<1>3. CASE Load(e)
    BY <1>3, LoadKeepsServer DEF Load, Running
<1>4. CASE Decide(e)
    <2>1. task[e].pc = "idle"
        BY <1>4, Zenon DEF Decide
    <2>2. QED
        BY <1>4, <2>1, DecideKeepsServer DEF Running
<1>5. CASE AppendBatch(e)
    <2>1. task[e].pc = "append"
        BY <1>5 DEF AppendBatch
    <2>2. KeepsServer(e)
        BY <1>1, <1>5, <1>exit, <1>call, AppendedKeepsServer DEF AppendBatch
    <2>3. QED
        BY <2>1, <2>2 DEF Running
<1>6. CASE Project(e)
    BY <1>1, <1>6, <1>go, <1>exit, <1>call DEF Project, Running
<1>7. CASE Announce(e)
    BY <1>1, <1>7, <1>go, <1>call DEF Announce, Running
<1>8. CASE Delete(e)
    BY <1>1, <1>8, <1>exit, <1>call DEF Delete, Running
<1>9. CASE Release(e) \/ Crash(e) \/ (Renew(e) /\ ~Accepted(e))
    BY <1>9, <1>exit DEF Release, Crash, Renew, Running
<1>10. QED
    BY <1>2, <1>3, <1>4, <1>5, <1>6, <1>7, <1>8, <1>9 DEF TaskAction, TaskStep

LEMMA OneTaskStep ==
    ASSUME TypeOK, OneTaskPerServer, [Next]_vars
    PROVE  OneTaskPerServer'
<1>1. ASSUME NEW e \in DOMAIN task, TaskAction(e) \/ (Renew(e) /\ ~Accepted(e))
      PROVE  OneTaskPerServer'
    <2>1. PICK t \in Task : Become(e, t) /\ t.server = task[e].server
        BY <1>1, TaskActionKeepsServer DEF KeepsServer
    <2>2. Running(e)
        BY <1>1, TaskActionKeepsServer
    <2>3. /\ DOMAIN task' = DOMAIN task /\ task'[e].server = task[e].server
          /\ \A d \in DOMAIN task : d # e => task'[d] = task[d]
        BY <2>1, TaskUpdate DEF TypeOK
    <2>4. ASSUME NEW d \in DOMAIN task
          PROVE  task'[d].server = task[d].server /\ (Running(d)' => Running(d))
        BY <2>2, <2>3 DEF Running
    <2>5. QED
        BY <2>3, <2>4 DEF OneTaskPerServer
<1>2. ASSUME NEW sv \in Server, Start(sv)
      PROVE  OneTaskPerServer'
    <2>1. DOMAIN task' = {1}
        BY <1>2 DEF Start
    <2>2. QED
        BY <2>1 DEF OneTaskPerServer
<1>3. ASSUME NEW sv \in Server, Claim(sv)
      PROVE  OneTaskPerServer'
    <2>1. PICK pc \in {"load", "exited"} : task' = Append(task, NewTask(sv, pc))
        BY <1>3 DEF Claim
    <2>2. NewTask(sv, pc) \in Task
        BY <2>1, LeaseAssumption DEF NewTask, Task, PC, NoBatch, Batch
    <2>3. /\ DOMAIN task' = 1 .. Len(task) + 1 /\ DOMAIN task = 1 .. Len(task)
          /\ task'[Len(task) + 1] = NewTask(sv, pc) /\ Len(task) \in Nat
          /\ \A d \in 1 .. Len(task) : task'[d] = task[d]
        BY <2>1, <2>2, AppendProperties, LenProperties DEF TypeOK
    <2>4. NewTask(sv, pc).server = sv
        BY DEF NewTask
    <2>5. \A d \in DOMAIN task : task[d].server = sv => ~Running(d)
        BY <1>3 DEF Claim, Claimable
    <2>6. ASSUME NEW d \in DOMAIN task', d # Len(task) + 1
          PROVE  /\ d \in DOMAIN task /\ task'[d].server = task[d].server
                 /\ Running(d)' = Running(d)
        BY <2>3, <2>6 DEF Running
    <2>7. ASSUME NEW d \in DOMAIN task', NEW e \in DOMAIN task',
                 Running(d)', Running(e)', task'[d].server = task'[e].server
          PROVE  d = e
        <3>1. CASE d # Len(task) + 1 /\ e # Len(task) + 1
            BY <2>6, <2>7, <3>1 DEF OneTaskPerServer
        <3>2. CASE d = Len(task) + 1 /\ e # Len(task) + 1
            BY <2>3, <2>4, <2>5, <2>6, <2>7, <3>2
        <3>3. CASE d # Len(task) + 1 /\ e = Len(task) + 1
            BY <2>3, <2>4, <2>5, <2>6, <2>7, <3>3
        <3>4. QED
            BY <3>1, <3>2, <3>3
    <2>8. QED
        BY <2>7 DEF OneTaskPerServer
<1>4. ASSUME task' = task
      PROVE  OneTaskPerServer'
    BY <1>4 DEF OneTaskPerServer, Running
<1>5. ASSUME NEW e \in DOMAIN task, Renew(e), Accepted(e)
      PROVE  OneTaskPerServer'
    BY <1>4, <1>5 DEF Renew
<1>6. CASE Lapse \/ Gone \/ UNCHANGED vars
    BY <1>4, <1>6 DEF Lapse, Gone, vars
<1>7. QED
    BY <1>1, <1>2, <1>3, <1>5, <1>6 DEF Next, TaskAction

\* No server ever runs two tasks of the challenge at once.
THEOREM ServerRunsOneTask == Spec => []OneTaskPerServer
<1>1. Init => OneTaskPerServer
    BY DEF Init, OneTaskPerServer
<1>2. TypeOK /\ OneTaskPerServer /\ [Next]_vars => OneTaskPerServer'
    BY OneTaskStep
<1>3. QED
    BY <1>1, <1>2, TypeCorrect, PTL DEF Spec

================================================================================
