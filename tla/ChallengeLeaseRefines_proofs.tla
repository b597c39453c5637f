---------------------- MODULE ChallengeLeaseRefines_proofs ----------------------
(***************************************************************************)
(* ChallengeLease implements JournalLog, for any servers, bounds and number *)
(* of faults: whatever the servers and tasks do, an outside reader of the   *)
(* journal sees a single writer.                                            *)
(***************************************************************************)
EXTENDS ChallengeLease_proofs

(***************************************************************************)
(* The batches that tasks journal are within the bound of a decision.       *)
(***************************************************************************)
\* A task is about to journal what one decision yields.
BatchBounded ==
    \A e \in DOMAIN task : task[e].pc = "append" => task[e].batch.count \in 1 .. MaxBatch

\* A decision makes up a batch within the bound.
LEMMA DecideEffect ==
    ASSUME TypeOK, NEW e \in DOMAIN task, Decide(e)
    PROVE  task'[e].batch.count \in 1 .. MaxBatch
<1> DEFINE u == task[e]
<1>1. PICK n \in 1 .. MaxBatch, final \in BOOLEAN :
        Become(e, [u EXCEPT
                     !.pc = "append", !.next = @ + n,
                     !.batch = [first |-> u.next, count |-> n, final |-> final]])
    BY DEF Decide
<1> DEFINE m == u.next + n
           x == [first |-> u.next, count |-> n, final |-> final]
<1>2. u \in Task
    BY TaskIsRecord DEF TypeOK
<1>3. m \in Nat /\ x \in Batch
    BY <1>2, LeaseAssumption DEF Task, Batch
<1>4. Become(e, [u EXCEPT !.pc = "append", !.next = m, !.batch = x])
    BY <1>1
<1>5. x.count = n
    OBVIOUS
<1>6. "append" \in PC
    BY DEF PC
<1> HIDE DEF m, x, u
<1>7. [u EXCEPT !.pc = "append", !.next = m, !.batch = x] \in Task
    BY <1>2, <1>3, <1>6, UpdatesTyped
<1>8. task'[e] = [u EXCEPT !.pc = "append", !.next = m, !.batch = x]
    BY <1>4, <1>7, TaskUpdate DEF TypeOK
<1>9. task'[e].batch = x
    BY <1>2, <1>8 DEF Task
<1>10. QED
    BY <1>5, <1>9

\* A task that got its batch into the journal publishes what it did.
LEMMA AppendedEffect ==
    ASSUME TypeOK, NEW e \in DOMAIN task,
           Become(e, [task[e] EXCEPT !.pc = "project", !.ended = task[e].batch.final,
                                     !.batch = NoBatch, !.tries = StoreAttempts])
    PROVE  task'[e].pc = "project"
<1> DEFINE u == task[e]
           f == task[e].batch.final
<1>1. Become(e, [u EXCEPT !.pc = "project", !.ended = f,
                          !.batch = NoBatch, !.tries = StoreAttempts])
    OBVIOUS
<1>2. u \in Task
    BY TaskIsRecord DEF TypeOK
<1>3. f \in BOOLEAN /\ NoBatch \in Batch /\ "project" \in PC
    BY <1>2 DEF Task, Batch, NoBatch, PC
<1> HIDE DEF u, f
<1>4. [u EXCEPT !.pc = "project", !.ended = f,
                !.batch = NoBatch, !.tries = StoreAttempts] \in Task
    BY <1>2, <1>3, UpdatesTyped
<1>5. task'[e] = [u EXCEPT !.pc = "project", !.ended = f,
                           !.batch = NoBatch, !.tries = StoreAttempts]
    BY <1>1, <1>4, TaskUpdate DEF TypeOK
<1>6. QED
    BY <1>2, <1>5 DEF Task

\* What a task resumes with comes off the journal, not from a decision.
LEMMA LoadEffect ==
    ASSUME TypeOK, NEW e \in DOMAIN task, Load(e)
    PROVE  task'[e].pc \in {"announce", "resume"}
<1> DEFINE pc == IF Ended(journal) THEN "announce" ELSE "resume"
           n  == NextSeq(journal)
           b  == Ended(journal)
           u  == task[e]
<1>1. Become(e, [u EXCEPT !.pc = pc, !.next = n, !.ended = b])
    BY DEF Load
<1>2. pc \in PC /\ pc \in {"announce", "resume"}
    BY DEF PC
<1>3. n \in Nat /\ b \in BOOLEAN
    BY JournalTyped DEF TypeOK
<1>4. u \in Task /\ task \in Seq(Task)
    BY TaskIsRecord DEF TypeOK
<1>5. NoBatch \in Batch
    BY DEF NoBatch, Batch
<1> HIDE DEF pc, n, b, u
<1>6. [u EXCEPT !.pc = pc, !.next = n, !.ended = b] \in Task
    BY <1>2, <1>3, <1>4, <1>5, UpdatesTyped
<1>7. task'[e] = [u EXCEPT !.pc = pc, !.next = n, !.ended = b]
    BY <1>1, <1>4, <1>6, TaskUpdate
<1>8. task'[e].pc = pc
    BY <1>4, <1>7 DEF Task
<1>9. QED
    BY <1>2, <1>8

\* Only a decision brings a task to its append; a retry leaves it there.
LEMMA AppendComesFromDecide ==
    ASSUME TypeOK, NEW e \in DOMAIN task, TaskAction(e) \/ Renew(e), task'[e].pc = "append"
    PROVE  \/ task'[e].batch.count \in 1 .. MaxBatch
           \/ task[e].pc = "append" /\ task'[e].batch = task[e].batch
<1>1. task[e] \in Task /\ task \in Seq(Task)
    BY TaskIsRecord DEF TypeOK
<1>2. {"load", "resume", "project", "idle", "announce", "delete", "hold", "exited"} \subseteq PC
    BY DEF PC
<1>3. CASE Decide(e)
    BY <1>1, <1>3, DecideEffect
<1>4. CASE AppendBatch(e)
    <2>1. task[e].pc = "append"
        BY <1>4 DEF AppendBatch
    <2>2. Exit(e) => task'[e].pc = "exited"
        BY <1>1, ExitEffect
    <2>3. Unavailable(e, "exited") =>
            \/ task'[e].pc = "exited"
            \/ task'[e].batch = task[e].batch
        BY <1>1, <1>2, UnavailableEffect
    <2>4. Become(e, [task[e] EXCEPT !.pc = "project", !.ended = task[e].batch.final,
                                    !.batch = NoBatch, !.tries = StoreAttempts])
          => task'[e].pc = "project"
        BY <1>1, AppendedEffect
    <2>5. QED
        BY <1>4, <2>1, <2>2, <2>3, <2>4 DEF AppendBatch
<1>5. CASE Load(e)
    <2>1. task'[e].pc \in {"announce", "resume"}
        BY <1>5, LoadEffect
    <2>2. QED
        BY <2>1
<1>6. ASSUME NEW pc \in PC, pc # "append", Go(e, pc)
      PROVE  FALSE
    <2>1. task'[e].pc = pc
        BY <1>1, <1>6, GoEffect
    <2>2. QED
        BY <1>6, <2>1
<1>7. ASSUME Exit(e)
      PROVE  FALSE
    <2>1. task'[e].pc = "exited"
        BY <1>1, <1>7, ExitEffect
    <2>2. QED
        BY <2>1
<1>8. ASSUME NEW pc \in PC, pc # "append", task[e].pc # "append", Unavailable(e, pc)
      PROVE  FALSE
    <2>1. task'[e].pc = "exited" \/ task'[e].pc \in {task[e].pc, pc}
        BY <1>1, <1>8, UnavailableEffect
    <2>2. QED
        BY <1>8, <2>1
<1>9. CASE Register(e) \/ Resume(e) \/ Quarantine(e) \/ Ignore(e) \/ Release(e) \/ Crash(e)
    BY <1>2, <1>6, <1>7, <1>9 DEF Register, Resume, Quarantine, Ignore, Release, Crash
<1>10. CASE Project(e) \/ Announce(e) \/ Delete(e)
    BY <1>2, <1>6, <1>7, <1>8, <1>10 DEF Project, Announce, Delete
<1>11. CASE Renew(e)
    BY <1>7, <1>11 DEF Renew
<1>12. QED
    BY <1>3, <1>4, <1>5, <1>9, <1>10, <1>11 DEF TaskAction, TaskStep

LEMMA BatchBoundedStep ==
    ASSUME TypeOK, BatchBounded, [Next]_vars
    PROVE  BatchBounded'
<1>1. ASSUME NEW e \in DOMAIN task, TaskAction(e) \/ (Renew(e) /\ ~Accepted(e))
      PROVE  BatchBounded'
    <2>1. PICK t \in Task : Become(e, t)
        <3>1. CASE TaskAction(e)
            BY <3>1, TaskActionBecomes
        <3>2. CASE Renew(e) /\ ~Accepted(e)
            <4>1. "exited" \in PC /\ task[e] \in Task
                BY TaskIsRecord DEF TypeOK, PC
            <4>2. NewTask(task[e].server, "exited") \in Task
                BY <4>1, HelpersTyped
            <4>3. QED
                BY <3>2, <4>2 DEF Renew, Exit
        <3>3. QED
            BY <1>1, <3>1, <3>2
    <2>2. DOMAIN task' = DOMAIN task /\ \A d \in DOMAIN task : d # e => task'[d] = task[d]
        BY <2>1, TaskUpdate DEF TypeOK
    <2>3. task'[e].pc = "append" => task'[e].batch.count \in 1 .. MaxBatch
        BY <1>1, AppendComesFromDecide DEF BatchBounded
    <2>4. QED
        BY <2>2, <2>3 DEF BatchBounded
<1>2. ASSUME NEW sv \in Server, Start(sv)
      PROVE  BatchBounded'
    BY <1>2 DEF Start, NewTask, BatchBounded
<1>3. ASSUME NEW sv \in Server, Claim(sv)
      PROVE  BatchBounded'
    <2>1. PICK pc \in {"load", "exited"} : task' = Append(task, NewTask(sv, pc))
        BY <1>3 DEF Claim
    <2>2. NewTask(sv, pc) \in Task
        BY <2>1, LeaseAssumption DEF NewTask, Task, PC, NoBatch, Batch
    <2>3. /\ DOMAIN task' = 1 .. Len(task) + 1 /\ DOMAIN task = 1 .. Len(task)
          /\ task'[Len(task) + 1] = NewTask(sv, pc) /\ Len(task) \in Nat
          /\ \A d \in 1 .. Len(task) : task'[d] = task[d]
        BY <2>1, <2>2, AppendProperties, LenProperties DEF TypeOK
    <2>4. NewTask(sv, pc).pc # "append"
        BY DEF NewTask
    <2>5. ASSUME NEW d \in DOMAIN task', task'[d].pc = "append"
          PROVE  task'[d].batch.count \in 1 .. MaxBatch
        <3>1. d # Len(task) + 1
            BY <2>3, <2>4, <2>5
        <3>2. d \in DOMAIN task /\ task'[d] = task[d]
            BY <2>3, <3>1
        <3>3. QED
            BY <2>5, <3>2 DEF BatchBounded
    <2>6. QED
        BY <2>5 DEF BatchBounded
<1>4. ASSUME task' = task
      PROVE  BatchBounded'
    BY <1>4 DEF BatchBounded
<1>5. ASSUME NEW e \in DOMAIN task, Renew(e), Accepted(e)
      PROVE  BatchBounded'
    BY <1>4, <1>5 DEF Renew
<1>6. CASE Lapse \/ Gone \/ UNCHANGED vars
    BY <1>4, <1>6 DEF Lapse, Gone, vars
<1>7. QED
    BY <1>1, <1>2, <1>3, <1>5, <1>6 DEF Next, TaskAction

LEMMA BatchesBounded == Spec => []BatchBounded
<1>1. Init => BatchBounded
    BY DEF Init, BatchBounded
<1>2. TypeOK /\ BatchBounded /\ [Next]_vars => BatchBounded'
    BY BatchBoundedStep
<1>3. QED
    BY <1>1, <1>2, TypeCorrect, PTL DEF Spec

(***************************************************************************)
(* The journal as an outside reader sees it.                                *)
(***************************************************************************)
Seen(b) == [first |-> b.first, count |-> b.count, final |-> b.final]

SeenLog == [i \in DOMAIN journal |->
              [first |-> journal[i].first, count |-> journal[i].count,
               final |-> journal[i].final]]

\* Leaving out the epochs neither shortens the journal nor reorders it.
LEMMA SeenLogTyped ==
    ASSUME NEW j \in Seq(Entry), NEW l,
           l = [i \in DOMAIN j |-> [first |-> j[i].first, count |-> j[i].count,
                                     final |-> j[i].final]]
    PROVE  /\ l \in Seq(Batch) /\ Len(l) = Len(j) /\ DOMAIN l = DOMAIN j
           /\ \A i \in DOMAIN j : l[i] = Seen(j[i])
<1>1. DOMAIN j = 1 .. Len(j) /\ Len(j) \in Nat
    BY LenProperties
<1>2. \A i \in 1 .. Len(j) : Seen(j[i]) \in Batch
    <2>1. ASSUME NEW i \in 1 .. Len(j)
          PROVE  Seen(j[i]) \in Batch
        <3>1. j[i] \in Entry
            BY ElementOfSeq
        <3>2. QED
            BY <3>1 DEF Entry, Batch, Seen
    <2>2. QED
        BY <2>1
<1>3. l = [i \in 1 .. Len(j) |-> Seen(j[i])]
    BY <1>1 DEF Seen
<1>4. l \in [1 .. Len(j) -> Batch]
    BY <1>2, <1>3
<1>5. l \in Seq(Batch)
    BY <1>1, <1>4, SeqDef
<1>6. DOMAIN l = 1 .. Len(j)
    BY <1>3
<1>7. Len(l) = Len(j)
    BY <1>1, <1>5, <1>6, LenProperties
<1>8. QED
    BY <1>1, <1>3, <1>5, <1>6, <1>7

\* The numbering and the end of the journal can be read off without the epochs.
LEMMA SeenLogEnds ==
    ASSUME journal \in Seq(Entry)
    PROVE  /\ Log!NextSeq(SeenLog) = NextSeq(journal)
           /\ Log!Ended(SeenLog) = Ended(journal)
           /\ SeenLog = <<>> <=> journal = <<>>
<1>1. /\ SeenLog \in Seq(Batch) /\ Len(SeenLog) = Len(journal)
      /\ \A i \in DOMAIN journal : SeenLog[i] = Seen(journal[i])
    BY SeenLogTyped DEF SeenLog
<1>2. DOMAIN journal = 1 .. Len(journal) /\ Len(journal) \in Nat
    BY LenProperties
<1>3. SeenLog = <<>> <=> journal = <<>>
    BY <1>1, EmptySeq
<1>4. CASE journal = <<>>
    BY <1>3, <1>4 DEF NextSeq, Ended, Log!NextSeq, Log!Ended
<1>5. CASE journal # <<>>
    <2>1. Len(journal) \in DOMAIN journal
        BY <1>2, <1>5, EmptySeq
    <2>2. SeenLog[Len(SeenLog)] = Seen(journal[Len(journal)])
        BY <1>1, <2>1
    <2>3. /\ SeenLog[Len(SeenLog)].first = journal[Len(journal)].first
          /\ SeenLog[Len(SeenLog)].count = journal[Len(journal)].count
          /\ SeenLog[Len(SeenLog)].final = journal[Len(journal)].final
        <3> DEFINE b == journal[Len(journal)]
        <3>1. Seen(b).first = b.first /\ Seen(b).count = b.count /\ Seen(b).final = b.final
            BY DEF Seen
        <3>2. QED
            BY <2>2, <3>1
    <2>4. QED
        BY <1>3, <1>5, <2>3 DEF NextSeq, Ended, Log!NextSeq, Log!Ended
<1>6. QED
    BY <1>3, <1>4, <1>5

\* An appended batch is seen as appended.
LEMMA SeenLogAppends ==
    ASSUME journal \in Seq(Entry), NEW b \in Entry, journal' = Append(journal, b)
    PROVE  SeenLog' = Append(SeenLog, Seen(b))
<1>1. /\ SeenLog \in Seq(Batch) /\ Len(SeenLog) = Len(journal)
      /\ \A i \in DOMAIN journal : SeenLog[i] = Seen(journal[i])
    BY SeenLogTyped DEF SeenLog
<1>2. /\ journal' \in Seq(Entry) /\ Len(journal') = Len(journal) + 1
      /\ \A i \in 1 .. Len(journal) : journal'[i] = journal[i]
      /\ journal'[Len(journal) + 1] = b
      /\ DOMAIN journal = 1 .. Len(journal) /\ Len(journal) \in Nat
    BY AppendProperties, LenProperties
<1>3. /\ SeenLog' \in Seq(Batch) /\ Len(SeenLog') = Len(journal')
      /\ \A i \in DOMAIN journal' : SeenLog'[i] = Seen(journal'[i])
    BY <1>2, SeenLogTyped DEF SeenLog
<1>4. DOMAIN journal' = 1 .. Len(journal) + 1
    BY <1>2, LenProperties
<1>5. Seen(b) \in Batch
    BY DEF Seen, Entry, Batch
<1>6. /\ Append(SeenLog, Seen(b)) \in Seq(Batch)
      /\ Len(Append(SeenLog, Seen(b))) = Len(journal) + 1
      /\ \A i \in 1 .. Len(journal) : Append(SeenLog, Seen(b))[i] = SeenLog[i]
      /\ Append(SeenLog, Seen(b))[Len(journal) + 1] = Seen(b)
    BY <1>1, <1>5, AppendProperties
<1>7. ASSUME NEW i \in 1 .. Len(SeenLog')
      PROVE  SeenLog'[i] = Append(SeenLog, Seen(b))[i]
    <2>1. CASE i = Len(journal) + 1
        BY <1>2, <1>3, <1>4, <1>6, <2>1
    <2>2. CASE i # Len(journal) + 1
        <3>1. i \in 1 .. Len(journal)
            BY <1>2, <1>3, <2>2
        <3>2. QED
            BY <1>1, <1>2, <1>3, <1>4, <1>6, <3>1
    <2>3. QED
        BY <2>1, <2>2
<1>8. QED
    BY <1>2, <1>3, <1>6, <1>7, SeqEqual

(***************************************************************************)
(* Every step is one of the single writer's or is not seen.                 *)
(***************************************************************************)
\* The holder's append extends the log, or repeats its last batch.
LEMMA AppendRefines ==
    ASSUME IInv, BatchBounded, NEW e \in DOMAIN task, AppendBatch(e), journal' # journal
    PROVE  Log!LogNext
<1>1. /\ task[e].pc = "append" /\ Accepted(e) /\ journal' = Append(journal, Stamped(e))
      /\ phase' = phase
    BY DEF AppendBatch, Journaled, store
<1>2. HolderOK(e) /\ task \in Seq(Task) /\ journal \in Seq(Entry)
    BY DEF IInv, TypeOK
<1>3. phase # "GONE" /\ phase' # "GONE"
    <2>1. e \in Nat \ {0}
        BY <1>2, LenProperties
    <2>2. QED
        BY <1>1, <2>1 DEF IInv, FenceIsNewest, Accepted
<1>4. Stamped(e) \in Entry
    BY StampedTyped DEF IInv
<1>5. SeenLog' = Append(SeenLog, Seen(Stamped(e)))
    BY <1>1, <1>2, <1>4, SeenLogAppends
<1>6. CASE task[e].batch.first = NextSeq(journal) /\ ~Ended(journal)
    <2> DEFINE n == Stamped(e).count
               f == Stamped(e).final
    <2>1. n \in 1 .. MaxBatch /\ f \in BOOLEAN
        BY <1>1, <1>4 DEF BatchBounded, Stamped, Entry
    <2>2. Seen(Stamped(e)) = [first |-> Log!NextSeq(SeenLog), count |-> n, final |-> f]
        BY <1>2, <1>6, SeenLogEnds DEF Seen, Stamped
    <2>3. ~Log!Ended(SeenLog)
        BY <1>2, <1>6, SeenLogEnds
    <2> HIDE DEF n, f
    <2>4. Log!Extend
        BY <1>3, <1>5, <2>1, <2>2, <2>3 DEF Log!Extend, SeenLog
    <2>5. QED
        BY <2>4 DEF Log!LogNext
<1>7. CASE LostReplies /\ journal # <<>> /\ journal[Len(journal)] = Stamped(e)
    <2>1. SeenLog # <<>>
        BY <1>2, <1>7, SeenLogEnds
    <2>2. SeenLog[Len(SeenLog)] = Seen(Stamped(e))
        <3>1. Len(journal) \in DOMAIN journal
            BY <1>2, <1>7, LenProperties, EmptySeq
        <3>2. QED
            BY <1>2, <1>7, <3>1, SeenLogTyped DEF SeenLog
    <2>3. Log!Repeat
        BY <1>3, <1>5, <1>7, <2>1, <2>2 DEF Log!Repeat, SeenLog
    <2>4. QED
        BY <2>3 DEF Log!LogNext
<1>8. QED
    BY <1>1, <1>2, <1>6, <1>7 DEF HolderOK

\* The deletion comes after the final batch, and once.
LEMMA DeleteRefines ==
    ASSUME IInv, NEW e \in DOMAIN task, Delete(e), Accepted(e), phase' = "GONE"
    PROVE  Log!LogNext
<1>1. task[e].pc = "delete" /\ journal' = journal
    BY DEF Delete
<1>2. HolderOK(e) /\ task \in Seq(Task) /\ journal \in Seq(Entry)
    BY DEF IInv, TypeOK
<1>3. phase # "GONE"
    <2>1. e \in Nat \ {0}
        BY <1>2, LenProperties
    <2>2. QED
        BY <2>1 DEF IInv, FenceIsNewest, Accepted
<1>4. Log!Ended(SeenLog)
    BY <1>1, <1>2, SeenLogEnds DEF HolderOK
<1>5. Log!Remove
    BY <1>1, <1>3, <1>4 DEF Log!Remove, SeenLog
<1>6. QED
    BY <1>5 DEF Log!LogNext

LEMMA StepRefines ==
    ASSUME IInv, BatchBounded, [Next]_vars
    PROVE  [Log!LogNext]_(Log!logVars)
<1>1. ASSUME journal' = journal, (phase' = "GONE") = (phase = "GONE")
      PROVE  [Log!LogNext]_(Log!logVars)
    BY <1>1 DEF Log!logVars
<1>2. ASSUME NEW sv \in Server, Start(sv) \/ Claim(sv)
      PROVE  [Log!LogNext]_(Log!logVars)
    BY <1>1, <1>2 DEF Start, Claim
<1>3. ASSUME NEW e \in DOMAIN task, AppendBatch(e)
      PROVE  [Log!LogNext]_(Log!logVars)
    <2>1. CASE journal' = journal
        BY <1>1, <1>3, <2>1 DEF AppendBatch, store
    <2>2. CASE journal' # journal
        BY <1>3, <2>2, AppendRefines
    <2>3. QED
        BY <2>1, <2>2
<1>4. ASSUME NEW e \in DOMAIN task, Delete(e)
      PROVE  [Log!LogNext]_(Log!logVars)
    <2>1. CASE Accepted(e) /\ phase' = "GONE"
        BY <1>4, <2>1, DeleteRefines
    <2>2. CASE ~(Accepted(e) /\ phase' = "GONE")
        BY <1>1, <1>4, <2>2 DEF Delete, store
    <2>3. QED
        BY <2>1, <2>2
<1>5. ASSUME NEW e \in DOMAIN task, Decide(e)
      PROVE  [Log!LogNext]_(Log!logVars)
    BY <1>1, <1>5 DEF Decide, store
<1>6. ASSUME NEW e \in DOMAIN task,
             Register(e) \/ Load(e) \/ Resume(e) \/ Quarantine(e) \/ Ignore(e)
      PROVE  [Log!LogNext]_(Log!logVars)
    BY <1>1, <1>6 DEF Register, Load, Resume, Quarantine, Ignore, store
<1>7. ASSUME NEW e \in DOMAIN task,
             Project(e) \/ Announce(e) \/ Renew(e) \/ Release(e) \/ Crash(e)
      PROVE  [Log!LogNext]_(Log!logVars)
    BY <1>1, <1>7 DEF Project, Announce, Renew, Release, Crash, store
<1>8. CASE Lapse \/ Gone \/ UNCHANGED vars
    BY <1>1, <1>8 DEF Lapse, Gone, vars
<1>9. QED
    BY <1>2, <1>3, <1>4, <1>5, <1>6, <1>7, <1>8 DEF Next, TaskStep

\* The journal and the deletion are those of a single writer that never fails:
\* claims, lapsed leases, fenced-off tasks and retries are invisible in them,
\* but for a last batch repeated where replies get lost.
THEOREM ImplementsJournalLog == Spec => SingleWriter
<1>1. Init => Log!LogInit
    <2> SUFFICES ASSUME Init PROVE Log!LogInit
        OBVIOUS
    <2>1. journal = <<>> /\ phase = "NEW"
        BY DEF Init
    <2>2. SeenLog = <<>>
        BY <2>1, EmptySeq, SeenLogEnds
    <2>3. QED
        BY <2>1, <2>2 DEF Log!LogInit, SeenLog
<1>2. IInv /\ BatchBounded /\ [Next]_vars => [Log!LogNext]_(Log!logVars)
    BY StepRefines
<1>3. QED
    BY <1>1, <1>2, InvHolds, BatchesBounded, PTL DEF Spec, SingleWriter, Log!LogSpec

================================================================================
