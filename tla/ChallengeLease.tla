----------------------------- MODULE ChallengeLease -----------------------------
(***************************************************************************)
(* Who may write one challenge, and what gets written                       *)
(* (challenge-harder: redis/scripts.rs, redis/mod.rs, the task of           *)
(* lifecycle/challenge.rs and the claim scan of lifecycle/coordinator.rs).  *)
(*                                                                          *)
(* Servers claim the challenge under a fresh fence epoch and run a task for *)
(* it.  Every write of a task is a script that first compares the task's    *)
(* epoch with the fence.  Leases lapse, tasks die, stall and are replaced   *)
(* while they still run, and calls fail, with or without having taken       *)
(* effect.                                                                  *)
(*                                                                          *)
(* Abstractions.  The task of epoch e is task[e]: every epoch is issued     *)
(* once.  A lease deadline is only lapsed or not.  A batch keeps its        *)
(* numbering and whether it leaves the challenge terminated with a settled  *)
(* pipeline (final).  What the entries say is LifecycleCore's subject.      *)
(***************************************************************************)
EXTENDS Integers, Sequences

CONSTANTS
    Server,         \* instances of the challenge server
    NoServer,
    Surviving,      \* servers that keep scanning; others may be gone for good
    MaxBatch,       \* entries a decision may journal
    StoreAttempts,  \* STORE_ATTEMPTS of with_retries
    LostReplies,    \* whether a script may take effect and its reply be lost
    Corruptible,    \* whether a server may be unable to read the journal
    MaxJournal,     \* bound: batches journaled
    MaxFaults       \* bound: lapses, deaths, shutdowns and failed calls

ASSUME LeaseAssumption ==
    /\ NoServer \notin Server
    /\ Surviving \subseteq Server
    /\ MaxBatch \in Nat \ {0}
    /\ StoreAttempts \in Nat \ {0}
    /\ LostReplies \in BOOLEAN
    /\ Corruptible \in BOOLEAN
    /\ MaxJournal \in Nat
    /\ MaxFaults \in Nat

VARIABLES
    phase,      \* NEW, LIVE (in the challenge index) or GONE (deleted)
    fence,      \* lease hash: the epoch that may write, 0 when absent
    owner,      \* lease hash: the server that claimed last
    deadline,   \* index score: "ahead" of the clock or "past" (lapsed)
    journal,    \* batches [epoch, first, count, final]
    task,       \* task[e]: the task holding epoch e
    projected,  \* journal entries reflected in the published state
    finishes,   \* Finish announcements published
    faults      \* disturbances so far

store == <<phase, fence, owner, deadline>>
vars  == <<phase, fence, owner, deadline, journal, task, projected, finishes, faults>>

Log == INSTANCE JournalLog
           WITH log <- [i \in DOMAIN journal |->
                          [first |-> journal[i].first, count |-> journal[i].count,
                           final |-> journal[i].final]],
                deleted <- phase = "GONE",
                Repeats <- LostReplies

NextSeqOfLast(j) == IF j = <<>> THEN 0 ELSE j[Len(j)].first + 1     \* mutant: one per batch
NextSeq(j) == IF j = <<>> THEN 0 ELSE j[Len(j)].first + j[Len(j)].count
Ended(j)   == j # <<>> /\ j[Len(j)].final

NoBatch == [first |-> 0, count |-> 0, final |-> FALSE]

NewTask(sv, pc) ==
    [server |-> sv, pc |-> pc, next |-> 0, ended |-> FALSE, batch |-> NoBatch,
     tries |-> StoreAttempts]

Running(e)  == task[e].pc # "exited"
AcceptedAlways(e) == phase = "LIVE"     \* mutant: the epoch is not compared
Accepted(e) == fence = e

\* The task moves on, its next call with fresh retries, or it ends.
Become(e, t) == task' = [task EXCEPT ![e] = t]
Go(e, pc)    == Become(e, [task[e] EXCEPT !.pc = pc, !.tries = StoreAttempts])
Exit(e)      == Become(e, NewTask(task[e].server, "exited"))

Fault == faults < MaxFaults /\ faults' = faults + 1

Retry(e) == Become(e, [task[e] EXCEPT !.tries = @ - 1])

\* Mutant: the retries are not counted down to an end.
UnavailableForever(e, giveUp) == Fault /\ Retry(e)

\* with_retries: an unavailable store is retried before the caller gives up.
Unavailable(e, giveUp) ==
    /\ Fault
    /\ IF task[e].tries > 1 THEN Retry(e)
       ELSE IF giveUp = "exited" THEN Exit(e) ELSE Go(e, giveUp)

Init ==
    /\ phase = "NEW" /\ fence = 0 /\ owner = NoServer /\ deadline = "ahead"
    /\ journal = <<>> /\ task = <<>> /\ projected = 0 /\ finishes = 0 /\ faults = 0

(***************************************************************************)
(* Owning the challenge.                                                    *)
(***************************************************************************)
\* START: the challenge is created under the initial epoch.  Its server holds
\* off its own claim scans until the task is registered.
Start(sv) ==
    /\ phase = "NEW"
    /\ phase' = "LIVE" /\ fence' = 1 /\ owner' = sv /\ deadline' = "ahead"
    /\ task' = <<NewTask(sv, "starting")>>
    /\ UNCHANGED <<journal, projected, finishes, faults>>

\* The start's reply arrives and the task is spawned, or it is lost.
Register(e) ==
    /\ task[e].pc = "starting"
    /\ \/ Go(e, "load") /\ UNCHANGED faults
       \/ Fault /\ Exit(e)
    /\ UNCHANGED <<store, journal, projected, finishes>>

\* Mutants: a scan that ignores the lock, one that only takes back its own.
ClaimableUnlocked(sv) ==
    /\ phase = "LIVE" /\ (deadline = "past" \/ owner = sv)
    /\ \A e \in DOMAIN task : task[e].server = sv => task[e].pc \in {"exited", "starting"}

ClaimableIfOwn(sv) ==
    /\ phase = "LIVE" /\ owner = sv
    /\ \A e \in DOMAIN task : task[e].server = sv => ~Running(e)

\* A scan claims what has lapsed or is its own, except what already runs here.
\* Starts and scans exclude each other, so nothing is being started here either.
Claimable(sv) ==
    /\ phase = "LIVE" /\ (deadline = "past" \/ owner = sv)
    /\ \A e \in DOMAIN task : task[e].server = sv => ~Running(e)

Claim(sv) ==
    /\ Claimable(sv)
    /\ fence' = fence + 1 /\ owner' = sv /\ deadline' = "ahead"
    /\ \/ task' = Append(task, NewTask(sv, "load")) /\ UNCHANGED faults
       \/ Fault /\ task' = Append(task, NewTask(sv, "exited"))
    /\ UNCHANGED <<phase, journal, projected, finishes>>

Renew(e) ==
    /\ task[e].pc \in {"idle", "hold"}
    /\ IF Accepted(e) THEN deadline' = "ahead" /\ task' = task
       ELSE Exit(e) /\ deadline' = deadline
    /\ UNCHANGED <<phase, fence, owner, journal, projected, finishes, faults>>

\* Shutdown: the lease is given up if it is still held, and the task ends.
Release(e) ==
    /\ task[e].pc \in {"resume", "idle", "hold"}
    /\ Fault /\ Exit(e)
    /\ deadline' \in {deadline} \cup (IF Accepted(e) THEN {"past"} ELSE {})
    /\ UNCHANGED <<phase, fence, owner, journal, projected, finishes>>

\* Time passes the deadline: the holder is gone, or missed its renewals.
Held == \E e \in DOMAIN task : Accepted(e) /\ Running(e)

Lapse ==
    /\ phase = "LIVE" /\ deadline = "ahead" /\ deadline' = "past"
    /\ IF Held THEN Fault ELSE faults' = faults
    /\ UNCHANGED <<phase, fence, owner, journal, task, projected, finishes>>

\* The server dies, the task panics, or one of its other writes fails.
Crash(e) ==
    /\ Running(e)
    /\ Fault /\ Exit(e)
    /\ UNCHANGED <<store, journal, projected, finishes>>

(***************************************************************************)
(* The task.                                                                *)
(***************************************************************************)
\* Mutant: the task resumes whatever the journal says.
LoadForgetsEnd(e) ==
    /\ task[e].pc = "load"
    /\ Become(e, [task[e] EXCEPT !.pc = "resume", !.next = NextSeq(journal)])
    /\ UNCHANGED <<store, journal, projected, finishes, faults>>

\* The journal is read without looking at the fence.
Load(e) ==
    /\ task[e].pc = "load"
    /\ Become(e, [task[e] EXCEPT !.pc = IF Ended(journal) THEN "announce" ELSE "resume",
                                 !.next = NextSeq(journal), !.ended = Ended(journal)])
    /\ UNCHANGED <<store, journal, projected, finishes, faults>>

\* A journal this server cannot read is held on to, untouched.
Quarantine(e) ==
    /\ Corruptible /\ task[e].pc = "load" /\ journal # <<>>
    /\ Go(e, "hold")
    /\ UNCHANGED <<store, journal, projected, finishes, faults>>

\* A task that resumes publishes the state it loaded.
Resume(e) ==
    /\ task[e].pc = "resume"
    /\ Go(e, IF task[e].next > 0 THEN "project" ELSE "idle")
    /\ UNCHANGED <<store, journal, projected, finishes, faults>>

\* A command or deadline is decided.  Nothing journaled is published again.
Ignore(e) ==
    /\ task[e].pc = "idle"
    /\ Go(e, "project")
    /\ UNCHANGED <<store, journal, projected, finishes, faults>>

\* Mutant: the counter stays behind the entries.
DecideUncounted(e) ==
    /\ task[e].pc = "idle" /\ Len(journal) < MaxJournal
    /\ \E n \in 1 .. MaxBatch, final \in BOOLEAN :
        Become(e, [task[e] EXCEPT
                     !.pc = "append",
                     !.batch = [first |-> task[e].next, count |-> n, final |-> final]])
    /\ UNCHANGED <<store, journal, projected, finishes, faults>>

Decide(e) ==
    /\ task[e].pc = "idle" /\ Len(journal) < MaxJournal
    /\ \E n \in 1 .. MaxBatch, final \in BOOLEAN :
        Become(e, [task[e] EXCEPT
                     !.pc = "append", !.next = @ + n,
                     !.batch = [first |-> task[e].next, count |-> n, final |-> final]])
    /\ UNCHANGED <<store, journal, projected, finishes, faults>>

Stamped(e) ==
    [epoch |-> e, first |-> task[e].batch.first, count |-> task[e].batch.count,
     final |-> task[e].batch.final]

Journaled(e) == Append(journal, Stamped(e))

AppendBatch(e) ==
    /\ task[e].pc = "append"
    /\ \/ /\ Accepted(e) /\ journal' = Journaled(e) /\ faults' = faults
          /\ Become(e, [task[e] EXCEPT !.pc = "project", !.ended = task[e].batch.final,
                                       !.batch = NoBatch, !.tries = StoreAttempts])
       \/ LostReplies /\ Accepted(e) /\ journal' = Journaled(e) /\ Unavailable(e, "exited")
       \/ ~Accepted(e) /\ Exit(e) /\ UNCHANGED <<journal, faults>>
       \/ Unavailable(e, "exited") /\ UNCHANGED journal
    /\ UNCHANGED <<store, projected, finishes>>

Project(e) ==
    /\ task[e].pc = "project"
    /\ \/ /\ Accepted(e) /\ projected' = task[e].next /\ faults' = faults
          /\ Go(e, IF task[e].ended THEN "announce" ELSE "idle")
       \/ LostReplies /\ Accepted(e) /\ projected' = task[e].next /\ Unavailable(e, "exited")
       \/ ~Accepted(e) /\ Exit(e) /\ UNCHANGED <<projected, faults>>
       \/ Unavailable(e, "exited") /\ UNCHANGED projected
    /\ UNCHANGED <<store, journal, finishes>>

\* conclude: a failure to announce does not keep the state from being deleted.
Announce(e) ==
    /\ task[e].pc = "announce"
    /\ \/ Accepted(e) /\ finishes' = finishes + 1 /\ Go(e, "delete") /\ UNCHANGED faults
       \/ LostReplies /\ Accepted(e) /\ finishes' = finishes + 1 /\ Unavailable(e, "delete")
       \/ ~Accepted(e) /\ Go(e, "delete") /\ UNCHANGED <<finishes, faults>>
       \/ Unavailable(e, "delete") /\ UNCHANGED finishes
    /\ UNCHANGED <<store, journal, projected>>

\* A lost reply shows on the retry as a lost fence, and ends the task as well.
Delete(e) ==
    /\ task[e].pc = "delete"
    /\ \/ /\ Accepted(e) /\ phase' = "GONE" /\ fence' = 0 /\ owner' = NoServer
          /\ deadline' = "ahead" /\ Exit(e) /\ faults' = faults
       \/ ~Accepted(e) /\ Exit(e) /\ UNCHANGED <<store, faults>>
       \/ Unavailable(e, "exited") /\ UNCHANGED store
    /\ UNCHANGED <<journal, projected, finishes>>

TaskStep(e) ==
    \/ Register(e) \/ Load(e) \/ Resume(e) \/ AppendBatch(e) \/ Project(e)
    \/ Announce(e) \/ Delete(e)

\* Nothing is left to do for a deleted challenge.
Gone == phase = "GONE" /\ (\A e \in DOMAIN task : ~Running(e)) /\ UNCHANGED vars

Next ==
    \/ \E sv \in Server : Start(sv) \/ Claim(sv)
    \/ \E e \in DOMAIN task :
        \/ TaskStep(e) \/ Quarantine(e) \/ Ignore(e) \/ Decide(e)
        \/ Renew(e) \/ Release(e) \/ Crash(e)
    \/ Lapse
    \/ Gone

Spec == Init /\ [][Next]_vars

\* Time passes, the scans of a surviving server recur, a task that is not waiting
\* is scheduled, and the renewal tick of one that lost its lease comes (without
\* it a waiting task would keep its server from claiming the challenge again).
\* Commands and faults need not happen.
Fairness ==
    /\ WF_vars(Lapse /\ ~Held)
    /\ \A sv \in Surviving : WF_vars(Claim(sv))
    /\ \A sv \in Server :
         /\ WF_vars(\E e \in DOMAIN task : task[e].server = sv /\ TaskStep(e))
         /\ WF_vars(\E e \in DOMAIN task : task[e].server = sv /\ Renew(e) /\ ~Accepted(e))

FairSpec == Spec /\ Fairness

--------------------------------------------------------------------------------
(***************************************************************************)
(* Properties.                                                              *)
(***************************************************************************)
PC == {"starting", "load", "resume", "idle", "append", "project", "announce",
       "delete", "hold", "exited"}

Batch == [first : Nat, count : Nat, final : BOOLEAN]
Entry == [epoch : Nat, first : Nat, count : Nat, final : BOOLEAN]
Task  == [server : Server, pc : PC, next : Nat, ended : BOOLEAN, batch : Batch,
          tries : 1 .. StoreAttempts]

\* Every variable has its type; in particular retries never run below one.
TypeOK ==
    /\ phase \in {"NEW", "LIVE", "GONE"}
    /\ fence \in Nat
    /\ owner \in Server \cup {NoServer}
    /\ deadline \in {"ahead", "past"}
    /\ journal \in Seq(Entry)
    /\ task \in Seq(Task)
    /\ projected \in Nat /\ finishes \in Nat /\ faults \in Nat

\* A batch follows its predecessor: the next numbers, by the same or a later
\* epoch, after nothing final.  When replies get lost a retry may repeat it.
Follows(prev, b) ==
    \/ LostReplies /\ b = prev
    \/ b.first = prev.first + prev.count /\ b.epoch >= prev.epoch /\ ~prev.final

\* The journal is one history although many tasks wrote to it: a task that was
\* replaced while it was about to append never gets a batch in (the fence of
\* APPEND), so numbers have no gap and are not used for two different batches.
OneHistory ==
    /\ journal # <<>> => journal[1].first = 0
    /\ \A i \in 1 .. Len(journal) - 1 : Follows(journal[i], journal[i + 1])

\* The task that may write has seen everything that was written: loading is not
\* fenced, so this rests on the claim having cut off the previous task first.
HolderIsCurrent ==
    \A e \in DOMAIN task : Accepted(e) =>
        /\ task[e].pc \in {"resume", "idle", "project"} => task[e].next = NextSeq(journal)
        /\ task[e].pc \in {"resume", "idle"} => ~Ended(journal)
        /\ task[e].pc \in {"announce", "delete"} => Ended(journal)

\* A server runs at most one task of the challenge: the scan skips what runs and
\* waits for starts, though the store would let it claim its own lease.
OneTaskPerServer ==
    \A d, e \in DOMAIN task :
        Running(d) /\ Running(e) /\ task[d].server = task[e].server => d = e

\* The published state never goes back to an earlier point of the journal, even
\* when a replaced task publishes late and a resumed one publishes again.
ProjectionNeverRegresses == [][projected' >= projected]_vars

\* The journal and the deletion behave like those of a single writer: claims,
\* fenced appends and the deletion hide how many tasks there were.
SingleWriter == Log!LogSpec

\* A challenge nobody writes for any more is taken over by some server, also when
\* the server that owned it never comes back.
Orphaned == phase = "LIVE" /\ ~Held

OrphanIsAdopted == Orphaned ~> ~Orphaned

\* A challenge whose journal has ended is deleted, though the task that ended it
\* may die before it gets there, unless a server that cannot read it holds on.
Quarantined == \E e \in DOMAIN task : task[e].pc = "hold"

EndedIsDeleted == Ended(journal) ~> phase = "GONE" \/ Quarantined

\* No finish is broadcast for a challenge that goes on: announcing it comes from
\* a task whose journal has ended, and stays so whoever takes over.
FinishIsFinal == finishes > 0 => Ended(journal)

================================================================================
