------------------------------- MODULE JournalLog -------------------------------
(***************************************************************************)
(* What the lease and fence of a challenge promise together: its journal    *)
(* is one sequential history, as if a single writer that never fails had    *)
(* written it.  Batches are numbered without gaps, none follows the batch   *)
(* that ends the challenge, and the challenge is deleted once, after that   *)
(* batch.  Where replies get lost the writer may repeat its last batch.     *)
(* ChallengeLease implements this.                                          *)
(***************************************************************************)
EXTENDS Integers, Sequences

CONSTANTS
    MaxBatch,       \* entries a decision may journal
    Repeats         \* whether the last batch may be written again

VARIABLES
    log,        \* batches [first, count, final], in journal order
    deleted     \* whether the challenge is gone

logVars == <<log, deleted>>

\* The sequence number the next entry gets.
NextSeq(j)  == IF j = <<>> THEN 0 ELSE j[Len(j)].first + j[Len(j)].count
Ended(j)    == j # <<>> /\ j[Len(j)].final

LogInit == log = <<>> /\ deleted = FALSE

Extend ==
    /\ ~deleted /\ ~Ended(log)
    /\ \E n \in 1 .. MaxBatch, final \in BOOLEAN :
        log' = Append(log, [first |-> NextSeq(log), count |-> n, final |-> final])
    /\ deleted' = deleted

Repeat ==
    /\ Repeats
    /\ ~deleted /\ log # <<>>
    /\ log' = Append(log, log[Len(log)])
    /\ deleted' = deleted

Remove ==
    /\ ~deleted /\ Ended(log)
    /\ deleted' = TRUE
    /\ log' = log

LogNext == Extend \/ Repeat \/ Remove
LogSpec == LogInit /\ [][LogNext]_logVars

================================================================================
