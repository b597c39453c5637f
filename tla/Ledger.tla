--------------------------------- MODULE Ledger ---------------------------------
(***************************************************************************)
(* The blertcoin ledger (blertbank: core/accounts.ts, core/transactions.ts, *)
(* api/transactions.ts, the procedure post_blertcoin_transaction and the    *)
(* schema in migrations/).                                                  *)
(*                                                                          *)
(* Callers create accounts and post transactions over HTTP, and may send a  *)
(* request again when they got no answer.  Each request runs in a database  *)
(* session, statement by statement, as one database transaction: nothing of *)
(* it is seen by others before it commits, except that they wait for its    *)
(* row locks and for the unique keys it has inserted.                       *)
(*                                                                          *)
(* Abstractions.  The entries of a request are summed per party (the        *)
(* procedure groups them the same way); whether one of them was zero is     *)
(* kept apart.  A transaction is identified by its place in commit order.   *)
(* What a caller attaches (reason, source, metadata, times) is left out.    *)
(***************************************************************************)
EXTENDS Integers, Sequences, FiniteSetsExt

CONSTANTS
    Session,        \* database connections, each serving one request at a time
    User, Nobody,   \* Nobody owns the system accounts
    Members,        \* users whose accounts were opened before, in that order
    NoWork,
    Key, NoKey,     \* idempotency keys; a request may come without
    Request,        \* posting requests: key, net amount per party, anyZero, resolved
    MaxAccount,     \* bound: account ids handed out
    MaxSends,       \* bound: requests sent
    MaxFaults       \* bound: sessions or answers lost

Account   == 1..MaxAccount
Treasury  == 1      \* the accounts the migrations seed
Purchases == 2
Party     == User \cup Account
\* f gives amounts to some members of S.
Amounts(f, S) == /\ f = [a \in DOMAIN f |-> f[a]]
                 /\ DOMAIN f \subseteq S
                 /\ \A a \in DOMAIN f : f[a] \in Int

ASSUME LedgerAssumption ==
    /\ Members \in Seq(User)
    /\ \A i, j \in DOMAIN Members : Members[i] = Members[j] => i = j
    /\ MaxAccount \in Nat /\ MaxAccount >= Purchases + Len(Members)
    /\ MaxSends \in Nat /\ MaxFaults \in Nat
    /\ NoKey \notin Key
    /\ Nobody \notin User \cup Account /\ NoWork \notin User \cup Request
    /\ User \cap Account = {} /\ User \cap Request = {}
    /\ \A r \in Request :
          /\ r.key \in Key \cup {NoKey}
          /\ Amounts(r.net, IF r.resolved THEN Party ELSE Account)
          /\ r.anyZero \in BOOLEAN
          /\ r.resolved \in BOOLEAN

VARIABLES
    owner,      \* blertcoin_accounts: owner[a], the user or a system name
    balance,    \* blertcoin_account_balances, committed
    posted,     \* transactions with entries and snapshots, in commit order
    nextAccount,\* sequence of account ids; ids of failed inserts are lost
    pc, work,   \* session: its next statement, and its request
    delta,      \* session: the amounts per account the procedure is called with
    held,       \* session: balance rows it has locked
    after,      \* session: balances it has written and not committed
    reply,      \* session: the answer on its way to the caller
    told,       \* answers callers have received for keyed requests
    sends, faults

books   == <<owner, balance, posted, nextAccount>>
session == <<pc, work, delta, held, after, reply>>
vars    == <<books, session, told, sends, faults>>

Empty  == [a \in {} |-> 0]

Answer(kind, n, b) == [kind |-> kind, n |-> n, after |-> b]
NoAnswer == Answer("none", 0, Empty)

Init ==
    /\ owner = [a \in 1..(Purchases + Len(Members)) |->
                  IF a <= Purchases THEN Nobody ELSE Members[a - Purchases]]
    /\ balance = [a \in DOMAIN owner |-> 0]
    /\ posted = <<>>
    /\ nextAccount = Purchases + Len(Members) + 1
    /\ pc = [s \in Session |-> "idle"]
    /\ work = [s \in Session |-> NoWork]
    /\ delta = [s \in Session |-> Empty]
    /\ held = [s \in Session |-> {}]
    /\ after = [s \in Session |-> Empty]
    /\ reply = [s \in Session |-> NoAnswer]
    /\ told = {}
    /\ sends = 0
    /\ faults = 0

Goto(s, label) == pc' = [pc EXCEPT ![s] = label]

\* The session's transaction is over: its locks are gone, an answer goes out.
Finish(s, a) ==
    /\ Goto(s, "reply")
    /\ reply' = [reply EXCEPT ![s] = a]
    /\ held' = [held EXCEPT ![s] = {}]
    /\ delta' = [delta EXCEPT ![s] = Empty]
    /\ after' = [after EXCEPT ![s] = Empty]
    /\ UNCHANGED work

\* It is rolled back: an error reaches the caller, the books are as before.
Abort(s, kind) == Finish(s, Answer(kind, 0, Empty)) /\ UNCHANGED books

-----------------------------------------------------------------------------
(* Accounts: POST /accounts                                                  *)

AccountsOf(u) == {a \in DOMAIN owner : owner[a] = u}

RequestAccount(s, u) ==
    /\ pc[s] = "idle" /\ sends < MaxSends
    /\ sends' = sends + 1
    /\ Goto(s, "find")
    /\ work' = [work EXCEPT ![s] = u]
    /\ UNCHANGED <<books, delta, held, after, reply, told, faults>>

FindAccount(s) ==
    /\ pc[s] = "find"
    /\ \/ \E a \in AccountsOf(work[s]) :
             Finish(s, Answer("account", a, Empty))
       \/ /\ AccountsOf(work[s]) = {}
          /\ Goto(s, "insert")
          /\ UNCHANGED <<work, delta, held, after, reply>>
    /\ UNCHANGED <<books, told, sends, faults>>

\* Another session has inserted an account for the user and not committed.
Creating(s, u) == \E t \in Session \ {s} : pc[t] = "open" /\ work[t] = u

\* The insertion waits for a rival's.  Once the rival has committed, the unique
\* violation aborts the transaction; the lookup in its catch block runs in the
\* aborted transaction and fails.  The id was taken from the sequence already.
InsertAccount(s) ==
    /\ pc[s] = "insert"
    /\ ~Creating(s, work[s])
    /\ nextAccount <= MaxAccount
    /\ nextAccount' = nextAccount + 1
    /\ \/ /\ AccountsOf(work[s]) # {}
          /\ Finish(s, Answer("failed", 0, Empty))
       \/ /\ AccountsOf(work[s]) = {}
          /\ Goto(s, "open")
          /\ after' = [after EXCEPT ![s] = [a \in {nextAccount} |-> 0]]
          /\ UNCHANGED <<work, delta, held, reply>>
    /\ UNCHANGED <<owner, balance, posted, told, sends, faults>>

OpenAccountOnly(s) ==               \* mutant: without its balance row
    /\ pc[s] = "open"
    /\ LET id == CHOOSE a \in DOMAIN after[s] : TRUE
       IN /\ owner' = [a \in DOMAIN owner \cup {id} |-> IF a = id THEN work[s] ELSE owner[a]]
          /\ Finish(s, Answer("account", id, Empty))
    /\ UNCHANGED <<balance, posted, nextAccount, told, sends, faults>>

\* The balance row is inserted and the transaction commits.
OpenAccount(s) ==
    /\ pc[s] = "open"
    /\ LET id == CHOOSE a \in DOMAIN after[s] : TRUE
       IN /\ owner' = [a \in DOMAIN owner \cup {id} |-> IF a = id THEN work[s] ELSE owner[a]]
          /\ balance' = [a \in DOMAIN balance \cup {id} |-> IF a = id THEN 0 ELSE balance[a]]
          /\ Finish(s, Answer("account", id, Empty))
    /\ UNCHANGED <<posted, nextAccount, told, sends, faults>>

-----------------------------------------------------------------------------
(* Transactions: POST /transactions                                          *)

RequestPosting(s, r) ==
    /\ pc[s] = "idle" /\ sends < MaxSends
    /\ sends' = sends + 1
    /\ work' = [work EXCEPT ![s] = r]
    /\ \/ r.resolved /\ Goto(s, "resolve") /\ UNCHANGED delta
       \/ ~r.resolved /\ Goto(s, "post") /\ delta' = [delta EXCEPT ![s] = r.net]
    /\ UNCHANGED <<books, held, after, reply, told, faults>>

AccountsFor(p) == IF p \in User THEN AccountsOf(p) ELSE {p} \cap DOMAIN owner

\* What net gives to a party.
AmountOf(net, p) == IF p \in DOMAIN net THEN net[p] ELSE 0

\* The participants are looked up before and outside the transaction.  A user
\* and the user's own account may both be named: the account gets both amounts.
ResolveParticipants(s) ==
    /\ pc[s] = "resolve"
    /\ LET net == work[s].net
           Ids == UNION {AccountsFor(p) : p \in DOMAIN net}
       IN \/ /\ \E p \in DOMAIN net : AccountsFor(p) = {}
             /\ Abort(s, "refused")
          \/ /\ \A p \in DOMAIN net : AccountsFor(p) # {}
             /\ Goto(s, "post")
             /\ delta' = [delta EXCEPT ![s] =
                            [a \in Ids |-> AmountOf(net, a) + AmountOf(net, owner[a])]]
             /\ UNCHANGED <<books, work, held, after, reply>>
    /\ UNCHANGED <<told, sends, faults>>

Total(f) == MapThenSumSet(LAMBDA a : f[a], DOMAIN f)

ValidIfBalanced(s) == TRUE          \* mutant: the sum is not checked
Valid(s) == Total(delta[s]) = 0 /\ ~work[s].anyZero

RejectInvalid(s) ==
    /\ pc[s] = "post" /\ ~Valid(s)
    /\ Abort(s, "refused")
    /\ UNCHANGED <<told, sends, faults>>

InTransaction == {"rows", "lock", "update", "commit"}

\* INSERT ... ON CONFLICT DO NOTHING: an insertion of the key by another session
\* that has not committed makes it wait; a committed one is a conflict.
KeyPendingNever(s) == FALSE         \* mutant: the key is looked up, not inserted
KeyPending(s) ==
    \E t \in Session \ {s} : pc[t] \in InTransaction /\ work[t].key = work[s].key
KeyPostings(k) == {i \in DOMAIN posted : k # NoKey /\ posted[i].key = k}

\* The balances answered to a repetition are those stored with the transaction.
SnapshotOfNow(i) == [a \in DOMAIN posted[i].after |-> balance[a]]   \* mutant: current balances
Snapshot(i) == posted[i].after

AnswerRepeated(s) ==
    /\ pc[s] = "post" /\ Valid(s)
    /\ \E i \in KeyPostings(work[s].key) : Finish(s, Answer("posted", i, Snapshot(i)))
    /\ UNCHANGED <<books, told, sends, faults>>

InsertTransaction(s) ==
    /\ pc[s] = "post" /\ Valid(s)
    /\ KeyPostings(work[s].key) = {}
    /\ work[s].key # NoKey => ~KeyPending(s)
    /\ Goto(s, "rows")
    /\ UNCHANGED <<books, work, delta, held, after, reply, told, sends, faults>>

\* Missing balance rows are inserted: every account has one, and an account
\* that does not exist violates the foreign key.
EnsureRows(s) ==
    /\ pc[s] = "rows"
    /\ \/ /\ ~(DOMAIN delta[s] \subseteq DOMAIN owner)
          /\ Abort(s, "failed")
       \/ /\ DOMAIN delta[s] \subseteq DOMAIN owner
          /\ Goto(s, "lock")
          /\ UNCHANGED <<books, work, delta, held, after, reply>>
    /\ UNCHANGED <<told, sends, faults>>

UnlockedNone(s) == {}               \* mutant: without FOR UPDATE
Unlocked(s) == DOMAIN delta[s] \ held[s]
\* The rows are locked in the order of their ids.
NextToLockAny(s, a) == a \in Unlocked(s)        \* mutant: without ORDER BY
NextToLock(s, a) == a \in Unlocked(s) /\ \A b \in Unlocked(s) : a <= b
RowFree(s, a) == \A t \in Session \ {s} : a \notin held[t]

LockRow(s) ==
    /\ pc[s] = "lock"
    /\ \E a \in Unlocked(s) :
          /\ NextToLock(s, a) /\ RowFree(s, a)
          /\ held' = [held EXCEPT ![s] = @ \cup {a}]
    /\ UNCHANGED <<books, pc, work, delta, after, reply, told, sends, faults>>

MayBeNegativeToo(a) == a # Purchases    \* mutant: users get accounts of such a kind
MayBeNegative(a) == a = Treasury

NewBalance(s) == [a \in DOMAIN delta[s] |-> balance[a] + delta[s][a]]
Funded(s) == \A a \in DOMAIN delta[s] : NewBalance(s)[a] >= 0 \/ MayBeNegative(a)

\* With all rows locked the funds are tested.
TestFunds(s) ==
    /\ pc[s] = "lock" /\ Unlocked(s) = {}
    /\ IF Funded(s)
       THEN Goto(s, "update") /\ UNCHANGED <<books, work, delta, held, after, reply>>
       ELSE Abort(s, "refused")
    /\ UNCHANGED <<told, sends, faults>>

\* A later statement reads the balances again, updates them and stores the
\* snapshots.  It locks the rows it updates; the session has them already.  The
\* table's trigger rejects a negative balance, as an internal error.
UpdateBalances(s) ==
    /\ pc[s] = "update"
    /\ \A a \in DOMAIN delta[s] : RowFree(s, a)
    /\ IF Funded(s)
       THEN /\ Goto(s, "commit")
            /\ held' = [held EXCEPT ![s] = DOMAIN delta[s]]
            /\ after' = [after EXCEPT ![s] = NewBalance(s)]
            /\ UNCHANGED <<books, work, delta, reply>>
       ELSE Abort(s, "failed")
    /\ UNCHANGED <<told, sends, faults>>

\* mutant: read from the table, which the statement sees as it was before
BalancesBefore(s) == [a \in DOMAIN after[s] |-> balance[a]]
\* The snapshots are what the update returns.
BalancesAfter(s) == after[s]

Commit(s) ==
    /\ pc[s] = "commit"
    /\ posted' = Append(posted, [key |-> work[s].key, net |-> delta[s], after |-> BalancesAfter(s)])
    /\ balance' = [a \in DOMAIN balance |->
                     IF a \in DOMAIN after[s] THEN after[s][a] ELSE balance[a]]
    /\ Finish(s, Answer("posted", Len(posted) + 1, BalancesAfter(s)))
    /\ UNCHANGED <<owner, nextAccount, told, sends, faults>>

-----------------------------------------------------------------------------
Idle(s) ==
    /\ Goto(s, "idle")
    /\ work' = [work EXCEPT ![s] = NoWork]
    /\ delta' = [delta EXCEPT ![s] = Empty]
    /\ held' = [held EXCEPT ![s] = {}]
    /\ after' = [after EXCEPT ![s] = Empty]
    /\ reply' = [reply EXCEPT ![s] = NoAnswer]

Keyed(s) == reply[s].kind = "posted" /\ work[s].key # NoKey

Deliver(s) ==
    /\ pc[s] = "reply"
    /\ told' = told \cup (IF Keyed(s)
                          THEN {[key |-> work[s].key, n |-> reply[s].n, after |-> reply[s].after]}
                          ELSE {})
    /\ Idle(s)
    /\ UNCHANGED <<books, sends, faults>>

\* The connection, the service or the answer is lost; what was not committed is
\* rolled back.
Lose(s) ==
    /\ pc[s] # "idle" /\ faults < MaxFaults
    /\ faults' = faults + 1
    /\ Idle(s)
    /\ UNCHANGED <<books, told, sends>>

Serve(s) ==
    \/ FindAccount(s) \/ InsertAccount(s) \/ OpenAccount(s)
    \/ ResolveParticipants(s) \/ RejectInvalid(s) \/ AnswerRepeated(s)
    \/ InsertTransaction(s) \/ EnsureRows(s) \/ LockRow(s) \/ TestFunds(s)
    \/ UpdateBalances(s) \/ Commit(s) \/ Deliver(s)

Next ==
    \E s \in Session :
        \/ \E u \in User : RequestAccount(s, u)
        \/ \E r \in Request : RequestPosting(s, r)
        \/ Serve(s)
        \/ Lose(s)

Spec     == Init /\ [][Next]_vars
Fairness == \A s \in Session : WF_vars(Serve(s))
FairSpec == Spec /\ Fairness

-----------------------------------------------------------------------------
(* Properties                                                                *)

Labels == {"idle", "find", "insert", "open", "resolve", "post", "rows", "lock",
           "update", "commit", "reply"}
Kinds  == {"none", "account", "posted", "refused", "failed"}

IsPosting(e) ==
    /\ e = [key |-> e.key, net |-> e.net, after |-> e.after]
    /\ e.key \in Key \cup {NoKey}
    /\ Amounts(e.net, DOMAIN owner) /\ Amounts(e.after, DOMAIN owner)
    /\ DOMAIN e.after = DOMAIN e.net

BooksOK ==
    /\ owner \in [DOMAIN owner -> User \cup {Nobody}] /\ DOMAIN owner \subseteq Account
    /\ Amounts(balance, Account) /\ DOMAIN balance = DOMAIN owner
    /\ Len(posted) \in Nat /\ posted = [i \in 1..Len(posted) |-> posted[i]]
    /\ \A i \in DOMAIN posted : IsPosting(posted[i])
    /\ nextAccount \in 3..(MaxAccount + 1)

SessionsOK ==
    /\ pc \in [Session -> Labels]
    /\ work \in [Session -> Request \cup User \cup {NoWork}]
    /\ held \in [Session -> SUBSET Account]
    /\ delta = [s \in Session |-> delta[s]]
    /\ after = [s \in Session |-> after[s]]
    /\ reply = [s \in Session |-> reply[s]]

SessionOK(s) ==
    /\ pc[s] \in {"find", "insert", "open"} => work[s] \in User
    /\ pc[s] \in {"resolve", "post"} \cup InTransaction => work[s] \in Request
    /\ reply[s].kind = "posted" => pc[s] = "reply" /\ work[s] \in Request
    /\ Amounts(delta[s], Account) /\ Amounts(after[s], Account)
    /\ reply[s].kind \in Kinds /\ reply[s].n \in Nat /\ Amounts(reply[s].after, Account)

\* Every variable has its type; a session serves what its statement is for, and
\* every account has a balance row.
TypeOK ==
    /\ BooksOK
    /\ SessionsOK
    /\ \A s \in Session : SessionOK(s)
    /\ told = {[key |-> m.key, n |-> m.n, after |-> m.after] : m \in told}
    /\ \A m \in told : m.key \in Key /\ m.n \in Nat /\ Amounts(m.after, Account)
    /\ sends \in 0..MaxSends
    /\ faults \in 0..MaxFaults

\* However often a request is sent, and though its repetitions run at the same
\* time and sessions are lost anywhere, no key is posted twice
\* (20260201-balance-snapshots.sql:55, ON CONFLICT (idempotency_key)).
KeyAppliedOnce ==
    \A i, j \in DOMAIN posted : posted[i].key # NoKey /\ posted[i].key = posted[j].key => i = j

\* a's latest posting before place i is at place j.
Touches(i, a) == a \in DOMAIN posted[i].net
Latest(j, i, a) ==
    /\ j < i /\ Touches(j, a)
    /\ \A m \in (j + 1)..(i - 1) : ~Touches(m, a)
Untouched(i, a) == \A m \in 1..(i - 1) : ~Touches(m, a)

\* The books add up: the snapshots of an account form a running balance from
\* zero, and its balance is the last of them.  Sessions that read a balance and
\* write it back must exclude each other (the row locks of the procedure).
RunningBalance ==
    /\ \A i \in DOMAIN posted : \A a \in DOMAIN posted[i].net :
          /\ Untouched(i, a) => posted[i].after[a] = posted[i].net[a]
          /\ \A j \in DOMAIN posted : Latest(j, i, a) =>
                posted[i].after[a] = posted[j].after[a] + posted[i].net[a]
    /\ \A a \in DOMAIN balance :
          /\ Untouched(Len(posted) + 1, a) => balance[a] = 0
          /\ \A j \in DOMAIN posted : Latest(j, Len(posted) + 1, a) =>
                balance[a] = posted[j].after[a]

\* Only the treasury is ever below zero, in the balances and in every snapshot
\* answered to a caller, though the test and the update are separate statements.
NoOverdraft ==
    /\ \A a \in DOMAIN balance : balance[a] >= 0 \/ a = Treasury
    /\ \A i \in DOMAIN posted : \A a \in DOMAIN posted[i].after :
          posted[i].after[a] >= 0 \/ a = Treasury

\* Funds that were tested are there when they are spent, though the test and the
\* update are separate statements that each read the balances: missing funds are
\* answered as such (INSUFFICIENT_FUNDS), never left to the table's trigger.
TestedFundsSuffice == \A s \in Session : pc[s] = "update" => Funded(s)

\* Whoever repeats a request is told the transaction and the balances its first
\* answer carried, or would have carried, whatever was posted since
\* (__tests__/integration/transactions.test.ts:118).
SameAnswer ==
    /\ \A m1, m2 \in told : m1.key = m2.key => m1 = m2
    /\ \A m \in told : /\ m.n \in DOMAIN posted
                       /\ posted[m.n].key = m.key /\ posted[m.n].after = m.after

\* No coin appears or vanishes: all balances sum to zero.
Conserved == Total(balance) = 0

\* Every request ends: no set of sessions waits for one another's rows, keys or
\* accounts (the procedure locks "in deterministic order to prevent deadlocks").
EveryRequestEnds == \A s \in Session : pc[s] # "idle" ~> pc[s] = "idle"

\* Creating an account twice at once returns the account to both callers
\* (core/accounts.ts:107, "Handle race condition: another request created the
\* account.").
AccountIsReturned ==
    \A s \in Session : pc[s] = "reply" /\ work[s] \in User => reply[s].kind = "account"
================================================================================
