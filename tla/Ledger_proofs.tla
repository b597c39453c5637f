------------------------------ MODULE Ledger_proofs ------------------------------
(***************************************************************************)
(* Proofs about Ledger for any sessions, users, requests, keys and bounds.  *)
(***************************************************************************)
EXTENDS Ledger, SequenceTheorems, FiniteSetTheorems, TLAPS

(***************************************************************************)
(* Every step of a session leaves the other sessions as they are.           *)
(***************************************************************************)
Others(s) ==
    \A t \in Session \ {s} :
        /\ pc'[t] = pc[t] /\ work'[t] = work[t] /\ delta'[t] = delta[t]
        /\ held'[t] = held[t] /\ after'[t] = after[t] /\ reply'[t] = reply[t]

\* The end of a session's transaction, with an answer.
LEMMA FinishEffect ==
    ASSUME SessionsOK, NEW s \in Session, NEW a, Finish(s, a)
    PROVE  /\ SessionsOK' /\ Others(s)
           /\ pc'[s] = "reply" /\ work'[s] = work[s] /\ reply'[s] = a
           /\ delta'[s] = Empty /\ held'[s] = {} /\ after'[s] = Empty
BY DEF SessionsOK, Others, Finish, Goto, Labels

\* A session that is free again.
LEMMA IdleEffect ==
    ASSUME SessionsOK, NEW s \in Session, Idle(s)
    PROVE  /\ SessionsOK' /\ Others(s)
           /\ pc'[s] = "idle" /\ work'[s] = NoWork /\ reply'[s] = NoAnswer
           /\ delta'[s] = Empty /\ held'[s] = {} /\ after'[s] = Empty
BY DEF SessionsOK, Others, Idle, Goto, Labels

LEMMA EmptyAmounts == \A S : Amounts(Empty, S)
BY DEF Amounts, Empty

\* What a finished or freed session leaves behind is well typed.
LEMMA FinishTyped ==
    ASSUME SessionsOK, NEW s \in Session, SessionOK(s),
           NEW kind \in Kinds, NEW n \in Nat, NEW b, Amounts(b, Account),
           kind = "posted" => work[s] \in Request,
           Finish(s, Answer(kind, n, b))
    PROVE  SessionOK(s)'
<1>1. /\ pc'[s] = "reply" /\ work'[s] = work[s] /\ reply'[s] = Answer(kind, n, b)
      /\ delta'[s] = Empty /\ after'[s] = Empty
    BY FinishEffect
<1>2. Amounts(Empty, Account)
    BY EmptyAmounts
<1>3. reply'[s].kind = kind /\ reply'[s].n = n /\ reply'[s].after = b
    BY <1>1 DEF Answer
<1>4. Amounts(delta[s], Account)' /\ Amounts(after[s], Account)' /\ Amounts(reply[s].after, Account)'
    BY <1>1, <1>2, <1>3 DEF Amounts, Account
<1>5. QED
    BY <1>1, <1>3, <1>4 DEF SessionOK, InTransaction

LEMMA IdleTyped ==
    ASSUME SessionsOK, NEW s \in Session, Idle(s)
    PROVE  SessionOK(s)'
<1>1. /\ pc'[s] = "idle" /\ work'[s] = NoWork /\ reply'[s] = NoAnswer
      /\ delta'[s] = Empty /\ after'[s] = Empty
    BY IdleEffect
<1>2. Amounts(Empty, Account)
    BY EmptyAmounts
<1>3. reply'[s].kind = "none" /\ reply'[s].n = 0 /\ reply'[s].after = Empty
    BY <1>1 DEF NoAnswer, Answer
<1>4. Amounts(delta[s], Account)' /\ Amounts(after[s], Account)' /\ Amounts(reply[s].after, Account)'
    BY <1>1, <1>2, <1>3 DEF Amounts, Account
<1>5. QED
    BY <1>1, <1>3, <1>4 DEF SessionOK, InTransaction, Kinds

\* The sessions that did not step stay well typed.
LEMMA OthersTyped ==
    ASSUME NEW s \in Session, Others(s), \A t \in Session : SessionOK(t), SessionOK(s)'
    PROVE  \A t \in Session : SessionOK(t)'
BY DEF Others, SessionOK, Amounts, Account

(***************************************************************************)
(* The session that steps stays well typed, action by action.               *)
(***************************************************************************)
SessionStep(s) == SessionsOK' /\ Others(s) /\ SessionOK(s)'

LEMMA RequestAccountTyped ==
    ASSUME TypeOK, NEW s \in Session, NEW u \in User, RequestAccount(s, u)
    PROVE  SessionStep(s)
BY DEF TypeOK, SessionsOK, SessionOK, SessionStep, Others, RequestAccount, Goto, Labels,
       InTransaction, Amounts, Account

LEMMA FindAccountTyped ==
    ASSUME TypeOK, NEW s \in Session, FindAccount(s)
    PROVE  SessionStep(s)
<1>1. SessionsOK /\ SessionOK(s) /\ work[s] \in User
    BY DEF TypeOK, FindAccount, SessionOK
<1>2. ASSUME NEW a \in AccountsOf(work[s]), Finish(s, Answer("account", a, Empty))
      PROVE  SessionStep(s)
  <2>1. a \in Nat
    BY DEF AccountsOf, TypeOK, BooksOK, Account
  <2>2. QED
    BY <1>1, <1>2, <2>1, FinishEffect, FinishTyped, EmptyAmounts DEF SessionStep, Kinds
<1>3. CASE /\ Goto(s, "insert")
           /\ UNCHANGED <<work, delta, held, after, reply>>
    BY <1>1, <1>3 DEF FindAccount, SessionsOK, SessionOK, SessionStep, Others, Goto, Labels,
       InTransaction, Amounts, Account
<1>4. QED
    BY <1>2, <1>3 DEF FindAccount

LEMMA InsertAccountTyped ==
    ASSUME TypeOK, NEW s \in Session, InsertAccount(s)
    PROVE  SessionStep(s)
<1>1. SessionsOK /\ SessionOK(s) /\ pc[s] = "insert" /\ work[s] \in User
    BY DEF TypeOK, InsertAccount, SessionOK
<1>2. CASE Finish(s, Answer("failed", 0, Empty))
    BY <1>1, <1>2, FinishEffect, FinishTyped, EmptyAmounts DEF SessionStep, Kinds
<1>3. CASE /\ Goto(s, "open")
           /\ after' = [after EXCEPT ![s] = [a \in {nextAccount} |-> 0]]
           /\ UNCHANGED <<work, delta, held, reply>>
  <2>1. Amounts([a \in {nextAccount} |-> 0], Account)
    BY DEF InsertAccount, TypeOK, BooksOK, Account, Amounts
  <2>2. after'[s] = [a \in {nextAccount} |-> 0]
    BY <1>1, <1>3 DEF SessionsOK
  <2>3. Amounts(after[s], Account)'
    BY <2>1, <2>2 DEF Amounts, Account
  <2>4. QED
    BY <1>1, <1>3, <2>3 DEF SessionsOK, SessionOK, SessionStep, Others, Goto, Labels,
       InTransaction, Amounts, Account
<1>4. QED
    BY <1>2, <1>3 DEF InsertAccount

LEMMA OpenAccountTyped ==
    ASSUME TypeOK, NEW s \in Session, OpenAccount(s), NEW id \in Account,
           after[s] = [a \in {id} |-> 0]
    PROVE  SessionStep(s)
<1>1. SessionsOK /\ SessionOK(s)
    BY DEF TypeOK
<1>2. (CHOOSE a \in DOMAIN after[s] : TRUE) = id
    OBVIOUS
<1>3. Finish(s, Answer("account", id, Empty)) /\ id \in Nat
    BY <1>2 DEF OpenAccount, Account
<1>4. QED
    BY <1>1, <1>3, FinishEffect, FinishTyped, EmptyAmounts DEF SessionStep, Kinds

LEMMA RequestPostingTyped ==
    ASSUME TypeOK, NEW s \in Session, NEW r \in Request, RequestPosting(s, r)
    PROVE  SessionStep(s)
<1>1. ~r.resolved => Amounts(r.net, Account)
    BY LedgerAssumption DEF Amounts
<1>2. work'[s] = r /\ pc'[s] \in {"resolve", "post"}
    BY DEF TypeOK, SessionsOK, RequestPosting, Goto
<1>3. delta'[s] = delta[s] \/ (~r.resolved /\ delta'[s] = r.net)
  <2>1. delta = [t \in Session |-> delta[t]]
    BY DEF TypeOK, SessionsOK
  <2>2. delta' = delta \/ (~r.resolved /\ delta' = [delta EXCEPT ![s] = r.net])
    BY DEF RequestPosting
  <2>3. QED
    BY <2>1, <2>2
<1>4. Amounts(delta[s], Account)'
    BY <1>1, <1>3 DEF TypeOK, SessionOK, Amounts, Account
<1>5. reply[s].kind # "posted"
    BY DEF TypeOK, SessionOK, RequestPosting
<1>6. SessionOK(s)'
    BY <1>2, <1>4, <1>5 DEF TypeOK, SessionOK, RequestPosting, InTransaction, Amounts, Account
<1>7. SessionsOK' /\ Others(s)
    BY DEF TypeOK, SessionsOK, Others, RequestPosting, Goto, Labels
<1>8. QED
    BY <1>6, <1>7 DEF SessionStep

LEMMA ResolveParticipantsTyped ==
    ASSUME TypeOK, NEW s \in Session, ResolveParticipants(s)
    PROVE  SessionStep(s)
<1> DEFINE net == work[s].net
           Ids == UNION {AccountsFor(p) : p \in DOMAIN net}
           d == [a \in Ids |-> AmountOf(net, a) + AmountOf(net, owner[a])]
<1>1. SessionsOK /\ SessionOK(s) /\ pc[s] = "resolve" /\ work[s] \in Request
    BY DEF TypeOK, ResolveParticipants, SessionOK
<1>2. CASE Abort(s, "refused")
    BY <1>1, <1>2, FinishEffect, FinishTyped, EmptyAmounts DEF SessionStep, Kinds, Abort
<1>3. CASE /\ Goto(s, "post")
           /\ delta' = [delta EXCEPT ![s] = d]
           /\ UNCHANGED <<books, work, held, after, reply>>
  <2>1. \A p \in DOMAIN net : net[p] \in Int
    BY <1>1, LedgerAssumption DEF Amounts
  <2>2. \A p : AccountsFor(p) \subseteq DOMAIN owner
    BY DEF AccountsFor, AccountsOf
  <2>3. \A p : AmountOf(net, p) \in Int
    BY <2>1 DEF AmountOf
  <2>4. Ids \subseteq Account
    BY <2>2 DEF TypeOK, BooksOK
  <2>5. \A a \in Ids : d[a] \in Int
    BY <2>3
  <2>6. Amounts(d, Account)
    BY <2>4, <2>5 DEF Amounts
  <2>7. delta'[s] = d
    BY <1>1, <1>3 DEF SessionsOK
  <2>8. Amounts(delta[s], Account)'
    BY <2>6, <2>7 DEF Amounts, Account
  <2>9. SessionOK(s)'
    BY <1>1, <1>3, <2>8 DEF SessionsOK, SessionOK, Goto, InTransaction, Amounts, Account
  <2>10. SessionsOK' /\ Others(s)
    BY <1>1, <1>3 DEF SessionsOK, Others, Goto, Labels
  <2>11. QED
    BY <2>9, <2>10 DEF SessionStep
<1>4. QED
    BY <1>2, <1>3 DEF ResolveParticipants

LEMMA RejectInvalidTyped ==
    ASSUME TypeOK, NEW s \in Session, RejectInvalid(s)
    PROVE  SessionStep(s)
BY FinishEffect, FinishTyped, EmptyAmounts DEF TypeOK, RejectInvalid, Abort, SessionStep, Kinds

LEMMA AnswerRepeatedTyped ==
    ASSUME TypeOK, NEW s \in Session, AnswerRepeated(s)
    PROVE  SessionStep(s)
<1>1. SessionsOK /\ SessionOK(s) /\ work[s] \in Request
    BY DEF TypeOK, AnswerRepeated, SessionOK
<1>2. PICK i \in KeyPostings(work[s].key) : Finish(s, Answer("posted", i, Snapshot(i)))
    BY DEF AnswerRepeated
<1>3. i \in Nat /\ IsPosting(posted[i])
    BY DEF KeyPostings, TypeOK, BooksOK
<1>4. Amounts(Snapshot(i), Account)
    BY <1>3 DEF Snapshot, IsPosting, Amounts, TypeOK, BooksOK
<1>5. QED
    BY <1>1, <1>2, <1>3, <1>4, FinishEffect, FinishTyped DEF SessionStep, Kinds

LEMMA InsertTransactionTyped ==
    ASSUME TypeOK, NEW s \in Session, InsertTransaction(s)
    PROVE  SessionStep(s)
<1>1. SessionsOK /\ SessionOK(s) /\ pc[s] = "post" /\ work[s] \in Request
    BY DEF TypeOK, InsertTransaction, SessionOK
<1>2. Goto(s, "rows") /\ UNCHANGED <<work, delta, held, after, reply>>
    BY DEF InsertTransaction
<1>3. QED
    BY <1>1, <1>2 DEF SessionsOK, SessionOK, SessionStep, Others, Goto, Labels,
       InTransaction, Amounts, Account

LEMMA EnsureRowsTyped ==
    ASSUME TypeOK, NEW s \in Session, EnsureRows(s)
    PROVE  SessionStep(s)
<1>1. SessionsOK /\ SessionOK(s) /\ pc[s] = "rows" /\ work[s] \in Request
    BY DEF TypeOK, EnsureRows, SessionOK, InTransaction
<1>2. CASE Abort(s, "failed")
    BY <1>1, <1>2, FinishEffect, FinishTyped, EmptyAmounts DEF SessionStep, Kinds, Abort
<1>3. CASE Goto(s, "lock") /\ UNCHANGED <<books, work, delta, held, after, reply>>
    BY <1>1, <1>3 DEF SessionsOK, SessionOK, SessionStep, Others, Goto, Labels,
       InTransaction, Amounts, Account
<1>4. QED
    BY <1>2, <1>3 DEF EnsureRows

LEMMA LockRowTyped ==
    ASSUME TypeOK, NEW s \in Session, LockRow(s)
    PROVE  SessionStep(s)
<1>1. PICK a \in Unlocked(s) : held' = [held EXCEPT ![s] = @ \cup {a}]
    BY DEF LockRow
<1>2. a \in Account
    BY DEF Unlocked, TypeOK, SessionOK, Amounts
<1>3. SessionsOK' /\ Others(s)
    BY <1>1, <1>2 DEF TypeOK, SessionsOK, Others, LockRow
<1>4. SessionOK(s)'
    BY DEF TypeOK, SessionOK, LockRow, InTransaction, Amounts, Account
<1>5. QED
    BY <1>3, <1>4 DEF SessionStep

LEMMA TestFundsTyped ==
    ASSUME TypeOK, NEW s \in Session, TestFunds(s)
    PROVE  SessionStep(s)
<1>1. SessionsOK /\ SessionOK(s) /\ pc[s] = "lock" /\ work[s] \in Request
    BY DEF TypeOK, TestFunds, SessionOK, InTransaction
<1>2. CASE Abort(s, "refused")
    BY <1>1, <1>2, FinishEffect, FinishTyped, EmptyAmounts DEF SessionStep, Kinds, Abort
<1>3. CASE Goto(s, "update") /\ UNCHANGED <<books, work, delta, held, after, reply>>
    BY <1>1, <1>3 DEF SessionsOK, SessionOK, SessionStep, Others, Goto, Labels,
       InTransaction, Amounts, Account
<1>4. QED
    BY <1>2, <1>3 DEF TestFunds

LEMMA UpdateBalancesTyped ==
    ASSUME TypeOK, NEW s \in Session, UpdateBalances(s), DOMAIN delta[s] \subseteq DOMAIN owner
    PROVE  SessionStep(s)
<1>1. SessionsOK /\ SessionOK(s) /\ pc[s] = "update" /\ work[s] \in Request
    BY DEF TypeOK, UpdateBalances, SessionOK, InTransaction
<1>2. CASE Abort(s, "failed")
    BY <1>1, <1>2, FinishEffect, FinishTyped, EmptyAmounts DEF SessionStep, Kinds, Abort
<1>3. CASE /\ Goto(s, "commit")
           /\ held' = [held EXCEPT ![s] = DOMAIN delta[s]]
           /\ after' = [after EXCEPT ![s] = NewBalance(s)]
           /\ UNCHANGED <<books, work, delta, reply>>
  <2>1. Amounts(NewBalance(s), Account) /\ DOMAIN delta[s] \subseteq Account
    BY <1>1 DEF NewBalance, Amounts, SessionOK, TypeOK, BooksOK
  <2>2. after'[s] = NewBalance(s)
    BY <1>1, <1>3 DEF SessionsOK
  <2>3. Amounts(after[s], Account)'
    BY <2>1, <2>2 DEF Amounts, Account
  <2>4. QED
    BY <1>1, <1>3, <2>1, <2>3 DEF SessionsOK, SessionOK, SessionStep, Others, Goto, Labels,
       InTransaction, Amounts, Account
<1>4. QED
    BY <1>2, <1>3 DEF UpdateBalances

LEMMA CommitTyped ==
    ASSUME TypeOK, NEW s \in Session, Commit(s)
    PROVE  SessionStep(s)
<1>1. SessionsOK /\ SessionOK(s) /\ work[s] \in Request /\ Amounts(after[s], Account)
    BY DEF TypeOK, Commit, SessionOK, InTransaction
<1>2. Finish(s, Answer("posted", Len(posted) + 1, after[s])) /\ Len(posted) + 1 \in Nat
    BY DEF Commit, BalancesAfter, TypeOK, BooksOK
<1>3. QED
    BY <1>1, <1>2, FinishEffect, FinishTyped DEF SessionStep, Kinds

LEMMA DeliverTyped ==
    ASSUME TypeOK, NEW s \in Session, Deliver(s)
    PROVE  SessionStep(s)
BY IdleEffect, IdleTyped DEF TypeOK, Deliver, SessionStep

LEMMA LoseTyped ==
    ASSUME TypeOK, NEW s \in Session, Lose(s)
    PROVE  SessionStep(s)
BY IdleEffect, IdleTyped DEF TypeOK, Lose, SessionStep

(***************************************************************************)
(* Accounts being opened, and row locks.                                    *)
(***************************************************************************)
\* A session that has inserted an account owns its id, which nobody else has.
Opening ==
    /\ \A a \in DOMAIN owner : a < nextAccount
    /\ \A s \in Session : pc[s] = "open" =>
          \E id \in Account \ DOMAIN owner : id < nextAccount /\ after[s] = [a \in {id} |-> 0]
    /\ \A s, t \in Session : s # t /\ pc[s] = "open" /\ pc[t] = "open" =>
          DOMAIN after[s] \cap DOMAIN after[t] = {}

\* Only a posting session holds rows, rows of its request, lowest first, and all
\* of them when it writes.
LockingAt(s) ==
    /\ pc[s] \notin {"lock", "update", "commit"} => held[s] = {}
    /\ pc[s] \in {"lock", "update", "commit"} => DOMAIN delta[s] \subseteq DOMAIN owner
    /\ pc[s] \in {"update", "commit"} => held[s] = DOMAIN delta[s]
    /\ pc[s] = "commit" => DOMAIN after[s] = DOMAIN delta[s]
    /\ held[s] \subseteq DOMAIN delta[s]
    /\ \A a \in held[s], b \in Unlocked(s) : a < b

Locking ==
    /\ \A s \in Session : LockingAt(s)
    /\ \A s, t \in Session : s # t => held[s] \cap held[t] = {}

\* A step of s that neither opens an account nor touches rows.
Quiet(s) ==
    /\ pc'[s] \notin {"open", "lock", "update", "commit"} /\ held'[s] = {}
    /\ UNCHANGED <<owner, nextAccount>>

LEMMA OpeningKept ==
    ASSUME Opening, NEW s \in Session, Others(s), pc'[s] # "open", UNCHANGED <<owner, nextAccount>>
    PROVE  Opening'
BY DEF Opening, Others, Account

LEMMA QuietStep ==
    ASSUME Opening, Locking, NEW s \in Session, Others(s), Quiet(s)
    PROVE  Opening' /\ Locking'
<1>1. Opening'
    BY OpeningKept DEF Quiet
<1>2. \A t \in Session \ {s} : LockingAt(t)'
    BY DEF Locking, LockingAt, Others, Quiet, Unlocked
<1>3. LockingAt(s)'
    BY DEF LockingAt, Quiet, Unlocked
<1>4. QED
    BY <1>1, <1>2, <1>3 DEF Locking, Others, Quiet

LEMMA InsertAccountShape ==
    ASSUME TypeOK, Opening, Locking, NEW s \in Session, InsertAccount(s)
    PROVE  Opening' /\ Locking'
<1>1. Others(s) /\ held[s] = {}
    BY InsertAccountTyped DEF SessionStep, Locking, LockingAt, InsertAccount
<1>2. nextAccount \in Account /\ nextAccount' = nextAccount + 1 /\ UNCHANGED owner
    BY DEF TypeOK, BooksOK, InsertAccount, Account
<1>3. /\ pc'[s] \in {"reply", "open"} /\ held'[s] = {}
      /\ pc'[s] = "open" => after'[s] = [a \in {nextAccount} |-> 0]
    BY <1>1, FinishEffect DEF TypeOK, SessionsOK, InsertAccount, Goto
<1>4. \A a \in Account : a < nextAccount => a < nextAccount + 1
    BY <1>2 DEF Account
<1>5. \A a \in DOMAIN owner : a \in Account
    BY DEF TypeOK, BooksOK
<1>6. nextAccount \notin DOMAIN owner /\ nextAccount < nextAccount + 1
    BY <1>2 DEF Opening, Account
<1>7. ASSUME NEW t \in Session, pc[t] = "open"
      PROVE  nextAccount \notin DOMAIN after[t]
  <2>1. PICK id \in Account : id < nextAccount /\ after[t] = [a \in {id} |-> 0]
    BY <1>7 DEF Opening
  <2>2. QED
    BY <1>2, <2>1 DEF Account
<1>8. Opening'
  <2>1. \A a \in DOMAIN owner' : a < nextAccount'
    BY <1>2, <1>4, <1>5 DEF Opening
  <2>2. ASSUME NEW t \in Session, pc'[t] = "open"
        PROVE  \E id \in Account \ DOMAIN owner : id < nextAccount' /\ after'[t] = [a \in {id} |-> 0]
    <3>1. CASE t = s
      BY <3>1, <2>2, <1>2, <1>3, <1>6
    <3>2. CASE t # s
      BY <3>2, <2>2, <1>1, <1>2, <1>4 DEF Opening, Others
    <3>3. QED
      BY <3>1, <3>2
  <2>3. ASSUME NEW t \in Session, NEW v \in Session, t # v, pc'[t] = "open", pc'[v] = "open"
        PROVE  DOMAIN after'[t] \cap DOMAIN after'[v] = {}
    BY <2>3, <1>1, <1>3, <1>7 DEF Opening, Others
  <2>4. QED
    BY <2>1, <2>2, <2>3, <1>2 DEF Opening, Account
<1>9. \A t \in Session : LockingAt(t)'
    BY <1>1, <1>2, <1>3 DEF Locking, LockingAt, Others, Unlocked
<1>10. QED
    BY <1>1, <1>3, <1>8, <1>9 DEF Locking, Others

\* What OpenAccount publishes.
LEMMA OpenAccountEffect ==
    ASSUME TypeOK, Opening, NEW s \in Session, OpenAccount(s)
    PROVE  \E id \in Account \ DOMAIN owner :
              /\ id < nextAccount /\ after[s] = [a \in {id} |-> 0]
              /\ owner' = [a \in DOMAIN owner \cup {id} |-> IF a = id THEN work[s] ELSE owner[a]]
              /\ balance' = [a \in DOMAIN balance \cup {id} |-> IF a = id THEN 0 ELSE balance[a]]
              /\ Finish(s, Answer("account", id, Empty))
<1>1. PICK id \in Account \ DOMAIN owner : id < nextAccount /\ after[s] = [a \in {id} |-> 0]
    BY DEF Opening, OpenAccount
<1>2. (CHOOSE a \in DOMAIN after[s] : TRUE) = id
    BY <1>1
<1>3. QED
    BY <1>1, <1>2 DEF OpenAccount

LEMMA OpenAccountShape ==
    ASSUME TypeOK, Opening, Locking, NEW s \in Session, OpenAccount(s)
    PROVE  Opening' /\ Locking'
<1>1. PICK id \in Account \ DOMAIN owner :
              /\ id < nextAccount /\ after[s] = [a \in {id} |-> 0]
              /\ owner' = [a \in DOMAIN owner \cup {id} |-> IF a = id THEN work[s] ELSE owner[a]]
              /\ Finish(s, Answer("account", id, Empty))
    BY OpenAccountEffect
<1>2. Others(s) /\ pc[s] = "open" /\ pc'[s] = "reply" /\ held'[s] = {} /\ UNCHANGED nextAccount
    BY <1>1, FinishEffect DEF TypeOK, OpenAccount
<1>3. DOMAIN owner' = DOMAIN owner \cup {id}
    BY <1>1
<1>4. Opening'
  <2>1. \A a \in DOMAIN owner' : a < nextAccount'
    BY <1>1, <1>2, <1>3 DEF Opening
  <2>2. ASSUME NEW t \in Session, pc'[t] = "open"
        PROVE  \E x \in Account \ DOMAIN owner' : x < nextAccount' /\ after'[t] = [a \in {x} |-> 0]
    <3>1. t # s /\ pc[t] = "open" /\ after'[t] = after[t]
      BY <2>2, <1>2 DEF Others
    <3>2. PICK x \in Account \ DOMAIN owner : x < nextAccount /\ after[t] = [a \in {x} |-> 0]
      BY <3>1 DEF Opening
    <3>3. DOMAIN after[s] \cap DOMAIN after[t] = {}
      BY <3>1, <1>2 DEF Opening
    <3>4. x # id
      BY <3>2, <3>3, <1>1
    <3>5. QED
      BY <3>1, <3>2, <3>4, <1>2, <1>3
  <2>3. QED
    BY <2>1, <2>2, <1>2 DEF Opening, Others, Account
<1>5. \A t \in Session : LockingAt(t)'
    BY <1>2, <1>3 DEF Locking, LockingAt, Others, Unlocked
<1>6. QED
    BY <1>2, <1>4, <1>5 DEF Locking, Others

LEMMA EnsureRowsShape ==
    ASSUME TypeOK, Opening, Locking, NEW s \in Session, EnsureRows(s)
    PROVE  Opening' /\ Locking'
<1>1. SessionsOK /\ Others(s) /\ held[s] = {}
    BY EnsureRowsTyped DEF SessionStep, Locking, LockingAt, EnsureRows, TypeOK
<1>2. CASE Abort(s, "failed")
    BY <1>1, <1>2, FinishEffect, QuietStep DEF Abort, Quiet, books
<1>3. CASE /\ DOMAIN delta[s] \subseteq DOMAIN owner
           /\ Goto(s, "lock")
           /\ UNCHANGED <<books, work, delta, held, after, reply>>
  <2>1. pc'[s] = "lock" /\ UNCHANGED <<owner, nextAccount>>
    BY <1>1, <1>3 DEF SessionsOK, Goto, books
  <2>2. Opening'
    BY <1>1, <2>1, OpeningKept
  <2>3. LockingAt(s)'
    BY <1>1, <1>3, <2>1 DEF LockingAt, Unlocked
  <2>4. \A t \in Session \ {s} : LockingAt(t)'
    BY <1>1, <2>1 DEF Locking, LockingAt, Others, Unlocked
  <2>5. QED
    BY <1>3, <2>2, <2>3, <2>4 DEF Locking
<1>4. QED
    BY <1>2, <1>3 DEF EnsureRows

\* The rows a session has are all lower than the one it takes.
LEMMA LockRowShape ==
    ASSUME TypeOK, Opening, Locking, NEW s \in Session, LockRow(s)
    PROVE  Opening' /\ Locking'
<1>1. Others(s) /\ UNCHANGED <<owner, nextAccount, pc, delta, after>> /\ pc[s] = "lock"
    BY LockRowTyped DEF SessionStep, LockRow, books
<1>2. PICK a \in Unlocked(s) : /\ NextToLock(s, a) /\ RowFree(s, a)
                               /\ held' = [held EXCEPT ![s] = @ \cup {a}]
    BY DEF LockRow
<1>3. held'[s] = held[s] \cup {a}
    BY <1>2 DEF TypeOK, SessionsOK
<1>4. DOMAIN delta[s] \subseteq Account
    BY DEF TypeOK, SessionOK, Amounts
<1>5. Opening'
    BY <1>1 DEF Opening, Account
<1>6. \A b \in Unlocked(s) \ {a} : a < b
    BY <1>2, <1>4 DEF NextToLock, Unlocked, Account
<1>7. Unlocked(s)' = Unlocked(s) \ {a}
    BY <1>1, <1>3 DEF Unlocked
<1>8. LockingAt(s)'
    BY <1>1, <1>2, <1>3, <1>6, <1>7 DEF Locking, LockingAt, Unlocked
<1>9. \A t \in Session \ {s} : LockingAt(t)'
    BY <1>1 DEF Locking, LockingAt, Others, Unlocked
<1>10. \A t \in Session \ {s} : held'[t] \cap held'[s] = {}
    BY <1>1, <1>2, <1>3 DEF Locking, Others, RowFree
<1>11. QED
    BY <1>1, <1>5, <1>8, <1>9, <1>10 DEF Locking, Others

LEMMA TestFundsShape ==
    ASSUME TypeOK, Opening, Locking, NEW s \in Session, TestFunds(s)
    PROVE  Opening' /\ Locking'
<1>1. SessionsOK /\ Others(s) /\ held[s] = DOMAIN delta[s] /\ DOMAIN delta[s] \subseteq DOMAIN owner
    BY TestFundsTyped DEF SessionStep, Locking, LockingAt, TestFunds, Unlocked, TypeOK
<1>2. CASE Abort(s, "refused")
    BY <1>1, <1>2, FinishEffect, QuietStep DEF Abort, Quiet, books
<1>3. CASE Goto(s, "update") /\ UNCHANGED <<books, work, delta, held, after, reply>>
  <2>1. pc'[s] = "update" /\ UNCHANGED <<owner, nextAccount>>
    BY <1>1, <1>3 DEF SessionsOK, Goto, books
  <2>2. Opening'
    BY <1>1, <2>1, OpeningKept
  <2>3. LockingAt(s)'
    BY <1>1, <1>3, <2>1 DEF LockingAt, Unlocked
  <2>4. \A t \in Session \ {s} : LockingAt(t)'
    BY <1>1, <2>1 DEF Locking, LockingAt, Others, Unlocked
  <2>5. QED
    BY <1>3, <2>2, <2>3, <2>4 DEF Locking
<1>4. QED
    BY <1>2, <1>3 DEF TestFunds

\* The rows that are updated are locked already.
LEMMA UpdateBalancesShape ==
    ASSUME TypeOK, Opening, Locking, NEW s \in Session, UpdateBalances(s)
    PROVE  Opening' /\ Locking'
<1>1. SessionsOK /\ Others(s) /\ held[s] = DOMAIN delta[s] /\ DOMAIN delta[s] \subseteq DOMAIN owner
    BY UpdateBalancesTyped DEF SessionStep, Locking, LockingAt, UpdateBalances, TypeOK
<1>2. CASE Abort(s, "failed")
    BY <1>1, <1>2, FinishEffect, QuietStep DEF Abort, Quiet, books
<1>3. CASE /\ Goto(s, "commit")
           /\ held' = [held EXCEPT ![s] = DOMAIN delta[s]]
           /\ after' = [after EXCEPT ![s] = NewBalance(s)]
           /\ UNCHANGED <<books, work, delta, reply>>
  <2>1. /\ pc'[s] = "commit" /\ after'[s] = NewBalance(s) /\ held'[s] = held[s]
        /\ UNCHANGED <<owner, nextAccount, delta>>
    BY <1>1, <1>3 DEF SessionsOK, Goto, books
  <2>2. Opening'
    BY <1>1, <2>1, OpeningKept
  <2>3. LockingAt(s)'
    BY <1>1, <2>1 DEF LockingAt, Unlocked, NewBalance
  <2>4. \A t \in Session \ {s} : LockingAt(t)'
    BY <1>1, <2>1 DEF Locking, LockingAt, Others, Unlocked
  <2>5. QED
    BY <1>1, <2>1, <2>2, <2>3, <2>4 DEF Locking, Others
<1>4. QED
    BY <1>2, <1>3 DEF UpdateBalances

(***************************************************************************)
(* The books stay well typed.                                               *)
(***************************************************************************)
LEMMA AppendPosted ==
    ASSUME BooksOK, NEW e, posted' = Append(posted, e)
    PROVE  /\ Len(posted') = Len(posted) + 1 /\ Len(posted) \in Nat
           /\ DOMAIN posted = 1..Len(posted) /\ DOMAIN posted' = 1..(Len(posted) + 1)
           /\ posted' = [i \in 1..Len(posted') |-> posted'[i]]
           /\ \A i \in 1..Len(posted) : posted'[i] = posted[i]
           /\ posted'[Len(posted) + 1] = e
<1> DEFINE S == {posted[i] : i \in DOMAIN posted} \cup {e}
<1>1. posted \in Seq(S)
    BY DEF BooksOK
<1>2. e \in S
    OBVIOUS
<1>3. /\ Append(posted, e) \in Seq(S)
      /\ Len(Append(posted, e)) = Len(posted) + 1
      /\ \A i \in 1..Len(posted) : Append(posted, e)[i] = posted[i]
      /\ Append(posted, e)[Len(posted) + 1] = e
    BY <1>1, <1>2, AppendProperties
<1>4. Len(posted) \in Nat /\ DOMAIN posted = 1..Len(posted)
    BY DEF BooksOK
<1>5. posted' \in Seq(S) /\ Len(posted') = Len(posted) + 1
    BY <1>3
<1>6. posted' = [i \in 1..Len(posted') |-> posted'[i]] /\ DOMAIN posted' = 1..Len(posted')
    BY <1>5, LenProperties
<1>7. QED
    BY <1>3, <1>4, <1>5, <1>6

LEMMA BooksUnchanged ==
    ASSUME BooksOK, UNCHANGED <<owner, balance, posted>>, nextAccount' \in 3..(MaxAccount + 1)
    PROVE  BooksOK'
<1>1. \A e : IsPosting(e) => IsPosting(e)'
    BY DEF IsPosting, Amounts
<1>2. \A i \in DOMAIN posted' : IsPosting(posted[i])'
    BY <1>1 DEF BooksOK
<1>3. /\ owner' \in [DOMAIN owner' -> User \cup {Nobody}] /\ DOMAIN owner' \subseteq Account
      /\ Amounts(balance', Account) /\ DOMAIN balance' = DOMAIN owner'
    BY DEF BooksOK
<1>4. Len(posted') \in Nat /\ posted' = [i \in 1..Len(posted') |-> posted'[i]]
    BY DEF BooksOK
<1>5. Amounts(balance, Account)'
    BY <1>3 DEF Amounts, Account
<1>6. QED
    BY <1>2, <1>3, <1>4, <1>5 DEF BooksOK, Account

LEMMA InsertAccountBooks ==
    ASSUME TypeOK, NEW s \in Session, InsertAccount(s)
    PROVE  BooksOK'
<1>1. nextAccount' = nextAccount + 1 /\ nextAccount \in 3..MaxAccount /\ MaxAccount \in Nat
    BY LedgerAssumption DEF InsertAccount, TypeOK, BooksOK
<1>2. nextAccount' \in 3..(MaxAccount + 1)
    BY <1>1
<1>3. QED
    BY <1>2, BooksUnchanged DEF InsertAccount, TypeOK

LEMMA OpenAccountBooks ==
    ASSUME TypeOK, Opening, NEW s \in Session, OpenAccount(s)
    PROVE  BooksOK'
<1>1. PICK id \in Account \ DOMAIN owner :
         /\ owner' = [a \in DOMAIN owner \cup {id} |-> IF a = id THEN work[s] ELSE owner[a]]
         /\ balance' = [a \in DOMAIN balance \cup {id} |-> IF a = id THEN 0 ELSE balance[a]]
    BY OpenAccountEffect
<1>2. work[s] \in User /\ UNCHANGED <<posted, nextAccount>>
    BY DEF OpenAccount, TypeOK, SessionOK
<1>3. owner' \in [DOMAIN owner' -> User \cup {Nobody}] /\ DOMAIN owner' \subseteq Account
    BY <1>1, <1>2 DEF TypeOK, BooksOK
<1>4. Amounts(balance', Account) /\ DOMAIN balance' = DOMAIN owner'
    BY <1>1 DEF TypeOK, BooksOK, Amounts
<1>5. \A i \in DOMAIN posted : IsPosting(posted[i])'
  <2>1. DOMAIN owner \subseteq DOMAIN owner'
    BY <1>1
  <2>2. QED
    BY <1>2, <2>1 DEF TypeOK, BooksOK, IsPosting, Amounts
<1>6. QED
    BY <1>2, <1>3, <1>4, <1>5 DEF TypeOK, BooksOK, Amounts, Account

LEMMA CommitBooks ==
    ASSUME TypeOK, Locking, NEW s \in Session, Commit(s)
    PROVE  BooksOK'
<1> DEFINE e == [key |-> work[s].key, net |-> delta[s], after |-> after[s]]
<1>1. /\ work[s] \in Request
      /\ Amounts(delta[s], Account) /\ Amounts(after[s], Account)
      /\ DOMAIN delta[s] \subseteq DOMAIN owner /\ DOMAIN after[s] = DOMAIN delta[s]
    BY DEF Commit, TypeOK, SessionOK, InTransaction, Locking, LockingAt
<1>2. posted' = Append(posted, e) /\ UNCHANGED <<owner, nextAccount>>
    BY DEF Commit, BalancesAfter
<1>3. IsPosting(e)
  <2>1. e.key = work[s].key /\ e.net = delta[s] /\ e.after = after[s]
    OBVIOUS
  <2>2. e.key \in Key \cup {NoKey}
    BY <1>1, LedgerAssumption
  <2>3. Amounts(e.net, DOMAIN owner) /\ Amounts(e.after, DOMAIN owner)
    BY <1>1, <2>1 DEF Amounts
  <2>4. QED
    BY <1>1, <2>1, <2>2, <2>3 DEF IsPosting
<1>4. /\ Len(posted') = Len(posted) + 1 /\ Len(posted) \in Nat
      /\ posted' = [i \in 1..Len(posted') |-> posted'[i]]
      /\ \A i \in 1..Len(posted) : posted'[i] = posted[i]
      /\ DOMAIN posted = 1..Len(posted) /\ DOMAIN posted' = 1..(Len(posted) + 1)
      /\ posted'[Len(posted) + 1] = e
    BY <1>2, AppendPosted DEF TypeOK
<1>5. ASSUME NEW i \in DOMAIN posted'
      PROVE  IsPosting(posted[i])'
  <2>1. IsPosting(posted'[i])
    BY <1>3, <1>4 DEF TypeOK, BooksOK
  <2>2. QED
    BY <2>1, <1>2 DEF IsPosting, Amounts
<1>6. Amounts(balance', Account) /\ DOMAIN balance' = DOMAIN owner'
    BY <1>1, <1>2 DEF Commit, TypeOK, BooksOK, Amounts
<1>7. QED
    BY <1>2, <1>4, <1>5, <1>6 DEF TypeOK, BooksOK, Amounts, Account

(***************************************************************************)
(* Type correctness, with the accounts being opened and the row locks.      *)
(***************************************************************************)
Core == TypeOK /\ Opening /\ Locking

LEMMA TypeStep ==
    ASSUME TypeOK, NEW s \in Session, SessionStep(s), BooksOK', UNCHANGED told,
           sends' \in 0..MaxSends, faults' \in 0..MaxFaults
    PROVE  TypeOK'
<1>1. \A t \in Session : SessionOK(t)'
    BY OthersTyped DEF SessionStep, TypeOK
<1>2. QED
    BY <1>1 DEF SessionStep, TypeOK, Amounts, Account

\* Finished and freed sessions are quiet.
LEMMA FinishQuiet ==
    ASSUME SessionsOK, NEW s \in Session, NEW a, Finish(s, a), UNCHANGED <<owner, nextAccount>>
    PROVE  Quiet(s)
BY FinishEffect DEF Quiet

LEMMA IdleQuiet ==
    ASSUME SessionsOK, NEW s \in Session, Idle(s), UNCHANGED books
    PROVE  Quiet(s)
BY IdleEffect DEF Quiet, books

LEMMA CoreInit == Init => Core
<1> SUFFICES ASSUME Init PROVE Core
    OBVIOUS
<1>1. Len(Members) \in Nat /\ MaxAccount \in Nat /\ 2 + Len(Members) <= MaxAccount
    BY LedgerAssumption DEF Purchases
<1>2. \A i \in 1..Len(Members) : Members[i] \in User
    BY LedgerAssumption
<1>3. BooksOK
  <2>1. DOMAIN owner = 1..(2 + Len(Members)) /\ DOMAIN owner \subseteq Account
    BY <1>1 DEF Init, Purchases, Account
  <2>2. owner \in [DOMAIN owner -> User \cup {Nobody}]
    BY <1>1, <1>2 DEF Init, Purchases
  <2>3. Amounts(balance, Account) /\ DOMAIN balance = DOMAIN owner
    BY <2>1 DEF Init, Amounts
  <2>4. posted = <<>> /\ nextAccount \in 3..(MaxAccount + 1)
    BY <1>1 DEF Init, Purchases
  <2>5. QED
    BY <2>1, <2>2, <2>3, <2>4 DEF BooksOK
<1>4. SessionsOK
    BY DEF Init, SessionsOK, Labels
<1>5. \A s \in Session : SessionOK(s)
  <2>1. Amounts(Empty, Account)
    BY EmptyAmounts
  <2>2. QED
    BY <2>1 DEF Init, SessionOK, InTransaction, NoAnswer, Answer, Kinds
<1>6. TypeOK
    BY <1>3, <1>4, <1>5, LedgerAssumption DEF Init, TypeOK
<1>7. Opening
    BY <1>1 DEF Init, Opening, Purchases
<1>8. Locking
    BY DEF Init, Locking, LockingAt, Unlocked
<1>9. QED
    BY <1>6, <1>7, <1>8 DEF Core

\* A step of s that leaves the books and what callers were told, quietly.
LEMMA QuietCore ==
    ASSUME Core, NEW s \in Session, SessionStep(s), Quiet(s), UNCHANGED <<books, told>>,
           sends' \in 0..MaxSends, faults' \in 0..MaxFaults
    PROVE  Core'
<1>1. BooksOK'
    BY BooksUnchanged DEF Core, TypeOK, BooksOK, books
<1>2. TypeOK'
    BY <1>1, TypeStep DEF Core
<1>3. Opening' /\ Locking'
    BY QuietStep DEF Core, SessionStep
<1>4. QED
    BY <1>2, <1>3 DEF Core

\* The steps a session takes.
Step(s) ==
    \/ \E u \in User : RequestAccount(s, u)
    \/ \E r \in Request : RequestPosting(s, r)
    \/ Serve(s)
    \/ Lose(s)

LEMMA CoreStep ==
    ASSUME Core, NEW s \in Session, Step(s)
    PROVE  Core'
<1> USE DEF Core
<1>1. SessionsOK /\ SessionOK(s) /\ BooksOK /\ sends \in 0..MaxSends /\ faults \in 0..MaxFaults
    BY DEF TypeOK
<1>2. MaxSends \in Nat /\ MaxFaults \in Nat
    BY LedgerAssumption
<1>3. ASSUME NEW u \in User, RequestAccount(s, u)
      PROVE  Core'
  <2>1. Quiet(s) /\ sends' \in 0..MaxSends
    BY <1>1, <1>2, <1>3 DEF RequestAccount, Quiet, Goto, SessionsOK, Locking, LockingAt, books
  <2>2. QED
    BY <1>1, <1>3, <2>1, RequestAccountTyped, QuietCore DEF RequestAccount
<1>4. ASSUME NEW r \in Request, RequestPosting(s, r)
      PROVE  Core'
  <2>1. Quiet(s) /\ sends' \in 0..MaxSends
    BY <1>1, <1>2, <1>4 DEF RequestPosting, Quiet, Goto, SessionsOK, Locking, LockingAt, books
  <2>2. QED
    BY <1>1, <1>4, <2>1, RequestPostingTyped, QuietCore DEF RequestPosting
<1>5. CASE FindAccount(s)
  <2>1. Quiet(s)
    BY <1>1, <1>5, FinishQuiet DEF FindAccount, Quiet, Goto, SessionsOK, Locking, LockingAt, books
  <2>2. QED
    BY <1>1, <1>5, <2>1, FindAccountTyped, QuietCore DEF FindAccount
<1>6. CASE InsertAccount(s)
    BY <1>1, <1>6, InsertAccountTyped, InsertAccountBooks, InsertAccountShape, TypeStep DEF InsertAccount
<1>7. CASE OpenAccount(s)
  <2>1. SessionStep(s)
    BY <1>7, OpenAccountTyped, OpenAccountEffect
  <2>2. QED
    BY <1>1, <1>7, <2>1, OpenAccountBooks, OpenAccountShape, TypeStep DEF OpenAccount
<1>8. CASE ResolveParticipants(s)
  <2>1. Quiet(s) /\ UNCHANGED books
    BY <1>1, <1>8, FinishQuiet DEF ResolveParticipants, Abort, Quiet, Goto, SessionsOK, Locking, LockingAt, books
  <2>2. QED
    BY <1>1, <1>8, <2>1, ResolveParticipantsTyped, QuietCore DEF ResolveParticipants
<1>9. CASE RejectInvalid(s)
  <2>1. Quiet(s) /\ UNCHANGED books
    BY <1>1, <1>9, FinishQuiet DEF RejectInvalid, Abort, books
  <2>2. QED
    BY <1>1, <1>9, <2>1, RejectInvalidTyped, QuietCore DEF RejectInvalid
<1>10. CASE AnswerRepeated(s)
  <2>1. Quiet(s)
    BY <1>1, <1>10, FinishQuiet DEF AnswerRepeated, books
  <2>2. QED
    BY <1>1, <1>10, <2>1, AnswerRepeatedTyped, QuietCore DEF AnswerRepeated
<1>11. CASE InsertTransaction(s)
  <2>1. Quiet(s)
    BY <1>1, <1>11 DEF InsertTransaction, Quiet, Goto, SessionsOK, Locking, LockingAt, books
  <2>2. QED
    BY <1>1, <1>11, <2>1, InsertTransactionTyped, QuietCore DEF InsertTransaction
<1>12. CASE EnsureRows(s)
  <2>1. UNCHANGED books
    BY <1>12 DEF EnsureRows, Abort, books
  <2>2. BooksOK'
    BY <1>1, <2>1, BooksUnchanged DEF books, BooksOK
  <2>3. QED
    BY <1>1, <1>12, <2>2, EnsureRowsTyped, EnsureRowsShape, TypeStep DEF EnsureRows
<1>13. CASE LockRow(s)
  <2>1. BooksOK'
    BY <1>1, <1>13, BooksUnchanged DEF LockRow, books, BooksOK
  <2>2. QED
    BY <1>1, <1>13, <2>1, LockRowTyped, LockRowShape, TypeStep DEF LockRow
<1>14. CASE TestFunds(s)
  <2>1. UNCHANGED books
    BY <1>14 DEF TestFunds, Abort, books
  <2>2. BooksOK'
    BY <1>1, <2>1, BooksUnchanged DEF books, BooksOK
  <2>3. QED
    BY <1>1, <1>14, <2>2, TestFundsTyped, TestFundsShape, TypeStep DEF TestFunds
<1>15. CASE UpdateBalances(s)
  <2>1. UNCHANGED books
    BY <1>15 DEF UpdateBalances, Abort, books
  <2>2. BooksOK'
    BY <1>1, <2>1, BooksUnchanged DEF books, BooksOK
  <2>3. SessionStep(s)
    BY <1>15, UpdateBalancesTyped DEF UpdateBalances, Locking, LockingAt
  <2>4. QED
    BY <1>1, <1>15, <2>2, <2>3, UpdateBalancesShape, TypeStep DEF UpdateBalances
<1>16. CASE Commit(s)
  <2>1. Quiet(s)
    BY <1>1, <1>16, FinishQuiet DEF Commit
  <2>2. Opening' /\ Locking'
    BY <1>16, <2>1, CommitTyped, QuietStep DEF SessionStep
  <2>3. QED
    BY <1>1, <1>16, <2>2, CommitTyped, CommitBooks, TypeStep DEF Commit
<1>17. CASE Deliver(s)
  <2>1. Quiet(s) /\ SessionStep(s) /\ BooksOK'
    BY <1>1, <1>17, IdleQuiet, DeliverTyped, BooksUnchanged DEF Deliver, books, BooksOK
  <2>2. Opening' /\ Locking'
    BY <2>1, QuietStep DEF SessionStep
  <2>3. \A t \in Session : SessionOK(t)'
    BY <2>1, OthersTyped DEF SessionStep, TypeOK
  <2>4. told' = {[key |-> m.key, n |-> m.n, after |-> m.after] : m \in told'}
    BY <1>17 DEF Deliver, TypeOK
  <2>5. ASSUME NEW m \in told'
        PROVE  m.key \in Key /\ m.n \in Nat /\ Amounts(m.after, Account)
    <3>1. CASE m \in told
      BY <3>1 DEF TypeOK
    <3>2. CASE Keyed(s) /\ m = [key |-> work[s].key, n |-> reply[s].n, after |-> reply[s].after]
      BY <1>1, <3>2, LedgerAssumption DEF Keyed, SessionOK
    <3>3. QED
      BY <1>17, <3>1, <3>2 DEF Deliver
  <2>6. (\A m \in told : m.key \in Key /\ m.n \in Nat /\ Amounts(m.after, Account))'
    BY <2>5 DEF Amounts, Account
  <2>7. QED
    BY <1>1, <1>17, <2>1, <2>2, <2>3, <2>4, <2>6 DEF Deliver, TypeOK, SessionStep
<1>18. CASE Lose(s)
  <2>1. Quiet(s) /\ faults' \in 0..MaxFaults
    BY <1>1, <1>2, <1>18, IdleQuiet DEF Lose
  <2>2. QED
    BY <1>1, <1>18, <2>1, LoseTyped, QuietCore DEF Lose
<1>19. QED
    BY <1>3, <1>4, <1>5, <1>6, <1>7, <1>8, <1>9, <1>10, <1>11, <1>12, <1>13, <1>14, <1>15,
       <1>16, <1>17, <1>18 DEF Step, Serve

LEMMA CoreStutter == Core /\ UNCHANGED vars => Core'
<1> SUFFICES ASSUME Core, UNCHANGED vars PROVE Core'
    OBVIOUS
<1>1. BooksOK'
    BY BooksUnchanged DEF Core, TypeOK, BooksOK, vars, books
<1>2. \A s \in Session : SessionOK(s)'
    BY DEF Core, TypeOK, SessionOK, vars, session, Amounts, Account
<1>3. TypeOK'
    BY <1>1, <1>2 DEF Core, TypeOK, SessionsOK, vars, books, session, Amounts, Account
<1>4. Opening' /\ Locking'
    BY DEF Core, Opening, Locking, LockingAt, Unlocked, vars, books, session, Account
<1>5. QED
    BY <1>3, <1>4 DEF Core

LEMMA CoreInvariant == Spec => []Core
<1>1. Core /\ [Next]_vars => Core'
    BY CoreStep, CoreStutter DEF Next, Step
<1>2. QED
    BY <1>1, CoreInit, PTL DEF Spec

\* Every variable keeps its type, whatever is requested, lost and sent again.
THEOREM TypeCorrect == Spec => []TypeOK
<1>1. Core => TypeOK
    BY DEF Core
<1>2. QED
    BY <1>1, CoreInvariant, PTL

(***************************************************************************)
(* No key is posted twice.                                                  *)
(***************************************************************************)
\* The inserted, uncommitted keys are new and belong to one session each.
Keys ==
    /\ KeyAppliedOnce
    /\ \A s \in Session : pc[s] \in InTransaction => KeyPostings(work[s].key) = {}
    /\ \A s, t \in Session :
          s # t /\ pc[s] \in InTransaction /\ pc[t] \in InTransaction =>
             work[s].key # work[t].key \/ work[s].key = NoKey

\* Steps of s that do not insert a key and do not commit.
LEMMA KeysKept ==
    ASSUME Keys, NEW s \in Session, Others(s), UNCHANGED posted,
           pc'[s] \in InTransaction => pc[s] \in InTransaction /\ work'[s] = work[s]
    PROVE  Keys'
<1>1. KeyAppliedOnce'
    BY DEF Keys, KeyAppliedOnce
<1>2. ASSUME NEW t \in Session, pc'[t] \in InTransaction
      PROVE  pc[t] \in InTransaction /\ work'[t] = work[t]
    BY <1>2 DEF Others
<1>3. \A k : KeyPostings(k)' = KeyPostings(k)
    BY DEF KeyPostings
<1>4. InTransaction' = InTransaction
    BY DEF InTransaction
<1>5. QED
    BY <1>1, <1>2, <1>3, <1>4 DEF Keys

LEMMA InsertTransactionKeys ==
    ASSUME Core, Keys, NEW s \in Session, InsertTransaction(s)
    PROVE  Keys'
<1>1. Others(s) /\ SessionsOK
    BY InsertTransactionTyped DEF Core, TypeOK, SessionStep
<1>2. /\ UNCHANGED <<posted, work>> /\ KeyPostings(work[s].key) = {}
      /\ work[s].key = NoKey \/ \A t \in Session \ {s} :
            pc[t] \in InTransaction => work[t].key # work[s].key
    BY DEF InsertTransaction, KeyPending, books
<1>3. \A k : KeyPostings(k)' = KeyPostings(k)
    BY <1>2 DEF KeyPostings
<1>4. KeyAppliedOnce'
    BY <1>2 DEF Keys, KeyAppliedOnce
<1>5. \A t \in Session \ {s} : pc'[t] = pc[t]
    BY <1>1 DEF Others
<1>6. QED
    BY <1>2, <1>3, <1>4, <1>5 DEF Keys, InTransaction

LEMMA CommitKeys ==
    ASSUME Core, Keys, NEW s \in Session, Commit(s)
    PROVE  Keys'
<1> DEFINE e == [key |-> work[s].key, net |-> delta[s], after |-> after[s]]
           n == Len(posted)
<1>1. /\ n \in Nat /\ DOMAIN posted = 1..n /\ DOMAIN posted' = 1..(n + 1)
      /\ \A i \in 1..n : posted'[i] = posted[i]
      /\ posted'[n + 1] = e
    BY AppendPosted DEF Core, TypeOK, Commit, BalancesAfter
<1>2. Others(s) /\ pc'[s] = "reply"
    BY CommitTyped, FinishEffect DEF Core, TypeOK, Commit, SessionStep
<1>3. KeyPostings(work[s].key) = {} /\ pc[s] \in InTransaction
    BY DEF Keys, Commit, InTransaction
<1>4. e.key = work[s].key
    OBVIOUS
<1>5. KeyAppliedOnce'
    BY <1>1, <1>3, <1>4 DEF Keys, KeyAppliedOnce, KeyPostings
<1>6. ASSUME NEW t \in Session, pc'[t] \in InTransaction
      PROVE  KeyPostings(work[t].key)' = {}
  <2>1. t # s /\ pc[t] \in InTransaction /\ work'[t] = work[t]
    BY <1>2, <1>6 DEF Others, InTransaction
  <2>2. KeyPostings(work[t].key) = {}
    BY <2>1 DEF Keys
  <2>3. work[t].key # work[s].key \/ work[t].key = NoKey
    BY <2>1, <1>3 DEF Keys
  <2>4. QED
    BY <1>1, <1>4, <2>1, <2>2, <2>3 DEF KeyPostings
<1>7. \A t \in Session : pc'[t] \in InTransaction => pc[t] \in InTransaction /\ work'[t] = work[t]
    BY <1>2 DEF Others, InTransaction
<1>8. QED
    BY <1>5, <1>6, <1>7 DEF Keys, InTransaction

LEMMA StepEffect ==
    ASSUME Core, NEW s \in Session, Step(s)
    PROVE  SessionStep(s)
<1>1. CASE OpenAccount(s)
    BY <1>1, OpenAccountTyped, OpenAccountEffect DEF Core
<1>2. CASE UpdateBalances(s)
    BY <1>2, UpdateBalancesTyped DEF Core, UpdateBalances, Locking, LockingAt
<1>3. QED
    BY <1>1, <1>2, RequestAccountTyped, RequestPostingTyped, FindAccountTyped, InsertAccountTyped,
       ResolveParticipantsTyped, RejectInvalidTyped, AnswerRepeatedTyped, InsertTransactionTyped,
       EnsureRowsTyped, LockRowTyped, TestFundsTyped, CommitTyped, DeliverTyped, LoseTyped
    DEF Core, Step, Serve

\* Which steps commit, insert a key, write, or end in an answer to a posting.
LEMMA StepKinds ==
    ASSUME Core, NEW s \in Session, Step(s)
    PROVE  /\ Commit(s) \/ OpenAccount(s) \/ UNCHANGED <<owner, balance, posted>>
           /\ Commit(s) \/ UNCHANGED posted
           /\ InsertTransaction(s) \/
                 (pc'[s] \in InTransaction => pc[s] \in InTransaction /\ work'[s] = work[s])
           /\ TestFunds(s) \/ UpdateBalances(s) \/ pc'[s] \notin {"update", "commit"}
           /\ AnswerRepeated(s) \/ Commit(s) \/ reply'[s].kind # "posted"
           /\ Deliver(s) \/ UNCHANGED told
<1>1. SessionsOK /\ SessionOK(s)
    BY DEF Core, TypeOK
<1> USE <1>1
<1>2. ASSUME NEW a, Finish(s, a), a.kind # "posted"
      PROVE  pc'[s] = "reply" /\ reply'[s].kind # "posted"
    BY <1>2, FinishEffect
<1>3. \A kind, n, b : Answer(kind, n, b).kind = kind
    BY DEF Answer
<1>4. ASSUME NEW kind, Abort(s, kind), kind # "posted"
      PROVE  pc'[s] = "reply" /\ reply'[s].kind # "posted" /\ UNCHANGED <<owner, balance, posted>>
    BY <1>2, <1>3, <1>4 DEF Abort, books
<1>5. ASSUME Idle(s), UNCHANGED books
      PROVE  pc'[s] = "idle" /\ reply'[s].kind # "posted" /\ UNCHANGED <<owner, balance, posted>>
    BY <1>5, IdleEffect DEF NoAnswer, Answer, books
<1>6. CASE \E u \in User : RequestAccount(s, u)
    BY <1>6 DEF RequestAccount, SessionsOK, SessionOK, Goto, books, InTransaction
<1>7. CASE \E r \in Request : RequestPosting(s, r)
    BY <1>7 DEF RequestPosting, SessionsOK, SessionOK, Goto, books, InTransaction
<1>8. CASE FindAccount(s)
    BY <1>2, <1>3, <1>8 DEF FindAccount, SessionsOK, SessionOK, Goto, books, InTransaction
<1>9. CASE InsertAccount(s)
    BY <1>2, <1>3, <1>9 DEF InsertAccount, SessionsOK, SessionOK, Goto, InTransaction
<1>10. CASE OpenAccount(s)
    BY <1>2, <1>3, <1>10, OpenAccountEffect DEF OpenAccount, Core, InTransaction
<1>11. CASE ResolveParticipants(s)
    BY <1>4, <1>11 DEF ResolveParticipants, SessionsOK, SessionOK, Goto, books, InTransaction
<1>12. CASE RejectInvalid(s)
    BY <1>4, <1>12 DEF RejectInvalid, InTransaction
<1>13. CASE AnswerRepeated(s)
    BY <1>13, FinishEffect DEF AnswerRepeated, books, InTransaction
<1>14. CASE InsertTransaction(s)
    BY <1>14 DEF InsertTransaction, SessionsOK, SessionOK, Goto, books
<1>15. CASE EnsureRows(s)
    BY <1>4, <1>15 DEF EnsureRows, SessionsOK, SessionOK, Goto, books, InTransaction
<1>16. CASE LockRow(s)
    BY <1>16 DEF LockRow, SessionsOK, SessionOK, books, InTransaction
<1>17. CASE TestFunds(s)
    BY <1>4, <1>17 DEF TestFunds, SessionsOK, SessionOK, Goto, books, InTransaction
<1>18. CASE UpdateBalances(s)
    BY <1>4, <1>18 DEF UpdateBalances, SessionsOK, SessionOK, Goto, books, InTransaction
<1>19. CASE Commit(s)
    BY <1>19, FinishEffect DEF Commit, InTransaction
<1>20. CASE Deliver(s)
    BY <1>5, <1>20 DEF Deliver, InTransaction
<1>21. CASE Lose(s)
    BY <1>5, <1>21 DEF Lose, InTransaction
<1>22. QED
    BY <1>6, <1>7, <1>8, <1>9, <1>10, <1>11, <1>12, <1>13, <1>14, <1>15, <1>16, <1>17, <1>18,
       <1>19, <1>20, <1>21 DEF Step, Serve

LEMMA KeysInvariant == Spec => [](Core /\ Keys)
<1>1. Init => Keys
    BY DEF Init, Keys, KeyAppliedOnce, InTransaction
<1>2. ASSUME Core, Keys, NEW s \in Session, Step(s)
      PROVE  Keys'
  <2>1. CASE Commit(s) \/ InsertTransaction(s)
    BY <1>2, <2>1, CommitKeys, InsertTransactionKeys
  <2>2. CASE ~Commit(s) /\ ~InsertTransaction(s)
    BY <1>2, <2>2, StepEffect, StepKinds, KeysKept DEF SessionStep
  <2>3. QED
    BY <2>1, <2>2
<1>3. Keys /\ UNCHANGED vars => Keys'
    BY DEF Keys, KeyAppliedOnce, KeyPostings, InTransaction, vars, books, session
<1>4. Core /\ Keys /\ [Next]_vars => Core' /\ Keys'
    BY <1>2, <1>3, CoreStep, CoreStutter DEF Next, Step
<1>5. QED
    BY <1>1, <1>4, CoreInit, PTL DEF Spec

\* A request sent again, at the same time or after its answer was lost, is
\* never posted a second time.
THEOREM KeysAppliedOnce == Spec => []KeyAppliedOnce
<1>1. Core /\ Keys => KeyAppliedOnce
    BY DEF Keys
<1>2. QED
    BY <1>1, KeysInvariant, PTL

(***************************************************************************)
(* A repeated request is given its first answer.                            *)
(***************************************************************************)
Recorded(k, n, b) == n \in DOMAIN posted /\ posted[n].key = k /\ posted[n].after = b

\* Answers on their way and answers given are those of the recorded posting.
Answered ==
    /\ \A s \in Session : Keyed(s) => Recorded(work[s].key, reply[s].n, reply[s].after)
    /\ \A m \in told : Recorded(m.key, m.n, m.after)

\* A posting is never changed or removed.
LEMMA PostedGrows ==
    ASSUME Core, NEW s \in Session, Step(s)
    PROVE  \A i \in DOMAIN posted : i \in DOMAIN posted' /\ posted'[i] = posted[i]
<1>1. CASE Commit(s)
    BY <1>1, AppendPosted DEF Core, TypeOK, Commit, BalancesAfter
<1>2. CASE UNCHANGED posted
    BY <1>2
<1>3. QED
    BY <1>1, <1>2, StepKinds

LEMMA AnswerStep ==
    ASSUME Core, Answered, NEW s \in Session, Step(s)
    PROVE  Answered'
<1>1. Others(s) /\ SessionsOK /\ SessionOK(s) /\ BooksOK
    BY StepEffect DEF SessionStep, Core, TypeOK
<1>2. \A i \in DOMAIN posted : i \in DOMAIN posted' /\ posted'[i] = posted[i]
    BY PostedGrows
<1>3. \A k, n, b : Recorded(k, n, b) =>
         n \in DOMAIN posted' /\ posted'[n].key = k /\ posted'[n].after = b
    BY <1>2 DEF Recorded
<1>4. ASSUME NEW t \in Session, t # s, Keyed(t)'
      PROVE  Recorded(work[t].key, reply[t].n, reply[t].after)'
  <2>1. Keyed(t) /\ work'[t] = work[t] /\ reply'[t] = reply[t]
    BY <1>1, <1>4 DEF Others, Keyed
  <2>2. Recorded(work[t].key, reply[t].n, reply[t].after)
    BY <2>1 DEF Answered
  <2>3. QED
    BY <1>3, <2>1, <2>2 DEF Recorded
<1>5. ASSUME Keyed(s)'
      PROVE  Recorded(work[s].key, reply[s].n, reply[s].after)'
  <2>1. CASE AnswerRepeated(s)
    <3>1. PICK i \in KeyPostings(work[s].key) : Finish(s, Answer("posted", i, Snapshot(i)))
      BY <2>1 DEF AnswerRepeated
    <3>2. work'[s] = work[s] /\ reply'[s].n = i /\ reply'[s].after = posted[i].after
      BY <1>1, <3>1, FinishEffect DEF Answer, Snapshot
    <3>3. i \in DOMAIN posted /\ posted[i].key = work[s].key
      BY <3>1 DEF KeyPostings
    <3>4. QED
      BY <1>2, <3>2, <3>3 DEF Recorded
  <2>2. CASE Commit(s)
    <3> DEFINE e == [key |-> work[s].key, net |-> delta[s], after |-> after[s]]
    <3>1. posted' = Append(posted, e) /\ Finish(s, Answer("posted", Len(posted) + 1, after[s]))
      BY <2>2 DEF Commit, BalancesAfter
    <3>2. /\ Len(posted) \in Nat /\ DOMAIN posted' = 1..(Len(posted) + 1)
          /\ posted'[Len(posted) + 1] = e
      BY <1>1, <3>1, AppendPosted
    <3>3. work'[s] = work[s] /\ reply'[s].n = Len(posted) + 1 /\ reply'[s].after = after[s]
      BY <1>1, <3>1, FinishEffect DEF Answer
    <3>4. QED
      BY <3>2, <3>3 DEF Recorded
  <2>3. CASE reply'[s].kind # "posted"
    BY <1>5, <2>3 DEF Keyed
  <2>4. QED
    BY <2>1, <2>2, <2>3, StepKinds
<1>6. ASSUME NEW m \in told'
      PROVE  Recorded(m.key, m.n, m.after)'
  <2>1. CASE m \in told
    <3>1. Recorded(m.key, m.n, m.after)
      BY <2>1 DEF Answered
    <3>2. QED
      BY <1>3, <3>1 DEF Recorded
  <2>2. CASE /\ Keyed(s)
             /\ m = [key |-> work[s].key, n |-> reply[s].n, after |-> reply[s].after]
    <3>1. Recorded(m.key, m.n, m.after)
      BY <2>2 DEF Answered
    <3>2. QED
      BY <1>3, <3>1 DEF Recorded
  <2>3. m \in told \/ Deliver(s)
    BY <1>6, StepKinds
  <2>4. QED
    BY <1>6, <2>1, <2>2, <2>3 DEF Deliver
<1>7. QED
    BY <1>4, <1>5, <1>6 DEF Answered

LEMMA AnsweredInvariant == Spec => [](Core /\ Keys /\ Answered)
<1>1. Init => Answered
    BY DEF Init, Answered, Keyed, NoAnswer, Answer
<1>2. Answered /\ UNCHANGED vars => Answered'
    BY DEF Answered, Recorded, Keyed, vars, books, session
<1>3. Core /\ Answered /\ [Next]_vars => Answered'
    BY <1>2, AnswerStep DEF Next, Step
<1>4. QED
    BY <1>1, <1>3, KeysInvariant, PTL DEF Spec

\* Every answer to a repeated request carries the same posting and the balances
\* it left, whatever was posted in between.
THEOREM RepeatsAnswerAlike == Spec => []SameAnswer
<1>1. ASSUME Core, Keys, Answered PROVE SameAnswer
  <2>1. \A m \in told : Recorded(m.key, m.n, m.after)
    BY <1>1 DEF Answered
  <2>2. \A m \in told : m.key # NoKey
    BY <1>1, LedgerAssumption DEF Core, TypeOK
  <2>3. ASSUME NEW m1 \in told, NEW m2 \in told, m1.key = m2.key
        PROVE  m1 = m2
    <3>1. m1.n = m2.n
      BY <1>1, <2>1, <2>2, <2>3 DEF Keys, KeyAppliedOnce, Recorded
    <3>2. m1.after = m2.after
      BY <2>1, <3>1 DEF Recorded
    <3>3. \A m \in told : m = [key |-> m.key, n |-> m.n, after |-> m.after]
      BY <1>1 DEF Core, TypeOK
    <3>4. QED
      BY <2>3, <3>1, <3>2, <3>3
  <2>4. QED
    BY <2>1, <2>3 DEF SameAnswer, Recorded
<1>2. Core /\ Keys /\ Answered => SameAnswer
    BY <1>1
<1>3. QED
    BY <1>2, AnsweredInvariant, PTL

(***************************************************************************)
(* The balances are running sums, never below zero but the treasury's.      *)
(***************************************************************************)
\* What a session is about to commit is right for the balances of now, and what
\* it has tested is there.
WrittenAt(s) ==
    \A a \in DOMAIN delta[s] :
       /\ pc[s] = "commit" => after[s][a] = balance[a] + delta[s][a]
       /\ pc[s] \in {"update", "commit"} => balance[a] + delta[s][a] >= 0 \/ a = Treasury

Written == \A s \in Session : WrittenAt(s)

LEMMA WrittenKept ==
    ASSUME Written, NEW s \in Session, Others(s), pc'[s] \notin {"update", "commit"},
           UNCHANGED balance
    PROVE  Written'
BY DEF Written, WrittenAt, Others

LEMMA TestFundsWritten ==
    ASSUME Core, Written, NEW s \in Session, TestFunds(s)
    PROVE  Written'
<1>1. Others(s) /\ SessionsOK /\ UNCHANGED balance
    BY StepEffect DEF SessionStep, Core, TypeOK, Step, Serve, TestFunds, Abort, books
<1>2. CASE Abort(s, "refused")
    BY <1>1, <1>2, FinishEffect, WrittenKept DEF Abort
<1>3. CASE Funded(s) /\ Goto(s, "update") /\ UNCHANGED delta
  <2>1. pc'[s] = "update"
    BY <1>1, <1>3 DEF SessionsOK, Goto
  <2>2. WrittenAt(s)'
    BY <1>1, <1>3, <2>1 DEF WrittenAt, Funded, NewBalance, MayBeNegative, Treasury
  <2>3. \A t \in Session \ {s} : WrittenAt(t)'
    BY <1>1 DEF Written, WrittenAt, Others, Treasury
  <2>4. QED
    BY <2>2, <2>3 DEF Written
<1>4. QED
    BY <1>2, <1>3 DEF TestFunds

LEMMA UpdateBalancesWritten ==
    ASSUME Core, Written, NEW s \in Session, UpdateBalances(s)
    PROVE  Written'
<1>1. Others(s) /\ SessionsOK /\ UNCHANGED balance
    BY StepEffect DEF SessionStep, Core, TypeOK, Step, Serve, UpdateBalances, Abort, books
<1>2. CASE Abort(s, "failed")
    BY <1>1, <1>2, FinishEffect, WrittenKept DEF Abort
<1>3. CASE /\ Funded(s)
           /\ after' = [after EXCEPT ![s] = NewBalance(s)]
           /\ UNCHANGED delta
  <2>1. after'[s] = NewBalance(s)
    BY <1>1, <1>3 DEF SessionsOK
  <2>2. WrittenAt(s)'
    BY <1>1, <1>3, <2>1 DEF WrittenAt, Funded, NewBalance, MayBeNegative, Treasury
  <2>3. \A t \in Session \ {s} : WrittenAt(t)'
    BY <1>1 DEF Written, WrittenAt, Others, Treasury
  <2>4. QED
    BY <2>2, <2>3 DEF Written
<1>4. QED
    BY <1>2, <1>3 DEF UpdateBalances

LEMMA OpenAccountWritten ==
    ASSUME Core, Written, NEW s \in Session, OpenAccount(s)
    PROVE  Written'
<1>1. Others(s)
    BY StepEffect DEF SessionStep, Step, Serve
<1>2. PICK id \in Account \ DOMAIN owner :
         /\ balance' = [a \in DOMAIN balance \cup {id} |-> IF a = id THEN 0 ELSE balance[a]]
         /\ Finish(s, Answer("account", id, Empty))
    BY OpenAccountEffect DEF Core
<1>3. pc'[s] = "reply"
    BY <1>2, FinishEffect DEF Core, TypeOK
<1>4. \A a \in DOMAIN owner : balance'[a] = balance[a]
    BY <1>2 DEF Core, TypeOK, BooksOK
<1>5. ASSUME NEW t \in Session, t # s
      PROVE  WrittenAt(t)'
  <2>1. pc[t] \in {"update", "commit"} => DOMAIN delta[t] \subseteq DOMAIN owner
    BY DEF Core, Locking, LockingAt
  <2>2. QED
    BY <1>1, <1>4, <1>5, <2>1 DEF Written, WrittenAt, Others
<1>6. QED
    BY <1>3, <1>5 DEF Written, WrittenAt

\* The rows of two committing sessions are disjoint.
LEMMA CommitWritten ==
    ASSUME Core, Written, NEW s \in Session, Commit(s)
    PROVE  Written'
<1>1. Others(s)
    BY StepEffect DEF SessionStep, Step, Serve
<1>2. pc'[s] = "reply"
    BY FinishEffect DEF Core, TypeOK, Commit
<1>3. held[s] = DOMAIN after[s]
    BY DEF Core, Locking, LockingAt, Commit
<1>4. \A a \in DOMAIN balance \ held[s] : balance'[a] = balance[a]
    BY <1>3 DEF Commit
<1>5. ASSUME NEW t \in Session, t # s
      PROVE  WrittenAt(t)'
  <2>1. pc[t] \in {"update", "commit"} => DOMAIN delta[t] \subseteq DOMAIN balance \ held[s]
    BY <1>5 DEF Core, Locking, LockingAt, TypeOK, BooksOK
  <2>2. QED
    BY <1>1, <1>4, <1>5, <2>1 DEF Written, WrittenAt, Others
<1>6. QED
    BY <1>2, <1>5 DEF Written, WrittenAt

LEMMA WrittenStep ==
    ASSUME Core, Written, NEW s \in Session, Step(s)
    PROVE  Written'
<1>1. CASE Commit(s) \/ OpenAccount(s) \/ TestFunds(s) \/ UpdateBalances(s)
    BY <1>1, CommitWritten, OpenAccountWritten, TestFundsWritten, UpdateBalancesWritten
<1>2. CASE ~(Commit(s) \/ OpenAccount(s) \/ TestFunds(s) \/ UpdateBalances(s))
    BY <1>2, StepEffect, StepKinds, WrittenKept DEF SessionStep
<1>3. QED
    BY <1>1, <1>2

LEMMA CommitNoOverdraft ==
    ASSUME Core, Written, NoOverdraft, NEW s \in Session, Commit(s)
    PROVE  NoOverdraft'
<1> DEFINE e == [key |-> work[s].key, net |-> delta[s], after |-> after[s]]
           n == Len(posted)
<1>1. /\ n \in Nat /\ DOMAIN posted' = 1..(n + 1) /\ DOMAIN posted = 1..n
      /\ \A i \in 1..n : posted'[i] = posted[i]
      /\ posted'[n + 1] = e
    BY AppendPosted DEF Core, TypeOK, Commit, BalancesAfter
<1>2. DOMAIN after[s] = DOMAIN delta[s]
    BY DEF Core, Locking, LockingAt, Commit
<1>3. \A a \in DOMAIN after[s] : after[s][a] >= 0 \/ a = Treasury
    BY <1>2 DEF Written, WrittenAt, Commit
<1>4. \A a \in DOMAIN balance' : balance'[a] >= 0 \/ a = Treasury
    BY <1>3 DEF Commit, NoOverdraft
<1>5. e.after = after[s]
    OBVIOUS
<1>6. ASSUME NEW i \in DOMAIN posted', NEW a \in DOMAIN posted'[i].after
      PROVE  posted'[i].after[a] >= 0 \/ a = Treasury
  <2>1. CASE i \in 1..n
    BY <1>1, <1>6, <2>1 DEF NoOverdraft
  <2>2. CASE i = n + 1
    BY <1>1, <1>3, <1>5, <1>6, <2>2
  <2>3. QED
    BY <1>1, <2>1, <2>2
<1>7. QED
    BY <1>4, <1>6 DEF NoOverdraft, Treasury

LEMMA NoOverdraftStep ==
    ASSUME Core, Written, NoOverdraft, NEW s \in Session, Step(s)
    PROVE  NoOverdraft'
<1>1. CASE OpenAccount(s)
  <2>1. UNCHANGED posted
    BY <1>1 DEF OpenAccount
  <2>2. PICK id \in Account \ DOMAIN owner :
           balance' = [a \in DOMAIN balance \cup {id} |-> IF a = id THEN 0 ELSE balance[a]]
    BY <1>1, OpenAccountEffect DEF Core
  <2>3. \A a \in DOMAIN balance' : balance'[a] >= 0 \/ a = Treasury
    BY <2>2 DEF NoOverdraft
  <2>4. QED
    BY <2>1, <2>3 DEF NoOverdraft, Treasury
<1>2. CASE UNCHANGED <<owner, balance, posted>>
    BY <1>2 DEF NoOverdraft, Treasury
<1>3. QED
    BY <1>1, <1>2, StepKinds, CommitNoOverdraft

\* What was touched before a place does not change when the books grow.
LEMMA PrefixKept ==
    ASSUME NEW n \in Nat, \A i \in 1..n : posted'[i] = posted[i],
           NEW i \in 1..(n + 1), NEW a
    PROVE  /\ Untouched(i, a)' <=> Untouched(i, a)
           /\ \A j \in 1..n : Latest(j, i, a)' <=> Latest(j, i, a)
<1>1. \A m \in 1..n : Touches(m, a)' <=> Touches(m, a)
    BY DEF Touches
<1>2. Untouched(i, a)' <=> Untouched(i, a)
    BY <1>1 DEF Untouched
<1>3. ASSUME NEW j \in 1..n PROVE Latest(j, i, a)' <=> Latest(j, i, a)
    BY <1>1 DEF Latest
<1>4. QED
    BY <1>2, <1>3

LEMMA CommitRunning ==
    ASSUME Core, Written, RunningBalance, NEW s \in Session, Commit(s)
    PROVE  RunningBalance'
<1> DEFINE e == [key |-> work[s].key, net |-> delta[s], after |-> after[s]]
<1>0. PICK n \in Nat : n = Len(posted)
    BY DEF Core, TypeOK, BooksOK
<1>1. /\ n \in Nat /\ DOMAIN posted' = 1..(n + 1) /\ DOMAIN posted = 1..n
      /\ \A i \in 1..n : posted'[i] = posted[i]
      /\ posted'[n + 1] = e
    BY <1>0, AppendPosted DEF Core, TypeOK, Commit, BalancesAfter
<1>2. Len(posted') = n + 1
    BY <1>1, CommitTyped DEF Core, TypeOK, BooksOK, Commit
<1>3. DOMAIN after[s] = DOMAIN delta[s] /\ DOMAIN delta[s] \subseteq DOMAIN balance
    BY DEF Core, TypeOK, BooksOK, Locking, LockingAt, Commit
<1>4. \A a \in DOMAIN delta[s] : after[s][a] = balance[a] + delta[s][a]
    BY DEF Written, WrittenAt, Commit
<1>5. balance' = [a \in DOMAIN balance |-> IF a \in DOMAIN after[s] THEN after[s][a] ELSE balance[a]]
    BY DEF Commit
<1>6. e.net = delta[s] /\ e.after = after[s]
    OBVIOUS
<1>7. \A a : Touches(n + 1, a)' <=> a \in DOMAIN delta[s]
    BY <1>1, <1>6 DEF Touches
<1>8. \A a : \A i \in 1..(n + 1) : Untouched(i, a)' <=> Untouched(i, a)
    BY <1>1, PrefixKept
<1>9. \A a : \A i \in 1..(n + 1) : \A j \in 1..n : Latest(j, i, a)' <=> Latest(j, i, a)
    BY <1>1, PrefixKept
<1>10. n + 1 \in 1..(n + 1)
    BY <1>0
<1>11. \A j, i, a : Latest(j, i, a)' => j < i
    BY DEF Latest
<1>12. \A a : Untouched(n + 1, a) /\ a \in DOMAIN balance => balance[a] = 0
    BY <1>0 DEF RunningBalance
<1>13. \A a, j : Latest(j, n + 1, a) /\ j \in 1..n /\ a \in DOMAIN balance => balance[a] = posted[j].after[a]
    BY <1>0, <1>1 DEF RunningBalance
<1>14. \A a \in DOMAIN delta[s] : delta[s][a] \in Int
    BY DEF Core, TypeOK, SessionOK, Amounts
<1>15. ASSUME NEW i \in DOMAIN posted', NEW a \in DOMAIN posted'[i].net
       PROVE  /\ Untouched(i, a)' => posted'[i].after[a] = posted'[i].net[a]
              /\ \A j \in DOMAIN posted' : Latest(j, i, a)' =>
                    posted'[i].after[a] = posted'[j].after[a] + posted'[i].net[a]
  <2>1. CASE i \in 1..n
    <3>1. posted'[i] = posted[i] /\ a \in DOMAIN posted[i].net
      BY <1>1, <1>15, <2>1
    <3>2. /\ Untouched(i, a) => posted[i].after[a] = posted[i].net[a]
          /\ \A j \in 1..n : Latest(j, i, a) => posted[i].after[a] = posted[j].after[a] + posted[i].net[a]
      BY <1>1, <2>1, <3>1 DEF RunningBalance
    <3>3. \A j \in 1..(n + 1) : Latest(j, i, a)' => j \in 1..n
      BY <1>1, <1>11, <2>1
    <3>4. QED
      BY <1>1, <1>8, <1>9, <2>1, <3>1, <3>2, <3>3
  <2>2. CASE i = n + 1
    <3>1. a \in DOMAIN delta[s] /\ posted'[i].after = after[s] /\ posted'[i].net = delta[s]
      BY <1>1, <1>6, <1>15, <2>2
    <3>2. a \in DOMAIN balance /\ after[s][a] = balance[a] + delta[s][a]
      BY <1>3, <1>4, <3>1
    <3>3. Untouched(i, a)' => after[s][a] = delta[s][a]
      BY <1>1, <1>8, <1>12, <1>14, <2>2, <3>1, <3>2
    <3>4. ASSUME NEW j \in 1..(n + 1), Latest(j, i, a)'
          PROVE  after[s][a] = posted'[j].after[a] + delta[s][a]
      <4>1. j \in 1..n
        BY <1>1, <1>11, <2>2, <3>4
      <4>2. Latest(j, n + 1, a)
        BY <1>9, <1>10, <2>2, <3>4, <4>1
      <4>3. balance[a] = posted[j].after[a] /\ posted'[j] = posted[j]
        BY <1>1, <1>13, <3>2, <4>1, <4>2
      <4>4. QED
        BY <3>2, <4>3
    <3>5. QED
      BY <1>1, <3>1, <3>3, <3>4
  <2>3. QED
    BY <1>1, <2>1, <2>2
<1>16. ASSUME NEW a \in DOMAIN balance'
       PROVE  /\ Untouched(n + 2, a)' => balance'[a] = 0
              /\ \A j \in DOMAIN posted' : Latest(j, n + 2, a)' => balance'[a] = posted'[j].after[a]
  <2>1. a \in DOMAIN balance
    BY <1>5, <1>16
  <2>2. ASSUME Untouched(n + 2, a)' PROVE balance'[a] = 0
    <3>1. ~Touches(n + 1, a)' /\ Untouched(n + 1, a)'
      BY <1>1, <2>2 DEF Untouched
    <3>2. a \notin DOMAIN after[s] /\ Untouched(n + 1, a)
      BY <1>1, <1>3, <1>7, <1>8, <3>1
    <3>3. QED
      BY <1>5, <1>12, <2>1, <3>2
  <2>3. ASSUME NEW j \in 1..(n + 1), Latest(j, n + 2, a)' PROVE balance'[a] = posted'[j].after[a]
    <3>1. CASE j = n + 1
      <4>1. a \in DOMAIN after[s]
        BY <1>3, <1>7, <2>3, <3>1 DEF Latest
      <4>2. QED
        BY <1>1, <1>5, <1>6, <2>1, <3>1, <4>1
    <3>2. CASE j \in 1..n
      <4>1. ~Touches(n + 1, a)' /\ Latest(j, n + 1, a)'
        BY <1>1, <2>3, <3>2 DEF Latest
      <4>2. a \notin DOMAIN after[s]
        BY <1>3, <1>7, <4>1
      <4>3. Latest(j, n + 1, a)' <=> Latest(j, n + 1, a)
        BY <1>9, <1>10, <3>2
      <4>4. QED
        BY <1>1, <1>5, <1>13, <2>1, <3>2, <4>1, <4>2, <4>3
    <3>3. QED
      BY <1>1, <3>1, <3>2
  <2>4. QED
    BY <1>1, <2>2, <2>3
<1>17. Len(posted') + 1 = n + 2
    BY <1>1, <1>2
<1>18. QED
    BY <1>15, <1>16, <1>17 DEF RunningBalance

\* A new account occurs in no posting.
LEMMA OpenAccountRunning ==
    ASSUME Core, RunningBalance, NEW s \in Session, OpenAccount(s)
    PROVE  RunningBalance'
<1>1. UNCHANGED posted
    BY DEF OpenAccount
<1>2. PICK id \in Account \ DOMAIN owner :
         balance' = [a \in DOMAIN balance \cup {id} |-> IF a = id THEN 0 ELSE balance[a]]
    BY OpenAccountEffect DEF Core
<1>3. DOMAIN balance = DOMAIN owner /\ \A i \in DOMAIN posted : id \notin DOMAIN posted[i].net
    BY <1>2 DEF Core, TypeOK, BooksOK, IsPosting, Amounts
<1>4. \A j \in DOMAIN posted : \A i : ~Latest(j, i, id)
    BY <1>3 DEF Latest, Touches
<1>5. \A i, a : Untouched(i, a)' <=> Untouched(i, a)
    BY <1>1 DEF Untouched, Touches
<1>6. \A j, i, a : Latest(j, i, a)' <=> Latest(j, i, a)
    BY <1>1 DEF Latest, Touches
<1>7. Len(posted') = Len(posted) /\ DOMAIN posted' = DOMAIN posted
    BY <1>1
<1>8. ASSUME NEW a \in DOMAIN balance'
      PROVE  /\ Untouched(Len(posted) + 1, a) => balance'[a] = 0
             /\ \A j \in DOMAIN posted : Latest(j, Len(posted) + 1, a) => balance'[a] = posted[j].after[a]
  <2>1. CASE a = id
    BY <1>2, <1>4, <2>1
  <2>2. CASE a # id
    BY <1>2, <1>8, <2>2 DEF RunningBalance
  <2>3. QED
    BY <2>1, <2>2
<1>9. QED
    BY <1>1, <1>5, <1>6, <1>7, <1>8 DEF RunningBalance

LEMMA RunningStep ==
    ASSUME Core, Written, RunningBalance, NEW s \in Session, Step(s)
    PROVE  RunningBalance'
<1>1. CASE UNCHANGED <<owner, balance, posted>>
    BY <1>1 DEF RunningBalance, Untouched, Latest, Touches
<1>2. QED
    BY <1>1, StepKinds, CommitRunning, OpenAccountRunning

Sound == Written /\ RunningBalance /\ NoOverdraft

LEMMA SoundInvariant == Spec => [](Core /\ Sound)
<1>1. Init => Sound
  <2> SUFFICES ASSUME Init PROVE Sound
    OBVIOUS
  <2>1. Written
    BY DEF Init, Written, WrittenAt
  <2>2. NoOverdraft
    BY DEF Init, NoOverdraft
  <2>3. RunningBalance
    BY DEF Init, RunningBalance
  <2>4. QED
    BY <2>1, <2>2, <2>3 DEF Sound
<1>2. ASSUME Core, Sound, NEW s \in Session, Step(s)
      PROVE  Sound'
    BY <1>2, WrittenStep, RunningStep, NoOverdraftStep DEF Sound
<1>3. Sound /\ UNCHANGED vars => Sound'
    BY DEF Sound, Written, WrittenAt, RunningBalance, Untouched, Latest, Touches, NoOverdraft,
           Treasury, vars, books, session
<1>4. Core /\ Sound /\ [Next]_vars => Core' /\ Sound'
    BY <1>2, <1>3, CoreStep, CoreStutter DEF Next, Step
<1>5. QED
    BY <1>1, <1>4, CoreInit, PTL DEF Spec

\* The snapshots of every account are a running balance that starts from zero
\* and ends in the balance of now, whatever sessions run at once or are lost.
THEOREM BooksAddUp == Spec => []RunningBalance
<1>1. Core /\ Sound => RunningBalance
    BY DEF Sound
<1>2. QED
    BY <1>1, SoundInvariant, PTL

\* Though the funds are tested in one statement and spent in another, only the
\* treasury is ever below zero.
THEOREM NeverOverdrawn == Spec => []NoOverdraft
<1>1. Core /\ Sound => NoOverdraft
    BY DEF Sound
<1>2. QED
    BY <1>1, SoundInvariant, PTL

\* What was tested is there when it is spent, for any number of sessions: nobody
\* is told of an internal error for want of funds.
THEOREM TestedThenSpent == Spec => []TestedFundsSuffice
<1>1. ASSUME Core, Sound PROVE TestedFundsSuffice
    BY <1>1 DEF Sound, Written, WrittenAt, TestedFundsSuffice, Funded, NewBalance, MayBeNegative
<1>2. Core /\ Sound => TestedFundsSuffice
    BY <1>1
<1>3. QED
    BY <1>2, SoundInvariant, PTL

(***************************************************************************)
(* No circle of sessions waits for one another's rows.                      *)
(***************************************************************************)
\* The row s needs next is held by t.
WaitsFor(s, t) == pc[s] = "lock" /\ \E a \in held[t] : NextToLock(s, a)

\* Along a chain of waiting sessions the rows waited for ascend, so that no
\* chain returns to where it began: the procedure locks the rows "in
\* deterministic order to prevent deadlocks".
WaitsAscend ==
    \A s, t \in Session : WaitsFor(s, t) =>
       \A a, b \in Account : NextToLock(s, a) /\ NextToLock(t, b) => a < b

\* Sessions that wait for rows of one another cannot form a circle, for any
\* number of sessions and of rows.
THEOREM LocksAscend == Spec => []WaitsAscend
<1>1. ASSUME Core PROVE WaitsAscend
  <2> SUFFICES ASSUME NEW s \in Session, NEW t \in Session, WaitsFor(s, t),
                      NEW a \in Account, NEW b \in Account, NextToLock(s, a), NextToLock(t, b)
               PROVE  a < b
    BY DEF WaitsAscend
  <2>1. PICK c \in held[t] : NextToLock(s, c)
    BY DEF WaitsFor
  <2>2. c \in Account
    BY <1>1, <2>1 DEF Core, TypeOK, SessionsOK
  <2>3. a = c
    BY <2>1, <2>2 DEF NextToLock, Account
  <2>4. c < b
    BY <1>1, <2>1 DEF Core, Locking, LockingAt, NextToLock
  <2>5. QED
    BY <2>3, <2>4
<1>2. Core => WaitsAscend
    BY <1>1
<1>3. QED
    BY <1>2, CoreInvariant, PTL

(***************************************************************************)
(* Totals.  Total folds over a set of any size, so what it gives is found   *)
(* by induction: over sizes where its sums are defined, and over sets where *)
(* they are compared.  Both take a smallest counterexample.                 *)
(***************************************************************************)
Pick(S) == CHOOSE a \in S : TRUE

\* g sums f over each of the sets in family.
Sums(g, f, family) ==
    g = [S \in family |-> IF S = {} THEN 0 ELSE f[Pick(S)] + g[S \ {Pick(S)}]]

SumsOf(f) == CHOOSE g : Sums(g, f, SUBSET DOMAIN f)

LEMMA TotalIs == \A f : Total(f) = SumsOf(f)[DOMAIN f]
BY DEF Total, MapThenSumSet, MapThenFoldSet, SumsOf, Sums, Pick

LEMMA Smallest ==
    ASSUME NEW T, T \subseteq Nat, T # {}
    PROVE  \E n \in T : \A m \in T : n <= m
<1>1. PICK n \in T : \A m \in T : <<m, n>> \notin OpToRel(<, Nat)
    BY NatLessThanWellFounded, WFMin
<1>2. \A m \in T : ~(m < n)
    BY <1>1 DEF OpToRel
<1>3. QED
    BY <1>2

LEMMA SmallestSet ==
    ASSUME NEW D, IsFiniteSet(D), NEW T, T \subseteq SUBSET D, T # {}
    PROVE  \E S \in T : \A x \in S : S \ {x} \notin T
<1> DEFINE Size == {Cardinality(S) : S \in T}
<1>1. \A S \in T : /\ IsFiniteSet(S) /\ Cardinality(S) \in Nat
                   /\ \A x \in S : Cardinality(S \ {x}) = Cardinality(S) - 1
    BY FS_Subset, FS_CardinalityType, FS_RemoveElement
<1>2. Size \subseteq Nat /\ Size # {}
    BY <1>1
<1> HIDE DEF Size
<1>3. PICK n \in Size : \A m \in Size : n <= m
    BY <1>2, Smallest
<1>4. PICK S \in T : n = Cardinality(S)
    BY <1>3 DEF Size
<1>5. ASSUME NEW x \in S, S \ {x} \in T
      PROVE  FALSE
  <2>1. Cardinality(S \ {x}) \in Size
    BY <1>5 DEF Size
  <2>2. Cardinality(S \ {x}) = n - 1 /\ n \in Nat
    BY <1>1, <1>4, <1>5
  <2>3. QED
    BY <1>3, <2>1, <2>2
<1>6. QED
    BY <1>5

\* The sums are defined over sets of any size.
LEMMA SumsExist ==
    ASSUME NEW f, IsFiniteSet(DOMAIN f)
    PROVE  \E g : Sums(g, f, SUBSET DOMAIN f)
<1> DEFINE D == DOMAIN f
           UpTo(n) == {S \in SUBSET D : Cardinality(S) <= n}
           Without == {n \in Nat : ~\E g : Sums(g, f, UpTo(n))}
<1>1. \A S \in SUBSET D : /\ IsFiniteSet(S) /\ Cardinality(S) \in Nat
                          /\ Cardinality(S) <= Cardinality(D)
                          /\ Cardinality(S) = 0 => S = {}
                          /\ \A x \in S : Cardinality(S \ {x}) = Cardinality(S) - 1
    BY FS_Subset, FS_CardinalityType, FS_RemoveElement, FS_EmptySet
<1>2. \A S : S # {} => Pick(S) \in S
    BY DEF Pick
<1>3. Without = {}
  <2> SUFFICES ASSUME Without # {}
               PROVE  FALSE
    OBVIOUS
  <2>1. PICK n \in Without : \A m \in Without : n <= m
    BY Smallest
  <2>2. n \in Nat /\ ~\E g : Sums(g, f, UpTo(n))
    OBVIOUS
  <2>3. CASE n = 0
    <3> DEFINE g == [S \in UpTo(0) |-> 0]
    <3>1. \A S \in UpTo(0) : S = {}
      BY <1>1
    <3>2. Sums(g, f, UpTo(0))
      BY <3>1 DEF Sums
    <3>3. QED
      BY <2>2, <2>3, <3>2
  <2>4. CASE n # 0
    <3>1. n - 1 \in Nat /\ n - 1 \notin Without
      <4> HIDE DEF Without
      <4>1. QED
        BY <2>1, <2>2, <2>4
    <3>2. PICK g : Sums(g, f, UpTo(n - 1))
      BY <3>1
    <3> DEFINE h == [S \in UpTo(n) |-> IF S = {} THEN 0 ELSE f[Pick(S)] + g[S \ {Pick(S)}]]
    <3>3. \A S \in UpTo(n - 1) : S \in UpTo(n)
      BY <1>1, <2>2
    <3>4. \A S \in UpTo(n - 1) : h[S] = g[S]
      BY <3>2, <3>3 DEF Sums
    <3>5. \A S \in UpTo(n) : S # {} => S \ {Pick(S)} \in UpTo(n - 1)
      BY <1>1, <1>2, <2>2
    <3>6. h = [S \in UpTo(n) |-> IF S = {} THEN 0 ELSE f[Pick(S)] + h[S \ {Pick(S)}]]
      BY <3>4, <3>5
    <3> HIDE DEF h
    <3>7. QED
      BY <2>2, <3>6 DEF Sums
  <2>5. QED
    BY <2>3, <2>4
<1>4. Cardinality(D) \in Nat /\ UpTo(Cardinality(D)) = SUBSET D
    BY <1>1
<1>5. QED
    BY <1>3, <1>4

IntFunction(f) == IsFiniteSet(DOMAIN f) /\ \A a \in DOMAIN f : f[a] \in Int
At(f, a) == IF a \in DOMAIN f THEN f[a] ELSE 0

\* Whatever member of a set is taken off first.
LEMMA SumsOfSet ==
    ASSUME NEW f, IntFunction(f)
    PROVE  /\ SumsOf(f)[{}] = 0
           /\ \A S \in SUBSET DOMAIN f : SumsOf(f)[S] \in Int
           /\ \A S \in SUBSET DOMAIN f : \A x \in S : SumsOf(f)[S] = f[x] + SumsOf(f)[S \ {x}]
<1> DEFINE D == DOMAIN f
           g == SumsOf(f)
<1>1. Sums(g, f, SUBSET D)
    BY SumsExist DEF SumsOf, IntFunction
<1> HIDE DEF g
<1>2. g[{}] = 0 /\ \A S \in SUBSET D : S # {} => g[S] = f[Pick(S)] + g[S \ {Pick(S)}]
    BY <1>1 DEF Sums
<1>3. \A S : S # {} => Pick(S) \in S
    BY DEF Pick
<1>4. IsFiniteSet(D) /\ \A a \in D : f[a] \in Int
    BY DEF IntFunction
<1>5. \A S \in SUBSET D : g[S] \in Int
  <2> DEFINE T == {A \in SUBSET D : g[A] \notin Int}
  <2> SUFFICES ASSUME T # {}
               PROVE  FALSE
    OBVIOUS
  <2>1. PICK S \in T : \A x \in S : S \ {x} \notin T
    <3>1. T \subseteq SUBSET D
      OBVIOUS
    <3> HIDE DEF T
    <3>2. QED
      BY <1>4, <3>1, SmallestSet
  <2>2. S # {} /\ Pick(S) \in S
    <3>1. g[S] \notin Int
      BY <2>1
    <3>2. g[{}] \in Int
      BY <1>2
    <3>3. S # {}
      BY <3>1, <3>2, Zenon
    <3>4. QED
      BY <1>3, <3>3
  <2>3. g[S \ {Pick(S)}] \in Int /\ f[Pick(S)] \in Int
    BY <1>4, <2>1, <2>2
  <2>4. g[S] = f[Pick(S)] + g[S \ {Pick(S)}]
    BY <1>2, <2>2
  <2>5. QED
    BY <2>3, <2>4
<1>6. \A S \in SUBSET D : \A x \in S : g[S] = f[x] + g[S \ {x}]
  <2> DEFINE T == {A \in SUBSET D : \E x \in A : g[A] # f[x] + g[A \ {x}]}
  <2> SUFFICES ASSUME T # {}
               PROVE  FALSE
    OBVIOUS
  <2>1. PICK S \in T : \A x \in S : S \ {x} \notin T
    <3>1. T \subseteq SUBSET D
      OBVIOUS
    <3> HIDE DEF T
    <3>2. QED
      BY <1>4, <3>1, SmallestSet
  <2>2. PICK x \in S : g[S] # f[x] + g[S \ {x}]
    BY <2>1
  <2> DEFINE y == Pick(S)
  <2>3. y \in S /\ g[S] = f[y] + g[S \ {y}]
    BY <1>2, <1>3
  <2>4. x # y
    BY <2>2, <2>3
  <2> HIDE DEF y
  <2>5. g[S \ {y}] = f[x] + g[(S \ {y}) \ {x}]
    BY <2>1, <2>3, <2>4
  <2>6. g[S \ {x}] = f[y] + g[(S \ {y}) \ {x}]
    <3>1. g[S \ {x}] = f[y] + g[(S \ {x}) \ {y}]
      BY <2>1, <2>3, <2>4
    <3>2. (S \ {y}) \ {x} = (S \ {x}) \ {y}
      OBVIOUS
    <3>3. QED
      BY <3>1, <3>2
  <2>7. f[x] \in Int /\ f[y] \in Int /\ g[(S \ {y}) \ {x}] \in Int
    BY <1>4, <1>5, <2>3
  <2>8. g[S] = f[x] + g[S \ {x}]
    BY <2>3, <2>5, <2>6, <2>7
  <2>9. QED
    BY <2>2, <2>8
<1>7. QED
    BY <1>2, <1>5, <1>6 DEF g

\* The total of what is added up account by account is the sum of the totals.
LEMMA TotalAdds ==
    ASSUME NEW f, NEW d, NEW h, IntFunction(f), IntFunction(d), IntFunction(h),
           DOMAIN h = DOMAIN f \cup DOMAIN d,
           \A a \in DOMAIN h : h[a] = At(f, a) + At(d, a)
    PROVE  Total(h) = Total(f) + Total(d) /\ Total(f) \in Int /\ Total(d) \in Int
<1> DEFINE F == SumsOf(f)
           G == SumsOf(d)
           H == SumsOf(h)
           T == {A \in SUBSET DOMAIN h : H[A] # F[A \cap DOMAIN f] + G[A \cap DOMAIN d]}
<1>1. ASSUME NEW e, IntFunction(e), NEW S, NEW x \in S
      PROVE  /\ SumsOf(e)[{}] = 0 /\ SumsOf(e)[S \cap DOMAIN e] \in Int /\ At(e, x) \in Int
             /\ SumsOf(e)[S \cap DOMAIN e] = At(e, x) + SumsOf(e)[(S \ {x}) \cap DOMAIN e]
  <2> DEFINE g == SumsOf(e)
             R == S \cap DOMAIN e
  <2>1. g[{}] = 0 /\ g[R] \in Int
    BY <1>1, SumsOfSet
  <2>2. CASE x \in DOMAIN e
    <3>1. g[R] = e[x] + g[R \ {x}]
      BY <1>1, <2>2, SumsOfSet
    <3>2. R \ {x} = (S \ {x}) \cap DOMAIN e
      OBVIOUS
    <3>3. QED
      BY <1>1, <2>1, <2>2, <3>1, <3>2 DEF At, IntFunction
  <2>3. CASE x \notin DOMAIN e
    <3>1. R = (S \ {x}) \cap DOMAIN e
      BY <2>3
    <3>2. At(e, x) = 0
      BY <2>3 DEF At
    <3>3. g[R] = At(e, x) + g[(S \ {x}) \cap DOMAIN e]
      <4> HIDE DEF g, R
      <4>1. QED
        BY <2>1, <3>1, <3>2
    <3>4. QED
      BY <2>1, <3>2, <3>3
  <2>4. QED
    BY <2>2, <2>3
<1>2. H[{}] = 0 /\ F[{}] = 0 /\ G[{}] = 0
    BY SumsOfSet
<1> HIDE DEF F, G, H
<1>3. T = {}
  <2> SUFFICES ASSUME T # {}
               PROVE  FALSE
    OBVIOUS
  <2>1. PICK S \in T : \A x \in S : S \ {x} \notin T
    <3>1. T \subseteq SUBSET DOMAIN h
      OBVIOUS
    <3> HIDE DEF T
    <3>2. QED
      BY <3>1, SmallestSet DEF IntFunction
  <2>2. S # {}
    <3>1. {} \cap DOMAIN f = {} /\ {} \cap DOMAIN d = {}
      OBVIOUS
    <3>2. H[S] # F[S \cap DOMAIN f] + G[S \cap DOMAIN d]
      BY <2>1
    <3>3. H[{}] = F[{} \cap DOMAIN f] + G[{} \cap DOMAIN d]
      BY <1>2, <3>1
    <3>4. QED
      BY <3>2, <3>3, Zenon
  <2>3. PICK x \in S : TRUE
    BY <2>2
  <2> DEFINE R == S \ {x}
  <2>4. H[R] = F[R \cap DOMAIN f] + G[R \cap DOMAIN d]
    BY <2>1
  <2>5. /\ At(f, x) \in Int /\ F[S \cap DOMAIN f] = At(f, x) + F[R \cap DOMAIN f]
        /\ At(d, x) \in Int /\ G[S \cap DOMAIN d] = At(d, x) + G[R \cap DOMAIN d]
    BY <1>1 DEF F, G
  <2>8. H[S] = h[x] + H[R]
    BY SumsOfSet DEF H
  <2>6. F[R \cap DOMAIN f] \in Int /\ G[R \cap DOMAIN d] \in Int
    BY SumsOfSet DEF F, G
  <2> HIDE DEF R
  <2>7. QED
    BY <2>4, <2>5, <2>6, <2>8
<1>4. H[DOMAIN h] = F[DOMAIN f] + G[DOMAIN d]
  <2>1. DOMAIN h \cap DOMAIN f = DOMAIN f /\ DOMAIN h \cap DOMAIN d = DOMAIN d
    OBVIOUS
  <2>2. QED
    BY <1>3, <2>1
<1>5. F[DOMAIN f] \in Int /\ G[DOMAIN d] \in Int
    BY SumsOfSet DEF F, G
<1>6. QED
    BY <1>4, <1>5, TotalIs DEF F, G, H

\* Adding up amounts of accounts.
LEMMA AmountsAdd ==
    ASSUME NEW f, Amounts(f, Account)
    PROVE  IntFunction(f)
<1>1. MaxAccount \in Nat /\ DOMAIN f \subseteq Account
    BY LedgerAssumption DEF Amounts
<1>2. IsFiniteSet(Account)
    BY <1>1, FS_Interval DEF Account
<1>3. IsFiniteSet(DOMAIN f)
    BY <1>1, <1>2, FS_Subset
<1>4. QED
    BY <1>3 DEF Amounts, IntFunction

LEMMA ZeroTotal ==
    ASSUME NEW f, IntFunction(f), \A a \in DOMAIN f : f[a] = 0
    PROVE  Total(f) = 0
<1>1. \A a \in DOMAIN f : f[a] = At(f, a) + At(f, a)
    BY DEF At
<1>2. Total(f) = Total(f) + Total(f) /\ Total(f) \in Int
    BY <1>1, TotalAdds
<1>3. \A n \in Int : n = n + n => n = 0
    OBVIOUS
<1>4. QED
    BY <1>2, <1>3

\* The total after a step is the total of what is there after it.
LEMMA TotalNext ==
    /\ Total(balance)' = Total(balance')
    /\ \A s \in Session : Total(delta[s])' = Total(delta'[s])
BY DEF Total, MapThenSumSet, MapThenFoldSet

\* What a session in a transaction is about to post sums to zero.
Balanced == \A s \in Session : pc[s] \in InTransaction => Total(delta[s]) = 0

LEMMA DeltaKept ==
    ASSUME Core, NEW s \in Session, Step(s), pc'[s] \in InTransaction
    PROVE  UNCHANGED delta /\ (pc[s] \in InTransaction \/ InsertTransaction(s))
<1>1. SessionsOK
    BY DEF Core, TypeOK
<1>2. \A a : ~Finish(s, a)
    BY <1>1, FinishEffect DEF InTransaction
<1>3. ~Idle(s)
    BY <1>1, IdleEffect DEF InTransaction
<1>4. \A label : Goto(s, label) => label \in InTransaction
    BY <1>1 DEF Goto, SessionsOK
<1>5. \/ InsertTransaction(s) \/ EnsureRows(s) \/ LockRow(s)
      \/ TestFunds(s) \/ UpdateBalances(s)
    BY <1>2, <1>3, <1>4 DEF Step, Serve, RequestAccount, RequestPosting, FindAccount, InsertAccount,
       OpenAccount, ResolveParticipants, RejectInvalid, AnswerRepeated, Commit, Deliver, Lose, Abort,
       InTransaction
<1>6. QED
    BY <1>2, <1>5 DEF InsertTransaction, EnsureRows, LockRow, TestFunds, UpdateBalances, Abort,
       InTransaction

LEMMA BalancedStep ==
    ASSUME Core, Balanced, NEW s \in Session, Step(s)
    PROVE  Balanced'
<1>1. Others(s)
    BY StepEffect DEF SessionStep
<1>2. pc'[s] \in InTransaction => Total(delta'[s]) = 0
    BY DeltaKept DEF Balanced, InsertTransaction, Valid
<1>3. \A t \in Session \ {s} : pc'[t] \in InTransaction => Total(delta'[t]) = 0
    BY <1>1 DEF Others, Balanced
<1>4. (\A t \in Session : pc'[t] \in InTransaction => Total(delta'[t]) = 0) => Balanced'
    BY TotalNext DEF Balanced, InTransaction
<1>5. QED
    BY <1>2, <1>3, <1>4

LEMMA CommitConserves ==
    ASSUME Core, Written, Balanced, Conserved, NEW s \in Session, Commit(s), Core'
    PROVE  Total(balance') = 0
<1>1. Amounts(balance, Account) /\ Amounts(delta[s], Account) /\ Amounts(balance', Account)
    BY DEF Core, TypeOK, BooksOK, SessionOK
<1>2. IntFunction(balance) /\ IntFunction(delta[s]) /\ IntFunction(balance')
    BY <1>1, AmountsAdd
<1>3. /\ pc[s] = "commit" /\ DOMAIN delta[s] \subseteq DOMAIN balance
      /\ DOMAIN after[s] = DOMAIN delta[s]
    BY DEF Core, Locking, LockingAt, Commit, TypeOK, BooksOK
<1>4. \A a \in DOMAIN delta[s] : after[s][a] = balance[a] + delta[s][a]
    BY <1>3 DEF Written, WrittenAt
<1>5. DOMAIN balance' = DOMAIN balance \cup DOMAIN delta[s]
    BY <1>3 DEF Commit
<1>6. \A a \in DOMAIN balance' : balance'[a] = At(balance, a) + At(delta[s], a)
    BY <1>2, <1>3, <1>4, <1>5 DEF Commit, At, IntFunction
<1>7. Total(delta[s]) = 0 /\ Total(balance) = 0
    BY <1>3 DEF Balanced, Conserved, InTransaction
<1>8. Total(balance') = Total(balance) + Total(delta[s])
    BY <1>2, <1>5, <1>6, TotalAdds
<1>9. QED
    BY <1>7, <1>8

LEMMA OpenAccountConserves ==
    ASSUME Core, Conserved, NEW s \in Session, OpenAccount(s), Core'
    PROVE  Total(balance') = 0
<1>1. PICK id \in Account \ DOMAIN owner :
         balance' = [a \in DOMAIN balance \cup {id} |-> IF a = id THEN 0 ELSE balance[a]]
    BY OpenAccountEffect DEF Core
<1> DEFINE new == [a \in {id} |-> 0]
<1>2. Amounts(balance, Account) /\ Amounts(new, Account) /\ Amounts(balance', Account)
    BY DEF Core, TypeOK, BooksOK, Amounts
<1>3. IntFunction(balance) /\ IntFunction(new) /\ IntFunction(balance')
    BY <1>2, AmountsAdd
<1>4. id \notin DOMAIN balance
    BY DEF Core, TypeOK, BooksOK
<1>5. DOMAIN new = {id} /\ \A a \in DOMAIN new : new[a] = 0
    OBVIOUS
<1> HIDE DEF new
<1>6. DOMAIN balance' = DOMAIN balance \cup DOMAIN new
    BY <1>1, <1>5
<1>7. \A a \in DOMAIN balance' : balance'[a] = At(balance, a) + At(new, a)
    BY <1>1, <1>3, <1>4, <1>5, <1>6 DEF At, IntFunction
<1>8. Total(balance') = Total(balance) + Total(new) /\ Total(new) = 0
    BY <1>3, <1>5, <1>6, <1>7, TotalAdds, ZeroTotal
<1>9. QED
    BY <1>8 DEF Conserved

LEMMA ConservedStep ==
    ASSUME Core, Written, Balanced, Conserved, NEW s \in Session, Step(s), Core'
    PROVE  Conserved'
<1>1. Total(balance') = 0
  <2>1. CASE Commit(s) \/ OpenAccount(s)
    BY <2>1, CommitConserves, OpenAccountConserves
  <2>2. CASE ~(Commit(s) \/ OpenAccount(s))
    <3>1. balance' = balance
      BY <2>2, StepKinds
    <3>2. QED
      BY <3>1 DEF Conserved
  <2>3. QED
    BY <2>1, <2>2
<1>2. QED
    BY <1>1, TotalNext DEF Conserved

Coins == Balanced /\ Conserved

LEMMA CoinsInvariant == Spec => [](Core /\ Sound /\ Coins)
<1>1. Init => Coins
  <2> SUFFICES ASSUME Init PROVE Coins
    OBVIOUS
  <2>1. Amounts(balance, Account)
    BY CoreInit DEF Core, TypeOK, BooksOK
  <2>2. \A a \in DOMAIN balance : balance[a] = 0
    BY DEF Init
  <2>3. Total(balance) = 0
    BY <2>1, <2>2, AmountsAdd, ZeroTotal
  <2>4. Balanced
    BY DEF Init, Balanced, InTransaction
  <2>5. QED
    BY <2>3, <2>4 DEF Coins, Conserved
<1>2. Core /\ Sound /\ Coins /\ Core' /\ [Next]_vars => Coins'
  <2>1. ASSUME Core, Sound, Coins, Core', NEW s \in Session, Step(s)
        PROVE  Coins'
    BY <2>1, BalancedStep, ConservedStep DEF Coins, Sound
  <2>2. ASSUME Coins, UNCHANGED vars
        PROVE  Coins'
    <3>1. balance' = balance /\ delta' = delta /\ pc' = pc
      BY <2>2 DEF vars, books, session
    <3>2. Total(balance') = 0
      BY <2>2, <3>1 DEF Coins, Conserved
    <3>3. \A s \in Session : pc'[s] \in InTransaction => Total(delta'[s]) = 0
      BY <2>2, <3>1 DEF Coins, Balanced
    <3>4. QED
      BY <3>2, <3>3, TotalNext DEF Coins, Conserved, Balanced, InTransaction
  <2>3. QED
    BY <2>1, <2>2 DEF Next, Step
<1>3. QED
    BY <1>1, <1>2, SoundInvariant, PTL DEF Spec

\* No coin appears or vanishes, with any number of accounts: every transaction
\* is checked to be balanced before its key is inserted, and what it commits is
\* what it was checked for, added to the balances of the moment it commits.
THEOREM NoCoinLost == Spec => []Conserved
<1>1. Core /\ Sound /\ Coins => Conserved
    BY DEF Coins
<1>2. QED
    BY <1>1, CoinsInvariant, PTL
================================================================================
