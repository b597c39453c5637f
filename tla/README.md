# Verification of blert

blert records PvM challenges of Old School RuneScape. Game clients stream what
they see to a *socket server*; a *challenge server* groups the clients that play
one challenge, decides when its stages and the challenge itself begin and end,
merges and processes the recordings, and publishes the result.

This directory holds TLA+ models of the part of the repository where ordering,
failure and time decide correctness, their TLC runs, and proofs checked by
TLAPS. They cover the Rust challenge server (`src/challenge-harder`), whose
lifecycle is an event-sourced actor over leased, fenced durable state; the older
TypeScript challenge server it replaces; the commands that shut a socket server
down; and the ledger of blertbank.

## The system

| Component | State | Operations | Interacts by |
|---|---|---|---|
| Lifecycle core `lifecycle/core` | `ChallengeState`: phase, stage, attempt, stage state, clients, recorders, dormancy, processing pipeline | `decide(command)`: journal entries; `apply(entry)`; `next_deadline` | pure |
| Actor `lifecycle/challenge.rs` | folded state, next sequence number, inbox cursor, processing task | load, republish, re-seal, respawn, take input, append, effects, project, conclude, quarantine | store calls (fenced), channels from inbox feed and processing task |
| Store `redis/` | lease hash (fence, owner), challenge index with deadlines, journal, inbox, state and client hashes, stage markers, routing keys, sessions | Lua scripts, each atomic | calls; signals and announcements by publish |
| Coordinator `lifecycle/coordinator.rs` | registry of local tasks, starts lock, snapshot cache with waiters | create or join, rejoin, update, finish, status, claim scan, drain | spawns actors; store; HTTP API |
| Sessions `lifecycle/session.rs`, scripts | session index, party directory, active challenge sets | resolve, refresh, sweep, finalize, delete | coordinator and actor |
| Processing `processing/` | one guarded database transaction per run | `process(trigger)` | spawned by the actor, reports by channel |
| Merging `merging/` | none | align and merge the clients' event lists | called by processing |
| Older challenge server `challenge-server/` | challenges in Redis hashes, their clients, timers, claims of stages, the party's list, the clients' pointers | start or join, add a client, update, finish, client events, timeouts, stage completion, cleanup | HTTP requests; Redis watch/multi; the event queue; background tasks |
| Socket server `socket-server/`, connections | connections, clients with message queues, subscriptions | connect, reconnect, route messages, challenge calls | websockets; HTTP to a challenge server; pub/sub |
| Socket server, manager `server-manager.ts` | status, deadline, timers, drain, rebalance | schedule, override and cancel a shutdown; drain; rebalance | admin endpoints; callbacks to the message handler and the HTTP server |
| blertbank | accounts, balances, transactions with idempotency keys | get or create account, post transaction | PostgreSQL procedures |
| Effect runner | interval tasks | start, tick, stop | timers |
| Live server | readers per challenge, broadcast buffers | backfill, follow, subscribe | Redis streams; SSE |
| common, web, bcf, tools, docker | | libraries, pages, formats, build | |

What is hard, and what makes each part correct:

- **Lifecycle core.** Reports of several clients, joins, departures, idling and
  two timers come in any order, for stages that may be retried. Stage attempts
  are sealed once and none is lost; a challenge never goes back, is never left
  without a timer, closes its straggler windows and concludes; its pipeline
  settles in order whatever runs fail, hang or report late.
- **Actor.** It can stop between any two of its steps. Messages may be delivered
  again; journaled but unfinished effects have to be made good.
- **Store and coordinator.** Leases lapse while their holders still run, calls
  fail with and without effect, several servers scan. The journal must stay one
  history; somebody must take an orphan over.
- **Older challenge server.** Requests, client events, timeouts, forced cleanups
  and background tasks act on one challenge at once, with transactions of their
  own and reads before and between them. A challenge is finalised once, an
  attempt of a stage is merged once, and a challenge nobody is in stays timed.
- **Ledger.** Sessions run statement by statement, wait for each other's locks
  and keys, get lost, and are asked again. The books add up, keys apply once,
  every answer to a key is the first one, and nobody waits in a circle.
- **Socket server's manager.** Commands override and cancel each other while
  their timers run; the server must go down when it says it will.
- **Sessions, routing, snapshot cache, processing guard, connections**: races
  between lookups and what they looked up; see the hazards in `PROJECT.json` and
  the plan below.

## Modules

| Module | Models | Kind |
|---|---|---|
| `LifecycleCore` | `core/decide.rs`, `apply.rs`, `state.rs`, `deadline.rs` as operators | pure, no variables |
| `ChallengeLifecycle` | one challenge: clients, timers and processing runs around the core | state machine, extends `LifecycleCore` |
| `LifecycleCore_proofs` | what one entry, one decision and its batch do to a challenge | lemmas |
| `ChallengeLifecycle_proofs` | what the lifecycle guarantees for any clients, stages and bounds | theorems |
| `ChallengeActor` | the actor around the core: inbox, journal, effects, crash and recovery | state machine, extends `LifecycleCore` |
| `ChallengeActor_proofs` | what the actor guarantees for any inbox, clients and crashes | theorems |
| `ChallengeLease` | lease, fence, tasks and scans of all servers for one challenge | state machine |
| `JournalLog` | what lease and fence promise: a single writer's journal | abstract specification, implemented by `ChallengeLease` |
| `ChallengeLease_proofs`, `ChallengeLeaseRefines_proofs` | what `ChallengeLease` guarantees; that it implements `JournalLog` | theorems |
| `ChallengeManager` | the older challenge server: a party's challenges, clients, timers, tasks | state machine |
| `ChallengeManager_proofs` | what it guarantees for any number of clients and tasks | theorems |
| `Ledger` | accounts and postings of blertbank, statement by statement | state machine |
| `Ledger_proofs` | what the books, keys and locks guarantee | theorems |
| `ServerManager` | shutdown, drain and rebalance of a socket server | state machine with a clock |
| `ServerManager_proofs` | that announcements have a time | theorem |
| `MCLifecycle`, `MCActor`, `MCLease`, `MCChallengeManager`, `MCLedger`, `MCServerManager` | | instances for TLC |

Definitions whose comment says *mutant* are deliberate mistakes: replacing the
definition below them by the mutant must break a property, which shows that the
property depends on it. They are part of no specification.

### LifecycleCore and ChallengeLifecycle

`Decide` and `Apply` follow the code branch by branch: `DecideUpdate` is
`update`, `ApplyReported` is `stage_reported`, and so on (`map` in
`PROJECT.json`). Both are kept free of variables so that the two state machines
share them. Abstractions:

- Time. A deadline is *derived* from the state, as in `deadline.rs`; when it
  fires is left open. Where the code takes the earlier of the lifecycle and the
  processing deadline, either may fire. Windows anchored by a timestamp
  (`dormant_since`, `since`) keep only whether they are open.
- `Option<u32>` attempts are numbers with 0 for `None`, which sorts below every
  `Some` as in Rust.
- The journal position of a trigger is its rank among the triggers.
- Party, mode and reported times keep what decisions look at.
- The entries that remove every client are one entry.

In `ChallengeLifecycle`, `Handle` is the actor's cycle of decide, journal and
apply, atomic here. `inflight` holds attempts whose task may still report, also
after their timeout; `Restart` replaces the actor, which respawns a running
attempt under its old number. Histories `started` and `seals` exist for
properties only.

### ChallengeActor

Here the steps of `run_challenge`, `run` and `handle_command` are separate
actions, in the code's order: `Boot` (load and fold), `Republish`, `Remark` (mark
the streams of outstanding runs, respawn), the inputs `TakeMessage`,
`TakeReport`, `TakeDeadline`, then `AppendBatch` (which applies, spawns or drops
the task), `Mark`, per settled stage run `RemoveStream` and `AnnounceStageEnd` (other
settled runs are skipped by `PassOver`),
`Project`, and `Conclude`. `Crash` may come at each of them; a call that fails
for good ends the actor in the code and is a crash as well, except where the
code logs and goes on (`RemoveStream`, `AnnounceStageEnd`). The `select` is biased
towards the inbox, but the feed delivers with delay, so a queued message does
not exclude another input; a report does come before a deadline.
`LossySpec` adds `AppendUnseen`: an append that took effect, whose reply was
lost and which `with_retries` repeats. It is limited to batches without new
triggers, which the numbering by rank cannot repeat.

### ChallengeLease

`task[e]` is the task that was given epoch `e`; START issues epoch 1 and every
claim increments. A write is one script and compares the epoch (`Accepted`); a
call fails without effect or, with `LostReplies`, with effect; `Unavailable`
counts the retries of `with_retries`. `Load` is deliberately not fenced, as in
the code. `Claimable` is the scan's condition under the coordinator's starts
lock and skip list. `Lapse` is time passing the lease; as long as the holder
runs it is a fault (missed renewals), otherwise it is bound to happen.
`Quarantine` is the task that cannot read the journal and holds on.

### ChallengeManager

`ch`, `clients`, `timer`, `processed`, `pointer` and `party` are the Redis keys
of `redis-client.ts`. What a step may do follows from how the code reaches Redis:
a transaction watches what it reads and is repeated until nothing changed under
it, so it is one step; a read before a transaction, or between two of them, is a
step of its own, kept in `flight` (requests), `event` (the client event in hand)
or `at` (workers: the timeout task `Ticker` and background tasks).

- `Start` is `createOrJoin`: `JoinAtOnce`, `JoinLater` (`DeferredJoin`) or `Create`,
  which is completed by `Created` or rolled back by `CreateFailed`. `AddClient` and
  `Added` are the rejoin, `Finish` and `FinishLost` the end a client reports,
  `Update` and `HandleUpdate` its progress, with the branches of `update` as
  operators (`ReportEntered`, `ReportStarted`, `ReportFinished`, `EntryMode`).
- `PopEvent` and `HandleEvent` are the client event loop. LPUSH with BLPOP makes
  its queue a stack; so it is one here.
- `Fire` and the steps of `Ticker` are `processChallengeTimeouts`; the steps
  of cleanup and of stage completion are shared by the ticker and the tasks:
  mark, load, claim, read and merge the stream, write back, close, finish, clear.
- A stage that is processed for too long, a failing step and a restart of the
  server (`Crash`) are faults. A restart forgets requests, tasks and the event in hand.

`merged`, `again`, `finished` and `cut` are histories. `merged` is forgotten with
the challenge's keys: a task left over from before the deletion can find the
claims gone and complete a stage again. Only its stream, which is deleted too,
then stops it, so `MergedOnce` counts merges while the challenge exists.

A challenge has one timer, which stage ends, cleanups and reconnections overwrite.
`EmptyIsTimed` says that whoever takes the last client out leaves a timer that
ends the challenge, whatever was timed before. It does not speak of challenges
that lose that timer afterwards: `cut` marks the challenges whose timer is cleared
on a reading older than the timer, and those whose last client is removed after
moving on, which sets no timer. Both happen (see the observations below), so the
hazard at `challenge-manager.ts:1594` has no property.

### Ledger

Each session serves one request, one database statement per action: `FindAccount`,
`InsertAccount`, `OpenAccount` for accounts; `ResolveParticipants`,
`RejectInvalid`, `InsertTransaction` (which waits for a session that has inserted
the same key, `KeyPending`), `AnswerRepeated`, `EnsureRows`, `LockRow` once per row
in id order (`NextToLock`), `TestFunds`, `UpdateBalances` and `Commit` for postings.
Nothing a session writes is visible before `Commit`, except the locks (`held`) and
the keys. The test and the update are separate statements, and each reads the
balances of its own moment. The update takes the locks of its rows itself, which
the session has already, and the table's trigger rejects a negative balance with
an internal error; so without the explicit locks the balances would still add up
and nobody be overdrawn, but a request could fail the trigger after passing the
test (`TestedFundsSuffice`). The snapshots are what the update returns
(`BalancesAfter`); read from the table in the same statement they would be the
balances before it.
`Lose` drops a session or an answer; the caller may ask again. Amounts are summed
per party and, where a user and the user's own account are both named, per
account, as the procedure groups them; what callers attach is left out.

### ServerManager

`shutdownTime`, `shutdownTimer`, `messageTimer`, `drain` and `rebalance` are the
manager's fields; a handle is the identifier of a timer, as in Node, and `timers`
are those set and not cleared. Every callback is an action on its timer; `runDrain`'s
loop is `LookAgain`, `LookOverdue`, `LookNoDrain` and `LookThrows` at each tick. Time is
a clock that moves when no timer is due, so counterexamples need no late timer.

A check and its effect with an await between them are two actions. `Connect` lets
an upgrade in by the status it finds, and the client is connected with `Upgrade`,
after its authentication and the check of its plugin; `StartChallenge` passes the
block on starts, and the challenge is the client's with `ChallengeStarted`, or not
at all (`StartFails`). In between (`admitted`, `starting`) a drain or a shutdown may
begin. A client that is starting has no challenge yet for `StartRebalance`, as in
the code.

## Runs

| Run | Instance | Shows |
|---|---|---|
| `lifecycle_stages` | 2 clients (one a participant, one a spectator), stages 1..3 with 2 the last and 3 retriable, 2 attempts, processing off | `SealedAtMostOnce`, `NoStageLost`, `CompletionOpensWindow`, `ClientNeverAhead`, `NeverStranded`, `NeverGoesBack`; liveness `WindowCloses`, `AbandonedConcludes` |
| `lifecycle_pipeline` | 1 client, 2 stages reported in any order, 2 attempts per run, 1 late report | `FinishClosesPipeline`, `FinishStoresFinalStatus`; liveness `TerminatedConcludes` |
| `lifecycle_retries` | 1 client with 2 tokens, 2 modes, 1 stage, 2 attempts per run and of the finish, 1 late report | `TypeOK`, `SettledByItsOwnAttempt` |
| `lifecycle_skipahead` | 1 client that reports stages out of order | violates `SealedAtMostOnce` |
| `actor_recovery` | 2 clients, 3 messages, 2 crashes or failed calls | `TypeOK`, `RedeliveryIsHarmless`, `RunSeesItsStream`, `WaitsPublished`, and `EveryMessageHandled` |
| `actor_stageends` | the same with 4 messages, 1 fault | violates `StageEndsPublished` |
| `actor_lostreply` | 1 message, 1 lost reply | violates `SettledWereRun` |
| `lease` | 2 servers, 1 of them surviving, 2 batches of up to 2 entries, 3 faults, lost replies, unreadable journals | `TypeOK`, `OneHistory`, `HolderIsCurrent`, `OneTaskPerServer`, `FinishIsFinal`, `ProjectionNeverRegresses`, `SingleWriter` (refinement); liveness `OrphanIsAdopted`, `EndedIsDeleted` |
| `manager` | 2 clients (interchangeable), 2 challenges of 2 stages with the second retriable, 3 messages of any kind, 1 background task beside the timeout task, 1 failure, restart or overlong stage | `TypeOK`, `FinishedOnce`, `MergedOnce`, `EmptyIsTimed` |
| `ledger_books` | 2 sessions, 5 requests from 6 postings over 2 users, one named twice, treasury and purchases, 2 keys, 1 loss | `TypeOK`, `KeyAppliedOnce`, `RunningBalance`, `NoOverdraft`, `TestedFundsSuffice`, `SameAnswer`, `Conserved`; liveness `EveryRequestEnds` |
| `ledger_accounts` | 2 sessions, 2 requests, no loss | violates `AccountIsReturned` |
| `server_override` | 2 clients, shutdowns in 2, 3 or 6 units, commands until 4 timers were set, 8 units of time | violates `ShutsDownOnSchedule` |

Why the bounds are enough. Two clients give every relation the decisions
distinguish (alone or not, first or last to finish, ahead or behind, one idle and
one gone). Three stages give a stage before, at and after the last one, and a
retriable one after a plain one. The pipeline reads of the clients only who
recorded and how the challenge ended, so its runs have one client and spend their
states on stages, attempts and late reports instead: two attempts of one trigger
make a report late, two stages make runs queue behind each other while the
challenge moves on. Three
faults let a holder stall, its replacement die and a reply get lost; epochs are
bounded by faults. Three messages are a create and two that interleave with what a
restart changes; the safety properties of `actor_recovery` were also explored
with four. In `lifecycle_stages` reports of finished stages are limited to stages
reached (`InOrder`), because `lifecycle_skipahead` shows what happens without.

For the older server, messages are counted together with the connections that
open (`MaxSends`): three let a client start a challenge, another join it and
either of them finish it, report a stage or come back while the worker is between
any two steps. One background task next to the timeout task is the smallest
number at which two workers meet on a challenge; two tasks were explored apart
(1 client, 1 challenge, 4 messages: 5 068 327 states, no violation), and the
theorems hold for any number. Five postings let a key be posted, lost, repeated
while the first is still running and repeated again after another posting moved
the same balances. `server_override` ends at its violation; with the property
taken out, the same instance has 2 171 681 states, every action fires, and
`AnnouncedHasTime` holds.

`CHECK_DEADLOCK FALSE` is set where the system may stop: an actor with an active
client that stays silent has no deadline and rightly waits for ever; the
older server, the ledger and the socket server stop when clients and callers
have sent all they may send.

### Fairness

- `ChallengeLifecycle`: each of the two timers is fair. A deadline that stays
  derived keeps its time (`since` and `dormant_since` are set on entering the
  window, `queued_at` and `started_at` on entering the run's state), the actor
  sleeps until the earlier one, so each is handled eventually. Clients and
  processing tasks need not do anything.
- `ChallengeActor`: the actor's own steps are fair; after a crash another actor
  boots, which `OrphanIsAdopted` of `ChallengeLease` provides. Faults are bounded
  by `MaxFaults`. The biased `select` only favours the inbox.
- `ChallengeLease`: time passes a lease nobody renews, the scans of a surviving
  server recur, a task that is not waiting is scheduled, and the renewal tick of
  a fenced-off idle task comes. Commands need not come.

- `Ledger`: a session that can execute its next statement does so (`Serve` per
  session); PostgreSQL grants a row lock or reports the conflict once the
  session waited for has ended. Callers need not send anything.
- `ChallengeManager` and `ServerManager` state no fairness: their properties are
  safety properties.

### Disagreements found

Each is a violation run with the quoted line in `PROJECT.json`.

1. `lifecycle_skipahead`: a completion reported for a stage ahead of the current
   one seals it; when the stage is really played it is sealed a second time. The
   simulator asserts no attempt is sealed twice.
2. `actor_lostreply`: `append` is retried after a lost reply and the batch lands
   twice. A repeated `ProcessingFinished` settles the next trigger without running
   it, as `apply` does not compare the entry's trigger with the active run's.
3. `actor_stageends`: after a crash between journaling a settled stage run and
   announcing it, its end is never announced and its stream stays until deletion.

4. `ledger_accounts`: `getOrCreateUserAccount` catches the unique violation of its
   INSERT and looks the account up in the same transaction, which PostgreSQL has
   aborted. The loser of the race gets an error instead of the account its comment
   promises.
5. `server_override`: a forced schedule overwrites the handle of the earlier
   timer without clearing it. The server goes down at the earlier time although it
   announces the later one, and no cancellation can reach that timer any more.

Two related observations have no run of their own: the published cursor goes back
on resume to the journal's cursor, and the finish of a challenge may be announced
twice (crash before deletion) or never (announcement fails for good); `FinishIsFinal`
only says that nothing is journaled after an announcement.

Observations on the older challenge server, all reachable in `ChallengeManager`:

- `finish` overwrites a pending stage end timer by a cleanup or reconnection
  timer, and `update` overwrites a reconnection timer by a stage end timer.
- `update` clears a cleanup timer before it finds that the sender is not a member:
  a challenge nobody is in is then left without a timer (`cut`).
- Overlapping completions of stages clear `processingStage` for each other, so a
  cleanup may go on while another merge runs, although the comment at
  `challenge-manager.ts:1757-1759` claims sole ownership. The finalisation itself
  happens once all the same (`FinishedOnce`), but its data may be deleted under
  a completion that was forced to its end.
- A restart between closing a challenge and finalising it makes the next cleanup
  delete it unfinished, as a "previously failed cleanup": `FinishedOnce` is at most once.
- A restart between creating and initialising a challenge leaves the party's
  newest challenge initialising for ever, and the party cannot start another.
- A client that starts another challenge stays an active member of the old one,
  which is then never cleaned up. Pointers of clients outlive their challenge.
- A stage end timer with an unknown stage is not cleared by its handler.

Observations on the socket server's manager, all reachable in `ServerManager`:

- `cancelShutdown` during a drain (the deadline of a drain counts as a pending
  shutdown) clears the deadline but not the drain: starts are allowed again, and
  at the next tick `hasDrained` reads the null deadline while clients remain. The
  rejection of `runDrain` is handled nowhere, which ends a Node process
  (`LookThrows`).
- The timer that returns the status to RUNNING ten seconds after a cancellation
  is never cleared: a drain or shutdown scheduled meanwhile is shown as RUNNING, a
  draining instance passes its health check and takes connections again.
- A cancellation in the last two seconds still goes offline.
- A drain cancelled and started again within a tick runs two loops.
- A connection let in before a drain begins may complete during it (`Upgrade`), and
  a challenge that passed the block on starts may begin during it.

On the ledger: the trigger and the procedure's MISSING_SNAPSHOT have the same error
code, BL104, so a rejected balance would be logged as a missing snapshot.
`TestedFundsSuffice` says that it does not come to that.

## Proofs

For every value of the constants that the modules' assumptions allow (any servers,
sessions, clients, tasks, bounds and faults, with and without lost replies):

| Theorem | Module | Property |
|---|---|---|
| `TypeCorrect` | `ChallengeLifecycle_proofs` | `TypeOK` |
| `ClientsStayBehind` | `ChallengeLifecycle_proofs` | `ClientNeverAhead` |
| `NobodyStranded` | `ChallengeLifecycle_proofs` | `NeverStranded` |
| `PipelineCloses` | `ChallengeLifecycle_proofs` | `FinishClosesPipeline` |
| `FinalStatusStored` | `ChallengeLifecycle_proofs` | `FinishStoresFinalStatus` |
| `NeverBack` | `ChallengeLifecycle_proofs` | `NeverGoesBack` |
| `OwnAttemptSettles` | `ChallengeLifecycle_proofs` | `SettledByItsOwnAttempt` |
| `SealsOnce` | `ChallengeLifecycle_proofs` | `SealedAtMostOnce`, if `InOrder` |
| `StagesKept` | `ChallengeLifecycle_proofs` | `NoStageLost`, if `InOrder` |
| `WindowOpens` | `ChallengeLifecycle_proofs` | `CompletionOpensWindow`, if `InOrder` |
| `ActorTypes` | `ChallengeActor_proofs` | `TypeOK` |
| `RedeliveredSafely` | `ChallengeActor_proofs` | `RedeliveryIsHarmless` |
| `PublishedBeforeWaiting` | `ChallengeActor_proofs` | `WaitsPublished` |
| `StreamsSurvive` | `ChallengeActor_proofs` | `RunSeesItsStream`, if `ReportsInOrder` |
| `TypeCorrect` | `ChallengeLease_proofs` | `TypeOK` |
| `JournalIsOneHistory` | `ChallengeLease_proofs` | `OneHistory` |
| `HolderStaysCurrent` | `ChallengeLease_proofs` | `HolderIsCurrent` |
| `ProjectionMonotone` | `ChallengeLease_proofs` | `ProjectionNeverRegresses` |
| `FinishAnnouncedAtEnd` | `ChallengeLease_proofs` | `FinishIsFinal` |
| `ServerRunsOneTask` | `ChallengeLease_proofs` | `OneTaskPerServer` |
| `ImplementsJournalLog` | `ChallengeLeaseRefines_proofs` | `SingleWriter` |
| `TypeCorrect` | `Ledger_proofs` | `TypeOK` |
| `KeysAppliedOnce` | `Ledger_proofs` | `KeyAppliedOnce` |
| `RepeatsAnswerAlike` | `Ledger_proofs` | `SameAnswer` |
| `BooksAddUp` | `Ledger_proofs` | `RunningBalance` |
| `NeverOverdrawn` | `Ledger_proofs` | `NoOverdraft` |
| `TestedThenSpent` | `Ledger_proofs` | `TestedFundsSuffice` |
| `NoCoinLost` | `Ledger_proofs` | `Conserved` |
| `LocksAscend` | `Ledger_proofs` | sessions that wait for rows wait in ascending order |
| `FinalisedOnce` | `ChallengeManager_proofs` | `FinishedOnce` |
| `AttemptMergedOnce` | `ChallengeManager_proofs` | `MergedOnce` |
| `TypeCorrect` | `ChallengeManager_proofs` | `TypeOK` |
| `EmptyEnds` | `ChallengeManager_proofs` | `EmptyIsTimed` |
| `AnnouncementsHaveTime` | `ServerManager_proofs` | `AnnouncedHasTime` |

**Lifecycle.** From `CoreAssumption`, `LifecycleAssumption` and `RetriableIsLast`: a
retriable stage is the last one of its challenge type, which is what
`is_retriable` (`types.rs:389`, true of `MokhaiotlDelve8plus` only) comes to. The
invariant of the challenge itself is `Good`: its fields have their types (`State`),
the pipeline is numbered, in order, and closed by nothing but one finish trigger
(`PipelineOK`), and no client is ahead of the challenge (`PositionOK`). A decision is a batch of up to five entries, and
no entry keeps `Good` whatever state it is applied to; so the argument goes entry by
entry. `Fits(s, e)` says what an entry presupposes, a lemma for each kind of entry that
applying it keeps `Good`, and a lemma for each decision (`UpdateFits`, `CloseFits`,
...) that every entry of its batch fits the state its predecessors lead to
(`EachFits`). `Inv` adds that a challenge nobody records has its dormancy noted
(`DormantOK`), and the histories. `SealedAtMostOnce` and `NoStageLost` are not
inductive by themselves: that a sealed stage is not sealed again needs to know
where the challenge stands when it has been sealed and that what was
started does not lie ahead of it (`HistoryOK`); that a completion opens the window needs the
clients that completed the current attempt to have told it (`CompletionOK`).
`BatchRecorded` carries both through the batches. The three theorems on
histories assume `InOrder`; `lifecycle_skipahead` shows that the first fails
without. The other seven hold for clients that report in any order.

**Actor.** From the same assumptions on the challenge and `ActorAssumption`: the inbox
begins with a create and holds only what clients may send after it (START queues the create
of a challenge that does not exist yet, `redis/scripts.rs`), and runs answer with
results of the type in `types.rs`. The theorems are about `Spec`; under `LossySpec` a
repeated append settles a run that never was (`actor_lostreply`), and nothing is proved
of it. `RedeliveryIsHarmless` is not inductive: a batch may be journaled while messages
that were handled before it lie behind the journal's cursor. It changes what those
messages would do, so it has to be shown that it does not give them an effect:

- A batch that is caused by a message moves the cursor past every message handled
  (`CursorsOK`, `BatchOK`). So what is left to show concerns the batches of
  deadlines and reports.
- Such a batch consists of seals, removals, the termination and processing entries
  only (`AllCalm`), and what these do to a challenge is `Calmer`: its mode,
  party and stage stay, clients only go, those who stay are as they were, and a
  terminated one stays terminated.
- `HarmlessKept`: a message without effect on a challenge has none on a calmer one.
  This goes through every kind of message and every guard of its decision.
- After a restart the actor reads on from the journal's cursor with the journal's state
  (`ActorOK`); it handles the old messages before any new one, and by `HarmlessKept`
  each as one without effect until it has caught up with `handled`.

`PublishedOK` is `WaitsPublished` with the step before it. For `RunSeesItsStream`,
`StreamsOK` follows the streams of triggers: those of waiting triggers
(`Waiting`: active or pending) are closed, or are about to be by the actor at `mark`;
after a crash `Remark` closes them before anything is spawned; and only streams of
settled triggers are deleted. That a settled stream is not the one being worked on needs
`StagesOnce`: no attempt of a stage is queued twice. `ReportsInOrder` gives it, as
`InOrder` does in the lifecycle: the next message the actor takes does not report the end
of a stage ahead of its own. Without it the stage that
`lifecycle_skipahead` seals twice has its stream deleted by the first run before the
second one reads it. In `actor_recovery` it always holds, as the one stage is
reached by the create.

**Lease.** The proofs rest on `LeaseAssumption` alone. The inductive invariant is `IInv`:
`TypeOK`, the fence is the newest epoch of a live challenge (`FenceIsNewest`), no
batch carries an epoch that was not issued (`EpochsIssued`), what the holder's
counter, batch and retries say about the journal at each of its steps
(`HolderOK`), `OneHistory`, and `projected <= NextSeq(journal)`. `OneHistory` alone
is not inductive: that the next append fits needs to know that a task which is
about to append and still holds the fence decided on the whole journal.
`HolderOK` says so step by step, and survives because a journal grows only through
the holder, while a claim makes a task holder that has yet to load.

The refinement maps the journal without its epochs to `log` and `phase = "GONE"`
to `deleted`. From `IInv` and the bound on batches (`BatchBounded`) the holder's
append is an `Extend`, or a `Repeat` after a lost reply, its deletion is the
`Remove`, and every other step is a stutter. `OneTaskPerServer` and `FinishIsFinal`
have inductive proofs of their own over `TypeOK` and `IInv`.

**Ledger.** From `LedgerAssumption`. `Core` is `TypeOK` with what a session that opens
an account knows (`Opening`) and what locks mean (`Locking`: a row is held by one
session, and a session holds every row below the next one it locks). Upon
`Core` stand three strengthenings: `Keys`, that a key in a running posting is
neither posted nor in another one, which is what inserting the key before anything
else achieves; `Answered`, that every answer on its way or received is recorded in
the books; and `Written`, that the balances a session has written and not committed
are those of the books plus its amounts, and that what it has tested is there,
because it holds the rows. `BooksAddUp`, `NeverOverdrawn` and `TestedThenSpent`
follow from `Written`: without the locks the tested balance is not the one that is
spent. `NoCoinLost` needs that the amounts of a running posting sum to zero
(`Balanced`: they were checked before its key was inserted and are not touched
since), and what the total of a function is when amounts are added (`TotalAdds`).
`Total` folds over a set of accounts of any size: that its sums are defined and do
not depend on the order is induction over data, which is done here without the
library's induction theorems, by taking a smallest set that is a counterexample (`Smallest`,
`SmallestSet`). `LocksAscend` follows from `Locking`. That no circle of
waits exists is its consequence; that every request then ends needs fairness and
stays with TLC.

**Older challenge server.** From `ManagerAssumption`. `FinishedOnce` needs that a
challenge on its way into the database is in the hands of one worker
(`OneCloser`): a worker gets it by closing the hash of a live challenge in one
transaction, so two cannot. For that nobody may bring a closed hash back, which
the code rules out because only the request that drew a uuid initialises it. The
parts about clients, events, timers, workers and requests (`ClientsOK` to
`RequestsOK`) say that whatever they refer to is past its creation (`Known`).
`ClaimsOK` says the same of attempts: merged attempts were claimed, a worker that
reads a stream for merging has claimed an attempt not yet merged, and it is the only one.
`EmptyIsTimed` is not inductive: an empty challenge with a stage end timer would
lose it in stage completion, which puts no other in its place. `Timed` says that the timer of an
empty challenge outside `cut` is one that ends it (`EndTimer`): whoever removes
the last client sets one, in place of a stage end timer too.
`Typed` strengthens `TypeOK` by the stage of a hash that exists, which new
clients copy, by what requests carry and by the retries that a cleanup has in
hand: one that takes a retry off has at least one, so the result is no `NoTimer`.

**Socket server's manager.** The theorem assumes that times are integers and null is
none. It covers the code's non-null assertions on `shutdownTime` in announcements;
the one in `hasDrained` does not hold, see above.

## Not modelled, and what stays with TLC

Liveness is model-checked only, for ENABLED is beyond the installed provers; every
invariant and action property of the passing runs is a theorem. The folding of a
journal is proved about entry by entry: `LifecycleCore` folds the entries of one
decision, which are at most five.

Not modelled: sessions, routing and the snapshot cache of the Rust server, the
database guard, the message queues of connections and the live server (see the
plan); the effect runner, whose tasks a timer runs one at a time and which is
stopped once; the older server's sessions, webhooks and player statistics;
what processing computes from game events and how recordings are
merged (sequential data processing), HTTP and websocket decoding, metrics,
storage back ends, the web pages. Poking the session after a command is left to
the sessions module.

## Plan

In this order; each module with its own instance, run and mutants, in place of a
run that shows less.

1. `SnapshotCache`: the coordinator's cache, its signals, waiters and the
   deletion. A waiter gets a state that includes its command; a cached phase
   catches up with the published one.
2. `Routing` and `Sessions`: START's choice, REJOIN, CLIENT_SEND, DELETE, sweep
   and finalize over two challenges. A routing key names a live challenge; a
   session with a live challenge is not finalized.
3. `ProcessingGuard`: transactions of overlapping attempts of one run; a run is
   applied once.
4. `ClientConnection`: the socket server's clients, queues and reconnection.
5. `LiveFeed`.
