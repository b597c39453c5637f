-------------------------- MODULE LifecycleCore_proofs --------------------------
(***************************************************************************)
(* What one journal entry does to a challenge, for any clients, stages and  *)
(* bounds: lemmas about the operators of LifecycleCore on which the proofs  *)
(* about ChallengeLifecycle rest.                                           *)
(***************************************************************************)
EXTENDS LifecycleCore, SequenceTheorems, TLAPS

-----------------------------------------------------------------------------
(* Types                                                                     *)

ClientMap == UNION {[C -> ClientRecord] : C \in SUBSET Client}

Kinds == {"Create", "Recorder", "StageStart", "Mode", "Stage", "Finish"}

Pipeline ==
    [active : RunRecord \cup {NoRun}, pending : Seq(TriggerRecord),
     completed : Seq(TriggerRecord), finishQueued : BOOLEAN,
     status : ChallengeStatus \cup {"NONE"}]

State ==
    [created : BOOLEAN, mode : Mode \cup {NoMode}, partyChanged : BOOLEAN,
     phase : {"Active", "Finishing", "Terminated"}, stage : Stage \cup {0},
     attempt : Nat, status : StageStatus,
     stageState : {"InProgress", "Ending", "Complete"}, clients : ClientMap,
     recordedBy : SUBSET Client, dormant : BOOLEAN, processing : Pipeline]

\* A map of clients is a function from some of them to their records.
LEMMA ClientMapDef ==
    ASSUME NEW m
    PROVE  m \in ClientMap <=> /\ DOMAIN m \subseteq Client
                               /\ m \in [DOMAIN m -> ClientRecord]
  <1>1. ASSUME m \in ClientMap
        PROVE  DOMAIN m \subseteq Client /\ m \in [DOMAIN m -> ClientRecord]
    <2>1. PICK C \in SUBSET Client : m \in [C -> ClientRecord]
      BY <1>1 DEF ClientMap
    <2> QED BY <2>1
  <1>2. ASSUME DOMAIN m \subseteq Client, m \in [DOMAIN m -> ClientRecord]
        PROVE  m \in ClientMap
    BY <1>2 DEF ClientMap
  <1> QED BY <1>1, <1>2

-----------------------------------------------------------------------------
(* The pipeline                                                              *)

\* A pipeline without an active run has nothing pending, its triggers are
\* numbered in the order they were queued, and the finish trigger is the last.
Ordered(p) ==
    /\ p.active = NoRun => p.pending = <<>>
    /\ p.active # NoRun => p.active.retriable
    /\ \A i \in DOMAIN Triggers(p) : Triggers(p)[i].seq = i
    /\ \A i \in DOMAIN Triggers(p) :
         Triggers(p)[i].kind = "Finish" => p.finishQueued /\ i = Len(Triggers(p))
    /\ p.finishQueued =>
         /\ p.pending = <<>> /\ Triggers(p) # <<>>
         /\ Triggers(p)[Len(Triggers(p))].kind = "Finish"

LEMMA ActiveRun ==
    ASSUME NEW p \in Pipeline
    PROVE  p.active # NoRun <=> p.active \in RunRecord
  BY DEF Pipeline, RunRecord, NoRun

LEMMA TriggersTyped ==
    ASSUME NEW p \in Pipeline
    PROVE  /\ Triggers(p) \in Seq(TriggerRecord)
           /\ p.active = NoRun => Triggers(p) = p.completed \o p.pending
           /\ p.active # NoRun =>
                Triggers(p) = p.completed \o <<p.active.trigger>> \o p.pending
  <1>1. p.active # NoRun => p.active.trigger \in TriggerRecord
    BY ActiveRun DEF RunRecord
  <1>2. p.completed \in Seq(TriggerRecord) /\ p.pending \in Seq(TriggerRecord)
    BY DEF Pipeline
  <1>3. CASE p.active = NoRun
    <2>1. Triggers(p) = p.completed \o <<>> \o p.pending
      BY <1>3 DEF Triggers
    <2>2. p.completed \o <<>> = p.completed
      BY <1>2, ConcatEmptySeq
    <2> QED BY <1>2, <1>3, <2>1, <2>2, ConcatProperties
  <1>4. CASE p.active # NoRun
    <2>1. Triggers(p) = p.completed \o <<p.active.trigger>> \o p.pending
      BY <1>4 DEF Triggers
    <2>2. <<p.active.trigger>> \in Seq(TriggerRecord)
      BY <1>1, <1>4
    <2>3. p.completed \o <<p.active.trigger>> \in Seq(TriggerRecord)
      BY <1>2, <2>2, ConcatProperties
    <2>4. Triggers(p) \in Seq(TriggerRecord)
      BY <1>2, <2>1, <2>3, ConcatProperties
    <2> QED BY <1>4, <2>1, <2>4
  <1> QED BY <1>3, <1>4

LEMMA ConcatRegroup ==
    ASSUME NEW S, NEW a \in Seq(S), NEW b \in Seq(S), NEW c \in Seq(S)
    PROVE  a \o (b \o c) = (a \o b) \o c
  BY ConcatAssociative

LEMMA AppendLast ==
    ASSUME NEW S, NEW a \in Seq(S), NEW y \in S, NEW c \in Seq(S), NEW x \in S
    PROVE  a \o <<y>> \o Append(c, x) = Append(a \o <<y>> \o c, x)
  <1> DEFINE b == <<y>>
  <1>0. b \in Seq(S)
    OBVIOUS
  <1> HIDE DEF b
  <1>1. a \o b \in Seq(S) /\ a \o b \o c \in Seq(S) /\ <<x>> \in Seq(S)
    BY <1>0, ConcatProperties
  <1>2. /\ Append(c, x) = c \o <<x>>
        /\ Append(a \o b \o c, x) = (a \o b \o c) \o <<x>>
    BY <1>1, AppendIsConcat
  <1>3. (a \o b) \o (c \o <<x>>) = ((a \o b) \o c) \o <<x>>
    BY <1>1, ConcatAssociative
  <1>4. a \o b \o Append(c, x) = Append(a \o b \o c, x)
    BY <1>2, <1>3
  <1> QED BY <1>4 DEF b

\* A new trigger is numbered after all the others.
LEMMA NewTrigger ==
    ASSUME NEW p \in Pipeline, NEW kind \in Kinds, NEW stage \in Stage, NEW attempt \in Nat,
           NEW info \in ChallengeStatus
    PROVE  LET t == Trigger(p, kind, stage, attempt, info)
           IN  /\ t \in TriggerRecord /\ t.seq = Len(Triggers(p)) + 1
               /\ t.kind = kind /\ t.info = info
               /\ NewRun(t) \in RunRecord /\ NewRun(t).trigger = t /\ NewRun(t).retriable
  <1>1. Len(Triggers(p)) \in Nat
    BY TriggersTyped, LenProperties
  <1> QED BY <1>1 DEF Trigger, TriggerRecord, NewRun, RunRecord, Kinds

\* A push queues one trigger behind all the others, or none when processing is
\* switched off.
LEMMA PushAppends ==
    ASSUME NEW p \in Pipeline, NEW kind \in Kinds, NEW stage \in Stage, NEW attempt \in Nat,
           NEW info \in ChallengeStatus, p.active = NoRun => p.pending = <<>>
    PROVE  LET q == Push(p, kind, stage, attempt, info)
           IN  /\ q \in Pipeline /\ q.completed = p.completed /\ q.status = p.status
               /\ MaxAttempts = 0 => q = p
               /\ MaxAttempts # 0 =>
                    /\ Triggers(q) = Append(Triggers(p), Trigger(p, kind, stage, attempt, info))
                    /\ q.finishQueued = (p.finishQueued \/ kind = "Finish")
                    /\ q.active # NoRun
                    /\ p.active = NoRun => q.pending = <<>> /\ q.active.retriable
                    /\ p.active # NoRun => q.active = p.active
  <1> DEFINE t == Trigger(p, kind, stage, attempt, info)
             q == Push(p, kind, stage, attempt, info)
  <1>1. /\ t \in TriggerRecord
        /\ NewRun(t) \in RunRecord /\ NewRun(t).trigger = t /\ NewRun(t).retriable
    BY NewTrigger
  <1>2. CASE MaxAttempts = 0
    BY <1>2 DEF Push
  <1> HIDE DEF t, q
  <1>3. CASE MaxAttempts # 0 /\ p.active = NoRun
    <2>1. q = [active |-> NewRun(t), pending |-> p.pending, completed |-> p.completed,
               finishQueued |-> p.finishQueued \/ kind = "Finish", status |-> p.status]
      BY <1>3 DEF Push, Pipeline, t, q
    <2>2. /\ q \in Pipeline /\ q.active = NewRun(t) /\ q.active # NoRun
          /\ q.completed = p.completed /\ q.pending = p.pending /\ q.status = p.status
          /\ q.finishQueued = (p.finishQueued \/ kind = "Finish")
      BY <1>1, <2>1 DEF Pipeline, RunRecord, NoRun
    <2>3. p.pending = <<>> /\ p.completed \in Seq(TriggerRecord)
      BY <1>3 DEF Pipeline
    <2>4. Triggers(q) = p.completed \o <<t>> \o <<>>
      BY <1>1, <2>2, <2>3, TriggersTyped
    <2>5. Triggers(p) = p.completed \o <<>>
      BY <1>3, <2>3, TriggersTyped
    <2>6. Triggers(q) = Append(Triggers(p), t)
      BY <1>1, <2>3, <2>4, <2>5
    <2> QED BY <1>1, <1>3, <2>2, <2>3, <2>6 DEF t, q
  <1>4. CASE MaxAttempts # 0 /\ p.active # NoRun
    <2>1. q = [active |-> p.active, pending |-> Append(p.pending, t), completed |-> p.completed,
               finishQueued |-> p.finishQueued \/ kind = "Finish", status |-> p.status]
      BY <1>4 DEF Push, Pipeline, t, q
    <2>2. p.pending \in Seq(TriggerRecord) /\ p.completed \in Seq(TriggerRecord)
      BY DEF Pipeline
    <2>3. Append(p.pending, t) \in Seq(TriggerRecord)
      BY <1>1, <2>2, AppendProperties
    <2>4. /\ q \in Pipeline /\ q.active = p.active
          /\ q.completed = p.completed /\ q.pending = Append(p.pending, t)
          /\ q.status = p.status /\ q.finishQueued = (p.finishQueued \/ kind = "Finish")
      BY <2>1, <2>3 DEF Pipeline
    <2>5. p.active.trigger \in TriggerRecord
      BY <1>4, ActiveRun DEF RunRecord
    <2>6. Triggers(q) = p.completed \o <<p.active.trigger>> \o Append(p.pending, t)
      BY <1>4, <2>4, TriggersTyped
    <2>7. Triggers(p) = p.completed \o <<p.active.trigger>> \o p.pending
      BY <1>4, TriggersTyped
    <2>8. p.completed \o <<p.active.trigger>> \o Append(p.pending, t)
            = Append(p.completed \o <<p.active.trigger>> \o p.pending, t)
      <3> DEFINE a == p.completed
                 y == p.active.trigger
                 c == p.pending
      <3>1. a \in Seq(TriggerRecord) /\ y \in TriggerRecord /\ c \in Seq(TriggerRecord)
        BY <2>2, <2>5
      <3> HIDE DEF a, y, c
      <3>2. a \o <<y>> \o Append(c, t) = Append(a \o <<y>> \o c, t)
        BY <1>1, <3>1, AppendLast
      <3> QED BY <3>2 DEF a, y, c
    <2>9. Triggers(q) = Append(Triggers(p), t)
      BY <2>6, <2>7, <2>8
    <2> QED BY <1>4, <2>4, <2>9 DEF t, q
  <1> QED BY <1>2, <1>3, <1>4

\* Pushing keeps the order, as long as the finish trigger is pushed into a
\* settled pipeline and nothing is pushed behind it.
LEMMA PushOrdered ==
    ASSUME NEW p \in Pipeline, NEW kind \in Kinds, NEW stage \in Stage, NEW attempt \in Nat,
           NEW info \in ChallengeStatus, Ordered(p), ~p.finishQueued,
           kind = "Finish" => p.active = NoRun
    PROVE  LET q == Push(p, kind, stage, attempt, info)
           IN  /\ q \in Pipeline /\ Ordered(q)
               /\ q.completed = p.completed /\ q.status = p.status
               /\ q.finishQueued => kind = "Finish" /\ Triggers(q)[Len(Triggers(q))].info = info
               /\ kind = "Finish" /\ MaxAttempts # 0 => q.finishQueued
               /\ MaxAttempts # 0 => q.active # NoRun
  <1> DEFINE t == Trigger(p, kind, stage, attempt, info)
             q == Push(p, kind, stage, attempt, info)
             ts == Triggers(p)
             us == Triggers(q)
  <1>1. /\ q \in Pipeline /\ q.completed = p.completed /\ q.status = p.status
        /\ MaxAttempts = 0 => q = p
        /\ MaxAttempts # 0 => /\ us = Append(ts, t)
                              /\ q.finishQueued = (p.finishQueued \/ kind = "Finish")
                              /\ q.active # NoRun
                              /\ p.active = NoRun => q.pending = <<>> /\ q.active.retriable
                              /\ p.active # NoRun => q.active = p.active
    BY PushAppends DEF Ordered
  <1>2. t \in TriggerRecord /\ t.seq = Len(ts) + 1 /\ t.kind = kind /\ t.info = info
    BY NewTrigger
  <1>3. ts \in Seq(TriggerRecord)
    BY TriggersTyped
  <1> HIDE DEF t, q, ts, us
  <1>4. CASE MaxAttempts = 0
    BY <1>1, <1>4 DEF q
  <1>5. CASE MaxAttempts # 0
    <2>1. /\ us \in Seq(TriggerRecord) /\ Len(us) = Len(ts) + 1 /\ DOMAIN us = 1..Len(ts) + 1
          /\ us[Len(us)] = t /\ \A i \in 1..Len(ts) : us[i] = ts[i]
          /\ DOMAIN ts = 1..Len(ts) /\ Len(ts) \in Nat
      BY <1>1, <1>2, <1>3, <1>5, AppendProperties, LenProperties
    <2>2. /\ \A i \in DOMAIN ts : ts[i].seq = i
          /\ \A i \in DOMAIN ts : ts[i].kind # "Finish"
      BY DEF Ordered, ts
    <2>3. \A i \in DOMAIN us : us[i].seq = i
      BY <1>2, <2>1, <2>2
    <2>4. \A i \in DOMAIN us : us[i].kind = "Finish" => i = Len(us) /\ kind = "Finish"
      BY <1>2, <2>1, <2>2
    <2>5. q.finishQueued = (kind = "Finish")
      BY <1>1, <1>5
    <2>6. us # <<>>
      BY <2>1
    <2>7. q.finishQueued => q.pending = <<>> /\ us[Len(us)].kind = "Finish"
      BY <1>1, <1>2, <1>5, <2>1, <2>5
    <2>8. q.active.retriable /\ q.active # NoRun
      BY <1>1, <1>5 DEF Ordered
    <2>9. Ordered(q)
      BY <2>3, <2>4, <2>5, <2>6, <2>7, <2>8 DEF Ordered, us
    <2> QED BY <1>1, <1>2, <1>5, <2>1, <2>5, <2>9 DEF q, us
  <1> QED BY <1>4, <1>5

\* An attempt starts: the triggers stay as they are.
LEMMA StartRunKeeps ==
    ASSUME NEW p \in Pipeline, NEW seq, Ordered(p)
    PROVE  LET q == StartRun(p, seq)
           IN  /\ q \in Pipeline /\ Ordered(q) /\ Triggers(q) = Triggers(p)
               /\ q.completed = p.completed /\ q.status = p.status
               /\ q.finishQueued = p.finishQueued
               /\ q.active = NoRun <=> p.active = NoRun
               /\ q.pending = p.pending
  <1> DEFINE q == StartRun(p, seq)
             r == [p.active EXCEPT !.attempts = @ + 1, !.running = TRUE]
  <1>1. CASE p.active # NoRun /\ p.active.trigger.seq = seq
    <2>1. p.active \in RunRecord
      BY <1>1, ActiveRun
    <2>2. /\ r \in RunRecord /\ r.trigger = p.active.trigger
          /\ r.retriable = p.active.retriable
      <3>1. ASSUME NEW a \in RunRecord, NEW n \in Nat
            PROVE  LET b == [a EXCEPT !.attempts = n, !.running = TRUE]
                   IN  b \in RunRecord /\ b.trigger = a.trigger /\ b.retriable = a.retriable
        BY DEF RunRecord
      <3>2. p.active.attempts + 1 \in Nat
        BY <2>1 DEF RunRecord
      <3> QED BY <2>1, <3>1, <3>2
    <2>3. q = [p EXCEPT !.active = r]
      BY <1>1, <2>1 DEF StartRun, RunRecord, Pipeline
    <2> HIDE DEF q, r
    <2>4. /\ q \in Pipeline /\ q.active = r /\ q.pending = p.pending
          /\ q.completed = p.completed /\ q.status = p.status
          /\ q.finishQueued = p.finishQueued
      BY <2>2, <2>3 DEF Pipeline
    <2>5. q.active # NoRun
      BY <2>2, <2>4, ActiveRun
    <2>6. Triggers(q) = Triggers(p)
      BY <1>1, <2>2, <2>4, <2>5, TriggersTyped
    <2>7. Ordered(q)
      BY <1>1, <2>2, <2>4, <2>5, <2>6 DEF Ordered
    <2> QED BY <1>1, <2>4, <2>5, <2>6, <2>7 DEF q
  <1>2. CASE ~(p.active # NoRun /\ p.active.trigger.seq = seq)
    BY <1>2 DEF StartRun
  <1> QED BY <1>1, <1>2

LEMMA HeadMoves ==
    ASSUME NEW S, NEW a \in Seq(S), NEW y \in S, NEW c \in Seq(S), c # <<>>
    PROVE  Append(a, y) \o <<Head(c)>> \o Tail(c) = a \o <<y>> \o c
  <1> DEFINE b == <<y>>
             h == <<Head(c)>>
             l == Tail(c)
  <1>1. Head(c) \in S /\ l \in Seq(S) /\ h \in Seq(S) /\ b \in Seq(S)
    BY HeadTailProperties
  <1>2. h \o l = c
    <2>1. h \o l \in Seq(S) /\ Len(h \o l) = Len(c)
      BY <1>1, HeadTailProperties, ConcatProperties
    <2>2. \A i \in 1..Len(c) : (h \o l)[i] = c[i]
      BY <1>1, HeadTailProperties, ConcatProperties
    <2> QED BY <2>1, <2>2, SeqEqual
  <1>3. Append(a, y) = a \o b
    BY AppendIsConcat
  <1> HIDE DEF b, h, l
  <1>4. a \o b \in Seq(S)
    BY <1>1, ConcatProperties
  <1>5. (a \o b) \o (h \o l) = ((a \o b) \o h) \o l
    <2> DEFINE g == a \o b
    <2>1. g \in Seq(S)
      BY <1>4
    <2>2. h \in Seq(S)
      BY <1>1
    <2>3. l \in Seq(S)
      BY <1>1
    <2> HIDE DEF g
    <2>4. g \o (h \o l) = (g \o h) \o l
      BY ONLY <2>1, <2>2, <2>3, ConcatRegroup
    <2> QED BY <2>4 DEF g
  <1>6. Append(a, y) \o h \o l = a \o b \o c
    BY <1>2, <1>3, <1>5
  <1> QED BY <1>6 DEF b, h, l

\* A settled run moves to the completed triggers and the next one becomes
\* active: the sequence of all triggers does not change.
LEMMA CompleteRunKeeps ==
    ASSUME NEW p \in Pipeline, p.active # NoRun
    PROVE  LET q == CompleteRun(p)
           IN  /\ q \in Pipeline /\ Triggers(q) = Triggers(p)
               /\ q.finishQueued = p.finishQueued /\ q.status = p.status
               /\ q.active = NoRun => q.pending = <<>>
               /\ q.active # NoRun => q.active.retriable
               /\ p.pending = <<>> => q.active = NoRun /\ q.pending = <<>>
  <1> DEFINE q == CompleteRun(p)
             t == p.active.trigger
             next == IF p.pending = <<>> THEN NoRun ELSE NewRun(Head(p.pending))
             rest == IF p.pending = <<>> THEN p.pending ELSE Tail(p.pending)
             done == Append(p.completed, t)
  <1>1. p.pending \in Seq(TriggerRecord) /\ p.completed \in Seq(TriggerRecord)
    BY DEF Pipeline
  <1>2. t \in TriggerRecord
    BY ActiveRun DEF RunRecord
  <1>3. rest \in Seq(TriggerRecord) /\ done \in Seq(TriggerRecord)
    BY <1>1, <1>2, HeadTailProperties, AppendProperties
  <1>4. /\ next \in RunRecord \cup {NoRun}
        /\ next = NoRun <=> p.pending = <<>>
        /\ next # NoRun => next.retriable /\ next.trigger = Head(p.pending)
    <2>1. p.pending # <<>> => Head(p.pending) \in TriggerRecord
      BY <1>1, HeadTailProperties
    <2> QED BY <2>1 DEF NewRun, RunRecord, NoRun
  <1>5. q = [p EXCEPT !.completed = done, !.active = next, !.pending = rest]
    BY DEF CompleteRun, Pipeline
  <1>r. p.pending # <<>> => rest = Tail(p.pending)
    OBVIOUS
  <1>n. p.pending = <<>> => rest = <<>>
    OBVIOUS
  <1>d. done = Append(p.completed, t)
    OBVIOUS
  <1> HIDE DEF q, next, rest, done
  <1>6. /\ q \in Pipeline /\ q.active = next /\ q.pending = rest /\ q.completed = done
        /\ q.finishQueued = p.finishQueued /\ q.status = p.status
    BY <1>1, <1>3, <1>4, <1>5 DEF Pipeline
  <1>7. Triggers(p) = p.completed \o <<t>> \o p.pending
    BY TriggersTyped
  <1>8. CASE p.pending = <<>>
    <2>1. Triggers(q) = done \o <<>>
      BY <1>4, <1>6, <1>n, <1>8, TriggersTyped
    <2>2. Triggers(p) = done \o <<>>
      BY <1>1, <1>2, <1>7, <1>8, <1>d, AppendIsConcat
    <2> QED BY <1>4, <1>6, <1>8, <1>n, <2>1, <2>2 DEF q
  <1>9. CASE p.pending # <<>>
    <2>1. Triggers(q) = done \o <<Head(p.pending)>> \o Tail(p.pending)
      BY <1>4, <1>6, <1>r, <1>9, TriggersTyped
    <2> DEFINE a == p.completed
               y == p.active.trigger
               c == p.pending
    <2>2. a \in Seq(TriggerRecord) /\ y \in TriggerRecord /\ c \in Seq(TriggerRecord) /\ c # <<>>
      BY <1>1, <1>2, <1>9
    <2> HIDE DEF a, y, c
    <2>3. Append(a, y) \o <<Head(c)>> \o Tail(c) = a \o <<y>> \o c
      BY <2>2, HeadMoves
    <2>4. Triggers(q) = Triggers(p)
      BY <1>7, <1>d, <2>1, <2>3 DEF a, y, c
    <2> QED BY <1>4, <1>6, <1>9, <2>4 DEF q
  <1> QED BY <1>8, <1>9

\* Once the finish trigger is queued, the run of a pipeline is the finish run.
LEMMA FinishIsActive ==
    ASSUME NEW p \in Pipeline, Ordered(p), p.finishQueued, p.active # NoRun
    PROVE  p.active.trigger.kind = "Finish"
  <1>1. p.active.trigger \in TriggerRecord /\ p.completed \in Seq(TriggerRecord)
    BY ActiveRun DEF RunRecord, Pipeline
  <1>2. Triggers(p) = p.completed \o <<p.active.trigger>> \o <<>>
    BY TriggersTyped DEF Ordered
  <1>3. Triggers(p) = Append(p.completed, p.active.trigger)
    BY <1>1, <1>2, AppendIsConcat
  <1>4. Triggers(p)[Len(Triggers(p))] = p.active.trigger
    BY <1>1, <1>3, AppendProperties
  <1> QED BY <1>4 DEF Ordered

\* The end of an attempt leaves the triggers as they are.  The run settles when
\* it succeeded, failed for good or has no attempts left.
LEMMA FinishRunKeeps ==
    ASSUME NEW p \in Pipeline, Ordered(p), NEW result \in ResultRecord, p.active # NoRun
    PROVE  LET q == FinishRun(p, result)
           IN  /\ q \in Pipeline /\ Ordered(q) /\ Triggers(q) = Triggers(p)
               /\ q.finishQueued = p.finishQueued
               /\ p.finishQueued => q.status = p.status
               /\ \/ q.completed = p.completed
                  \/ result.ok \/ ~result.retriable
                  \/ p.active.attempts >= AttemptsFor(p.active.trigger)
  <1> DEFINE q == FinishRun(p, result)
             run == p.active
             tired == [p EXCEPT !.active.retriable = @ /\ result.retriable]
             waiting == [tired EXCEPT !.active.running = FALSE]
             status == IF result.status = "NONE" THEN "NONE"
                       ELSE StatusIfFinishedNow(run.trigger.stage, result.status)
             settled == [p EXCEPT !.status = status]
  <1>1. run \in RunRecord /\ run.retriable
    BY ActiveRun DEF Ordered
  <1>2. /\ tired \in Pipeline /\ tired.active \in RunRecord
        /\ tired.active.trigger = run.trigger /\ tired.active.attempts = run.attempts
        /\ tired.active.retriable = result.retriable
        /\ tired.pending = p.pending /\ tired.completed = p.completed
        /\ tired.finishQueued = p.finishQueued /\ tired.status = p.status
    <2>1. ASSUME NEW a \in RunRecord, NEW b \in BOOLEAN
          PROVE  LET c == [a EXCEPT !.retriable = b]
                 IN  /\ c \in RunRecord /\ c.trigger = a.trigger
                     /\ c.attempts = a.attempts /\ c.retriable = b
      BY DEF RunRecord
    <2>2. (run.retriable /\ result.retriable) = result.retriable
          /\ result.retriable \in BOOLEAN
      BY <1>1 DEF ResultRecord
    <2>3. tired = [p EXCEPT !.active = [run EXCEPT !.retriable = result.retriable]]
      BY <2>2 DEF Pipeline
    <2>4. [run EXCEPT !.retriable = result.retriable] \in RunRecord
      BY <1>1, <2>1, <2>2
    <2> QED BY <1>1, <2>1, <2>2, <2>3, <2>4 DEF Pipeline
  <1>3. /\ waiting \in Pipeline /\ waiting.active \in RunRecord
        /\ waiting.active.trigger = run.trigger
        /\ waiting.active.retriable = result.retriable
        /\ waiting.pending = p.pending /\ waiting.completed = p.completed
        /\ waiting.finishQueued = p.finishQueued /\ waiting.status = p.status
    <2>1. ASSUME NEW a \in RunRecord
          PROVE  LET c == [a EXCEPT !.running = FALSE]
                 IN  /\ c \in RunRecord /\ c.trigger = a.trigger
                     /\ c.retriable = a.retriable
      BY DEF RunRecord
    <2> HIDE DEF tired
    <2>2. waiting = [tired EXCEPT !.active = [tired.active EXCEPT !.running = FALSE]]
      BY <1>2 DEF Pipeline
    <2>3. [tired.active EXCEPT !.running = FALSE] \in RunRecord
      BY <1>2, <2>1
    <2> QED BY <1>2, <2>1, <2>2, <2>3 DEF Pipeline
  <1>4. status \in ChallengeStatus \cup {"NONE"}
    BY DEF StatusIfFinishedNow, ChallengeStatus
  <1>5. /\ settled \in Pipeline /\ settled.active = run /\ settled.pending = p.pending
        /\ settled.completed = p.completed /\ settled.finishQueued = p.finishQueued
        /\ settled.status = status
    <2> HIDE DEF status
    <2> QED BY <1>4 DEF Pipeline
  <1>6. q = IF ~result.ok
            THEN IF Exhausted(tired.active) THEN CompleteRun(tired) ELSE waiting
            ELSE IF run.trigger.kind = "Stage" THEN CompleteRun(settled) ELSE CompleteRun(p)
    BY DEF FinishRun
  <1> HIDE DEF tired, waiting, settled, status, q, run
  <1>7. ASSUME NEW r \in Pipeline, r.active \in RunRecord, r.active.trigger = run.trigger,
               r.pending = p.pending, r.completed = p.completed,
               r.finishQueued = p.finishQueued,
               p.finishQueued => r.status = p.status
        PROVE  LET c == CompleteRun(r)
               IN  /\ c \in Pipeline /\ Ordered(c) /\ Triggers(c) = Triggers(p)
                   /\ c.finishQueued = p.finishQueued
                   /\ p.finishQueued => c.status = p.status
    <2>1. r.active # NoRun
      BY <1>7, ActiveRun
    <2>2. Triggers(r) = Triggers(p)
      BY <1>7, <2>1, TriggersTyped DEF run
    <2>3. LET c == CompleteRun(r)
          IN  /\ c \in Pipeline /\ Triggers(c) = Triggers(p)
              /\ c.finishQueued = p.finishQueued /\ c.status = r.status
              /\ c.active = NoRun => c.pending = <<>>
              /\ c.active # NoRun => c.active.retriable
              /\ p.pending = <<>> => c.pending = <<>>
      BY <1>7, <2>1, <2>2, CompleteRunKeeps
    <2> QED BY <1>7, <2>3 DEF Ordered
  <1>8. CASE ~result.ok /\ ~Exhausted(tired.active)
    <2>1. q = waiting
      BY <1>6, <1>8
    <2>2. waiting.active # NoRun
      BY <1>3, ActiveRun
    <2>3. Triggers(waiting) = Triggers(p)
      BY <1>3, <2>2, TriggersTyped DEF run
    <2>4. waiting.active.retriable
      BY <1>2, <1>3, <1>8 DEF Exhausted
    <2>5. Ordered(waiting)
      BY <1>3, <2>2, <2>3, <2>4 DEF Ordered
    <2> QED BY <1>3, <2>1, <2>3, <2>5 DEF q
  <1>9. CASE ~result.ok /\ Exhausted(tired.active)
    <2>1. q = CompleteRun(tired)
      BY <1>6, <1>9
    <2>2. ~result.retriable \/ run.attempts >= AttemptsFor(run.trigger)
      BY <1>2, <1>9 DEF Exhausted
    <2> QED BY <1>2, <1>7, <2>1, <2>2 DEF q, run
  <1>10. CASE result.ok /\ run.trigger.kind = "Stage"
    <2>1. q = CompleteRun(settled)
      BY <1>6, <1>10
    <2>2. ~p.finishQueued
      BY <1>10, FinishIsActive DEF run
    <2> QED BY <1>1, <1>5, <1>7, <1>10, <2>1, <2>2 DEF q
  <1>11. CASE result.ok /\ run.trigger.kind # "Stage"
    <2>1. q = CompleteRun(p)
      BY <1>6, <1>11
    <2> QED BY <1>1, <1>7, <1>11, <2>1 DEF q, run
  <1> QED BY <1>8, <1>9, <1>10, <1>11

-----------------------------------------------------------------------------
(* A challenge between two entries                                           *)

\* The finish trigger is queued once the challenge is over and the pipeline
\* settled, with the status the challenge will keep.
FinishOK(s) ==
    s.processing.finishQueued =>
        /\ Terminated(s)
        /\ Triggers(s.processing)[Len(Triggers(s.processing))].info = Status(s)

PipelineOK(s) ==
    /\ Ordered(s.processing)
    /\ FinishOK(s)
    /\ Concluded(s) /\ MaxAttempts # 0 => s.processing.finishQueued

\* Where a challenge and its clients can be.  Only a stage that can be retried
\* has attempts, nobody records an attempt that has not begun, and a stage that
\* was only entered is open.
PositionOK(s) ==
    /\ ~s.created => s = DefaultState
    /\ s.created => s.stage \in Stage
    /\ s.stage \notin Retriable => s.attempt = 0
    /\ s.status = "ENTERED" => s.attempt = 0 /\ s.stageState = "InProgress"
    /\ \A c \in Clients(s) : s.clients[c].attempt <= s.attempt

Good(s) == s \in State /\ PipelineOK(s) /\ PositionOK(s)

LEMMA DefaultGood == Good(DefaultState)
  <1>1. EmptyProcessing \in Pipeline
    BY DEF EmptyProcessing, Pipeline
  <1>2. <<>> \in ClientMap
    <2>1. DOMAIN <<>> = {} /\ <<>> \in [{} -> ClientRecord]
      OBVIOUS
    <2> QED BY <2>1, ClientMapDef
  <1>3. DefaultState \in State
    BY <1>1, <1>2 DEF DefaultState, State, NoAttempt, StageStatus
  <1>4. Triggers(EmptyProcessing) = <<>>
    BY DEF Triggers, EmptyProcessing
  <1>5. Ordered(EmptyProcessing)
    <2>1. DOMAIN Triggers(EmptyProcessing) = {}
      BY <1>4
    <2> QED BY <2>1 DEF Ordered, EmptyProcessing
  <1>6. PipelineOK(DefaultState)
    BY <1>5 DEF PipelineOK, FinishOK, DefaultState, EmptyProcessing, Concluded, Terminated
  <1>7. Clients(DefaultState) = {}
    BY DEF Clients, DefaultState
  <1>8. PositionOK(DefaultState)
    BY <1>7 DEF PositionOK, DefaultState, NoAttempt
  <1> QED BY <1>3, <1>6, <1>8 DEF Good

\* Fields that the bookkeeping after an entry does not touch.
Agree(s, t) ==
    /\ t.created = s.created /\ t.mode = s.mode /\ t.partyChanged = s.partyChanged
    /\ t.phase = s.phase /\ t.stage = s.stage /\ t.attempt = s.attempt
    /\ t.status = s.status /\ t.stageState = s.stageState
    /\ t.clients = s.clients /\ t.recordedBy = s.recordedBy

LEMMA StatusTyped ==
    ASSUME NEW s \in State
    PROVE  Status(s) \in ChallengeStatus
  BY DEF Status, State, Pipeline, StatusIfFinishedNow, ChallengeStatus

\* A state differs from another in its pipeline.
LEMMA PipelineReplaced ==
    ASSUME NEW s \in State, NEW p \in Pipeline
    PROVE  LET t == [s EXCEPT !.processing = p]
           IN  t \in State /\ t.processing = p /\ Agree(s, t) /\ t.dormant = s.dormant
  BY DEF State, Agree

LEMMA QueueFinishKeeps ==
    ASSUME NEW s \in State, Terminated(s) => s.stage \in Stage,
           Ordered(s.processing), FinishOK(s)
    PROVE  LET t == QueueFinish(s)
           IN  /\ t \in State /\ Agree(s, t) /\ t.dormant = s.dormant /\ PipelineOK(t)
               /\ t.processing.completed = s.processing.completed
               /\ s.processing.active # NoRun => t.processing.active # NoRun
  <1> DEFINE p == s.processing
             q == Push(p, "Finish", s.stage, s.attempt, Status(s))
             t == QueueFinish(s)
  <1>1. p \in Pipeline /\ s.attempt \in Nat
    BY DEF State
  <1>2. CASE Concluded(s) /\ ~p.finishQueued
    <2>1. t = [s EXCEPT !.processing = q]
      BY <1>2 DEF QueueFinish, PushInfo, State
    <2>2. p.active = NoRun /\ s.stage \in Stage /\ Terminated(s)
      BY <1>2 DEF Concluded, Settled
    <2>3. /\ q \in Pipeline /\ Ordered(q) /\ q.completed = p.completed
          /\ q.status = p.status
          /\ q.finishQueued => Triggers(q)[Len(Triggers(q))].info = Status(s)
          /\ MaxAttempts # 0 => q.finishQueued
      <3> DEFINE st == Status(s)
      <3>1. "Finish" \in Kinds /\ st \in ChallengeStatus /\ Ordered(p) /\ ~p.finishQueued
        BY <1>2, StatusTyped DEF Kinds
      <3> HIDE DEF p, st
      <3>2. LET r == Push(p, "Finish", s.stage, s.attempt, st)
            IN  /\ r \in Pipeline /\ Ordered(r) /\ r.completed = p.completed
                /\ r.status = p.status
                /\ r.finishQueued => Triggers(r)[Len(Triggers(r))].info = st
                /\ MaxAttempts # 0 => r.finishQueued
        BY <1>1, <2>2, <3>1, PushOrdered
      <3> QED BY <3>2 DEF st
    <2> HIDE DEF p, q, t
    <2>4. t \in State /\ t.processing = q /\ Agree(s, t) /\ t.dormant = s.dormant
      BY <2>1, <2>3, PipelineReplaced
    <2>5. Status(t) = Status(s) /\ Terminated(t)
      BY <2>2, <2>3, <2>4 DEF Status, Agree, Terminated, p
    <2> QED BY <2>2, <2>3, <2>4, <2>5 DEF PipelineOK, FinishOK, t, p
  <1>3. CASE ~(Concluded(s) /\ ~p.finishQueued)
    BY <1>3 DEF QueueFinish, PipelineOK, Agree
  <1> QED BY <1>2, <1>3

LEMMA TrackDormancyKeeps ==
    ASSUME NEW s \in State, NEW b
    PROVE  LET t == TrackDormancy(b, s)
           IN  /\ t \in State /\ Agree(s, t) /\ t.processing = s.processing
               /\ ~HasActive(s) /\ (s.dormant \/ HasActive(b)) => t.dormant
  <1> DEFINE d == Dormancy(s) # "Active" /\ (s.dormant \/ Dormancy(s) # Dormancy(b))
  <1>1. TrackDormancy(b, s) = [s EXCEPT !.dormant = d]
    BY DEF TrackDormancy, State
  <1>2. d \in BOOLEAN
    OBVIOUS
  <1>3. ~HasActive(s) => Dormancy(s) # "Active"
    BY DEF Dormancy
  <1>4. HasActive(b) => Dormancy(b) = "Active"
    BY DEF Dormancy, HasActive
  <1>5. ~HasActive(s) /\ (s.dormant \/ HasActive(b)) => d
    BY <1>3, <1>4
  <1> HIDE DEF d
  <1> QED BY <1>1, <1>2, <1>5 DEF State, Agree

\* The bookkeeping after every entry.
LEMMA BookkeepingKeeps ==
    ASSUME NEW b, NEW s \in State, Terminated(s) => s.stage \in Stage,
           Ordered(s.processing), FinishOK(s)
    PROVE  LET t == TrackDormancy(b, QueueFinish(s))
           IN  /\ t \in State /\ Agree(s, t) /\ PipelineOK(t)
               /\ t.processing.completed = s.processing.completed
               /\ s.processing.active # NoRun => t.processing.active # NoRun
               /\ ~HasActive(t) /\ (s.dormant \/ HasActive(b)) => t.dormant
  <1> DEFINE u == QueueFinish(s)
             t == TrackDormancy(b, u)
  <1>1. /\ u \in State /\ Agree(s, u) /\ u.dormant = s.dormant /\ PipelineOK(u)
        /\ u.processing.completed = s.processing.completed
        /\ s.processing.active # NoRun => u.processing.active # NoRun
    BY QueueFinishKeeps
  <1> HIDE DEF u
  <1>2. /\ t \in State /\ Agree(u, t) /\ t.processing = u.processing
        /\ ~HasActive(u) /\ (u.dormant \/ HasActive(b)) => t.dormant
    BY <1>1, TrackDormancyKeeps
  <1> HIDE DEF t
  <1>3. Agree(s, t) /\ (HasActive(t) <=> HasActive(u))
    BY <1>1, <1>2 DEF Agree, HasActive, Clients
  <1>4. PipelineOK(t)
    BY <1>1, <1>2 DEF PipelineOK, FinishOK, Concluded, Terminated, Status, Agree
  <1> QED BY <1>1, <1>2, <1>3, <1>4 DEF t, u

-----------------------------------------------------------------------------
(* One entry                                                                 *)

Processing == {"ProcessingStarted", "ProcessingEnded"}

\* The entries a decision journals for a challenge in this state; the decisions
\* are shown to journal no others.
Fits(s, e) ==
    /\ e.type \in {"ChallengeCreated", "ClientJoined", "ClientRejoined", "ClientStageReported",
                   "StageStarted", "StageAttemptStarted", "StageSealed", "ChallengeFinishing",
                   "ClientFinished", "ClientsRemoved", "ClientActivity", "ChallengeTerminated",
                   "ModeChanged", "PartyChanged"} \cup Processing
    /\ e.type # "ChallengeCreated" => s.created
    /\ e.type \notin Processing => ~Terminated(s)
    /\ e.type = "ChallengeCreated" => ~s.created /\ e.mode \in Mode /\ e.stage \in Stage
    /\ e.type = "ClientJoined" =>
         e.client \in Client /\ e.token \in Token /\ e.participant \in BOOLEAN
    /\ e.type = "ClientRejoined" => e.token \in Token
    /\ e.type = "ClientStageReported" =>
         /\ e.stage \in Stage /\ e.status \in StageStatus
         /\ e.attempt \in Nat /\ e.attempt <= s.attempt
    /\ e.type = "StageStarted" =>
         /\ e.stage \in Stage
         /\ \/ e.stage > s.stage /\ (Sealed(s) \/ s.status = "ENTERED")
            \/ e.stage = s.stage /\ s.status = "ENTERED"
    /\ e.type = "StageAttemptStarted" =>
         e.stage = s.stage /\ e.attempt = s.attempt + 1 /\ s.attempt # 0 /\ Sealed(s)
    /\ e.type = "StageSealed" =>
         e.stage \in Stage /\ e.attempt \in Nat /\ ~Sealed(s) /\ s.status # "ENTERED"
    /\ e.type = "ClientActivity" => e.active \in BOOLEAN
    /\ e.type = "ChallengeTerminated" => Sealed(s) \/ s.status = "ENTERED"
    /\ e.type = "ModeChanged" => e.mode \in Mode
    /\ e.type = "ProcessingStarted" =>
         s.processing.active # NoRun /\ e.seq = s.processing.active.trigger.seq
    /\ e.type = "ProcessingEnded" => s.processing.active # NoRun /\ e.result \in ResultRecord

Movers == {"ChallengeCreated", "StageStarted", "StageAttemptStarted", "StageSealed",
           "ClientStageReported", "ProcessingEnded"}

\* Where an entry takes the challenge.
Moved(s, e, t) ==
    /\ e.type = "ChallengeCreated" =>
         t.stage = e.stage /\ t.attempt = 0 /\ t.status = "ENTERED" /\ t.stageState = "InProgress"
    /\ e.type = "StageStarted" =>
         /\ t.stage = e.stage /\ t.attempt = FirstAttempt(e.stage)
         /\ t.status = "STARTED" /\ t.stageState = "InProgress"
    /\ e.type = "StageAttemptStarted" =>
         /\ t.stage = s.stage /\ t.attempt = e.attempt
         /\ t.status = "STARTED" /\ t.stageState = "InProgress"
    /\ e.type = "StageSealed" =>
         /\ t.stage = s.stage /\ t.attempt = s.attempt
         /\ t.status = s.status /\ t.stageState = "Complete"
    /\ e.type = "ClientStageReported" =>
         /\ t.stage = s.stage /\ t.attempt = s.attempt
         /\ OpensWindow(s, e) => t.status = e.status /\ t.stageState = "Ending"
         /\ ~OpensWindow(s, e) => t.status = s.status /\ t.stageState = s.stageState
    /\ e.type = "ProcessingEnded" =>
         /\ t.stage = s.stage /\ t.attempt = s.attempt /\ t.stageState = s.stageState
         /\ t.status = s.status \/ t.status \in {"STARTED", "COMPLETED", "WIPED"}
    /\ e.type \notin Movers =>
         /\ t.stage = s.stage /\ t.attempt = s.attempt
         /\ t.status = s.status /\ t.stageState = s.stageState

At(r, stage, status, attempt) == r.stage = stage /\ r.status = status /\ r.attempt = attempt

\* Where it takes the clients.
ClientsMoved(s, e, t) ==
    /\ \A c \in Clients(t) :
        \/ /\ c \in Clients(s)
           /\ At(t.clients[c], s.clients[c].stage, s.clients[c].status, s.clients[c].attempt)
        \/ At(t.clients[c], s.stage, "ENTERED", s.attempt)
        \/ e.type = "ClientStageReported" /\ At(t.clients[c], e.stage, e.status, e.attempt)
    /\ e.type \in {"ModeChanged", "PartyChanged"} => t.clients = s.clients

\* Only the end of an attempt settles a trigger.
Settles(s, e, t) ==
    \/ t.processing.completed = s.processing.completed
    \/ /\ e.type = "ProcessingEnded"
       /\ \/ e.result.ok \/ ~e.result.retriable
          \/ s.processing.active.attempts >= AttemptsFor(s.processing.active.trigger)

Effect(s, e, t) ==
    /\ t.created /\ t.stage \in Stage
    /\ Terminated(t) <=> Terminated(s) \/ e.type = "ChallengeTerminated"
    /\ Moved(s, e, t)
    /\ ClientsMoved(s, e, t)
    /\ e.type = "ClientJoined" => HasActive(t)
    /\ e.type = "ProcessingStarted" => t.processing.active # NoRun
    /\ Settles(s, e, t)

\* What the fold of an entry achieves before the bookkeeping.
EventOK(s, e) ==
    LET t == ApplyEvent(s, e)
    IN  /\ t \in State /\ Ordered(t.processing) /\ FinishOK(t)
        /\ t.dormant = s.dormant /\ Effect(s, e, t)

Created(s, e) ==
    [s EXCEPT !.created = TRUE, !.mode = e.mode, !.stage = e.stage, !.attempt = NoAttempt,
              !.status = "ENTERED", !.stageState = "InProgress"]

Begun(s, e) ==
    [s EXCEPT !.stage = e.stage, !.attempt = FirstAttempt(e.stage), !.status = "STARTED",
              !.stageState = "InProgress"]

LEMMA StageStartedIs ==
    ASSUME NEW s, NEW e
    PROVE  ApplyStageStarted(s, e) =
               IF e.stage = s.stage THEN Begun(s, e)
               ELSE PushInfo(Begun(s, e), "StageStart", e.stage, Begun(s, e).attempt)
  BY Zenon DEF ApplyStageStarted, Begun

LEMMA ApplyEventIs ==
    ASSUME NEW s, NEW e
    PROVE  /\ e.type = "ChallengeCreated" => ApplyEvent(s, e) =
                PushInfo(Created(s, e), "Create", e.stage, NoAttempt)
           /\ e.type = "ClientJoined" => ApplyEvent(s, e) = ApplyJoined(s, e)
           /\ e.type = "ClientRejoined" => ApplyEvent(s, e) = ApplyRejoined(s, e)
           /\ e.type = "ClientStageReported" => ApplyEvent(s, e) = ApplyReported(s, e)
           /\ e.type = "StageStarted" => ApplyEvent(s, e) = ApplyStageStarted(s, e)
           /\ e.type = "StageAttemptStarted" => ApplyEvent(s, e) = ApplyAttemptStarted(s, e)
           /\ e.type = "StageSealed" => ApplyEvent(s, e) =
                PushInfo([s EXCEPT !.stageState = "Complete"], "Stage", e.stage, e.attempt)
           /\ e.type = "ChallengeFinishing" =>
                ApplyEvent(s, e) = [s EXCEPT !.phase = "Finishing"]
           /\ e.type \in {"ClientFinished", "ClientsRemoved"} =>
                ApplyEvent(s, e) = [s EXCEPT !.clients = Without(s, e.clients)]
           /\ e.type = "ClientActivity" => ApplyEvent(s, e) =
                IF e.client \in Clients(s)
                THEN [s EXCEPT !.clients[e.client].active = e.active] ELSE s
           /\ e.type = "ChallengeTerminated" =>
                ApplyEvent(s, e) = [s EXCEPT !.phase = "Terminated"]
           /\ e.type = "ModeChanged" => ApplyEvent(s, e) =
                PushInfo([s EXCEPT !.mode = e.mode], "Mode", s.stage, s.attempt)
           /\ e.type = "PartyChanged" =>
                ApplyEvent(s, e) = [s EXCEPT !.partyChanged = TRUE]
           /\ e.type = "ProcessingStarted" =>
                ApplyEvent(s, e) = [s EXCEPT !.processing = StartRun(@, e.seq)]
           /\ e.type = "ProcessingEnded" => ApplyEvent(s, e) = ApplyProcessed(s, e)
  BY Zenon DEF ApplyEvent, Created

\* A trigger is queued while the challenge lasts.
LEMMA PushInfoKeeps ==
    ASSUME NEW s \in State, NEW kind \in Kinds \ {"Finish"}, NEW stage \in Stage,
           NEW attempt \in Nat, Ordered(s.processing), FinishOK(s), ~Terminated(s)
    PROVE  LET t == PushInfo(s, kind, stage, attempt)
           IN  /\ t \in State /\ Agree(s, t) /\ t.dormant = s.dormant
               /\ Ordered(t.processing) /\ FinishOK(t)
               /\ t.processing.completed = s.processing.completed
  <1> DEFINE info == Status(s)
             p == s.processing
             q == Push(p, kind, stage, attempt, info)
             t == PushInfo(s, kind, stage, attempt)
  <1>1. t = [s EXCEPT !.processing = q]
    BY DEF PushInfo, State
  <1>2. /\ p \in Pipeline /\ info \in ChallengeStatus /\ Ordered(p) /\ ~p.finishQueued
        /\ kind \in Kinds /\ kind # "Finish"
    BY StatusTyped DEF State, FinishOK
  <1> HIDE DEF p, info
  <1>3. /\ q \in Pipeline /\ Ordered(q) /\ q.completed = p.completed
        /\ q.finishQueued => kind = "Finish"
    BY <1>2, PushOrdered
  <1> HIDE DEF q, t
  <1>4. t \in State /\ t.processing = q /\ Agree(s, t) /\ t.dormant = s.dormant
    BY <1>1, <1>3, PipelineReplaced
  <1>5. FinishOK(t)
    BY <1>2, <1>3, <1>4 DEF FinishOK
  <1> QED BY <1>3, <1>4, <1>5 DEF t, p

\* Entries that leave the pipeline and the clients alone.
LEMMA PlainEventOK ==
    ASSUME NEW s, NEW e, Good(s), Fits(s, e),
           e.type \in {"StageAttemptStarted", "ChallengeFinishing", "ChallengeTerminated",
                       "PartyChanged"}
    PROVE  EventOK(s, e)
  <1> DEFINE t == ApplyEvent(s, e)
  <1>1. s \in State /\ Ordered(s.processing) /\ ~s.processing.finishQueued /\ s.stage \in Stage
    BY DEF Good, PipelineOK, FinishOK, PositionOK, Fits, Processing
  <1>2. ASSUME NEW u \in State, u.processing = s.processing, u.clients = s.clients
        PROVE  Ordered(u.processing) /\ FinishOK(u) /\ ClientsMoved(s, e, u) /\ Settles(s, e, u)
    BY <1>1, <1>2 DEF FinishOK, ClientsMoved, Settles, At, Clients
  <1>3. CASE e.type = "StageAttemptStarted"
    <2>1. t = ApplyAttemptStarted(s, e)
      BY <1>3, ApplyEventIs
    <2>2. e.attempt \in Nat
      BY <1>1, <1>3 DEF Fits, State
    <2>3. /\ t \in State /\ t.processing = s.processing /\ t.clients = s.clients
          /\ t.dormant = s.dormant /\ t.created = s.created /\ t.phase = s.phase
          /\ t.stage = s.stage /\ t.attempt = e.attempt /\ t.status = "STARTED"
          /\ t.stageState = "InProgress"
      BY <1>1, <2>1, <2>2 DEF ApplyAttemptStarted, State, StageStatus
    <2> HIDE DEF t
    <2>4. Moved(s, e, t)
      BY <1>3, <2>3 DEF Moved, Movers
    <2> QED BY <1>1, <1>2, <1>3, <2>3, <2>4 DEF EventOK, Effect, Terminated, Fits, t
  <1>4. CASE e.type = "ChallengeFinishing"
    <2>1. t = [s EXCEPT !.phase = "Finishing"]
      BY <1>4, ApplyEventIs
    <2>2. /\ t \in State /\ t.processing = s.processing /\ t.clients = s.clients
          /\ t.dormant = s.dormant /\ t.created = s.created /\ t.phase = "Finishing"
          /\ t.stage = s.stage /\ t.attempt = s.attempt /\ t.status = s.status
          /\ t.stageState = s.stageState
      BY <1>1, <2>1 DEF State
    <2> HIDE DEF t
    <2>3. Moved(s, e, t)
      BY <1>4, <2>2 DEF Moved, Movers
    <2> QED BY <1>1, <1>2, <1>4, <2>2, <2>3 DEF EventOK, Effect, Terminated, Fits, Processing, t
  <1>5. CASE e.type = "ChallengeTerminated"
    <2>1. t = [s EXCEPT !.phase = "Terminated"]
      BY <1>5, ApplyEventIs
    <2>2. /\ t \in State /\ t.processing = s.processing /\ t.clients = s.clients
          /\ t.dormant = s.dormant /\ t.created = s.created /\ t.phase = "Terminated"
          /\ t.stage = s.stage /\ t.attempt = s.attempt /\ t.status = s.status
          /\ t.stageState = s.stageState
      BY <1>1, <2>1 DEF State
    <2> HIDE DEF t
    <2>3. Moved(s, e, t)
      BY <1>5, <2>2 DEF Moved, Movers
    <2> QED BY <1>1, <1>2, <1>5, <2>2, <2>3 DEF EventOK, Effect, Terminated, Fits, t
  <1>6. CASE e.type = "PartyChanged"
    <2>1. t = [s EXCEPT !.partyChanged = TRUE]
      BY <1>6, ApplyEventIs
    <2>2. /\ t \in State /\ t.processing = s.processing /\ t.clients = s.clients
          /\ t.dormant = s.dormant /\ t.created = s.created /\ t.phase = s.phase
          /\ t.stage = s.stage /\ t.attempt = s.attempt /\ t.status = s.status
          /\ t.stageState = s.stageState
      BY <1>1, <2>1 DEF State
    <2> HIDE DEF t
    <2>3. Moved(s, e, t)
      BY <1>6, <2>2 DEF Moved, Movers
    <2> QED BY <1>1, <1>2, <1>6, <2>2, <2>3 DEF EventOK, Effect, Terminated, Fits, t
  <1> QED BY <1>3, <1>4, <1>5, <1>6

LEMMA PushingEventOK ==
    ASSUME NEW s, NEW e, Good(s), Fits(s, e),
           e.type \in {"ChallengeCreated", "StageStarted", "StageSealed", "ModeChanged"}
    PROVE  EventOK(s, e)
  <1> DEFINE t == ApplyEvent(s, e)
             Pushed(u, v) ==
                /\ v \in State /\ Agree(u, v) /\ v.dormant = s.dormant
                /\ Ordered(v.processing) /\ FinishOK(v)
                /\ v.created /\ v.stage \in Stage /\ Settles(s, e, v)
                /\ ClientsMoved(s, e, v) /\ ~Terminated(v)
                /\ Moved(s, e, u) => Moved(s, e, v)
  <1>1. /\ s \in State /\ Ordered(s.processing) /\ ~s.processing.finishQueued
        /\ s.stage # 0 => s.stage \in Stage
        /\ s.created => s.stage \in Stage
        /\ ~Terminated(s) /\ s.attempt \in Nat
    BY DEF Good, PipelineOK, FinishOK, PositionOK, Fits, Processing, State
  <1>2. ASSUME NEW u \in State, u.processing = s.processing, u.clients = s.clients,
               u.phase = s.phase, u.dormant = s.dormant, u.created, u.stage \in Stage,
               NEW kind \in Kinds \ {"Finish"}, NEW stage \in Stage, NEW attempt \in Nat
        PROVE  Pushed(u, PushInfo(u, kind, stage, attempt))
    <2> DEFINE v == PushInfo(u, kind, stage, attempt)
    <2>1. Ordered(u.processing) /\ FinishOK(u) /\ ~Terminated(u)
      BY <1>1, <1>2 DEF FinishOK, Terminated
    <2>2. /\ v \in State /\ Agree(u, v) /\ v.dormant = u.dormant
          /\ Ordered(v.processing) /\ FinishOK(v)
          /\ v.processing.completed = u.processing.completed
      BY <1>2, <2>1, PushInfoKeeps
    <2> HIDE DEF v
    <2>3. ClientsMoved(s, e, v) /\ Settles(s, e, v)
      BY <1>2, <2>2 DEF ClientsMoved, Settles, Agree, At, Clients
    <2>4. v.created /\ v.stage \in Stage /\ ~Terminated(v)
      BY <1>1, <1>2, <2>2 DEF Agree, Terminated
    <2>5. Moved(s, e, u) => Moved(s, e, v)
      BY <2>2 DEF Moved, Agree
    <2> QED BY <1>2, <2>2, <2>3, <2>4, <2>5 DEF v, Pushed
  <1>p. ASSUME NEW u, Moved(s, e, u), e.type \notin {"ClientJoined", "ChallengeTerminated"},
               Pushed(u, t)
        PROVE  EventOK(s, e)
    BY <1>1, <1>p DEF EventOK, Effect
  <1> HIDE DEF Pushed
  <1>3. CASE e.type = "ChallengeCreated"
    <2> DEFINE u == Created(s, e)
    <2>1. t = PushInfo(u, "Create", e.stage, NoAttempt)
      BY <1>3, ApplyEventIs
    <2>2. e.mode \in Mode /\ e.stage \in Stage /\ NoAttempt \in Nat
          /\ "Create" \in Kinds \ {"Finish"}
      BY <1>3 DEF Fits, NoAttempt, Kinds
    <2>3. /\ u \in State /\ u.processing = s.processing /\ u.clients = s.clients
          /\ u.dormant = s.dormant /\ u.created /\ u.phase = s.phase
          /\ u.stage = e.stage /\ u.attempt = 0 /\ u.status = "ENTERED"
          /\ u.stageState = "InProgress"
      BY <1>1, <2>2 DEF State, StageStatus, NoAttempt, Created
    <2> HIDE DEF t, u
    <2>4. Moved(s, e, u)
      BY <1>3, <2>3 DEF Moved, Movers
    <2>5. Pushed(u, t)
      BY <1>1, <1>2, <2>1, <2>2, <2>3
    <2> QED BY <1>3, <1>p, <2>4, <2>5 DEF t
  <1>4. CASE e.type = "StageStarted"
    <2> DEFINE u == Begun(s, e)
    <2>1. t = IF e.stage = s.stage THEN u
              ELSE PushInfo(u, "StageStart", e.stage, u.attempt)
      <3>1. t = ApplyStageStarted(s, e)
        BY <1>4, ApplyEventIs
      <3> HIDE DEF t
      <3> QED BY <3>1, StageStartedIs
    <2>2. e.stage \in Stage /\ FirstAttempt(e.stage) \in Nat
          /\ "StageStart" \in Kinds \ {"Finish"} /\ s.created
      BY <1>4 DEF Fits, NoAttempt, Kinds, FirstAttempt
    <2>3. /\ u \in State /\ u.processing = s.processing /\ u.clients = s.clients
          /\ u.dormant = s.dormant /\ u.created = s.created /\ u.phase = s.phase
          /\ u.stage = e.stage /\ u.attempt = FirstAttempt(e.stage) /\ u.status = "STARTED"
          /\ u.stageState = "InProgress"
      BY <1>1, <2>2 DEF State, StageStatus, Begun
    <2> HIDE DEF t, u
    <2>4. Moved(s, e, u)
      BY <1>4, <2>3 DEF Moved, Movers
    <2>5. CASE e.stage = s.stage
      <3>1. t = u
        BY <2>1, <2>5
      <3>2. Ordered(u.processing) /\ FinishOK(u) /\ ~Terminated(u)
        BY <1>1, <2>3 DEF FinishOK, Terminated
      <3>3. ClientsMoved(s, e, u) /\ Settles(s, e, u)
        BY <2>3 DEF ClientsMoved, Settles, At, Clients
      <3> QED BY <1>1, <1>4, <2>2, <2>3, <2>4, <3>1, <3>2, <3>3 DEF EventOK, Effect, t
    <2>6. CASE e.stage # s.stage
      <3>1. t = PushInfo(u, "StageStart", e.stage, u.attempt) /\ u.attempt \in Nat
        BY <2>1, <2>2, <2>3, <2>6
      <3>2. Pushed(u, t)
        BY <1>1, <1>2, <2>2, <2>3, <3>1
      <3> QED BY <1>4, <1>p, <2>4, <3>2 DEF t
    <2> QED BY <2>5, <2>6
  <1>5. CASE e.type = "StageSealed"
    <2> DEFINE u == [s EXCEPT !.stageState = "Complete"]
    <2>1. t = PushInfo(u, "Stage", e.stage, e.attempt)
      BY <1>5, ApplyEventIs
    <2>2. e.attempt \in Nat /\ e.stage \in Stage /\ "Stage" \in Kinds \ {"Finish"} /\ s.created
      BY <1>5 DEF Fits, Kinds
    <2>3. /\ u \in State /\ u.processing = s.processing /\ u.clients = s.clients
          /\ u.dormant = s.dormant /\ u.created = s.created /\ u.phase = s.phase
          /\ u.stage = s.stage /\ u.attempt = s.attempt /\ u.status = s.status
          /\ u.stageState = "Complete"
      BY <1>1, <2>2 DEF State
    <2> HIDE DEF t, u
    <2>4. Moved(s, e, u)
      BY <1>5, <2>3 DEF Moved, Movers
    <2>5. Pushed(u, t)
      BY <1>1, <1>2, <2>1, <2>2, <2>3
    <2> QED BY <1>5, <1>p, <2>4, <2>5 DEF t
  <1>6. CASE e.type = "ModeChanged"
    <2> DEFINE u == [s EXCEPT !.mode = e.mode]
    <2>1. t = PushInfo(u, "Mode", s.stage, s.attempt)
      BY <1>6, ApplyEventIs
    <2>2. e.mode \in Mode /\ "Mode" \in Kinds \ {"Finish"} /\ s.created
      BY <1>6 DEF Fits, Kinds
    <2>3. /\ u \in State /\ u.processing = s.processing /\ u.clients = s.clients
          /\ u.dormant = s.dormant /\ u.created = s.created /\ u.phase = s.phase
          /\ u.stage = s.stage /\ u.attempt = s.attempt /\ u.status = s.status
          /\ u.stageState = s.stageState
      BY <1>1, <2>2 DEF State
    <2> HIDE DEF t, u
    <2>4. Moved(s, e, u)
      BY <1>6, <2>3 DEF Moved, Movers
    <2>5. Pushed(u, t)
      BY <1>1, <1>2, <2>1, <2>2, <2>3
    <2> QED BY <1>6, <1>p, <2>4, <2>5 DEF t
  <1> QED BY <1>3, <1>4, <1>5, <1>6

-----------------------------------------------------------------------------
(* Entries about clients                                                     *)

LEMMA ClientsTyped ==
    ASSUME NEW s \in State
    PROVE  /\ Clients(s) \subseteq Client
           /\ s.clients \in ClientMap
           /\ \A c \in Clients(s) : s.clients[c] \in ClientRecord
  <1>1. s.clients \in ClientMap
    BY DEF State
  <1> QED BY <1>1, ClientMapDef DEF Clients

LEMMA WithTyped ==
    ASSUME NEW s \in State, NEW c \in Client, NEW r \in ClientRecord
    PROVE  LET m == With(s, c, r)
           IN  /\ m \in ClientMap /\ DOMAIN m = Clients(s) \cup {c} /\ m[c] = r
               /\ \A x \in Clients(s) \ {c} : m[x] = s.clients[x]
  <1> DEFINE m == With(s, c, r)
  <1>1. DOMAIN m = Clients(s) \cup {c}
    BY DEF With
  <1>2. \A x \in Clients(s) \cup {c} : m[x] = IF x = c THEN r ELSE s.clients[x]
    BY DEF With
  <1>3. m \in [DOMAIN m -> ClientRecord]
    <2>1. \A x \in Clients(s) \cup {c} : (IF x = c THEN r ELSE s.clients[x]) \in ClientRecord
      BY ClientsTyped
    <2> QED BY <1>1, <2>1 DEF With
  <1> HIDE DEF m
  <1>4. m \in ClientMap
    BY <1>1, <1>3, ClientsTyped, ClientMapDef
  <1> QED BY <1>1, <1>2, <1>4 DEF m

LEMMA WithoutTyped ==
    ASSUME NEW s \in State, NEW gone
    PROVE  LET m == Without(s, gone)
           IN  /\ m \in ClientMap /\ DOMAIN m = Clients(s) \ gone
               /\ \A x \in DOMAIN m : m[x] = s.clients[x]
  <1> DEFINE m == Without(s, gone)
  <1>1. DOMAIN m = Clients(s) \ gone /\ \A x \in DOMAIN m : m[x] = s.clients[x]
    BY DEF Without
  <1>2. m \in [DOMAIN m -> ClientRecord]
    BY <1>1, ClientsTyped DEF Without
  <1> HIDE DEF m
  <1>3. m \in ClientMap
    BY <1>1, <1>2, ClientsTyped, ClientMapDef
  <1> QED BY <1>1, <1>3 DEF m

LEMMA ExceptTyped ==
    ASSUME NEW s \in State, NEW c \in Clients(s), NEW r \in ClientRecord
    PROVE  LET m == [s.clients EXCEPT ![c] = r]
           IN  /\ m \in ClientMap /\ DOMAIN m = Clients(s) /\ m[c] = r
               /\ \A x \in Clients(s) \ {c} : m[x] = s.clients[x]
  <1> DEFINE m == [s.clients EXCEPT ![c] = r]
  <1>1. s.clients \in [Clients(s) -> ClientRecord]
    BY ClientsTyped, ClientMapDef DEF Clients
  <1>2. /\ DOMAIN m = Clients(s) /\ m[c] = r
        /\ \A x \in Clients(s) \ {c} : m[x] = s.clients[x]
        /\ m \in [Clients(s) -> ClientRecord]
    BY <1>1
  <1> HIDE DEF m
  <1>3. m \in ClientMap
    BY <1>2, ClientsTyped, ClientMapDef
  <1> QED BY <1>2, <1>3 DEF m

\* A state differs from another in its clients.
LEMMA ClientsReplaced ==
    ASSUME NEW s \in State, NEW m \in ClientMap
    PROVE  LET t == [s EXCEPT !.clients = m]
           IN  /\ t \in State /\ t.clients = m /\ t.processing = s.processing
               /\ t.created = s.created /\ t.dormant = s.dormant /\ t.phase = s.phase
               /\ t.stage = s.stage /\ t.attempt = s.attempt /\ t.status = s.status
               /\ t.stageState = s.stageState /\ t.recordedBy = s.recordedBy
  BY DEF State

\* Changes of clients only, of any kind.
LEMMA ClientsChanged ==
    ASSUME NEW s, NEW e, Good(s), Fits(s, e), NEW t \in State,
           e.type \notin Movers \cup Processing \cup {"ChallengeTerminated"},
           t.processing = s.processing, t.created = s.created, t.dormant = s.dormant,
           t.phase = s.phase, t.stage = s.stage, t.attempt = s.attempt, t.status = s.status,
           t.stageState = s.stageState, ClientsMoved(s, e, t),
           e.type = "ClientJoined" => HasActive(t), t = ApplyEvent(s, e)
    PROVE  EventOK(s, e)
  <1>1. Ordered(s.processing) /\ FinishOK(s) /\ ~Terminated(s)
    BY DEF Good, PipelineOK, Fits
  <1>2. Ordered(t.processing) /\ FinishOK(t)
    BY <1>1 DEF FinishOK
  <1>3. t.created /\ t.stage \in Stage
    BY DEF Good, PositionOK, Fits, Movers
  <1>4. Moved(s, e, t) /\ Settles(s, e, t)
    BY DEF Moved, Settles, Movers
  <1>5. Terminated(t) <=> Terminated(s) \/ e.type = "ChallengeTerminated"
    BY DEF Terminated
  <1> QED BY <1>2, <1>3, <1>4, <1>5 DEF EventOK, Effect, Processing

\* A client joins at the current stage.
LEMMA JoinsTyped ==
    ASSUME NEW s \in State, s.stage \in Stage, NEW c, NEW token \in Token,
           NEW participant \in BOOLEAN
    PROVE  LET r == AtCurrentStage(s, c, token, participant)
           IN  /\ r \in ClientRecord /\ r.active /\ At(r, s.stage, "ENTERED", s.attempt)
  BY DEF AtCurrentStage, ClientRecord, At, State, StageStatus

LEMMA RejoinedEventOK ==
    ASSUME NEW s, NEW e, Good(s), Fits(s, e), e.type = "ClientRejoined"
    PROVE  EventOK(s, e)
  <1> DEFINE t == ApplyEvent(s, e)
             c == e.client
             r == AtCurrentStage(s, c, e.token, s.clients[c].participant)
             m == With(s, c, r)
  <1>1. s \in State /\ s.stage \in Stage /\ e.token \in Token
    BY DEF Good, PositionOK, Fits
  <1>2. t = ApplyRejoined(s, e)
    BY ApplyEventIs
  <1>3. CASE c \notin Clients(s)
    <2>1. t = s
      BY <1>2, <1>3 DEF ApplyRejoined
    <2>2. ClientsMoved(s, e, s)
      BY DEF ClientsMoved, At
    <2> HIDE DEF t
    <2> QED BY <1>1, <2>1, <2>2, ClientsChanged DEF Movers, Processing, t
  <1>4. CASE c \in Clients(s)
    <2>1. t = [s EXCEPT !.clients = m]
      BY <1>2, <1>4 DEF ApplyRejoined
    <2>2. c \in Client /\ s.clients[c].participant \in BOOLEAN
      BY <1>1, <1>4, ClientsTyped DEF ClientRecord
    <2>3. r \in ClientRecord /\ At(r, s.stage, "ENTERED", s.attempt)
      BY <1>1, <2>2, JoinsTyped
    <2> HIDE DEF r, c
    <2>4. /\ m \in ClientMap /\ DOMAIN m = Clients(s) \cup {c} /\ m[c] = r
          /\ \A x \in Clients(s) \ {c} : m[x] = s.clients[x]
      <3>1. c \in Client /\ r \in ClientRecord /\ s \in State
        BY <1>1, <2>2, <2>3
      <3> QED BY <3>1, WithTyped
    <2> HIDE DEF m, t
    <2>5. /\ t \in State /\ t.clients = m /\ t.processing = s.processing
          /\ t.created = s.created /\ t.dormant = s.dormant /\ t.phase = s.phase
          /\ t.stage = s.stage /\ t.attempt = s.attempt /\ t.status = s.status
          /\ t.stageState = s.stageState
      BY <1>1, <2>1, <2>4, ClientsReplaced
    <2>6. ClientsMoved(s, e, t)
      BY <2>3, <2>4, <2>5 DEF ClientsMoved, At, Clients
    <2> QED BY <1>1, <2>5, <2>6, ClientsChanged DEF Movers, Processing, t
  <1> QED BY <1>3, <1>4

LEMMA RemovedEventOK ==
    ASSUME NEW s, NEW e, Good(s), Fits(s, e), e.type \in {"ClientFinished", "ClientsRemoved"}
    PROVE  EventOK(s, e)
  <1> DEFINE t == ApplyEvent(s, e)
             m == Without(s, e.clients)
  <1>1. s \in State
    BY DEF Good
  <1>2. t = [s EXCEPT !.clients = m]
    BY ApplyEventIs
  <1>3. /\ m \in ClientMap /\ DOMAIN m = Clients(s) \ e.clients
        /\ \A x \in DOMAIN m : m[x] = s.clients[x]
    BY <1>1, WithoutTyped
  <1> HIDE DEF m, t
  <1>4. /\ t \in State /\ t.clients = m /\ t.processing = s.processing
        /\ t.created = s.created /\ t.dormant = s.dormant /\ t.phase = s.phase
        /\ t.stage = s.stage /\ t.attempt = s.attempt /\ t.status = s.status
        /\ t.stageState = s.stageState
    BY <1>1, <1>2, <1>3, ClientsReplaced
  <1>5. ClientsMoved(s, e, t)
    BY <1>3, <1>4 DEF ClientsMoved, At, Clients
  <1> QED BY <1>4, <1>5, ClientsChanged DEF Movers, Processing, t

LEMMA ActivityEventOK ==
    ASSUME NEW s, NEW e, Good(s), Fits(s, e), e.type = "ClientActivity"
    PROVE  EventOK(s, e)
  <1> DEFINE t == ApplyEvent(s, e)
             c == e.client
             r == [s.clients[c] EXCEPT !.active = e.active]
             m == [s.clients EXCEPT ![c] = r]
  <1>1. s \in State /\ e.active \in BOOLEAN
    BY DEF Good, Fits
  <1>2. CASE c \notin Clients(s)
    <2>1. t = s
      BY <1>2, ApplyEventIs
    <2>2. ClientsMoved(s, e, s)
      BY DEF ClientsMoved, At
    <2> HIDE DEF t
    <2> QED BY <1>1, <2>1, <2>2, ClientsChanged DEF Movers, Processing, t
  <1>3. CASE c \in Clients(s)
    <2>1. t = [s EXCEPT !.clients[e.client].active = e.active]
      BY <1>3, ApplyEventIs
    <2>2. t = [s EXCEPT !.clients = m]
      BY <1>1, <2>1 DEF State
    <2>3. s.clients[c] \in ClientRecord
      BY <1>1, <1>3, ClientsTyped
    <2>4. /\ r \in ClientRecord
          /\ At(r, s.clients[c].stage, s.clients[c].status, s.clients[c].attempt)
      BY <1>1, <2>3 DEF ClientRecord, At
    <2> HIDE DEF r, c
    <2>5. /\ m \in ClientMap /\ DOMAIN m = Clients(s) /\ m[c] = r
          /\ \A x \in Clients(s) \ {c} : m[x] = s.clients[x]
      BY <1>1, <1>3, <2>4, ExceptTyped
    <2> HIDE DEF m, t
    <2>6. /\ t \in State /\ t.clients = m /\ t.processing = s.processing
          /\ t.created = s.created /\ t.dormant = s.dormant /\ t.phase = s.phase
          /\ t.stage = s.stage /\ t.attempt = s.attempt /\ t.status = s.status
          /\ t.stageState = s.stageState
      BY <1>1, <2>2, <2>5, ClientsReplaced
    <2>7. ClientsMoved(s, e, t)
      BY <1>3, <2>4, <2>5, <2>6 DEF ClientsMoved, At, Clients
    <2> QED BY <2>6, <2>7, ClientsChanged DEF Movers, Processing, t
  <1> QED BY <1>2, <1>3

LEMMA ReportedEventOK ==
    ASSUME NEW s, NEW e, Good(s), Fits(s, e), e.type = "ClientStageReported"
    PROVE  EventOK(s, e)
  <1> DEFINE t == ApplyEvent(s, e)
             c == e.client
             r == [s.clients[c] EXCEPT !.stage = e.stage, !.status = e.status,
                                       !.attempt = e.attempt, !.active = TRUE]
             m == [s.clients EXCEPT ![c] = r]
             u == IF c \notin Clients(s) THEN s ELSE [s EXCEPT !.clients = m]
  <1>1. /\ s \in State /\ s.created /\ s.stage \in Stage /\ ~Terminated(s)
        /\ e.stage \in Stage /\ e.status \in StageStatus /\ e.attempt \in Nat
        /\ Ordered(s.processing) /\ ~s.processing.finishQueued
    BY DEF Good, PipelineOK, FinishOK, PositionOK, Fits, Processing
  <1>2. t = ApplyReported(s, e)
    BY ApplyEventIs
  <1>3. t = IF OpensWindow(s, e) THEN [u EXCEPT !.status = e.status, !.stageState = "Ending"]
            ELSE u
    BY <1>1, <1>2 DEF ApplyReported, State
  <1>4. /\ u \in State /\ u.processing = s.processing
        /\ u.created = s.created /\ u.dormant = s.dormant /\ u.phase = s.phase
        /\ u.stage = s.stage /\ u.attempt = s.attempt /\ u.status = s.status
        /\ u.stageState = s.stageState
        /\ ClientsMoved(s, e, u)
    <2>1. CASE c \notin Clients(s)
      BY <1>1, <2>1 DEF ClientsMoved, At
    <2>2. CASE c \in Clients(s)
      <3>1. s.clients[c] \in ClientRecord
        BY <1>1, <2>2, ClientsTyped
      <3>2. r \in ClientRecord /\ At(r, e.stage, e.status, e.attempt)
        BY <1>1, <3>1 DEF ClientRecord, At
      <3>3. u = [s EXCEPT !.clients = m]
        BY <2>2
      <3> HIDE DEF r, c, u
      <3>4. /\ m \in ClientMap /\ DOMAIN m = Clients(s) /\ m[c] = r
            /\ \A x \in Clients(s) \ {c} : m[x] = s.clients[x]
        BY <1>1, <2>2, <3>2, ExceptTyped
      <3> HIDE DEF m
      <3>5. /\ u \in State /\ u.clients = m /\ u.processing = s.processing
            /\ u.created = s.created /\ u.dormant = s.dormant /\ u.phase = s.phase
            /\ u.stage = s.stage /\ u.attempt = s.attempt /\ u.status = s.status
            /\ u.stageState = s.stageState
        BY <1>1, <3>3, <3>4, ClientsReplaced
      <3>6. ClientsMoved(s, e, u)
        BY <2>2, <3>2, <3>4, <3>5 DEF ClientsMoved, At, Clients
      <3> QED BY <3>5, <3>6
    <2> QED BY <2>1, <2>2
  <1> HIDE DEF u, t
  <1>5. /\ t \in State /\ t.processing = s.processing
        /\ t.created = s.created /\ t.dormant = s.dormant /\ t.phase = s.phase
        /\ t.stage = s.stage /\ t.attempt = s.attempt /\ t.clients = u.clients
        /\ OpensWindow(s, e) => t.status = e.status /\ t.stageState = "Ending"
        /\ ~OpensWindow(s, e) => t.status = s.status /\ t.stageState = s.stageState
    BY <1>1, <1>3, <1>4 DEF State
  <1>6. ClientsMoved(s, e, t)
    BY <1>4, <1>5 DEF ClientsMoved, Clients
  <1>7. Moved(s, e, t) /\ Settles(s, e, t)
    BY <1>5 DEF Moved, Settles, Movers
  <1>8. Ordered(t.processing) /\ FinishOK(t)
    BY <1>1, <1>5 DEF FinishOK
  <1> QED BY <1>1, <1>5, <1>6, <1>7, <1>8 DEF EventOK, Effect, Terminated, t

LEMMA JoinedEventOK ==
    ASSUME NEW s, NEW e, Good(s), Fits(s, e), e.type = "ClientJoined"
    PROVE  EventOK(s, e)
  <1> DEFINE t == ApplyEvent(s, e)
             c == e.client
             r == AtCurrentStage(s, c, e.token, e.participant)
             m == With(s, c, r)
             p == PushInfo(s, "Recorder", s.stage, s.attempt)
             u == IF c \in s.recordedBy THEN s
                  ELSE [p EXCEPT !.recordedBy = @ \cup {c}]
  <1>1. /\ s \in State /\ s.created /\ s.stage \in Stage /\ ~Terminated(s)
        /\ c \in Client /\ e.token \in Token /\ e.participant \in BOOLEAN
        /\ Ordered(s.processing) /\ FinishOK(s) /\ s.attempt \in Nat
        /\ "Recorder" \in Kinds \ {"Finish"}
    BY DEF Good, PipelineOK, PositionOK, Fits, Processing, State, Kinds
  <1>2. t = [u EXCEPT !.clients = m]
    <2>1. t = ApplyJoined(s, e)
      BY ApplyEventIs
    <2> QED BY <2>1 DEF ApplyJoined
  <1>3. r \in ClientRecord /\ r.active /\ At(r, s.stage, "ENTERED", s.attempt)
    BY <1>1, JoinsTyped
  <1>4. /\ p \in State /\ Agree(s, p) /\ p.dormant = s.dormant
        /\ Ordered(p.processing) /\ FinishOK(p)
        /\ p.processing.completed = s.processing.completed
    BY <1>1, PushInfoKeeps
  <1> HIDE DEF t, c, r, p
  <1>5. /\ m \in ClientMap /\ DOMAIN m = Clients(s) \cup {c} /\ m[c] = r
        /\ \A x \in Clients(s) \ {c} : m[x] = s.clients[x]
    BY <1>1, <1>3, WithTyped
  <1>6. /\ u \in State /\ u.dormant = s.dormant /\ u.created = s.created /\ u.phase = s.phase
        /\ u.stage = s.stage /\ u.attempt = s.attempt /\ u.status = s.status
        /\ u.stageState = s.stageState
        /\ u.processing \in {s.processing, p.processing}
    BY <1>1, <1>4 DEF State, Agree
  <1> HIDE DEF u, m
  <1>7. /\ t \in State /\ t.clients = m /\ t.processing = u.processing
        /\ t.created = u.created /\ t.dormant = u.dormant /\ t.phase = u.phase
        /\ t.stage = u.stage /\ t.attempt = u.attempt /\ t.status = u.status
        /\ t.stageState = u.stageState
    BY <1>2, <1>5, <1>6, ClientsReplaced
  <1>8. Ordered(t.processing) /\ FinishOK(t) /\ Settles(s, e, t)
    BY <1>1, <1>4, <1>6, <1>7 DEF FinishOK, Terminated, Agree, Settles
  <1>9. ClientsMoved(s, e, t) /\ HasActive(t)
    BY <1>3, <1>5, <1>7 DEF ClientsMoved, At, Clients, HasActive
  <1>10. Moved(s, e, t)
    BY <1>6, <1>7 DEF Moved, Movers
  <1> QED BY <1>1, <1>6, <1>7, <1>8, <1>9, <1>10 DEF EventOK, Effect, Terminated, t

LEMMA StartedEventOK ==
    ASSUME NEW s, NEW e, Good(s), Fits(s, e), e.type = "ProcessingStarted"
    PROVE  EventOK(s, e)
  <1> DEFINE t == ApplyEvent(s, e)
             q == StartRun(s.processing, e.seq)
  <1>1. /\ s \in State /\ s.created /\ s.stage \in Stage
        /\ s.processing \in Pipeline /\ Ordered(s.processing) /\ FinishOK(s)
    BY DEF Good, PipelineOK, PositionOK, Fits, Processing, State
  <1>2. t = [s EXCEPT !.processing = q]
    BY ApplyEventIs
  <1>3. /\ q \in Pipeline /\ Ordered(q) /\ Triggers(q) = Triggers(s.processing)
        /\ q.completed = s.processing.completed /\ q.status = s.processing.status
        /\ q.finishQueued = s.processing.finishQueued /\ q.active # NoRun
    <2>1. s.processing.active # NoRun
      BY DEF Fits
    <2> QED BY <1>1, <2>1, StartRunKeeps
  <1> HIDE DEF t, q
  <1>4. t \in State /\ t.processing = q /\ Agree(s, t) /\ t.dormant = s.dormant
    BY <1>1, <1>2, <1>3, PipelineReplaced
  <1>5. FinishOK(t)
    BY <1>1, <1>3, <1>4 DEF FinishOK, Terminated, Status, Agree
  <1>6. ClientsMoved(s, e, t)
    BY <1>4 DEF ClientsMoved, At, Clients, Agree
  <1>7. Moved(s, e, t) /\ Settles(s, e, t)
    BY <1>3, <1>4 DEF Moved, Movers, Settles, Agree
  <1> QED BY <1>1, <1>3, <1>4, <1>5, <1>6, <1>7 DEF EventOK, Effect, Terminated, Agree, t

\* The end of an attempt: an outcome of the current stage becomes the status of
\* the challenge, but none that settles after the finish trigger was queued.
LEMMA EndedEventOK ==
    ASSUME NEW s, NEW e, Good(s), Fits(s, e), e.type = "ProcessingEnded"
    PROVE  EventOK(s, e)
  <1> DEFINE t == ApplyEvent(s, e)
             p == s.processing
             q == FinishRun(p, e.result)
             mine == /\ p.active # NoRun /\ p.active.trigger.kind = "Stage"
                     /\ p.active.trigger.stage = s.stage
                     /\ p.active.trigger.attempt = s.attempt
             u == IF e.result.ok /\ e.result.status # "NONE" /\ mine
                  THEN [s EXCEPT !.status = e.result.status] ELSE s
  <1>1. /\ s \in State /\ s.created /\ s.stage \in Stage /\ e.result \in ResultRecord
        /\ p \in Pipeline /\ Ordered(p) /\ FinishOK(s) /\ p.active # NoRun
    BY DEF Good, PipelineOK, PositionOK, Fits, Processing, State
  <1>2. t = [u EXCEPT !.processing = q]
    <2>1. t = ApplyProcessed(s, e)
      BY ApplyEventIs
    <2>2. u.processing = p
      BY <1>1 DEF State
    <2> QED BY <2>1, <2>2 DEF ApplyProcessed
  <1>3. /\ u \in State /\ u.processing = p /\ u.clients = s.clients /\ u.created = s.created
        /\ u.phase = s.phase /\ u.stage = s.stage /\ u.attempt = s.attempt
        /\ u.stageState = s.stageState /\ u.dormant = s.dormant
        /\ u.status = s.status \/ u.status \in {"STARTED", "COMPLETED", "WIPED"}
        /\ ~mine => u.status = s.status
    <2> DEFINE x == e.result.status
    <2>1. ASSUME NEW y \in StageStatus
          PROVE  LET v == [s EXCEPT !.status = y]
                 IN  /\ v \in State /\ v.processing = p /\ v.clients = s.clients
                     /\ v.created = s.created /\ v.phase = s.phase /\ v.stage = s.stage
                     /\ v.attempt = s.attempt /\ v.stageState = s.stageState
                     /\ v.dormant = s.dormant /\ v.status = y
      BY <1>1 DEF State
    <2>2. x # "NONE" => x \in StageStatus /\ x \in {"STARTED", "COMPLETED", "WIPED"}
      BY <1>1 DEF ResultRecord, StageStatus
    <2> HIDE DEF p, mine, x
    <2>3. CASE e.result.ok /\ x # "NONE" /\ mine
      <3>1. u = [s EXCEPT !.status = x]
        BY <2>3 DEF x
      <3> HIDE DEF u
      <3> QED BY <2>1, <2>2, <2>3, <3>1
    <2>4. CASE ~(e.result.ok /\ x # "NONE" /\ mine)
      <3>1. u = s
        BY <2>4 DEF x
      <3> HIDE DEF u
      <3> QED BY <1>1, <3>1 DEF p
    <2> QED BY <2>3, <2>4
  <1>4. p.finishQueued => ~mine
    BY <1>1, FinishIsActive
  <1>5. /\ q \in Pipeline /\ Ordered(q) /\ Triggers(q) = Triggers(p)
        /\ q.finishQueued = p.finishQueued
        /\ p.finishQueued => q.status = p.status
        /\ \/ q.completed = p.completed
           \/ e.result.ok \/ ~e.result.retriable
           \/ p.active.attempts >= AttemptsFor(p.active.trigger)
    BY <1>1, FinishRunKeeps
  <1> HIDE DEF t, q, u, mine
  <1>6. t \in State /\ t.processing = q /\ Agree(u, t) /\ t.dormant = u.dormant
    BY <1>2, <1>3, <1>5, PipelineReplaced
  <1>7. FinishOK(t)
    BY <1>1, <1>3, <1>4, <1>5, <1>6 DEF FinishOK, Terminated, Status, Agree
  <1>8. ClientsMoved(s, e, t)
    BY <1>3, <1>6 DEF ClientsMoved, At, Clients, Agree
  <1>9. Moved(s, e, t) /\ Settles(s, e, t)
    BY <1>3, <1>5, <1>6 DEF Moved, Movers, Settles, Agree
  <1> QED BY <1>1, <1>3, <1>5, <1>6, <1>7, <1>8, <1>9 DEF EventOK, Effect, Terminated, Agree, t

\* Every entry that fits has its effect, with the bookkeeping that follows it: a
\* challenge nobody is active in is dormant from its first client on.
DormantOK(s) == s.created /\ ~HasActive(s) => s.dormant

LEMMA EntryOK ==
    ASSUME NEW s, NEW e, Good(s), Fits(s, e)
    PROVE  LET t == Apply(s, e)
           IN  /\ t \in State /\ PipelineOK(t) /\ Effect(s, e, t)
               /\ DormantOK(s) /\ e.type # "ChallengeCreated" => DormantOK(t)
  <1> DEFINE u == ApplyEvent(s, e)
             t == TrackDormancy(s, QueueFinish(u))
  <1>1. EventOK(s, e)
    BY PlainEventOK, PushingEventOK, RejoinedEventOK, RemovedEventOK, ActivityEventOK,
       ReportedEventOK, JoinedEventOK, StartedEventOK, EndedEventOK DEF Fits, Processing
  <1>2. /\ u \in State /\ Ordered(u.processing) /\ FinishOK(u) /\ u.stage \in Stage
        /\ u.dormant = s.dormant /\ Effect(s, e, u)
    BY <1>1 DEF EventOK, Effect
  <1>3. Apply(s, e) = t
    BY DEF Apply
  <1> HIDE DEF u
  <1>4. /\ t \in State /\ Agree(u, t) /\ PipelineOK(t)
        /\ t.processing.completed = u.processing.completed
        /\ u.processing.active # NoRun => t.processing.active # NoRun
        /\ ~HasActive(t) /\ (u.dormant \/ HasActive(s)) => t.dormant
    BY <1>2, BookkeepingKeeps
  <1> HIDE DEF t
  <1>5. Effect(s, e, t)
    <2>1. Moved(s, e, t)
      BY <1>2, <1>4 DEF Effect, Agree, Moved
    <2>2. ClientsMoved(s, e, t)
      BY <1>2, <1>4 DEF Effect, Agree, ClientsMoved, Clients
    <2>3. Settles(s, e, t)
      BY <1>2, <1>4 DEF Effect, Settles
    <2>4. e.type = "ClientJoined" => HasActive(t)
      BY <1>2, <1>4 DEF Effect, Agree, HasActive, Clients
    <2> QED BY <1>2, <1>4, <2>1, <2>2, <2>3, <2>4 DEF Effect, Agree, Terminated
  <1>6. DormantOK(s) /\ e.type # "ChallengeCreated" => DormantOK(t)
    BY <1>2, <1>4 DEF DormantOK, Fits
  <1> QED BY <1>3, <1>4, <1>5, <1>6

\* The position of a challenge only grows.
NotBack(s, t) ==
    \/ t.stage > s.stage
    \/ t.stage = s.stage /\ t.attempt >= s.attempt

LEMMA PositionKept ==
    ASSUME NEW s, NEW e, NEW t \in State, Good(s), Fits(s, e), Effect(s, e, t)
    PROVE  PositionOK(t) /\ NotBack(s, t)
  <1>1. /\ s \in State /\ t \in State /\ t.created /\ t.stage \in Stage
        /\ Stage \subseteq Nat /\ t.stage \in Nat /\ t.stage > 0 /\ Moved(s, e, t)
        /\ s.attempt \in Nat /\ t.attempt \in Nat /\ s.stage \in Nat
        /\ s.status = "ENTERED" => s.attempt = 0 /\ s.stageState = "InProgress"
        /\ s.stage \notin Retriable => s.attempt = 0
    <2>1. /\ s \in State /\ t \in State /\ t.created /\ t.stage \in Stage /\ Moved(s, e, t)
          /\ s.status = "ENTERED" => s.attempt = 0 /\ s.stageState = "InProgress"
          /\ s.stage \notin Retriable => s.attempt = 0
      BY DEF Good, PositionOK, Effect
    <2>2. /\ Stage \subseteq Nat /\ \A st \in Stage : st \in Nat /\ st > 0
      BY CoreAssumption
    <2>3. /\ s.attempt \in Nat /\ t.attempt \in Nat /\ s.stage \in Stage \cup {0}
      BY <2>1 DEF State
    <2>4. t.stage \in Nat /\ t.stage > 0
      BY <2>1, <2>2
    <2>5. s.stage \in Nat
      <3>1. CASE s.stage = 0
        BY <3>1
      <3>2. CASE s.stage \in Stage
        BY <2>2, <3>2, Zenon
      <3> QED BY <2>3, <3>1, <3>2
    <2>6. s.attempt \in Nat /\ t.attempt \in Nat /\ Stage \subseteq Nat
      BY <2>2, <2>3
    <2> QED BY <2>1, <2>4, <2>5, <2>6, Zenon
  <1>2. ~s.created => s.stage = 0 /\ s.attempt = 0
    BY DEF Good, PositionOK, DefaultState, NoAttempt
  <1>3. s.created => s.stage \in Stage
    BY DEF Good, PositionOK
  <1>4. /\ t.stage \notin Retriable => t.attempt = 0
        /\ t.status = "ENTERED" => t.attempt = 0 /\ t.stageState = "InProgress"
        /\ NotBack(s, t) /\ (s.attempt <= t.attempt)
    <2>1. CASE e.type = "ChallengeCreated"
      <3>1. s.stage = 0 /\ s.attempt = 0
        BY <1>2, <2>1 DEF Fits
      <3>2. t.attempt = 0 /\ t.stageState = "InProgress"
        BY <1>1, <2>1 DEF Moved
      <3>3. t.stage > 0
        BY <1>1
      <3> QED BY <3>1, <3>2, <3>3 DEF NotBack
    <2>2. CASE e.type = "StageStarted"
      <3>1. s.attempt = 0
        <4>1. CASE s.status = "ENTERED"
          BY <1>1, <4>1
        <4>2. CASE s.status # "ENTERED"
          <5>1. e.stage > s.stage /\ e.stage \in Stage /\ e.stage \in Nat
            BY <1>1, <2>2, <4>2 DEF Fits
          <5>2. s.stage \notin Retriable
            BY <1>1, <5>1, RetriableIsLast
          <5> QED BY <1>1, <5>2
        <4> QED BY <4>1, <4>2
      <3>2. t.stage >= s.stage
        <4>1. t.stage = e.stage
          BY <1>1, <2>2 DEF Moved
        <4>2. e.stage > s.stage \/ e.stage = s.stage
          BY <2>2 DEF Fits
        <4> QED BY <1>1, <4>1, <4>2
      <3> QED BY <1>1, <2>2, <3>1, <3>2 DEF Moved, Fits, NotBack, FirstAttempt, NoAttempt
    <2>3. CASE e.type = "StageAttemptStarted"
      BY <1>1, <2>3 DEF Moved, Fits, NotBack
    <2>4. CASE e.type = "StageSealed"
      BY <1>1, <2>4 DEF Moved, Fits, NotBack
    <2>5. CASE e.type = "ClientStageReported"
      <3>1. OpensWindow(s, e) => e.status # "ENTERED"
        BY DEF OpensWindow, Finished
      <3> QED BY <1>1, <2>5, <3>1 DEF Moved, NotBack
    <2>6. CASE e.type = "ProcessingEnded"
      BY <1>1, <2>6 DEF Moved, NotBack
    <2>7. CASE e.type \notin Movers
      BY <1>1, <2>7 DEF Moved, NotBack
    <2> QED BY <2>1, <2>2, <2>3, <2>4, <2>5, <2>6, <2>7 DEF Movers
  <1>5. \A c \in Clients(t) : t.clients[c].attempt <= t.attempt
    <2> SUFFICES ASSUME NEW c \in Clients(t)
                 PROVE  t.clients[c].attempt <= t.attempt
      OBVIOUS
    <2>1. t.clients[c].attempt \in Nat
      BY ClientsTyped DEF ClientRecord
    <2>2. t.clients[c].attempt <= s.attempt
      <3>1. CASE c \in Clients(s) /\ t.clients[c].attempt = s.clients[c].attempt
        BY <3>1 DEF Good, PositionOK
      <3>2. CASE t.clients[c].attempt = s.attempt
        BY <1>1, <3>2
      <3>3. CASE e.type = "ClientStageReported" /\ t.clients[c].attempt = e.attempt
        BY <3>3 DEF Fits
      <3> QED BY <3>1, <3>2, <3>3 DEF Effect, ClientsMoved, At
    <2> QED BY <1>1, <1>4, <2>1, <2>2
  <1> QED BY <1>1, <1>4, <1>5 DEF PositionOK

\* One entry, seen from outside.
Stepped(s, e, t) ==
    /\ Good(t) /\ NotBack(s, t) /\ Effect(s, e, t)
    /\ DormantOK(s) /\ e.type # "ChallengeCreated" => DormantOK(t)

LEMMA EntryGood ==
    ASSUME NEW s, NEW e, Good(s), Fits(s, e)
    PROVE  Stepped(s, e, Apply(s, e))
  BY EntryOK, PositionKept DEF Stepped, Good

-----------------------------------------------------------------------------
(* Batches                                                                   *)

\* What an entry is about when clients report stages in order.
InStep(s, e) ==
    /\ e.type = "ClientStageReported" /\ e.status \in Finished => e.stage <= s.stage
    /\ e.type = "StageSealed" => e.stage = s.stage /\ e.attempt = s.attempt

\* An entry of one of these types that fits, and is in step if clients report
\* stages in order.
FitsAs(inOrder, types, s, e) ==
    Fits(s, e) /\ (inOrder => InStep(s, e)) /\ e.type \in types

IsBatch(b) == \E S : b \in Seq(S)

After1(s, b) == ApplyNth(s, b, 1)
After2(s, b) == ApplyNth(After1(s, b), b, 2)
After3(s, b) == ApplyNth(After2(s, b), b, 3)
After4(s, b) == ApplyNth(After3(s, b), b, 4)

\* Every entry fits the state its predecessors lead to.
AllFit(inOrder, types, s, b) ==
    /\ IsBatch(b) /\ Len(b) <= 5
    /\ 1 \in DOMAIN b => FitsAs(inOrder, types, s, b[1])
    /\ 2 \in DOMAIN b => FitsAs(inOrder, types, After1(s, b), b[2])
    /\ 3 \in DOMAIN b => FitsAs(inOrder, types, After2(s, b), b[3])
    /\ 4 \in DOMAIN b => FitsAs(inOrder, types, After3(s, b), b[4])
    /\ 5 \in DOMAIN b => FitsAs(inOrder, types, After4(s, b), b[5])

LEMMA IsBatchDef ==
    ASSUME NEW b, IsBatch(b)
    PROVE  Len(b) \in Nat /\ DOMAIN b = 1..Len(b)
  <1>1. PICK S : b \in Seq(S)
    BY DEF IsBatch
  <1> QED BY <1>1, LenProperties

\* Putting an entry before a batch.
LEMMA BatchCons ==
    ASSUME NEW a, NEW r, IsBatch(r)
    PROVE  LET b == <<a>> \o r
           IN  /\ IsBatch(b) /\ Len(b) = Len(r) + 1 /\ b[1] = a
               /\ \A i \in 1..Len(r) : b[i + 1] = r[i]
  <1>1. PICK S : r \in Seq(S)
    BY DEF IsBatch
  <1> DEFINE U == S \cup {a}
             h == <<a>>
             b == h \o r
  <1>2. r \in Seq(U)
    BY <1>1, SeqMonotonic
  <1>3. h \in Seq(U) /\ Len(h) = 1 /\ h[1] = a
    OBVIOUS
  <1> HIDE DEF U, h
  <1>4. /\ b \in Seq(U) /\ Len(b) = 1 + Len(r) /\ Len(r) \in Nat
        /\ \A i \in 1..1 + Len(r) : b[i] = IF i <= 1 THEN h[i] ELSE r[i - 1]
    <2>1. Len(r) \in Nat
      BY <1>2, LenProperties
    <2>2. /\ b \in Seq(U) /\ Len(b) = Len(h) + Len(r)
          /\ \A i \in 1..Len(h) + Len(r) : b[i] = IF i <= Len(h) THEN h[i] ELSE r[i - Len(h)]
      BY <1>2, <1>3, ConcatProperties
    <2> HIDE DEF b
    <2> QED BY <1>3, <2>1, <2>2
  <1> HIDE DEF b
  <1>5. b[1] = a
    BY <1>3, <1>4
  <1>6. \A i \in 1..Len(r) : b[i + 1] = r[i]
    BY <1>4
  <1> QED BY <1>4, <1>5, <1>6 DEF IsBatch, b, h

LEMMA ConsFits ==
    ASSUME NEW o, NEW T, NEW s, NEW a, NEW r, FitsAs(o, T, s, a),
           AllFit(o, T, Apply(s, a), r), Len(r) <= 4
    PROVE  AllFit(o, T, s, <<a>> \o r)
  <1> DEFINE b == <<a>> \o r
             t == Apply(s, a)
  <1>1. IsBatch(r) /\ Len(r) \in Nat /\ DOMAIN r = 1..Len(r)
    BY IsBatchDef DEF AllFit
  <1>2. /\ IsBatch(b) /\ Len(b) = Len(r) + 1 /\ b[1] = a
        /\ \A i \in 1..Len(r) : b[i + 1] = r[i]
    BY <1>1, BatchCons
  <1>3. DOMAIN b = 1..Len(r) + 1
    BY <1>2, IsBatchDef
  <1> HIDE DEF b, t
  <1>4. ASSUME NEW u, NEW i \in 1..4
        PROVE  ApplyNth(u, b, i + 1) = ApplyNth(u, r, i)
    BY <1>1, <1>2, <1>3, <1>4 DEF ApplyNth
  <1>5. After1(s, b) = t
    BY <1>1, <1>2, <1>3 DEF After1, ApplyNth, t
  <1>6. After2(s, b) = After1(t, r)
    BY <1>4, <1>5 DEF After2, After1
  <1>7. After3(s, b) = After2(t, r)
    BY <1>4, <1>6 DEF After3, After2
  <1>8. After4(s, b) = After3(t, r)
    BY <1>4, <1>7 DEF After4, After3
  <1>9. /\ 1 \in DOMAIN b => FitsAs(o, T, s, b[1])
        /\ 2 \in DOMAIN b => FitsAs(o, T, After1(s, b), b[2])
        /\ 3 \in DOMAIN b => FitsAs(o, T, After2(s, b), b[3])
        /\ 4 \in DOMAIN b => FitsAs(o, T, After3(s, b), b[4])
        /\ 5 \in DOMAIN b => FitsAs(o, T, After4(s, b), b[5])
    <2>1. /\ 2 \in DOMAIN b => b[2] = r[1] /\ 1 \in DOMAIN r
          /\ 3 \in DOMAIN b => b[3] = r[2] /\ 2 \in DOMAIN r
          /\ 4 \in DOMAIN b => b[4] = r[3] /\ 3 \in DOMAIN r
          /\ 5 \in DOMAIN b => b[5] = r[4] /\ 4 \in DOMAIN r
      BY <1>1, <1>2, <1>3
    <2> QED BY <1>2, <1>5, <1>6, <1>7, <1>8, <2>1 DEF AllFit, t
  <1>10. Len(b) <= 5
    BY <1>1, <1>2
  <1> QED BY <1>2, <1>9, <1>10 DEF AllFit, b

LEMMA NoneFits ==
    ASSUME NEW o, NEW T, NEW s
    PROVE  AllFit(o, T, s, <<>>) /\ Len(<<>>) = 0
  <1>1. IsBatch(<<>>)
    BY DEF IsBatch
  <1> QED BY <1>1 DEF AllFit

LEMMA OneFits ==
    ASSUME NEW o, NEW T, NEW s, NEW a, FitsAs(o, T, s, a)
    PROVE  AllFit(o, T, s, <<a>>) /\ Len(<<a>>) = 1
  <1>1. <<a>> \in Seq({a})
    OBVIOUS
  <1>2. IsBatch(<<a>>)
    BY <1>1 DEF IsBatch
  <1> QED BY <1>2 DEF AllFit

LEMMA TwoFit ==
    ASSUME NEW o, NEW T, NEW s, NEW a, NEW b, FitsAs(o, T, s, a), FitsAs(o, T, Apply(s, a), b)
    PROVE  AllFit(o, T, s, <<a, b>>) /\ Len(<<a, b>>) = 2
  <1>1. <<a, b>> \in Seq({a, b})
    OBVIOUS
  <1>2. IsBatch(<<a, b>>)
    BY <1>1 DEF IsBatch
  <1> QED BY <1>2 DEF AllFit, After1, ApplyNth

LEMMA ThreeFit ==
    ASSUME NEW o, NEW T, NEW s, NEW a, NEW b, NEW c,
           FitsAs(o, T, s, a), FitsAs(o, T, Apply(s, a), b),
           FitsAs(o, T, Apply(Apply(s, a), b), c)
    PROVE  AllFit(o, T, s, <<a, b, c>>) /\ Len(<<a, b, c>>) = 3
  <1>1. <<a, b, c>> \in Seq({a, b, c})
    OBVIOUS
  <1>2. IsBatch(<<a, b, c>>)
    BY <1>1 DEF IsBatch
  <1> QED BY <1>2 DEF AllFit, After1, After2, ApplyNth

LEMMA Pair ==
    ASSUME NEW a, NEW b
    PROVE  <<a>> \o <<b>> = <<a, b>>
  <1> DEFINE S == {a, b}
             h == <<a>>
             k == <<b>>
             z == <<a, b>>
             d == h \o k
  <1>1. /\ h \in Seq(S) /\ k \in Seq(S) /\ z \in Seq(S) /\ Len(h) = 1 /\ Len(k) = 1 /\ Len(z) = 2
        /\ h[1] = a /\ k[1] = b /\ z[1] = a /\ z[2] = b
    OBVIOUS
  <1> HIDE DEF S, h, k, z
  <1>h. h \in Seq(S) /\ k \in Seq(S)
    BY <1>1
  <1>2. /\ d \in Seq(S) /\ Len(d) = Len(h) + Len(k)
        /\ \A i \in 1..Len(h) + Len(k) : d[i] = IF i <= Len(h) THEN h[i] ELSE k[i - Len(h)]
    BY ONLY <1>h, ConcatProperties
  <1> HIDE DEF d
  <1>3. Len(d) = 2 /\ d[1] = a /\ d[2] = b
    BY <1>1, <1>2
  <1>4. \A i \in 1..2 : i = 1 \/ i = 2
    OBVIOUS
  <1>5. \A i \in 1..Len(d) : d[i] = z[i]
    BY <1>1, <1>2, <1>3, <1>4
  <1>6. d = z
    BY <1>1, <1>2, <1>3, <1>5, SeqEqual
  <1> QED BY <1>6 DEF d, h, k, z

LEMMA Triple ==
    ASSUME NEW a, NEW b, NEW c
    PROVE  /\ <<a, b>> \o <<c>> = <<a, b, c>>
           /\ <<a>> \o <<b, c>> = <<a, b, c>>
  <1> DEFINE S == {a, b, c}
             h == <<a, b>>
             k == <<c>>
             z == <<a, b, c>>
             d == h \o k
  <1>1. /\ h \in Seq(S) /\ k \in Seq(S) /\ z \in Seq(S) /\ Len(h) = 2 /\ Len(k) = 1 /\ Len(z) = 3
        /\ h[1] = a /\ h[2] = b /\ k[1] = c /\ z[1] = a /\ z[2] = b /\ z[3] = c
    OBVIOUS
  <1>s. <<a>> \in Seq(S) /\ <<b>> \in Seq(S)
    OBVIOUS
  <1> HIDE DEF S, h, k, z
  <1>h. h \in Seq(S) /\ k \in Seq(S)
    BY <1>1
  <1>2. /\ d \in Seq(S) /\ Len(d) = Len(h) + Len(k)
        /\ \A i \in 1..Len(h) + Len(k) : d[i] = IF i <= Len(h) THEN h[i] ELSE k[i - Len(h)]
    BY ONLY <1>h, ConcatProperties
  <1> HIDE DEF d
  <1>3. Len(d) = 3 /\ d[1] = a /\ d[2] = b /\ d[3] = c
    BY <1>1, <1>2
  <1>4. \A i \in 1..3 : i = 1 \/ i = 2 \/ i = 3
    OBVIOUS
  <1>5. \A i \in 1..Len(d) : d[i] = z[i]
    BY <1>1, <1>2, <1>3, <1>4
  <1>6. d = z
    BY <1>1, <1>2, <1>3, <1>5, SeqEqual
  <1> DEFINE x == <<a>>
             y == <<b>>
  <1>7. x \in Seq(S) /\ y \in Seq(S)
    BY <1>s
  <1>8. h = x \o y /\ <<b, c>> = y \o k
    BY Pair DEF h, k
  <1> HIDE DEF x, y
  <1>9. x \o (y \o k) = (x \o y) \o k
    BY ONLY <1>h, <1>7, ConcatRegroup
  <1>10. <<a>> \o <<b, c>> = d
    BY <1>8, <1>9 DEF d, x
  <1> QED BY <1>6, <1>10 DEF d, h, k, z

LEMMA PositionTyped ==
    ASSUME NEW s \in State
    PROVE  s.stage \in Nat /\ s.attempt \in Nat
  <1>1. s.stage \in Stage \cup {0} /\ s.attempt \in Nat
    BY DEF State
  <1>2. CASE s.stage = 0
    BY <1>1, <1>2
  <1>3. CASE s.stage \in Stage
    BY <1>1, <1>3, CoreAssumption
  <1> QED BY <1>1, <1>2, <1>3

LEMMA NotBackTransitive ==
    ASSUME NEW s \in State, NEW t \in State, NEW u \in State, NotBack(s, t), NotBack(t, u)
    PROVE  NotBack(s, u)
  <1>1. /\ s.stage \in Nat /\ s.attempt \in Nat /\ t.stage \in Nat /\ t.attempt \in Nat
        /\ u.stage \in Nat /\ u.attempt \in Nat
    BY PositionTyped
  <1> QED BY <1>1 DEF NotBack

LEMMA NthStepped ==
    ASSUME NEW o, NEW T, NEW s, NEW b, NEW i, Good(s), i \in DOMAIN b => FitsAs(o, T, s, b[i])
    PROVE  LET t == ApplyNth(s, b, i)
           IN  /\ Good(t)
               /\ i \in DOMAIN b => Stepped(s, b[i], t)
               /\ i \notin DOMAIN b => t = s
  <1>1. CASE i \in DOMAIN b
    BY <1>1, EntryGood DEF ApplyNth, FitsAs, Stepped
  <1>2. CASE i \notin DOMAIN b
    BY <1>2 DEF ApplyNth
  <1> QED BY <1>1, <1>2

\* A batch whose entries fit keeps a challenge good.  It never takes it back;
\* only the end of an attempt settles a trigger.
LEMMA BatchGood ==
    ASSUME NEW o, NEW T, NEW s, NEW b, Good(s), AllFit(o, T, s, b)
    PROVE  LET t == ApplyBatch(s, b)
           IN  /\ Good(t) /\ NotBack(s, t)
               /\ "ChallengeCreated" \notin T /\ DormantOK(s)
                     => DormantOK(t)
               /\ "ProcessingEnded" \notin T
                     => t.processing.completed = s.processing.completed
  <1> DEFINE Fine(t) ==
                /\ Good(t) /\ NotBack(s, t)
                /\ "ChallengeCreated" \notin T /\ DormantOK(s)
                      => DormantOK(t)
                /\ "ProcessingEnded" \notin T
                      => t.processing.completed = s.processing.completed
  <1>1. Fine(s)
    BY PositionTyped DEF NotBack, Good
  <1>2. ASSUME NEW u, NEW i, Fine(u), i \in DOMAIN b => FitsAs(o, T, u, b[i])
        PROVE  Fine(ApplyNth(u, b, i))
    <2> DEFINE t == ApplyNth(u, b, i)
    <2>1. /\ Good(t)
          /\ i \in DOMAIN b => Stepped(u, b[i], t)
          /\ i \notin DOMAIN b => t = u
      BY <1>2, NthStepped
    <2> HIDE DEF t
    <2>2. CASE i \notin DOMAIN b
      BY <1>2, <2>1, <2>2 DEF t
    <2>3. CASE i \in DOMAIN b
      <3>1. NotBack(s, t)
        BY <1>2, <2>1, <2>3, NotBackTransitive DEF Stepped, Good
      <3>2. b[i].type # "ChallengeCreated" /\ DormantOK(u) => DormantOK(t)
        BY <2>1, <2>3 DEF Stepped
      <3>3. b[i].type # "ProcessingEnded" => t.processing.completed = u.processing.completed
        BY <2>1, <2>3 DEF Stepped, Effect, Settles
      <3>4. b[i].type \in T
        BY <1>2, <2>3 DEF FitsAs
      <3> QED BY <1>2, <2>1, <3>1, <3>2, <3>3, <3>4 DEF t
    <2> QED BY <2>2, <2>3
  <1> HIDE DEF Fine
  <1>3. Fine(After1(s, b))
    BY <1>1, <1>2 DEF AllFit, After1
  <1>4. Fine(After2(s, b))
    BY <1>2, <1>3 DEF AllFit, After2
  <1>5. Fine(After3(s, b))
    BY <1>2, <1>4 DEF AllFit, After3
  <1>6. Fine(After4(s, b))
    BY <1>2, <1>5 DEF AllFit, After4
  <1>7. Fine(ApplyNth(After4(s, b), b, 5))
    BY <1>2, <1>6 DEF AllFit
  <1>8. ApplyBatch(s, b) = ApplyNth(After4(s, b), b, 5)
    BY DEF ApplyBatch, After4, After3, After2, After1
  <1> QED BY <1>7, <1>8 DEF Fine

\* Every entry of a batch meets a good state.
LEMMA EachFits ==
    ASSUME NEW o, NEW T, NEW s, NEW b, Good(s), AllFit(o, T, s, b)
    PROVE  /\ DOMAIN b = 1..Len(b)
           /\ \A i \in DOMAIN b : \E u : Good(u) /\ FitsAs(o, T, u, b[i])
  <1>1. DOMAIN b = 1..Len(b) /\ Len(b) \in Nat /\ Len(b) <= 5
    BY IsBatchDef DEF AllFit
  <1>2. Good(After1(s, b))
    BY NthStepped DEF AllFit, After1
  <1>3. Good(After2(s, b))
    BY <1>2, NthStepped DEF AllFit, After2
  <1>4. Good(After3(s, b))
    BY <1>3, NthStepped DEF AllFit, After3
  <1>5. Good(After4(s, b))
    BY <1>4, NthStepped DEF AllFit, After4
  <1>6. ASSUME NEW i \in DOMAIN b
        PROVE  \E u : Good(u) /\ FitsAs(o, T, u, b[i])
    <2>1. i \in {1, 2, 3, 4, 5}
      BY <1>1, <1>6
    <2> QED BY <1>2, <1>3, <1>4, <1>5, <1>6, <2>1 DEF AllFit
  <1> QED BY <1>1, <1>6

-----------------------------------------------------------------------------
(* Decisions                                                                 *)

\* What clients make a challenge journal.
Ordinary == {"ClientJoined", "ClientRejoined", "ClientStageReported", "StageStarted",
             "StageAttemptStarted", "StageSealed", "ChallengeFinishing", "ClientFinished",
             "ClientsRemoved", "ClientActivity", "ChallengeTerminated", "ModeChanged",
             "PartyChanged"}

Open(s) == Good(s) /\ s.created /\ ~Terminated(s)

ProgressRecord == [stage : Stage, status : StageStatus]

LEMMA SealFits ==
    ASSUME NEW o, NEW s, NEW forced, Open(s), ~Sealed(s), s.status # "ENTERED"
    PROVE  FitsAs(o, Ordinary, s, Seal(s.stage, s.attempt, forced))
  <1>1. s.stage \in Stage /\ s.attempt \in Nat
    BY PositionTyped DEF Open, Good, PositionOK
  <1> QED BY <1>1 DEF FitsAs, Fits, InStep, Seal, Ordinary, Open, Processing

LEMMA ReportFits ==
    ASSUME NEW o, NEW s, NEW cmd, NEW attempt \in Nat, Open(s), attempt <= s.attempt,
           cmd.progress \in ProgressRecord,
           o /\ cmd.progress.status \in Finished => cmd.progress.stage <= s.stage
    PROVE  FitsAs(o, Ordinary, s, Report(cmd, attempt))
  BY DEF FitsAs, Fits, InStep, Report, Ordinary, Open, Processing, ProgressRecord

\* After an entry that moves nothing the challenge is where it was.
LEMMA StaysOpen ==
    ASSUME NEW s, NEW e, Open(s), Fits(s, e),
           e.type \notin Movers \cup {"ChallengeTerminated"}
    PROVE  LET t == Apply(s, e)
           IN  /\ Open(t) /\ t.stage = s.stage /\ t.attempt = s.attempt
               /\ t.status = s.status /\ t.stageState = s.stageState
  BY EntryGood DEF Open, Stepped, Effect, Moved

LEMMA SealSeals ==
    ASSUME NEW o, NEW s, NEW e, Open(s), FitsAs(o, Ordinary, s, e), e.type = "StageSealed"
    PROVE  LET t == Apply(s, e)
           IN  /\ Open(t) /\ t.stage = s.stage /\ t.attempt = s.attempt
               /\ t.status = s.status /\ Sealed(t)
  BY EntryGood DEF Open, Stepped, Effect, Moved, FitsAs, Sealed

\* The client's own attempt.
LEMMA ClientAttempt ==
    ASSUME NEW s, NEW c \in Clients(s), Good(s)
    PROVE  s.clients[c].attempt \in Nat /\ s.clients[c].attempt <= s.attempt
  BY ClientsTyped DEF Good, PositionOK, ClientRecord

LEMMA FinishedFits ==
    ASSUME NEW o, NEW s, NEW cmd, Open(s), cmd.client \in Clients(s),
           cmd.progress \in ProgressRecord, cmd.progress.status \in Finished,
           cmd.progress.stage >= s.stage, o => cmd.progress.stage <= s.stage
    PROVE  AllFit(o, Ordinary, s, DecideFinished(s, cmd)) /\ Len(DecideFinished(s, cmd)) <= 3
  <1> DEFINE attempt == s.clients[cmd.client].attempt
             report == Report(cmd, attempt)
             seal == Seal(cmd.progress.stage, attempt, FALSE)
             t == Apply(s, report)
  <1>1. /\ attempt \in Nat /\ attempt <= s.attempt /\ s.stage \in Nat /\ s.attempt \in Nat
        /\ cmd.progress.stage \in Stage /\ cmd.progress.stage \in Nat
    <2>1. attempt \in Nat /\ attempt <= s.attempt
      BY ClientAttempt DEF Open
    <2>2. s.stage \in Nat /\ s.attempt \in Nat
      BY PositionTyped DEF Open, Good
    <2>3. cmd.progress.stage \in Stage
      BY DEF ProgressRecord
    <2>4. cmd.progress.stage \in Nat
      BY <2>3, CoreAssumption
    <2> QED BY <2>1, <2>2, <2>3, <2>4
  <1>2. /\ report.type = "ClientStageReported" /\ report.status = cmd.progress.status
        /\ report.attempt = attempt /\ report.stage = cmd.progress.stage
        /\ seal.type = "StageSealed" /\ seal.stage = cmd.progress.stage /\ seal.attempt = attempt
    BY DEF Report, Seal
  <1>3. FitsAs(o, Ordinary, s, report)
    <2> HIDE DEF attempt
    <2> QED BY <1>1, ReportFits
  <1>4. DecideFinished(s, cmd) = <<report>> \o
            (IF AllFinished(s, cmd) /\ ~Sealed(s) THEN <<seal>> ELSE <<>>)
    BY DEF DecideFinished, None
  <1> HIDE DEF attempt, report, seal
  <1>5. CASE ~(AllFinished(s, cmd) /\ ~Sealed(s))
    <2>0. <<report>> \o <<>> = <<report>>
      OBVIOUS
    <2>1. DecideFinished(s, cmd) = <<report>>
      BY <1>4, <1>5, <2>0, Zenon
    <2> QED BY <1>3, <2>1, OneFits
  <1>6. CASE AllFinished(s, cmd) /\ ~Sealed(s)
    <2>1. DecideFinished(s, cmd) = <<report, seal>>
      BY <1>4, <1>6, Pair
    <2>2. Stepped(s, report, t)
      BY <1>3, EntryGood DEF FitsAs, Open
    <2>3. /\ Open(t) /\ t.stage = s.stage /\ t.attempt = s.attempt /\ ~Sealed(t)
          /\ OpensWindow(s, report) => t.status = cmd.progress.status
          /\ ~OpensWindow(s, report) => t.status = s.status
      BY <1>2, <1>6, <2>2 DEF Stepped, Effect, Moved, Open, Sealed
    <2>4. t.status # "ENTERED"
      <3>1. CASE s.status = "ENTERED"
        <4>1. s.attempt = 0 /\ s.stageState = "InProgress"
          BY <3>1 DEF Open, Good, PositionOK
        <4>2. attempt = s.attempt
          BY <1>1, <4>1
        <4>3. OpensWindow(s, report)
          BY <1>2, <4>1, <4>2 DEF OpensWindow
        <4> QED BY <2>3, <4>3 DEF Finished
      <3>2. CASE s.status # "ENTERED"
        BY <2>3, <3>2 DEF Finished
      <3> QED BY <3>1, <3>2
    <2>5. o => cmd.progress.stage = s.stage /\ attempt = s.attempt
      <3> SUFFICES ASSUME o
                   PROVE  cmd.progress.stage = s.stage /\ attempt = s.attempt
        OBVIOUS
      <3>1. cmd.progress.stage = s.stage
        BY <1>1
      <3>2. FinishedStage(s, cmd.progress.stage, cmd.progress.status, attempt)
        BY <1>6 DEF AllFinished, attempt
      <3>3. attempt >= s.attempt
        BY <1>1, <3>1, <3>2 DEF FinishedStage
      <3> QED BY <1>1, <3>1, <3>3
    <2>6. FitsAs(o, Ordinary, t, seal)
      BY <1>1, <1>2, <2>3, <2>4, <2>5 DEF FitsAs, Fits, InStep, Ordinary, Open, Processing
    <2> QED BY <1>3, <2>1, <2>6, TwoFit
  <1> QED BY <1>5, <1>6

LEMMA StartedFits ==
    ASSUME NEW o, NEW s, NEW cmd, Open(s), cmd.progress \in ProgressRecord,
           cmd.progress.status = "STARTED", cmd.progress.stage >= s.stage
    PROVE  AllFit(o, Ordinary, s, DecideStarted(s, cmd)) /\ Len(DecideStarted(s, cmd)) <= 3
  <1> DEFINE stage == cmd.progress.stage
             seal == Seal(s.stage, s.attempt, TRUE)
             start == [type |-> "StageStarted", stage |-> stage]
             again == [type |-> "StageAttemptStarted", stage |-> s.stage,
                       attempt |-> s.attempt + 1]
             moves == stage # s.stage \/ s.status = "ENTERED"
             retries == /\ s.attempt # NoAttempt
                        /\ s.clients[cmd.client].stage = s.stage
                        /\ s.clients[cmd.client].attempt = s.attempt
             first == Report(cmd, FirstAttempt(stage))
             second == Report(cmd, s.attempt + 1)
             same == Report(cmd, s.attempt)
             d == DecideStarted(s, cmd)
  <1>1. /\ s.stage \in Nat /\ s.attempt \in Nat /\ stage \in Stage /\ stage \in Nat
        /\ s.stage \in Stage /\ FirstAttempt(stage) \in Nat /\ s.attempt + 1 \in Nat
    <2>1. s.stage \in Nat /\ s.attempt \in Nat /\ s.stage \in Stage
      BY PositionTyped DEF Open, Good, PositionOK
    <2>2. stage \in Stage
      BY DEF ProgressRecord
    <2>3. stage \in Nat
      BY <2>2, CoreAssumption
    <2>4. FirstAttempt(stage) \in Nat
      BY DEF FirstAttempt, NoAttempt
    <2> QED BY <2>1, <2>2, <2>3, <2>4
  <1>2. /\ moves /\ stage # s.stage /\ s.status # "ENTERED" /\ ~Sealed(s)
              => d = <<seal>> \o <<start, first>>
        /\ moves /\ ~(stage # s.stage /\ s.status # "ENTERED" /\ ~Sealed(s))
              => d = <<>> \o <<start, first>>
        /\ ~moves /\ retries /\ ~Sealed(s) => d = <<seal>> \o <<again, second>>
        /\ ~moves /\ retries /\ Sealed(s) => d = <<>> \o <<again, second>>
        /\ ~moves /\ ~retries => d = <<same>>
    BY DEF DecideStarted, None
  <1>3. "STARTED" \notin Finished /\ start.type = "StageStarted" /\ start.stage = stage
        /\ again.type = "StageAttemptStarted" /\ again.stage = s.stage
        /\ again.attempt = s.attempt + 1
    BY DEF Finished
  <1> HIDE DEF start, again, moves, retries, d
  <1>4. ASSUME NEW t, Open(t), t.stage = s.stage,
               \/ stage > t.stage /\ (Sealed(t) \/ t.status = "ENTERED")
               \/ stage = t.stage /\ t.status = "ENTERED"
        PROVE  FitsAs(o, Ordinary, t, start) /\ FitsAs(o, Ordinary, Apply(t, start), first)
    <2>1. FitsAs(o, Ordinary, t, start)
      BY <1>1, <1>3, <1>4 DEF FitsAs, Fits, InStep, Ordinary, Open, Processing
    <2> DEFINE u == Apply(t, start)
    <2>2. Stepped(t, start, u)
      BY <1>4, <2>1, EntryGood DEF FitsAs, Open
    <2>3. Open(u) /\ u.attempt = FirstAttempt(stage)
      BY <1>3, <1>4, <2>2 DEF Stepped, Effect, Moved, Open
    <2> HIDE DEF u
    <2>4. FitsAs(o, Ordinary, u, first)
      BY <1>1, <1>3, <2>3, ReportFits
    <2> QED BY <2>1, <2>4 DEF u
  <1>5. ASSUME NEW t, Open(t), t.stage = s.stage, t.attempt = s.attempt, s.attempt # 0, Sealed(t)
        PROVE  FitsAs(o, Ordinary, t, again) /\ FitsAs(o, Ordinary, Apply(t, again), second)
    <2>1. FitsAs(o, Ordinary, t, again)
      BY <1>1, <1>3, <1>5 DEF FitsAs, Fits, InStep, Ordinary, Open, Processing
    <2> DEFINE u == Apply(t, again)
    <2>2. Stepped(t, again, u)
      BY <1>5, <2>1, EntryGood DEF FitsAs, Open
    <2>3. Open(u) /\ u.attempt = s.attempt + 1
      BY <1>3, <1>5, <2>2 DEF Stepped, Effect, Moved, Open
    <2> HIDE DEF u
    <2>4. FitsAs(o, Ordinary, u, second)
      BY <1>1, <1>3, <2>3, ReportFits
    <2> QED BY <2>1, <2>4 DEF u
  <1>6. ASSUME ~Sealed(s), s.status # "ENTERED"
        PROVE  LET t == Apply(s, seal)
               IN  /\ FitsAs(o, Ordinary, s, seal)
                   /\ Open(t) /\ t.stage = s.stage /\ t.attempt = s.attempt
                   /\ t.status = s.status /\ Sealed(t)
    <2>1. FitsAs(o, Ordinary, s, seal) /\ seal.type = "StageSealed"
      BY <1>6, SealFits DEF Seal
    <2> HIDE DEF seal
    <2> QED BY <2>1, SealSeals
  <1> HIDE DEF seal, first, second, same
  <1>7. CASE moves /\ stage # s.stage /\ s.status # "ENTERED" /\ ~Sealed(s)
    <2>1. d = <<seal, start, first>>
      BY <1>2, <1>7, Triple
    <2>2. stage > s.stage
      BY <1>1, <1>7
    <2>3. FitsAs(o, Ordinary, Apply(s, seal), start)
          /\ FitsAs(o, Ordinary, Apply(Apply(s, seal), start), first)
      BY <1>4, <1>6, <1>7, <2>2
    <2> QED BY <1>6, <1>7, <2>1, <2>3, ThreeFit DEF d
  <1>8. CASE moves /\ ~(stage # s.stage /\ s.status # "ENTERED" /\ ~Sealed(s))
    <2>1. d = <<start, first>>
      BY <1>2, <1>8
    <2>2. \/ stage > s.stage /\ (Sealed(s) \/ s.status = "ENTERED")
          \/ stage = s.stage /\ s.status = "ENTERED"
      BY <1>1, <1>8 DEF moves
    <2>3. FitsAs(o, Ordinary, s, start) /\ FitsAs(o, Ordinary, Apply(s, start), first)
      BY <1>4, <2>2
    <2> QED BY <2>1, <2>3, TwoFit DEF d
  <1>9. CASE ~moves /\ retries /\ ~Sealed(s)
    <2>1. d = <<seal, again, second>>
      BY <1>2, <1>9, Triple
    <2>2. s.attempt # 0 /\ s.status # "ENTERED"
      BY <1>9 DEF moves, retries, NoAttempt
    <2>3. FitsAs(o, Ordinary, Apply(s, seal), again)
          /\ FitsAs(o, Ordinary, Apply(Apply(s, seal), again), second)
      BY <1>5, <1>6, <1>9, <2>2
    <2> QED BY <1>6, <1>9, <2>1, <2>2, <2>3, ThreeFit DEF d
  <1>10. CASE ~moves /\ retries /\ Sealed(s)
    <2>1. d = <<again, second>>
      BY <1>2, <1>10
    <2>2. s.attempt # 0
      BY <1>10 DEF retries, NoAttempt
    <2>3. FitsAs(o, Ordinary, s, again) /\ FitsAs(o, Ordinary, Apply(s, again), second)
      BY <1>5, <1>10, <2>2
    <2> QED BY <2>1, <2>3, TwoFit DEF d
  <1>11. CASE ~moves /\ ~retries
    <2>1. d = <<same>>
      BY <1>2, <1>11
    <2>2. FitsAs(o, Ordinary, s, same)
      BY <1>1, <1>3, ReportFits DEF same
    <2> QED BY <2>1, <2>2, OneFits DEF d
  <1> QED BY <1>7, <1>8, <1>9, <1>10, <1>11

\* What clients report: a stage in progress is only reported ahead of the
\* challenge, and with inOrder no stage is finished before it is current.
Reported(inOrder, s, progress) ==
    /\ progress \in ProgressRecord
    /\ inOrder /\ progress.status \in Finished => progress.stage <= s.stage

LEMMA ProgressFits ==
    ASSUME NEW o, NEW s, NEW cmd, Open(s), cmd.client \in Clients(s),
           Reported(o, s, cmd.progress), cmd.progress.stage >= s.stage
    PROVE  AllFit(o, Ordinary, s, DecideProgress(s, cmd)) /\ Len(DecideProgress(s, cmd)) <= 3
  <1> DEFINE attempt == s.clients[cmd.client].attempt
  <1>1. /\ cmd.progress.status \in Finished =>
             DecideProgress(s, cmd) = DecideFinished(s, cmd)
        /\ cmd.progress.status = "STARTED" =>
             DecideProgress(s, cmd) = DecideStarted(s, cmd)
        /\ cmd.progress.status = "ENTERED" =>
             DecideProgress(s, cmd) = <<Report(cmd, attempt)>>
    BY Zenon DEF DecideProgress, Finished
  <1>2. cmd.progress \in ProgressRecord /\ cmd.progress.status \in StageStatus
    BY DEF Reported, ProgressRecord
  <1>3. CASE cmd.progress.status \in Finished
    BY <1>1, <1>2, <1>3, FinishedFits DEF Reported
  <1>4. CASE cmd.progress.status = "STARTED"
    BY <1>1, <1>2, <1>4, StartedFits
  <1>5. CASE cmd.progress.status = "ENTERED"
    <2>1. attempt \in Nat /\ attempt <= s.attempt
      BY ClientAttempt DEF Open
    <2>2. cmd.progress.status \notin Finished
      BY <1>5 DEF Finished
    <2> HIDE DEF attempt
    <2>3. FitsAs(o, Ordinary, s, Report(cmd, attempt))
      BY <1>2, <2>1, <2>2, ReportFits
    <2> DEFINE r == Report(cmd, attempt)
    <2>4. DecideProgress(s, cmd) = <<r>> /\ FitsAs(o, Ordinary, s, r)
      BY <1>1, <1>5, <2>3
    <2> HIDE DEF r
    <2>5. AllFit(o, Ordinary, s, <<r>>) /\ Len(<<r>>) = 1
      BY ONLY <2>4, OneFits
    <2>6. Len(DecideProgress(s, cmd)) = 1
      BY ONLY <2>4, <2>5
    <2> QED BY <2>4, <2>5, <2>6
  <1> QED BY <1>2, <1>3, <1>4, <1>5 DEF StageStatus, Finished

LEMMA ProgressSame ==
    ASSUME NEW s, NEW t, NEW cmd, t.stage = s.stage, t.attempt = s.attempt,
           t.status = s.status, t.stageState = s.stageState, t.clients = s.clients,
           cmd.progress.status \in StageStatus
    PROVE  DecideProgress(t, cmd) = DecideProgress(s, cmd)
  <1>1. DecideFinished(t, cmd) = DecideFinished(s, cmd)
    BY DEF DecideFinished, AllFinished, FinishedStage, Sealed, Clients
  <1>2. DecideStarted(t, cmd) = DecideStarted(s, cmd)
    BY DEF DecideStarted, Sealed
  <1>3. CASE cmd.progress.status \in Finished
    <2>1. /\ DecideProgress(s, cmd) = DecideFinished(s, cmd)
          /\ DecideProgress(t, cmd) = DecideFinished(t, cmd)
      BY <1>3, Zenon DEF DecideProgress, Finished
    <2> QED BY <1>1, <2>1
  <1>4. CASE cmd.progress.status = "STARTED"
    <2>1. /\ DecideProgress(s, cmd) = DecideStarted(s, cmd)
          /\ DecideProgress(t, cmd) = DecideStarted(t, cmd)
      BY <1>4, Zenon DEF DecideProgress, Finished
    <2> QED BY <1>2, <2>1
  <1>5. CASE cmd.progress.status = "ENTERED"
    BY <1>5, Zenon DEF DecideProgress, Finished
  <1> QED BY <1>3, <1>4, <1>5 DEF StageStatus, Finished

\* An entry about mode or party in front of a decision about progress.
LEMMA InfoFits ==
    ASSUME NEW o, NEW s, NEW e, Open(s),
           \/ e.type = "ModeChanged" /\ e.mode \in Mode
           \/ e.type = "PartyChanged"
    PROVE  LET t == Apply(s, e)
           IN  /\ FitsAs(o, Ordinary, s, e)
               /\ Open(t) /\ t.clients = s.clients /\ t.stage = s.stage
               /\ t.attempt = s.attempt /\ t.status = s.status /\ t.stageState = s.stageState
  <1>1. Fits(s, e)
    BY DEF Fits, Open, Processing
  <1>2. FitsAs(o, Ordinary, s, e)
    BY <1>1 DEF FitsAs, InStep, Ordinary
  <1>3. Apply(s, e).clients = s.clients
    BY <1>1, EntryGood DEF Open, Stepped, Effect, ClientsMoved
  <1>4. e.type \notin Movers \cup {"ChallengeTerminated"}
    BY DEF Movers
  <1> QED BY <1>1, <1>2, <1>3, <1>4, StaysOpen

\* A state that differs in its mode, its party and its pipeline only.
SamePlace(s, t) ==
    /\ Open(t) /\ t.clients = s.clients /\ t.stage = s.stage
    /\ t.attempt = s.attempt /\ t.status = s.status /\ t.stageState = s.stageState

LEMMA InfoAhead ==
    ASSUME NEW o, NEW s, NEW m, NEW p, NEW r, Open(s), m.type = "ModeChanged", m.mode \in Mode,
           p.type = "PartyChanged", Len(r) <= 3,
           \A t : SamePlace(s, t) => AllFit(o, Ordinary, t, r)
    PROVE  /\ AllFit(o, Ordinary, s, r)
           /\ AllFit(o, Ordinary, s, <<m>> \o r)
           /\ AllFit(o, Ordinary, s, <<p>> \o r)
           /\ AllFit(o, Ordinary, s, <<m>> \o (<<p>> \o r))
  <1>1. AllFit(o, Ordinary, s, r) /\ IsBatch(r) /\ Len(r) <= 4
    <2>1. SamePlace(s, s)
      BY DEF SamePlace
    <2>2. AllFit(o, Ordinary, s, r)
      BY <2>1
    <2> QED BY <2>2, IsBatchDef DEF AllFit
  <1>2. ASSUME NEW t, SamePlace(s, t)
        PROVE  AllFit(o, Ordinary, t, <<p>> \o r)
    <2>1. FitsAs(o, Ordinary, t, p) /\ SamePlace(s, Apply(t, p))
      BY <1>2, InfoFits DEF SamePlace
    <2> QED BY <1>1, <2>1, ConsFits
  <1>3. AllFit(o, Ordinary, s, <<m>> \o r) /\ AllFit(o, Ordinary, s, <<p>> \o r)
    <2>1. FitsAs(o, Ordinary, s, m) /\ SamePlace(s, Apply(s, m)) /\ SamePlace(s, s)
      BY InfoFits DEF SamePlace
    <2>2. AllFit(o, Ordinary, Apply(s, m), r)
      BY <2>1
    <2> QED BY <1>1, <1>2, <2>1, <2>2, ConsFits
  <1>4. AllFit(o, Ordinary, s, <<m>> \o (<<p>> \o r))
    <2> DEFINE q == <<p>> \o r
    <2>1. FitsAs(o, Ordinary, s, m) /\ SamePlace(s, Apply(s, m))
      BY InfoFits DEF SamePlace
    <2>2. AllFit(o, Ordinary, Apply(s, m), q)
      BY <1>2, <2>1
    <2>4. Len(q) = Len(r) + 1 /\ Len(r) \in Nat
      BY <1>1, BatchCons, IsBatchDef
    <2>5. Len(q) <= 4
      BY <2>4
    <2> HIDE DEF q
    <2>3. AllFit(o, Ordinary, s, <<m>> \o q)
      BY <2>1, <2>2, <2>5, ConsFits
    <2> QED BY <2>3 DEF q
  <1> QED BY <1>1, <1>3, <1>4

\* Informational entries in front of a batch: none, a mode, a party or both.
LEMMA InfoRegrouped ==
    ASSUME NEW m, NEW p, NEW r, IsBatch(r)
    PROVE  /\ (<<>> \o <<>>) \o r = r
           /\ (<<m>> \o <<>>) \o r = <<m>> \o r
           /\ (<<>> \o <<p>>) \o r = <<p>> \o r
           /\ (<<m>> \o <<p>>) \o r = <<m>> \o (<<p>> \o r)
  <1>1. PICK S : r \in Seq(S)
    BY DEF IsBatch
  <1> DEFINE U == S \cup {m, p}
             a == <<m>>
             b == <<p>>
             n == <<>>
  <1>2. r \in Seq(U)
    BY <1>1
  <1>3. a \in Seq(U) /\ b \in Seq(U) /\ n \in Seq(U)
    OBVIOUS
  <1>4. /\ n \o n = n /\ a \o n = a /\ n \o b = b
        /\ n \o r = r
    <2> HIDE DEF U, a, b
    <2> QED BY <1>2, <1>3, ConcatEmptySeq
  <1>5. (a \o b) \o r = a \o (b \o r)
    <2> HIDE DEF U, a, b, n
    <2> QED BY <1>2, <1>3, ConcatRegroup
  <1> QED BY <1>4, <1>5

LEMMA UpdateFits ==
    ASSUME NEW o, NEW s, NEW cmd, Open(s),
           cmd.progress = NoProgress \/ Reported(o, s, cmd.progress)
    PROVE  AllFit(o, Ordinary, s, DecideUpdate(s, cmd))
  <1> DEFINE m    == [type |-> "ModeChanged", mode |-> cmd.mode]
             p    == [type |-> "PartyChanged"]
             mode == IF cmd.mode \in Mode \ {s.mode} THEN <<m>> ELSE <<>>
             team == IF cmd.party /\ ~s.partyChanged THEN <<p>> ELSE <<>>
             info == mode \o team
             late == cmd.client \notin Clients(s) \/ TooLate(s, cmd.progress.stage)
  <1>1. /\ cmd.progress = NoProgress => DecideUpdate(s, cmd) = info
        /\ cmd.progress # NoProgress /\ late => DecideUpdate(s, cmd) = <<>>
        /\ cmd.progress # NoProgress /\ ~late =>
             DecideUpdate(s, cmd) = info \o DecideProgress(s, cmd)
    BY Zenon DEF DecideUpdate, None
  <1>2. ASSUME NEW r, Len(r) <= 3, \A t : SamePlace(s, t) => AllFit(o, Ordinary, t, r)
        PROVE  AllFit(o, Ordinary, s, info \o r)
    <2>1. m.type = "ModeChanged" /\ m.mode = cmd.mode /\ p.type = "PartyChanged"
      OBVIOUS
    <2>2. SamePlace(s, s)
      BY DEF SamePlace
    <2>3. IsBatch(r)
      BY <1>2, <2>2 DEF AllFit
    <2>4. CASE mode = <<m>> /\ cmd.mode \in Mode /\ team = <<p>>
      <3> HIDE DEF m, p, mode, team
      <3>1. AllFit(o, Ordinary, s, <<m>> \o (<<p>> \o r))
        BY <1>2, <2>1, <2>4, InfoAhead
      <3>2. (<<m>> \o <<p>>) \o r = <<m>> \o (<<p>> \o r)
        BY ONLY <2>3, InfoRegrouped
      <3> QED BY <2>4, <3>1, <3>2
    <2>5. CASE mode = <<m>> /\ cmd.mode \in Mode /\ team = <<>>
      <3> HIDE DEF m, p, mode, team
      <3>1. AllFit(o, Ordinary, s, <<m>> \o r)
        BY <1>2, <2>1, <2>5, InfoAhead
      <3> QED BY <2>3, <2>5, <3>1, InfoRegrouped
    <2>6. CASE mode = <<>> /\ team = <<p>>
      <3> HIDE DEF m, p, mode, team
      <3>2. AllFit(o, Ordinary, s, <<p>> \o r)
        <4>1. FitsAs(o, Ordinary, s, p) /\ SamePlace(s, Apply(s, p))
          BY <2>1, <2>2, InfoFits DEF SamePlace
        <4>2. AllFit(o, Ordinary, Apply(s, p), r) /\ Len(r) <= 4
          BY <1>2, <2>3, <4>1, IsBatchDef
        <4> QED BY <4>1, <4>2, ConsFits
      <3> QED BY <2>3, <2>6, <3>2, InfoRegrouped
    <2>7. CASE mode = <<>> /\ team = <<>>
      <3> HIDE DEF m, p, mode, team
      <3>1. AllFit(o, Ordinary, s, r)
        BY <1>2, <2>2
      <3> QED BY <2>3, <2>7, <3>1, InfoRegrouped
    <2> QED BY <2>4, <2>5, <2>6, <2>7
  <1>3. info \o <<>> = info
    <2> DEFINE U == {m, p}
    <2>1. mode \in Seq(U) /\ team \in Seq(U)
      <3> HIDE DEF m, p
      <3>1. <<m>> \in Seq(U) /\ <<p>> \in Seq(U) /\ <<>> \in Seq(U)
        OBVIOUS
      <3> QED BY <3>1
    <2> HIDE DEF mode, team, U
    <2> QED BY <2>1, ConcatProperties, ConcatEmptySeq
  <1>4. CASE cmd.progress = NoProgress
    <2>1. AllFit(o, Ordinary, s, info \o <<>>)
      <3>1. Len(<<>>) <= 3 /\ \A t : SamePlace(s, t) => AllFit(o, Ordinary, t, <<>>)
        BY NoneFits
      <3> HIDE DEF info
      <3> QED BY <1>2, <3>1
    <2> HIDE DEF info
    <2> QED BY <1>1, <1>3, <1>4, <2>1
  <1>5. CASE cmd.progress # NoProgress /\ late
    BY <1>1, <1>5, NoneFits
  <1>6. CASE cmd.progress # NoProgress /\ ~late
    <2>1. cmd.client \in Clients(s) /\ Reported(o, s, cmd.progress)
      BY <1>6
    <2>2. cmd.progress \in ProgressRecord /\ cmd.progress.stage >= s.stage
      <3>1. cmd.progress \in ProgressRecord /\ ~(cmd.progress.stage < s.stage)
        BY <1>6, <2>1 DEF Reported, TooLate
      <3>2. cmd.progress.stage \in Nat /\ s.stage \in Nat
        BY <3>1, PositionTyped, CoreAssumption DEF ProgressRecord, Open, Good
      <3> QED BY <3>1, <3>2
    <2>3. cmd.progress.status \in StageStatus
      BY <2>2 DEF ProgressRecord
    <2> DEFINE r == DecideProgress(s, cmd)
    <2>4. Len(r) <= 3
      BY <2>1, <2>2, ProgressFits
    <2>5. ASSUME NEW t, SamePlace(s, t)
          PROVE  AllFit(o, Ordinary, t, r)
      <3>1. DecideProgress(t, cmd) = r
        BY <2>3, <2>5, ProgressSame DEF SamePlace
      <3>2. Open(t) /\ cmd.client \in Clients(t) /\ Reported(o, t, cmd.progress)
            /\ cmd.progress.stage >= t.stage
        BY <2>1, <2>2, <2>5 DEF SamePlace, Clients, Reported
      <3>3. AllFit(o, Ordinary, t, DecideProgress(t, cmd))
        BY <3>2, ProgressFits
      <3> QED BY <3>1, <3>3
    <2> HIDE DEF r, info
    <2>6. AllFit(o, Ordinary, s, info \o r)
      BY <1>2, <2>4, <2>5
    <2> QED BY <1>1, <1>6, <2>6 DEF r
  <1> QED BY <1>4, <1>5, <1>6

-----------------------------------------------------------------------------
(* The other decisions                                                       *)

Opening == {"ChallengeCreated", "ClientJoined"}

LEMMA ApplyOne ==
    ASSUME NEW s, NEW a
    PROVE  /\ ApplyBatch(s, <<>>) = s
           /\ ApplyBatch(s, <<a>>) = Apply(s, a)
  BY DEF ApplyBatch, ApplyNth

\* A challenge is created with its first client, who is active.
LEMMA CreateFits ==
    ASSUME NEW o, NEW s, NEW cmd, Good(s), cmd.client \in Client, cmd.token \in Token,
           cmd.participant \in BOOLEAN, cmd.mode \in Mode, cmd.stage \in Stage
    PROVE  LET d == DecideCreate(s, cmd)
           IN  AllFit(o, Opening, s, d) /\ (d # <<>> => HasActive(ApplyBatch(s, d)))
  <1> DEFINE a == [type |-> "ChallengeCreated", mode |-> cmd.mode, stage |-> cmd.stage]
             b == [type |-> "ClientJoined", client |-> cmd.client, token |-> cmd.token,
                   participant |-> cmd.participant]
             t == Apply(s, a)
             d == DecideCreate(s, cmd)
  <1>1. /\ s.created => d = <<>>
        /\ ~s.created => d = <<a, b>>
    BY DEF DecideCreate, None
  <1>2. CASE s.created
    BY <1>1, <1>2, NoneFits
  <1>3. CASE ~s.created
    <2>1. ~Terminated(s)
      BY <1>3 DEF Good, PositionOK, DefaultState, Terminated
    <2>2. FitsAs(o, Opening, s, a) /\ a.type = "ChallengeCreated"
      BY <1>3, <2>1 DEF FitsAs, Fits, InStep, Opening, Processing
    <2>3. b.type = "ClientJoined" /\ b.client \in Client /\ b.token \in Token
          /\ b.participant \in BOOLEAN
      OBVIOUS
    <2> HIDE DEF a, b, d
    <2>4. Stepped(s, a, t)
      BY <2>2, EntryGood DEF FitsAs
    <2>5. Good(t) /\ t.created /\ ~Terminated(t)
      BY <2>1, <2>2, <2>4 DEF Stepped, Effect
    <2> HIDE DEF t
    <2>6. FitsAs(o, Opening, t, b)
      BY <2>3, <2>5 DEF FitsAs, Fits, InStep, Opening, Processing
    <2>7. Stepped(t, b, Apply(t, b))
      BY <2>5, <2>6, EntryGood DEF FitsAs
    <2>8. HasActive(Apply(t, b))
      BY <2>3, <2>7 DEF Stepped, Effect
    <2>9. ApplyBatch(s, <<a, b>>) = Apply(t, b)
      <3>1. ApplyBatch(s, <<a, b>>) = Apply(Apply(s, a), b)
        BY ONLY DEF ApplyBatch, ApplyNth
      <3> QED BY ONLY <3>1 DEF t
    <2>10. AllFit(o, Opening, s, <<a, b>>)
      BY <2>2, <2>6, TwoFit DEF t
    <2>11. d = <<a, b>>
      BY <1>1, <1>3
    <2>12. AllFit(o, Opening, s, d) /\ HasActive(ApplyBatch(s, d))
      BY ONLY <2>8, <2>9, <2>10, <2>11
    <2> QED BY <2>12 DEF d
  <1> QED BY <1>2, <1>3

\* A single entry that reads its fields.
LEMMA JoinFits ==
    ASSUME NEW o, NEW s, NEW cmd, Open(s), cmd.client \in Client, cmd.token \in Token,
           cmd.participant \in BOOLEAN
    PROVE  AllFit(o, Ordinary, s, DecideJoin(s, cmd))
  <1> DEFINE a == [type |-> "ClientRejoined", client |-> cmd.client, token |-> cmd.token]
             b == [type |-> "ClientJoined", client |-> cmd.client, token |-> cmd.token,
                   participant |-> cmd.participant]
  <1>1. DecideJoin(s, cmd) = <<a>> \/ DecideJoin(s, cmd) = <<b>>
    BY DEF DecideJoin
  <1>2. FitsAs(o, Ordinary, s, a) /\ FitsAs(o, Ordinary, s, b)
    BY DEF FitsAs, Fits, InStep, Ordinary, Processing, Open
  <1> HIDE DEF a, b
  <1> QED BY <1>1, <1>2, OneFits

LEMMA LeaveFits ==
    ASSUME NEW o, NEW s, Open(s), NEW e, e.type \in {"ClientsRemoved", "ClientFinished"}
    PROVE  FitsAs(o, Ordinary, s, e)
  BY DEF FitsAs, Fits, InStep, Ordinary, Processing, Open

LEMMA MovedOnFits ==
    ASSUME NEW o, NEW s, NEW cmd, Open(s)
    PROVE  AllFit(o, Ordinary, s, DecideMovedOn(s, cmd))
  <1> DEFINE a == [type |-> "ClientsRemoved", clients |-> {cmd.client}]
  <1>1. DecideMovedOn(s, cmd) = <<a>> \/ DecideMovedOn(s, cmd) = <<>>
    BY DEF DecideMovedOn, None
  <1>2. FitsAs(o, Ordinary, s, a)
    BY LeaveFits
  <1> HIDE DEF a
  <1> QED BY <1>1, <1>2, OneFits, NoneFits

LEMMA StatusFits ==
    ASSUME NEW o, NEW s, NEW cmd, Open(s)
    PROVE  AllFit(o, Ordinary, s, DecideStatus(s, cmd))
  <1> DEFINE a == [type |-> "ClientsRemoved", clients |-> {cmd.client}]
             b == [type |-> "ClientActivity", client |-> cmd.client,
                   active |-> cmd.status = "ACTIVE"]
  <1>1. \/ DecideStatus(s, cmd) = <<a>> \/ DecideStatus(s, cmd) = <<b>>
        \/ DecideStatus(s, cmd) = <<>>
    BY Zenon DEF DecideStatus, None
  <1>2. FitsAs(o, Ordinary, s, a)
    BY LeaveFits
  <1>3. FitsAs(o, Ordinary, s, b)
    BY DEF FitsAs, Fits, InStep, Ordinary, Processing, Open
  <1> HIDE DEF a, b
  <1> QED BY <1>1, <1>2, <1>3, OneFits, NoneFits

\* The end of a challenge seals the stage it leaves open.
LEMMA CloseFits ==
    ASSUME NEW o, NEW s, NEW t, Open(t), t.stage = s.stage, t.attempt = s.attempt,
           t.status = s.status, t.stageState = s.stageState
    PROVE  LET d == SealOpenStage(s) \o Terminate
           IN  AllFit(o, Ordinary, t, d) /\ Len(d) <= 2
  <1> DEFINE seal == Seal(s.stage, s.attempt, TRUE)
             term == [type |-> "ChallengeTerminated"]
             open == ~Sealed(s) /\ s.status # "ENTERED"
             d == SealOpenStage(s) \o Terminate
  <1>0. term.type = "ChallengeTerminated"
    OBVIOUS
  <1>1. /\ open => SealOpenStage(s) = <<seal>>
        /\ ~open => SealOpenStage(s) = <<>>
        /\ Terminate = <<term>>
    BY DEF SealOpenStage, None, Terminate
  <1>2. /\ open => d = <<seal, term>>
        /\ ~open => d = <<term>>
    <2> HIDE DEF seal, term, open
    <2>1. <<>> \o <<term>> = <<term>>
      OBVIOUS
    <2> QED BY <1>1, <2>1, Pair
  <1> HIDE DEF d, term
  <1>3. ASSUME NEW u, Open(u), Sealed(u) \/ u.status = "ENTERED"
        PROVE  FitsAs(o, Ordinary, u, term)
    BY <1>0, <1>3 DEF FitsAs, Fits, InStep, Ordinary, Processing, Open
  <1>4. ASSUME open PROVE AllFit(o, Ordinary, t, d) /\ Len(d) <= 2
    <2>1. FitsAs(o, Ordinary, t, seal) /\ seal.type = "StageSealed"
      BY <1>4, SealFits DEF Sealed, Seal
    <2> HIDE DEF seal
    <2>2. Open(Apply(t, seal)) /\ Sealed(Apply(t, seal))
      BY <2>1, SealSeals
    <2>3. FitsAs(o, Ordinary, Apply(t, seal), term)
      BY <1>3, <2>2
    <2>4. AllFit(o, Ordinary, t, <<seal, term>>) /\ Len(<<seal, term>>) = 2
      BY <2>1, <2>3, TwoFit
    <2>5. d = <<seal, term>>
      BY <1>2, <1>4 DEF seal
    <2>6. Len(d) = 2
      BY ONLY <2>4, <2>5
    <2> QED BY <2>4, <2>5, <2>6
  <1>5. ASSUME ~open PROVE AllFit(o, Ordinary, t, d) /\ Len(d) <= 2
    <2>1. FitsAs(o, Ordinary, t, term)
      BY <1>3, <1>5 DEF Sealed
    <2>2. AllFit(o, Ordinary, t, <<term>>) /\ Len(<<term>>) = 1
      BY <2>1, OneFits
    <2>3. d = <<term>>
      BY <1>2, <1>5
    <2>4. Len(d) = 1
      BY ONLY <2>2, <2>3
    <2> QED BY <2>2, <2>3, <2>4
  <1> QED BY <1>4, <1>5 DEF d

\* The last clients leave and the challenge ends.
LEMMA WindDownFits ==
    ASSUME NEW o, NEW s, NEW e, Open(s), e.type \in {"ClientsRemoved", "ClientFinished"}
    PROVE  AllFit(o, Ordinary, s, <<e>> \o SealOpenStage(s) \o Terminate)
  <1> DEFINE seal == SealOpenStage(s)
             d == seal \o Terminate
  <1>1. FitsAs(o, Ordinary, s, e)
    BY LeaveFits
  <1>2. /\ Open(Apply(s, e)) /\ Apply(s, e).stage = s.stage /\ Apply(s, e).attempt = s.attempt
        /\ Apply(s, e).status = s.status /\ Apply(s, e).stageState = s.stageState
    BY <1>1, StaysOpen DEF FitsAs, Movers
  <1>3. AllFit(o, Ordinary, Apply(s, e), d) /\ Len(d) <= 2 /\ IsBatch(d)
    BY <1>2, CloseFits DEF AllFit
  <1>4. (<<e>> \o seal) \o Terminate = <<e>> \o d
    <2> DEFINE x == Seal(s.stage, s.attempt, TRUE)
               y == [type |-> "ChallengeTerminated"]
               U == {e, x, y}
               a == <<e>>
    <2>1. a \in Seq(U) /\ seal \in Seq(U) /\ Terminate \in Seq(U)
      <3>1. (seal = <<x>> \/ seal = <<>>) /\ Terminate = <<y>>
        BY DEF SealOpenStage, None, Terminate
      <3> HIDE DEF x, y, seal
      <3>2. a \in Seq(U) /\ <<x>> \in Seq(U) /\ <<>> \in Seq(U) /\ <<y>> \in Seq(U)
        OBVIOUS
      <3> QED BY <3>1, <3>2
    <2> HIDE DEF U, a, seal
    <2>2. (a \o seal) \o Terminate = a \o d
      BY <2>1, ConcatRegroup
    <2> QED BY <2>2 DEF a
  <1> HIDE DEF d
  <1>5. Len(d) <= 4
    BY <1>3, IsBatchDef
  <1>6. AllFit(o, Ordinary, s, <<e>> \o d)
    BY <1>1, <1>3, <1>5, ConsFits
  <1> QED BY <1>4, <1>6

LEMMA FinishFits ==
    ASSUME NEW o, NEW s, NEW cmd, Open(s)
    PROVE  AllFit(o, Ordinary, s, DecideFinish(s, cmd))
  <1> DEFINE a == [type |-> "ChallengeFinishing"]
             b == [type |-> "ClientFinished", clients |-> {cmd.client}]
             d == DecideFinish(s, cmd)
  <1>1. \/ d = <<>> \/ d = <<a>> \o <<b>> \/ d = <<>> \o <<b>>
        \/ d = <<b>> \o SealOpenStage(s) \o Terminate
    BY Zenon DEF DecideFinish, None
  <1>2. a.type = "ChallengeFinishing" /\ b.type = "ClientFinished"
    OBVIOUS
  <1> HIDE DEF a, b, d
  <1>3. <<>> \o <<b>> = <<b>> /\ <<a>> \o <<b>> = <<a, b>>
    <2>1. <<>> \o <<b>> = <<b>>
      OBVIOUS
    <2> QED BY <2>1, Pair
  <1>4. FitsAs(o, Ordinary, s, a)
    BY <1>2 DEF FitsAs, Fits, InStep, Ordinary, Processing, Open
  <1>5. Open(Apply(s, a))
    BY <1>2, <1>4, StaysOpen DEF FitsAs, Movers
  <1>6. FitsAs(o, Ordinary, s, b) /\ FitsAs(o, Ordinary, Apply(s, a), b)
    BY <1>2, <1>5, LeaveFits
  <1>7. /\ AllFit(o, Ordinary, s, <<>>) /\ AllFit(o, Ordinary, s, <<b>>)
        /\ AllFit(o, Ordinary, s, <<a, b>>)
        /\ AllFit(o, Ordinary, s, <<b>> \o SealOpenStage(s) \o Terminate)
    BY <1>2, <1>4, <1>6, NoneFits, OneFits, TwoFit, WindDownFits
  <1>8. AllFit(o, Ordinary, s, d)
    BY ONLY <1>1, <1>3, <1>7
  <1> QED BY <1>8 DEF d

\* A lifecycle deadline belongs to a challenge that is open.
LEMMA DeadlineOpen ==
    ASSUME NEW s, Good(s), LifecycleDeadline(s) # "None"
    PROVE  /\ Open(s)
           /\ LifecycleDeadline(s) \in {"StageEnd", "ChallengeEnd", "CleanupDisconnect",
                                        "CleanupAllIdle"}
           /\ LifecycleDeadline(s) = "StageEnd" => ~Sealed(s) /\ s.status # "ENTERED"
  <1>1. s.created
    <2>1. SUFFICES ASSUME ~s.created PROVE FALSE
      OBVIOUS
    <2>2. s = DefaultState
      BY <2>1 DEF Good, PositionOK
    <2>3. s.phase = "Active" /\ s.stageState = "InProgress" /\ ~s.dormant
      BY <2>2 DEF DefaultState
    <2> QED BY <2>3 DEF LifecycleDeadline, ChallengeDeadline, Terminated
  <1>2. ~Terminated(s)
    BY DEF LifecycleDeadline
  <1>3. LifecycleDeadline(s) = "StageEnd" => s.stageState = "Ending"
    BY DEF LifecycleDeadline, ChallengeDeadline
  <1>4. LifecycleDeadline(s) \in {"StageEnd", "ChallengeEnd", "CleanupDisconnect",
                                  "CleanupAllIdle"}
    BY DEF LifecycleDeadline, ChallengeDeadline
  <1> QED BY <1>1, <1>2, <1>3, <1>4 DEF Open, Sealed, Good, PositionOK

LEMMA LifecycleDeadlineFits ==
    ASSUME NEW o, NEW s, NEW cmd, Good(s), LifecycleDeadline(s) # "None",
           cmd.kind = LifecycleDeadline(s)
    PROVE  AllFit(o, Ordinary, s, DecideDeadline(s, cmd))
  <1> DEFINE e == [type |-> "ClientsRemoved", clients |-> Clients(s)]
             seal == Seal(s.stage, s.attempt, TRUE)
             d == DecideDeadline(s, cmd)
  <1>1. /\ Open(s)
        /\ cmd.kind \in {"StageEnd", "ChallengeEnd", "CleanupDisconnect", "CleanupAllIdle"}
        /\ cmd.kind = "StageEnd" => ~Sealed(s) /\ s.status # "ENTERED"
    BY DeadlineOpen
  <1>2. /\ cmd.kind = "StageEnd" => d = <<seal>>
        /\ cmd.kind \in {"ChallengeEnd", "CleanupAllIdle"} =>
             d = <<e>> \o SealOpenStage(s) \o Terminate
        /\ cmd.kind = "CleanupDisconnect" => d = SealOpenStage(s) \o Terminate
    BY Zenon DEF DecideDeadline
  <1>3. cmd.kind = "StageEnd" => FitsAs(o, Ordinary, s, seal)
    BY <1>1, SealFits
  <1>4. e.type = "ClientsRemoved"
    OBVIOUS
  <1> HIDE DEF e, seal, d
  <1>5. /\ cmd.kind = "StageEnd" => AllFit(o, Ordinary, s, <<seal>>)
        /\ AllFit(o, Ordinary, s, SealOpenStage(s) \o Terminate)
        /\ AllFit(o, Ordinary, s, <<e>> \o SealOpenStage(s) \o Terminate)
    BY <1>1, <1>3, <1>4, OneFits, CloseFits, WindDownFits
  <1>6. AllFit(o, Ordinary, s, d)
    BY ONLY <1>1, <1>2, <1>5
  <1> QED BY <1>6 DEF d

\* An attempt that is not reported in time ends as a failure that may be retried.
TimeoutResult == [ok |-> FALSE, status |-> "NONE", retriable |-> TRUE]

\* The decisions of the pipeline journal one entry.
LEMMA ProcessingDeadlineFits ==
    ASSUME NEW o, NEW s, NEW cmd, Good(s), ProcessingDeadline(s) # "None",
           cmd.kind = ProcessingDeadline(s)
    PROVE  /\ s.processing.active # NoRun
           /\ \E e : /\ DecideDeadline(s, cmd) = <<e>>
                     /\ \/ FitsAs(o, {"ProcessingStarted"}, s, e)
                        \/ /\ FitsAs(o, {"ProcessingEnded"}, s, e)
                           /\ e.result = TimeoutResult /\ s.processing.active.running
  <1> DEFINE seq == s.processing.active.trigger.seq
             a == [type |-> "ProcessingStarted", seq |-> seq]
             b == [type |-> "ProcessingEnded", seq |-> seq, timedOut |-> TRUE,
                   result |-> TimeoutResult]
             d == DecideDeadline(s, cmd)
  <1>1. /\ s.processing.active # NoRun
        /\ \/ cmd.kind = "ProcessingTimeout" /\ s.processing.active.running
           \/ cmd.kind = "ProcessingDue"
    BY DEF ProcessingDeadline
  <1>2. s.created
    BY <1>1 DEF Good, PositionOK, DefaultState, EmptyProcessing
  <1>3. TimeoutResult \in ResultRecord
    BY DEF TimeoutResult, ResultRecord
  <1>4. /\ cmd.kind = "ProcessingDue" => d = <<a>>
        /\ cmd.kind = "ProcessingTimeout" => d = <<b>>
    BY Zenon DEF DecideDeadline, TimeoutResult
  <1>5. FitsAs(o, {"ProcessingStarted"}, s, a) /\ FitsAs(o, {"ProcessingEnded"}, s, b)
    BY <1>1, <1>2, <1>3 DEF FitsAs, Fits, InStep, Processing
  <1>6. b.result = TimeoutResult
    OBVIOUS
  <1> HIDE DEF a, b, d
  <1>7. \E e : /\ d = <<e>>
               /\ \/ FitsAs(o, {"ProcessingStarted"}, s, e)
                  \/ /\ FitsAs(o, {"ProcessingEnded"}, s, e)
                     /\ e.result = TimeoutResult /\ s.processing.active.running
    BY <1>1, <1>4, <1>5, <1>6
  <1> QED BY <1>1, <1>7 DEF d

LEMMA ProcessedFits ==
    ASSUME NEW o, NEW s, NEW cmd, Good(s), cmd.result \in ResultRecord
    PROVE  \/ DecideProcessed(s, cmd) = <<>>
           \/ /\ ReportIsCurrent(s, cmd)
              /\ \E e : /\ DecideProcessed(s, cmd) = <<e>>
                        /\ FitsAs(o, {"ProcessingEnded"}, s, e)
  <1> DEFINE e == [type |-> "ProcessingEnded", seq |-> cmd.seq, timedOut |-> FALSE,
                   result |-> cmd.result]
             d == DecideProcessed(s, cmd)
  <1>1. d = <<>> \/ (ReportIsCurrent(s, cmd) /\ d = <<e>>)
    BY DEF DecideProcessed, None
  <1>2. ReportIsCurrent(s, cmd) => FitsAs(o, {"ProcessingEnded"}, s, e)
    BY DEF FitsAs, Fits, InStep, Processing, ReportIsCurrent, Good, PositionOK, DefaultState,
           EmptyProcessing
  <1> HIDE DEF e, d
  <1>3. \/ d = <<>>
        \/ ReportIsCurrent(s, cmd) /\ \E x : d = <<x>> /\ FitsAs(o, {"ProcessingEnded"}, s, x)
    BY <1>1, <1>2
  <1> QED BY <1>3 DEF d

\* Which decision a command is for.
LEMMA DecideIs ==
    ASSUME NEW s, NEW cmd
    PROVE  /\ Terminated(s) /\ cmd.type \notin {"Processed", "DeadlineFired"} =>
                Decide(s, cmd) = <<>>
           /\ cmd.type = "DeadlineFired" => Decide(s, cmd) = DecideDeadline(s, cmd)
           /\ cmd.type = "Processed" => Decide(s, cmd) = DecideProcessed(s, cmd)
           /\ ~Terminated(s) =>
                /\ cmd.type = "Create" => Decide(s, cmd) = DecideCreate(s, cmd)
                /\ cmd.type = "Join" => Decide(s, cmd) = DecideJoin(s, cmd)
                /\ cmd.type = "Update" => Decide(s, cmd) = DecideUpdate(s, cmd)
                /\ cmd.type = "Finish" => Decide(s, cmd) = DecideFinish(s, cmd)
                /\ cmd.type = "ClientStatus" => Decide(s, cmd) = DecideStatus(s, cmd)
                /\ cmd.type = "ClientMovedOn" => Decide(s, cmd) = DecideMovedOn(s, cmd)
  BY Zenon DEF Decide, None

================================================================================
