-------------------------- MODULE ChallengeActor_proofs --------------------------
(***************************************************************************)
(* What the actor of a challenge guarantees whenever it stops and whatever  *)
(* its inbox holds: messages may be handled twice, callers are not left     *)
(* behind, and a stage is processed from its closed stream.                 *)
(***************************************************************************)
EXTENDS LifecycleCore_proofs, ChallengeActor

-----------------------------------------------------------------------------
(* The pipeline under one entry                                              *)

Longer(a, b) == Len(a) <= Len(b) /\ \A i \in 1..Len(a) : b[i] = a[i]

\* The triggers an entry queues: at most one of a stage, by the seal of its attempt.
QueuedBy(e, a, b) ==
    \A i \in Len(a) + 1 .. Len(b) :
        b[i].kind = "Stage" =>
            /\ i = Len(a) + 1 /\ e.type = "StageSealed"
            /\ b[i].stage = e.stage /\ b[i].attempt = e.attempt

PipelineMoved(p, e, q) ==
    /\ Longer(Triggers(p), Triggers(q)) /\ QueuedBy(e, Triggers(p), Triggers(q))
    /\ e.type \notin Processing =>
         q.completed = p.completed /\ (p.active # NoRun => q.active = p.active)
    /\ e.type = "ProcessingStarted" =>
         /\ q.completed = p.completed /\ q.active # NoRun
         /\ q.active.trigger = p.active.trigger /\ q.active.running
    /\ e.type = "ProcessingEnded" =>
         \/ q.completed = p.completed
         \/ p.active # NoRun /\ q.completed = Append(p.completed, p.active.trigger)

LEMMA TriggersSeq ==
    ASSUME NEW p \in Pipeline
    PROVE  /\ Triggers(p) \in Seq(TriggerRecord) /\ Len(Triggers(p)) \in Nat
           /\ DOMAIN Triggers(p) = 1..Len(Triggers(p))
           /\ \A i \in 1..Len(Triggers(p)) : Triggers(p)[i] \in TriggerRecord
  BY TriggersTyped, LenProperties, ElementOfSeq

\* A push appends at most its own trigger.
LEMMA PushMoves ==
    ASSUME NEW p \in Pipeline, NEW e, e.type \notin Processing,
           NEW kind \in Kinds, NEW stage \in Stage, NEW attempt \in Nat,
           NEW info \in ChallengeStatus, p.active = NoRun => p.pending = <<>>,
           kind = "Stage" =>
              e.type = "StageSealed" /\ stage = e.stage /\ attempt = e.attempt
    PROVE  PipelineMoved(p, e, Push(p, kind, stage, attempt, info))
  <1> DEFINE q == Push(p, kind, stage, attempt, info)
             x == Trigger(p, kind, stage, attempt, info)
             a == Triggers(p)
             b == Triggers(q)
  <1>1. /\ q \in Pipeline /\ q.completed = p.completed
        /\ MaxAttempts = 0 => q = p
        /\ MaxAttempts # 0 => b = Append(a, x)
        /\ p.active # NoRun => q.active = p.active
    <2>1. /\ q \in Pipeline /\ q.completed = p.completed
          /\ MaxAttempts = 0 => q = p
          /\ MaxAttempts # 0 =>
               b = Append(a, x) /\ (p.active # NoRun => q.active = p.active)
      BY ONLY PushAppends, p \in Pipeline, kind \in Kinds, stage \in Stage,
         attempt \in Nat, info \in ChallengeStatus, p.active = NoRun => p.pending = <<>>
    <2> HIDE DEF q, x, a, b
    <2> QED BY <2>1
  <1>2. x.kind = kind /\ x.stage = stage /\ x.attempt = attempt /\ x \in TriggerRecord
    BY NewTrigger DEF Trigger
  <1>3. a \in Seq(TriggerRecord) /\ Len(a) \in Nat
    BY TriggersSeq
  <1> HIDE DEF q, x, a, b
  <1>4. Longer(a, a) /\ QueuedBy(e, a, a)
    BY <1>3 DEF Longer, QueuedBy
  <1>5. Longer(a, Append(a, x)) /\ QueuedBy(e, a, Append(a, x))
    <2>1. /\ Len(Append(a, x)) = Len(a) + 1 /\ Append(a, x)[Len(a) + 1] = x
          /\ \A i \in 1..Len(a) : Append(a, x)[i] = a[i]
      BY <1>2, <1>3, AppendProperties
    <2> QED BY <1>2, <1>3, <2>1 DEF Longer, QueuedBy
  <1>6. Longer(a, b) /\ QueuedBy(e, a, b)
    <2>1. CASE MaxAttempts = 0
      BY <1>1, <1>4, <2>1 DEF a, b
    <2>2. CASE MaxAttempts # 0
      BY <1>1, <1>5, <2>2
    <2> QED BY <2>1, <2>2
  <1>7. PipelineMoved(p, e, q)
    BY <1>1, <1>6 DEF PipelineMoved, Processing, a, b
  <1> QED BY <1>7 DEF q

LEMMA StartMoves ==
    ASSUME NEW p \in Pipeline, Ordered(p), NEW e, e.type = "ProcessingStarted",
           p.active # NoRun, e.seq = p.active.trigger.seq
    PROVE  PipelineMoved(p, e, StartRun(p, e.seq))
  <1> DEFINE q == StartRun(p, e.seq)
             a == Triggers(p)
             r == [p.active EXCEPT !.attempts = @ + 1, !.running = TRUE]
  <1>1. Triggers(q) = a /\ q.completed = p.completed /\ q.active # NoRun
    BY StartRunKeeps
  <1>2. q = [p EXCEPT !.active = r]
    BY DEF StartRun, Pipeline
  <1>3. p.active \in RunRecord
    BY ActiveRun
  <1>4. r.trigger = p.active.trigger /\ r.running
    BY <1>3 DEF RunRecord
  <1> HIDE DEF r
  <1>5. q.active = r
    BY <1>2 DEF Pipeline
  <1>6. a \in Seq(TriggerRecord) /\ Len(a) \in Nat
    BY TriggersSeq
  <1> HIDE DEF q, a
  <1>7. Longer(a, a) /\ QueuedBy(e, a, a)
    BY <1>6 DEF Longer, QueuedBy
  <1>8. PipelineMoved(p, e, q)
    BY <1>1, <1>4, <1>5, <1>7 DEF PipelineMoved, Processing, a
  <1> QED BY <1>8 DEF q

LEMMA EndMoves ==
    ASSUME NEW p \in Pipeline, Ordered(p), NEW e, e.type = "ProcessingEnded",
           e.result \in ResultRecord, p.active # NoRun
    PROVE  PipelineMoved(p, e, FinishRun(p, e.result))
  <1> DEFINE q == FinishRun(p, e.result)
             a == Triggers(p)
             trigger == p.active.trigger
             flag == p.active.retriable /\ e.result.retriable
             failed == [p EXCEPT !.active = [p.active EXCEPT !.retriable = flag]]
             idle == [failed EXCEPT !.active = [failed.active EXCEPT !.running = FALSE]]
             known == [p EXCEPT !.status = IF e.result.status = "NONE" THEN "NONE"
                          ELSE StatusIfFinishedNow(trigger.stage, e.result.status)]
  <1>1. Triggers(q) = a
    BY FinishRunKeeps
  <1>2. q \in {CompleteRun(failed), idle, CompleteRun(known), CompleteRun(p)}
    BY DEF FinishRun, Pipeline
  <1>3. ASSUME NEW u, u \in Pipeline, u.completed = p.completed, u.active.trigger = trigger
        PROVE  CompleteRun(u).completed = Append(p.completed, trigger)
    BY <1>3 DEF CompleteRun, Pipeline
  <1>4. p.active \in RunRecord
    BY ActiveRun
  <1>5. /\ failed.completed = p.completed /\ failed.active.trigger = trigger
        /\ failed \in Pipeline
    BY <1>4 DEF Pipeline, RunRecord
  <1>6. known.completed = p.completed /\ known.active.trigger = trigger /\ known \in Pipeline
    BY DEF Pipeline, StatusIfFinishedNow, ChallengeStatus
  <1>7. idle.completed = p.completed
    BY <1>5 DEF Pipeline
  <1> HIDE DEF q, a, failed, idle, known, trigger
  <1>8. q.completed = p.completed \/ q.completed = Append(p.completed, trigger)
    <2>1. CompleteRun(failed).completed = Append(p.completed, trigger)
      BY <1>3, <1>5
    <2>2. CompleteRun(known).completed = Append(p.completed, trigger)
      BY <1>3, <1>6
    <2>3. CompleteRun(p).completed = Append(p.completed, trigger)
      BY <1>3 DEF trigger
    <2> QED BY <1>2, <1>7, <2>1, <2>2, <2>3
  <1>9. Longer(a, a) /\ QueuedBy(e, a, a)
    <2>1. a \in Seq(TriggerRecord) /\ Len(a) \in Nat
      BY TriggersSeq DEF a
    <2> QED BY <2>1 DEF Longer, QueuedBy
  <1>10. PipelineMoved(p, e, q)
    BY <1>1, <1>8, <1>9 DEF PipelineMoved, Processing, a, trigger
  <1> QED BY <1>10 DEF q

LEMMA StaysMoves ==
    ASSUME NEW p \in Pipeline, NEW e, e.type \notin Processing
    PROVE  PipelineMoved(p, e, p)
  <1> DEFINE a == Triggers(p)
  <1>1. a \in Seq(TriggerRecord) /\ Len(a) \in Nat
    BY TriggersSeq
  <1> HIDE DEF a
  <1>2. Longer(a, a) /\ QueuedBy(e, a, a)
    BY <1>1 DEF Longer, QueuedBy
  <1> QED BY <1>2 DEF PipelineMoved, Processing, a

\* What an entry queues carries the status at that moment; the rest of the state is as it was.
LEMMA PushInfoMoves ==
    ASSUME NEW s \in State, NEW e, e.type \notin Processing, Ordered(s.processing),
           NEW kind \in Kinds, NEW stage \in Stage, NEW attempt \in Nat,
           kind = "Stage" =>
              e.type = "StageSealed" /\ stage = e.stage /\ attempt = e.attempt
    PROVE  LET t == PushInfo(s, kind, stage, attempt)
           IN  t \in State /\ PipelineMoved(s.processing, e, t.processing)
  <1> DEFINE p == s.processing
             info == Status(s)
             q == Push(p, kind, stage, attempt, info)
             t == PushInfo(s, kind, stage, attempt)
  <1>1. p \in Pipeline /\ info \in ChallengeStatus /\ (p.active = NoRun => p.pending = <<>>)
    BY StatusTyped DEF State, Ordered
  <1>2. t = [s EXCEPT !.processing = q]
    BY DEF PushInfo, State
  <1> HIDE DEF p, info
  <1>3. q \in Pipeline
    BY <1>1, PushAppends
  <1>4. PipelineMoved(p, e, q)
    BY <1>1, PushMoves
  <1> HIDE DEF q, t
  <1>5. t \in State /\ t.processing = q
    BY <1>2, <1>3, PipelineReplaced
  <1> QED BY <1>4, <1>5 DEF p, t

LEMMA EventMoves ==
    ASSUME NEW s, NEW e, Good(s), Fits(s, e)
    PROVE  PipelineMoved(s.processing, e, ApplyEvent(s, e).processing)
  <1> DEFINE t == ApplyEvent(s, e)
             p == s.processing
  <1>1. /\ s \in State /\ p \in Pipeline /\ Ordered(p) /\ s.attempt \in Nat
        /\ s.created => s.stage \in Stage
    BY DEF Good, PipelineOK, PositionOK, State
  <1>2. e.type \notin Processing => PipelineMoved(p, e, p)
    BY <1>1, StaysMoves
  <1>3. CASE e.type \in {"ClientRejoined", "StageAttemptStarted", "ChallengeFinishing",
                         "ClientFinished", "ClientsRemoved", "ClientActivity",
                         "ChallengeTerminated", "PartyChanged"}
    <2>1. t.processing = p
      <3>1. CASE e.type = "ClientRejoined"
        <4>1. t = ApplyRejoined(s, e)
          BY <3>1, ApplyEventIs
        <4> QED BY <1>1, <4>1 DEF ApplyRejoined, State
      <3>2. CASE e.type = "StageAttemptStarted"
        <4>1. t = ApplyAttemptStarted(s, e)
          BY <3>2, ApplyEventIs
        <4> QED BY <1>1, <4>1 DEF ApplyAttemptStarted, State
      <3>3. CASE e.type = "ClientActivity"
        <4>1. t = IF e.client \in Clients(s)
                  THEN [s EXCEPT !.clients[e.client].active = e.active] ELSE s
          BY <3>3, ApplyEventIs
        <4> QED BY <1>1, <4>1 DEF State
      <3>4. CASE e.type \in {"ClientFinished", "ClientsRemoved"}
        <4>1. t = [s EXCEPT !.clients = Without(s, e.clients)]
          BY <3>4, ApplyEventIs
        <4> QED BY <1>1, <4>1 DEF State
      <3>5. CASE e.type \in {"ChallengeFinishing", "ChallengeTerminated", "PartyChanged"}
        <4>1. \/ t = [s EXCEPT !.phase = "Finishing"]
              \/ t = [s EXCEPT !.phase = "Terminated"]
              \/ t = [s EXCEPT !.partyChanged = TRUE]
          BY <3>5, ApplyEventIs
        <4> QED BY <1>1, <4>1 DEF State
      <3> QED BY <1>3, <3>1, <3>2, <3>3, <3>4, <3>5
    <2> HIDE DEF t, p
    <2> QED BY <1>2, <1>3, <2>1 DEF Processing, t, p
  <1>4. CASE e.type = "ClientStageReported"
    <2>1. t = ApplyReported(s, e)
      BY <1>4, ApplyEventIs
    <2>2. t.processing = p
      BY <1>1, <2>1 DEF ApplyReported, State
    <2> HIDE DEF t, p
    <2> QED BY <1>2, <1>4, <2>2 DEF Processing, t, p
  <1>5. CASE e.type \in {"ChallengeCreated", "StageSealed", "ModeChanged"}
    <2> DEFINE u == IF e.type = "ChallengeCreated" THEN Created(s, e)
                    ELSE IF e.type = "StageSealed" THEN [s EXCEPT !.stageState = "Complete"]
                    ELSE [s EXCEPT !.mode = e.mode]
               kind == IF e.type = "ChallengeCreated" THEN "Create"
                       ELSE IF e.type = "StageSealed" THEN "Stage" ELSE "Mode"
               stage == IF e.type = "ModeChanged" THEN s.stage ELSE e.stage
               attempt == IF e.type = "ChallengeCreated" THEN NoAttempt
                          ELSE IF e.type = "StageSealed" THEN e.attempt ELSE s.attempt
    <2>1. t = PushInfo(u, kind, stage, attempt)
      <3>1. CASE e.type = "ChallengeCreated"
        <4>1. t = PushInfo(Created(s, e), "Create", e.stage, NoAttempt)
          BY <3>1, ApplyEventIs
        <4>2. u = Created(s, e) /\ kind = "Create" /\ stage = e.stage /\ attempt = NoAttempt
          BY <3>1
        <4> HIDE DEF t, u, kind, stage, attempt
        <4> QED BY <4>1, <4>2
      <3>2. CASE e.type = "StageSealed"
        <4> DEFINE w == [s EXCEPT !.stageState = "Complete"]
        <4>1. t = PushInfo(w, "Stage", e.stage, e.attempt)
          BY <3>2, ApplyEventIs
        <4>2. u = w /\ kind = "Stage" /\ stage = e.stage /\ attempt = e.attempt
          BY <3>2
        <4> HIDE DEF t, u, kind, stage, attempt, w
        <4> QED BY <4>1, <4>2
      <3>3. CASE e.type = "ModeChanged"
        BY <3>3, ApplyEventIs
      <3> QED BY <1>5, <3>1, <3>2, <3>3
    <2>2. u \in State /\ u.processing = p
      BY <1>1, <1>5 DEF Fits, Created, State, StageStatus, NoAttempt
    <2>3. /\ kind \in Kinds /\ stage \in Stage /\ attempt \in Nat /\ e.type \notin Processing
          /\ kind = "Stage" => e.type = "StageSealed" /\ stage = e.stage /\ attempt = e.attempt
      BY <1>1, <1>5 DEF Fits, Kinds, NoAttempt, Processing
    <2> HIDE DEF t, p, u, kind, stage, attempt
    <2>4. PipelineMoved(u.processing, e, PushInfo(u, kind, stage, attempt).processing)
      BY <1>1, <2>2, <2>3, PushInfoMoves
    <2> QED BY <2>1, <2>2, <2>4 DEF t, p
  <1>6. CASE e.type = "StageStarted"
    <2> DEFINE u == Begun(s, e)
               stage == e.stage
               attempt == u.attempt
    <2>1. t = IF e.stage = s.stage THEN u ELSE PushInfo(u, "StageStart", stage, attempt)
      <3>1. t = ApplyStageStarted(s, e)
        BY <1>6, ApplyEventIs
      <3> HIDE DEF t
      <3> QED BY <3>1, StageStartedIs
    <2>2. stage \in Stage /\ FirstAttempt(e.stage) \in Nat /\ e.type \notin Processing
      BY <1>6 DEF Fits, NoAttempt, FirstAttempt, Processing
    <2>3. u \in State /\ u.processing = p /\ attempt \in Nat
      BY <1>1, <2>2 DEF Begun, State, StageStatus
    <2>4. "StageStart" \in Kinds
      BY DEF Kinds
    <2> HIDE DEF t, p, u, stage, attempt
    <2>5. PipelineMoved(u.processing, e, PushInfo(u, "StageStart", stage, attempt).processing)
      BY <1>1, <2>2, <2>3, <2>4, PushInfoMoves
    <2> QED BY <1>2, <2>1, <2>2, <2>3, <2>5 DEF t, p
  <1>7. CASE e.type = "ClientJoined"
    <2> DEFINE v == PushInfo(s, "Recorder", s.stage, s.attempt)
               m == With(s, e.client, AtCurrentStage(s, e.client, e.token, e.participant))
               u == IF e.client \in s.recordedBy THEN s
                    ELSE [v EXCEPT !.recordedBy = @ \cup {e.client}]
    <2>1. t = [u EXCEPT !.clients = m]
      <3>1. t = ApplyJoined(s, e)
        BY <1>7, ApplyEventIs
      <3> QED BY <3>1 DEF ApplyJoined
    <2>2. v \in State /\ PipelineMoved(p, e, v.processing)
      <3>1. "Recorder" \in Kinds /\ s.stage \in Stage /\ e.type \notin Processing
        BY <1>1, <1>7 DEF Kinds, Fits, Processing
      <3> HIDE DEF v
      <3> QED BY <1>1, <3>1, PushInfoMoves DEF v
    <2> HIDE DEF t, p, v, m
    <2>3. t.processing = u.processing /\ u.processing \in {p, v.processing}
      BY <1>1, <2>1, <2>2 DEF State, p
    <2> HIDE DEF u
    <2> QED BY <1>2, <1>7, <2>2, <2>3 DEF Processing, t, p
  <1>8. CASE e.type = "ProcessingStarted"
    <2>1. t.processing = StartRun(p, e.seq)
      <3>1. t = [s EXCEPT !.processing = StartRun(p, e.seq)]
        BY <1>8, ApplyEventIs
      <3> QED BY <1>1, <3>1 DEF State
    <2>2. p.active # NoRun /\ e.seq = p.active.trigger.seq
      BY <1>8 DEF Fits
    <2> HIDE DEF t, p
    <2> QED BY <1>1, <1>8, <2>1, <2>2, StartMoves DEF t, p
  <1>9. CASE e.type = "ProcessingEnded"
    <2> DEFINE u == IF /\ e.result.ok /\ e.result.status # "NONE"
                       /\ p.active # NoRun /\ p.active.trigger.kind = "Stage"
                       /\ p.active.trigger.stage = s.stage
                       /\ p.active.trigger.attempt = s.attempt
                    THEN [s EXCEPT !.status = e.result.status] ELSE s
    <2>1. t = [u EXCEPT !.processing = FinishRun(u.processing, e.result)]
      <3>1. t = ApplyProcessed(s, e)
        BY <1>9, ApplyEventIs
      <3> QED BY <3>1 DEF ApplyProcessed
    <2>2. u.processing = p /\ DOMAIN u = DOMAIN s
      BY <1>1 DEF State
    <2>3. t.processing = FinishRun(p, e.result)
      BY <1>1, <2>1, <2>2 DEF State
    <2>4. p.active # NoRun /\ e.result \in ResultRecord
      BY <1>9 DEF Fits
    <2> HIDE DEF t, p
    <2> QED BY <1>1, <1>9, <2>3, <2>4, EndMoves DEF t, p
  <1> QED BY <1>3, <1>4, <1>5, <1>6, <1>7, <1>8, <1>9 DEF Fits, Processing

\* The finish trigger comes behind all the others.
LEMMA FinishMoves ==
    ASSUME NEW p \in Pipeline, NEW q \in Pipeline, NEW r \in Pipeline, NEW e, NEW f,
           PipelineMoved(p, e, q), PipelineMoved(q, f, r), q.active = NoRun,
           f.type = "ChallengeFinishing"
    PROVE  PipelineMoved(p, e, r)
  <1> DEFINE a == Triggers(p)
             b == Triggers(q)
             c == Triggers(r)
  <1>1. /\ Len(a) \in Nat /\ Len(b) \in Nat /\ Len(c) \in Nat
        /\ Longer(a, b) /\ Longer(b, c) /\ QueuedBy(e, a, b) /\ QueuedBy(f, b, c)
    BY TriggersSeq DEF PipelineMoved
  <1>2. r.completed = q.completed
    BY DEF PipelineMoved, Processing
  <1> HIDE DEF a, b, c
  <1>3. Longer(a, c)
    BY <1>1 DEF Longer
  <1>4. QueuedBy(e, a, c)
    <2> SUFFICES ASSUME NEW i \in Len(a) + 1 .. Len(c), c[i].kind = "Stage"
                 PROVE  /\ i = Len(a) + 1 /\ e.type = "StageSealed"
                        /\ c[i].stage = e.stage /\ c[i].attempt = e.attempt
      BY DEF QueuedBy
    <2>1. CASE i <= Len(b)
      BY <1>1, <2>1 DEF Longer, QueuedBy
    <2>2. CASE i > Len(b)
      <3>1. i \in Len(b) + 1 .. Len(c)
        BY <1>1, <2>2
      <3> QED BY <1>1, <3>1 DEF QueuedBy
    <2> QED BY <1>1, <2>1, <2>2
  <1> QED BY <1>2, <1>3, <1>4 DEF PipelineMoved, Processing, a, c

LEMMA EntryMoves ==
    ASSUME NEW s, NEW e, Good(s), Fits(s, e)
    PROVE  PipelineMoved(s.processing, e, Apply(s, e).processing)
  <1> DEFINE u == ApplyEvent(s, e)
             v == QueueFinish(u)
             w == PushInfo(u, "Finish", u.stage, u.attempt)
             t == TrackDormancy(s, v)
             p == s.processing
             q == u.processing
             f == [type |-> "ChallengeFinishing"]
  <1>1. EventOK(s, e)
    BY PlainEventOK, PushingEventOK, RejoinedEventOK, RemovedEventOK, ActivityEventOK,
       ReportedEventOK, JoinedEventOK, StartedEventOK, EndedEventOK DEF Fits, Processing
  <1>2. /\ u \in State /\ Ordered(q) /\ u.stage \in Stage /\ FinishOK(u)
        /\ p \in Pipeline /\ q \in Pipeline /\ u.attempt \in Nat
    BY <1>1 DEF EventOK, Effect, Good, State
  <1>3. PipelineMoved(p, e, q)
    BY EventMoves
  <1>4. Apply(s, e) = t
    BY DEF Apply
  <1> HIDE DEF u
  <1>5. v \in State
    BY <1>2, QueueFinishKeeps
  <1>6. v = u \/ (v = w /\ q.active = NoRun)
    BY DEF QueueFinish, Concluded, Settled
  <1>7. w \in State /\ PipelineMoved(q, f, w.processing)
    <2>1. "Finish" \in Kinds /\ f.type \notin Processing
      BY DEF Kinds, Processing
    <2> HIDE DEF f, w
    <2> QED BY <1>2, <2>1, PushInfoMoves DEF w
  <1> HIDE DEF v, w
  <1>8. t.processing = v.processing
    BY <1>5, TrackDormancyKeeps
  <1> HIDE DEF t, p, q
  <1>9. CASE v = u
    BY <1>3, <1>4, <1>8, <1>9 DEF p, q
  <1>10. CASE v = w /\ q.active = NoRun
    <2>1. w.processing \in Pipeline /\ f.type = "ChallengeFinishing"
      BY <1>7 DEF State
    <2> HIDE DEF f
    <2>2. PipelineMoved(p, e, w.processing)
      BY <1>2, <1>3, <1>7, <1>10, <2>1, FinishMoves
    <2> QED BY <1>4, <1>8, <1>10, <2>2 DEF p
  <1> QED BY <1>6, <1>9, <1>10

-----------------------------------------------------------------------------
(* Stages are queued once                                                    *)

IsStage(x) == x.kind = "Stage"

\* If clients report stages in order, no attempt of a stage is queued twice:
\* what was queued lies behind the challenge, or is where it stands and sealed.
StagesOnce(s) ==
    LET ts == Triggers(s.processing)
    IN  \A i \in DOMAIN ts : IsStage(ts[i]) =>
            /\ s.status # "ENTERED"
            /\ \/ ts[i].stage < s.stage
               \/ ts[i].stage = s.stage /\ ts[i].attempt < s.attempt
               \/ ts[i].stage = s.stage /\ ts[i].attempt = s.attempt /\ Sealed(s)
            /\ \A j \in DOMAIN ts : IsStage(ts[j]) /\ i # j =>
                   ts[i].stage # ts[j].stage \/ ts[i].attempt # ts[j].attempt

LEMMA StagesStayOnce ==
    ASSUME NEW s, NEW e, Good(s), Fits(s, e), InStep(s, e), StagesOnce(s)
    PROVE  StagesOnce(Apply(s, e))
  <1> DEFINE t == Apply(s, e)
             a == Triggers(s.processing)
             b == Triggers(t.processing)
             Behind(x) == /\ t.status # "ENTERED"
                          /\ \/ x.stage < t.stage
                             \/ x.stage = t.stage /\ x.attempt < t.attempt
                             \/ x.stage = t.stage /\ x.attempt = t.attempt /\ Sealed(t)
  <1>1. /\ Stepped(s, e, t) /\ s \in State /\ t \in State
        /\ PipelineMoved(s.processing, e, t.processing)
    BY EntryGood, EntryMoves DEF Stepped, Good
  <1>2. /\ Len(a) \in Nat /\ Len(b) \in Nat /\ DOMAIN a = 1..Len(a) /\ DOMAIN b = 1..Len(b)
        /\ \A i \in 1..Len(a) : a[i] \in TriggerRecord
        /\ \A i \in 1..Len(b) : b[i] \in TriggerRecord
    <2>1. s.processing \in Pipeline /\ t.processing \in Pipeline
      BY <1>1 DEF State
    <2> QED BY <2>1, TriggersSeq
  <1>3. Longer(a, b) /\ QueuedBy(e, a, b)
    BY <1>1 DEF PipelineMoved
  <1>4. Moved(s, e, t) /\ NotBack(s, t)
    BY <1>1 DEF Stepped, Effect
  <1>5. /\ s.stage \in Nat /\ s.attempt \in Nat /\ t.stage \in Nat /\ t.attempt \in Nat
    BY <1>1, PositionTyped
  <1>6. /\ Stage \subseteq Nat
    BY CoreAssumption
  <1> HIDE DEF t
  <1>7. ASSUME NEW i \in 1..Len(a), IsStage(a[i])
        PROVE  /\ Behind(a[i])
               /\ e.type = "StageSealed" => \/ a[i].stage # e.stage
                                            \/ a[i].attempt # e.attempt
    <2> DEFINE x == a[i]
    <2>1. x.stage \in Nat /\ x.attempt \in Nat
      BY <1>2, <1>6 DEF TriggerRecord
    <2>2. /\ s.status # "ENTERED"
          /\ \/ x.stage < s.stage
             \/ x.stage = s.stage /\ x.attempt < s.attempt
             \/ x.stage = s.stage /\ x.attempt = s.attempt /\ Sealed(s)
      BY <1>2, <1>7 DEF StagesOnce
    <2> HIDE DEF x, a, b
    <2>3. CASE e.type = "StageSealed"
      BY <1>4, <1>5, <2>1, <2>2, <2>3 DEF Moved, Fits, InStep, Sealed, x
    <2>4. CASE e.type = "StageStarted"
      BY <1>4, <1>5, <1>6, <2>1, <2>2, <2>4 DEF Moved, Fits, x
    <2>5. CASE e.type = "StageAttemptStarted"
      BY <1>4, <1>5, <2>1, <2>2, <2>5 DEF Moved, Fits, x
    <2>6. CASE e.type = "ClientStageReported"
      BY <1>4, <1>5, <2>1, <2>2, <2>6 DEF Moved, Fits, OpensWindow, Finished, Sealed, x
    <2>7. CASE e.type = "ProcessingEnded"
      BY <1>4, <1>5, <2>1, <2>2, <2>7 DEF Moved, Sealed, x
    <2>8. CASE e.type = "ChallengeCreated"
      <3>1. s = DefaultState
        BY <2>8 DEF Fits, Good, PositionOK
      <3> QED BY <2>2, <3>1 DEF DefaultState
    <2>9. CASE e.type \notin Movers
      BY <1>4, <1>5, <2>1, <2>2, <2>9 DEF Moved, Movers, Sealed, x
    <2> QED BY <2>3, <2>4, <2>5, <2>6, <2>7, <2>8, <2>9 DEF Movers
  <1>8. ASSUME NEW i \in Len(a) + 1 .. Len(b), IsStage(b[i])
        PROVE  Behind(b[i]) /\ i = Len(a) + 1
    <2>1. /\ i = Len(a) + 1 /\ e.type = "StageSealed"
          /\ b[i].stage = e.stage /\ b[i].attempt = e.attempt
      BY <1>3, <1>8 DEF QueuedBy, IsStage
    <2> HIDE DEF a, b
    <2> QED BY <1>4, <1>5, <2>1 DEF Moved, Fits, InStep, Sealed
  <1>9. ASSUME NEW i \in 1..Len(b), IsStage(b[i])
        PROVE  Behind(b[i])
    BY <1>2, <1>3, <1>7, <1>8, <1>9 DEF Longer
  <1>10. ASSUME NEW i \in 1..Len(a), IsStage(b[i]), NEW j \in 1..Len(b), IsStage(b[j]), i # j
         PROVE  b[i].stage # b[j].stage \/ b[i].attempt # b[j].attempt
    <2>1. b[i] = a[i] /\ IsStage(a[i])
      BY <1>3, <1>10 DEF Longer
    <2>2. CASE j \in 1..Len(a)
      <3>1. b[j] = a[j] /\ IsStage(a[j])
        BY <1>3, <1>10, <2>2 DEF Longer
      <3> QED BY <1>2, <1>10, <2>1, <2>2, <3>1 DEF StagesOnce
    <2>3. CASE j \in Len(a) + 1 .. Len(b)
      <3>1. e.type = "StageSealed" /\ b[j].stage = e.stage /\ b[j].attempt = e.attempt
        BY <1>3, <1>10, <2>3 DEF QueuedBy, IsStage
      <3> QED BY <1>7, <2>1, <3>1
    <2> QED BY <1>2, <2>2, <2>3
  <1>11. ASSUME NEW i \in 1..Len(b), IsStage(b[i]), NEW j \in 1..Len(b), IsStage(b[j]), i # j
         PROVE  b[i].stage # b[j].stage \/ b[i].attempt # b[j].attempt
    <2>1. CASE i \in 1..Len(a)
      BY <1>10, <1>11, <2>1
    <2>2. CASE j \in 1..Len(a)
      BY <1>10, <1>11, <2>2
    <2>3. CASE i \in Len(a) + 1 .. Len(b) /\ j \in Len(a) + 1 .. Len(b)
      BY <1>8, <1>11, <2>3
    <2> QED BY <1>2, <1>11, <2>1, <2>2, <2>3
  <1> HIDE DEF a
  <1>12. StagesOnce(t)
    BY <1>2, <1>9, <1>11 DEF StagesOnce
  <1> QED BY <1>12 DEF t

-----------------------------------------------------------------------------
(* Stages that wait for their processing                                     *)

\* The streams of the stages that are queued and not settled.
Waiting(p) ==
    {StreamOf(Triggers(p)[i]) :
        i \in {j \in Len(p.completed) + 1 .. Len(Triggers(p)) : IsStage(Triggers(p)[j])}}

LEMMA TriggersSplit ==
    ASSUME NEW p \in Pipeline
    PROVE  /\ Outstanding(p) \in Seq(TriggerRecord)
           /\ Triggers(p) = p.completed \o Outstanding(p)
           /\ p.active # NoRun =>
                /\ p.active.trigger \in TriggerRecord
                /\ Outstanding(p) # <<>> /\ Outstanding(p)[1] = p.active.trigger
  <1>1. p.completed \in Seq(TriggerRecord) /\ p.pending \in Seq(TriggerRecord)
    BY DEF Pipeline
  <1>2. CASE p.active = NoRun
    <2>1. Outstanding(p) = p.pending
      <3>1. Outstanding(p) = <<>> \o p.pending
        BY <1>2 DEF Outstanding
      <3> QED BY <1>1, <3>1, ConcatEmptySeq
    <2> QED BY <1>1, <1>2, <2>1, TriggersTyped
  <1>3. CASE p.active # NoRun
    <2> DEFINE x == p.active.trigger
               a == <<x>>
    <2>1. x \in TriggerRecord
      BY <1>3, ActiveRun DEF RunRecord
    <2>2. a \in Seq(TriggerRecord) /\ Len(a) = 1 /\ a[1] = x
      BY <2>1
    <2>3. Outstanding(p) = a \o p.pending
      BY <1>3 DEF Outstanding
    <2>4. Triggers(p) = (p.completed \o a) \o p.pending
      BY <1>3, TriggersTyped
    <2> DEFINE c == p.completed
               d == p.pending
               o == a \o d
    <2> HIDE DEF a, x
    <2>c. c \in Seq(TriggerRecord)
      BY <1>1
    <2>d. d \in Seq(TriggerRecord)
      BY <1>1
    <2>a. a \in Seq(TriggerRecord)
      BY <2>2
    <2> HIDE DEF c, d
    <2>5. c \o (a \o d) = (c \o a) \o d
      BY ONLY <2>a, <2>c, <2>d, ConcatRegroup
    <2>6. o \in Seq(TriggerRecord) /\ Len(o) = 1 + Len(d) /\ Len(d) \in Nat /\ o[1] = x
      <3>1. Len(d) \in Nat
        BY <2>d, LenProperties
      <3>2. /\ o \in Seq(TriggerRecord) /\ Len(o) = Len(a) + Len(d)
            /\ \A i \in 1..Len(a) + Len(d) :
                  o[i] = IF i <= Len(a) THEN a[i] ELSE d[i - Len(a)]
        BY ONLY <2>a, <2>d, ConcatProperties DEF o
      <3>3. 1 \in 1..Len(a) + Len(d) /\ 1 <= Len(a)
        BY <2>2, <3>1
      <3> HIDE DEF o
      <3>4. o[1] = a[1]
        BY <3>2, <3>3
      <3> QED BY <2>2, <3>1, <3>2, <3>4
    <2> HIDE DEF o
    <2>7. o # <<>>
      BY <2>6, EmptySeq
    <2> QED BY <2>1, <2>3, <2>4, <2>5, <2>6, <2>7 DEF x, o, c, d
  <1> QED BY <1>2, <1>3

LEMMA TriggersPlaced ==
    ASSUME NEW p \in Pipeline
    PROVE  LET n == Len(p.completed)
               a == Triggers(p)
           IN  /\ n \in Nat /\ n <= Len(a)
               /\ \A i \in 1..n : a[i] = p.completed[i]
               /\ \A i \in n + 1 .. Len(a) : /\ i - n \in 1..Len(Outstanding(p))
                                             /\ a[i] = Outstanding(p)[i - n]
               /\ Len(a) = n + Len(Outstanding(p))
               /\ p.active # NoRun => n < Len(a) /\ a[n + 1] = p.active.trigger
  <1> DEFINE n == Len(p.completed)
             a == Triggers(p)
             b == Outstanding(p)
             c == p.completed
  <1>1. c \in Seq(TriggerRecord) /\ b \in Seq(TriggerRecord) /\ a = c \o b
    BY TriggersSplit DEF Pipeline
  <1>2. p.active # NoRun => b # <<>> /\ b[1] = p.active.trigger
    BY TriggersSplit
  <1> HIDE DEF a, b, c
  <1>3. /\ Len(c) \in Nat /\ Len(b) \in Nat /\ Len(a) = Len(c) + Len(b)
        /\ \A i \in 1..Len(c) + Len(b) :
              a[i] = IF i <= Len(c) THEN c[i] ELSE b[i - Len(c)]
    BY <1>1, ConcatProperties, LenProperties
  <1>4. b # <<>> => Len(b) # 0
    BY <1>1, EmptySeq
  <1>5. /\ \A i \in 1..Len(c) : a[i] = c[i]
        /\ \A i \in Len(c) + 1 .. Len(a) : i - Len(c) \in 1..Len(b) /\ a[i] = b[i - Len(c)]
    BY <1>3
  <1>6. p.active # NoRun => Len(c) < Len(a) /\ a[Len(c) + 1] = p.active.trigger
    BY <1>2, <1>3, <1>4
  <1> QED BY <1>3, <1>5, <1>6 DEF a, b, c

LEMMA WaitingIs ==
    ASSUME NEW p \in Pipeline
    PROVE  /\ Streams(Outstanding(p)) = Waiting(p)
           /\ p.active # NoRun => Streams(<<p.active.trigger>>) \subseteq Waiting(p)
  <1> DEFINE n == Len(p.completed)
             a == Triggers(p)
             b == Outstanding(p)
  <1>1. /\ n \in Nat /\ Len(a) = n + Len(b) /\ Len(b) \in Nat /\ DOMAIN b = 1..Len(b)
        /\ \A i \in n + 1 .. Len(a) : i - n \in 1..Len(b) /\ a[i] = b[i - n]
        /\ p.active # NoRun => n < Len(a) /\ a[n + 1] = p.active.trigger
    BY TriggersPlaced, TriggersSplit, LenProperties
  <1>2. Waiting(p) = {StreamOf(a[i]) : i \in {j \in n + 1 .. Len(a) : IsStage(a[j])}}
    BY DEF Waiting
  <1>3. Streams(b) = {StreamOf(b[i]) : i \in {j \in DOMAIN b : IsStage(b[j])}}
    BY DEF Streams, IsStage
  <1> HIDE DEF n, a, b
  <1>4. Streams(b) \subseteq Waiting(p)
    <2> SUFFICES ASSUME NEW k \in 1..Len(b), IsStage(b[k])
                 PROVE  StreamOf(b[k]) \in Waiting(p)
      BY <1>1, <1>3
    <2>1. n + k \in n + 1 .. Len(a) /\ (n + k) - n = k
      BY <1>1
    <2>2. a[n + k] = b[k]
      BY <1>1, <2>1
    <2> QED BY <1>2, <2>1, <2>2
  <1>5. Waiting(p) \subseteq Streams(b)
    BY <1>1, <1>2, <1>3
  <1>6. p.active # NoRun => Streams(<<p.active.trigger>>) \subseteq Waiting(p)
    <2> SUFFICES ASSUME p.active # NoRun, IsStage(p.active.trigger)
                 PROVE  StreamOf(p.active.trigger) \in Waiting(p)
      BY DEF Streams, IsStage
    <2> QED BY <1>1, <1>2
  <1> QED BY <1>4, <1>5, <1>6 DEF b

\* The stage an entry seals.
SealOf(e) == IF e.type = "StageSealed" THEN {<<e.stage, e.attempt>>} ELSE {}

LEMMA WaitingMoves ==
    ASSUME NEW p \in Pipeline, NEW q \in Pipeline, NEW e, PipelineMoved(p, e, q)
    PROVE  /\ Waiting(q) \subseteq Waiting(p) \cup SealOf(e)
           /\ Longer(p.completed, q.completed)
  <1> DEFINE a == Triggers(p)
             b == Triggers(q)
             m == Len(p.completed)
             n == Len(q.completed)
  <1>1. /\ Len(a) \in Nat /\ Len(b) \in Nat /\ m \in Nat /\ n \in Nat /\ m <= Len(a)
        /\ Longer(a, b) /\ QueuedBy(e, a, b)
    BY TriggersSeq, TriggersPlaced DEF PipelineMoved
  <1>2. Longer(p.completed, q.completed)
    <2>1. CASE q.completed = p.completed
      BY <1>1, <2>1 DEF Longer
    <2>2. CASE p.active # NoRun /\ q.completed = Append(p.completed, p.active.trigger)
      <3>1. p.completed \in Seq(TriggerRecord) /\ p.active.trigger \in TriggerRecord
        BY <2>2, TriggersSplit DEF Pipeline
      <3> QED BY <1>1, <2>2, <3>1, AppendProperties DEF Longer
    <2> QED BY <2>1, <2>2 DEF PipelineMoved, Processing
  <1>3. m <= n
    BY <1>2 DEF Longer
  <1> HIDE DEF a, b, m, n
  <1>4. ASSUME NEW i \in n + 1 .. Len(b), IsStage(b[i])
        PROVE  \/ \E k \in m + 1 .. Len(a) : IsStage(a[k]) /\ StreamOf(b[i]) = StreamOf(a[k])
               \/ StreamOf(b[i]) \in SealOf(e)
    <2>1. CASE i <= Len(a)
      BY <1>1, <1>3, <1>4, <2>1 DEF Longer
    <2>2. CASE i > Len(a)
      BY <1>1, <1>4, <2>2 DEF QueuedBy, IsStage, SealOf, StreamOf
    <2> QED BY <1>1, <2>1, <2>2
  <1>5. /\ Waiting(p) = {StreamOf(a[i]) : i \in {j \in m + 1 .. Len(a) : IsStage(a[j])}}
        /\ Waiting(q) = {StreamOf(b[i]) : i \in {j \in n + 1 .. Len(b) : IsStage(b[j])}}
    BY DEF Waiting, a, b, m, n
  <1>6. Waiting(q) \subseteq Waiting(p) \cup SealOf(e)
    BY <1>4, <1>5
  <1> QED BY <1>2, <1>6

-----------------------------------------------------------------------------
(* The pipeline under a batch                                                *)

\* A batch that comes from no report and starts no run leaves the active run
\* alone; what it adds to the waiting stages it seals.
LEMMA BatchMoves ==
    ASSUME NEW o, NEW T, NEW s, NEW b, Good(s), AllFit(o, T, s, b), T \cap Processing = {}
    PROVE  LET t == ApplyBatch(s, b)
               p == s.processing
               q == t.processing
           IN  /\ Good(t) /\ q.completed = p.completed
               /\ p.active # NoRun => q.active = p.active
               /\ Waiting(q) \subseteq Waiting(p) \cup SealsIn(b)
               /\ o /\ StagesOnce(s) => StagesOnce(t)
  <1> DEFINE Fine(t) ==
                /\ Good(t) /\ t.processing.completed = s.processing.completed
                /\ s.processing.active # NoRun => t.processing.active = s.processing.active
                /\ Waiting(t.processing) \subseteq Waiting(s.processing) \cup SealsIn(b)
                /\ o /\ StagesOnce(s) => StagesOnce(t)
  <1>1. Fine(s)
    OBVIOUS
  <1>2. ASSUME NEW u, NEW i, Fine(u), i \in DOMAIN b => FitsAs(o, T, u, b[i])
        PROVE  Fine(ApplyNth(u, b, i))
    <2> DEFINE t == ApplyNth(u, b, i)
    <2>1. CASE i \notin DOMAIN b
      BY <1>2, <2>1 DEF ApplyNth
    <2>2. CASE i \in DOMAIN b
      <3> DEFINE e == b[i]
      <3>1. /\ t = Apply(u, e) /\ Good(u) /\ Fits(u, e) /\ (o => InStep(u, e))
            /\ e.type \notin Processing
        BY <1>2, <2>2 DEF ApplyNth, FitsAs
      <3> HIDE DEF t, e
      <3>2. Good(t) /\ PipelineMoved(u.processing, e, t.processing)
        BY <3>1, EntryGood, EntryMoves DEF Stepped
      <3>3. u.processing \in Pipeline /\ t.processing \in Pipeline
        BY <3>1, <3>2 DEF Good, State
      <3>4. Waiting(t.processing) \subseteq Waiting(u.processing) \cup SealOf(e)
        BY <3>2, <3>3, WaitingMoves
      <3>5. SealOf(e) \subseteq SealsIn(b)
        BY <2>2 DEF SealOf, SealsIn, e
      <3>6. /\ t.processing.completed = u.processing.completed
            /\ u.processing.active # NoRun => t.processing.active = u.processing.active
        BY <3>1, <3>2 DEF PipelineMoved
      <3>7. o /\ StagesOnce(u) => StagesOnce(t)
        BY <3>1, StagesStayOnce
      <3> QED BY <1>2, <3>2, <3>4, <3>5, <3>6, <3>7 DEF t
    <2> QED BY <2>1, <2>2
  <1> HIDE DEF Fine
  <1>3. Fine(After1(s, b))
    BY <1>1, <1>2 DEF AllFit, After1
  <1>4. Fine(After2(s, b))
    BY <1>2, <1>3 DEF AllFit, After2
  <1>5. Fine(After3(s, b))
    BY <1>2, <1>4 DEF AllFit, After3
  <1>6. Fine(After4(s, b))
    BY <1>2, <1>5 DEF AllFit, After4
  <1>7. Fine(ApplyNth(After4(s, b), b, 5))
    BY <1>2, <1>6 DEF AllFit
  <1>8. ApplyBatch(s, b) = ApplyNth(After4(s, b), b, 5)
    BY DEF ApplyBatch, After4, After3, After2, After1
  <1> QED BY <1>7, <1>8 DEF Fine

\* Once something is journaled the challenge is created.
LEMMA BatchCreates ==
    ASSUME NEW o, NEW T, NEW s, NEW b, Good(s), AllFit(o, T, s, b), b # <<>>
    PROVE  ApplyBatch(s, b).created
  <1>1. 1 \in DOMAIN b
    <2>1. PICK S : b \in Seq(S)
      BY DEF AllFit, IsBatch
    <2> QED BY <2>1, EmptySeq, LenProperties
  <1>2. ASSUME NEW u, NEW i, Good(u), i \in DOMAIN b => FitsAs(o, T, u, b[i]),
               u.created \/ i \in DOMAIN b
        PROVE  Good(ApplyNth(u, b, i)) /\ ApplyNth(u, b, i).created
    <2> DEFINE t == ApplyNth(u, b, i)
    <2>1. Good(t) /\ (i \in DOMAIN b => Stepped(u, b[i], t)) /\ (i \notin DOMAIN b => t = u)
      BY <1>2, NthStepped
    <2> HIDE DEF t
    <2>2. Good(t) /\ t.created
      BY <1>2, <2>1 DEF Stepped, Effect
    <2> QED BY <2>2 DEF t
  <1>3. Good(After1(s, b)) /\ After1(s, b).created
    BY <1>1, <1>2 DEF AllFit, After1
  <1>4. Good(After2(s, b)) /\ After2(s, b).created
    BY <1>2, <1>3 DEF AllFit, After2
  <1>5. Good(After3(s, b)) /\ After3(s, b).created
    BY <1>2, <1>4 DEF AllFit, After3
  <1>6. Good(After4(s, b)) /\ After4(s, b).created
    BY <1>2, <1>5 DEF AllFit, After4
  <1>7. ApplyNth(After4(s, b), b, 5).created
    BY <1>2, <1>6 DEF AllFit
  <1>8. ApplyBatch(s, b) = ApplyNth(After4(s, b), b, 5)
    BY DEF ApplyBatch, After4, After3, After2, After1
  <1> QED BY <1>7, <1>8

-----------------------------------------------------------------------------
(* Deadlines and reports change nothing a message was ignored for            *)

Calm == {"StageSealed", "ClientsRemoved", "ChallengeTerminated"} \cup Processing

\* What an ignored message was compared with: it stays, or clients leave and the challenge ends.
Calmer(s, t) ==
    /\ t.created = s.created /\ t.mode = s.mode /\ t.partyChanged = s.partyChanged
    /\ t.stage = s.stage /\ (Terminated(s) => Terminated(t))
    /\ Clients(t) \subseteq Clients(s)
    /\ \A c \in Clients(t) : t.clients[c] = s.clients[c]

LEMMA CalmEntry ==
    ASSUME NEW s, NEW e, Good(s), Fits(s, e), e.type \in Calm
    PROVE  Calmer(s, Apply(s, e))
  <1> DEFINE u == ApplyEvent(s, e)
             v == QueueFinish(u)
             t == TrackDormancy(s, v)
             Near(x) == /\ x.created = s.created /\ x.mode = s.mode
                        /\ x.partyChanged = s.partyChanged /\ x.stage = s.stage
                        /\ Terminated(s) => Terminated(x)
                        /\ \/ x.clients = s.clients
                           \/ x.clients = Without(s, e.clients)
  <1>1. s \in State
    BY DEF Good
  <1>2. Near(u)
    <2>1. CASE e.type = "StageSealed"
      <3> DEFINE w == [s EXCEPT !.stageState = "Complete"]
                 p == Push(w.processing, "Stage", e.stage, e.attempt, Status(w))
      <3>1. u = PushInfo(w, "Stage", e.stage, e.attempt)
        BY <2>1, ApplyEventIs
      <3>2. u = [w EXCEPT !.processing = p]
        BY <1>1, <3>1 DEF PushInfo, State
      <3> HIDE DEF p, u
      <3> QED BY <1>1, <3>2 DEF State, Terminated
    <2>2. CASE e.type = "ClientsRemoved"
      <3>1. u = [s EXCEPT !.clients = Without(s, e.clients)]
        BY <2>2, ApplyEventIs
      <3> HIDE DEF u
      <3> QED BY <1>1, <3>1 DEF State, Terminated
    <2>3. CASE e.type = "ChallengeTerminated"
      <3>1. u = [s EXCEPT !.phase = "Terminated"]
        BY <2>3, ApplyEventIs
      <3> HIDE DEF u
      <3> QED BY <1>1, <3>1 DEF State, Terminated
    <2>4. CASE e.type = "ProcessingStarted"
      <3>1. u = [s EXCEPT !.processing = StartRun(@, e.seq)]
        BY <2>4, ApplyEventIs
      <3> HIDE DEF u
      <3> QED BY <1>1, <3>1 DEF State, Terminated
    <2>5. CASE e.type = "ProcessingEnded"
      <3> DEFINE w == IF /\ e.result.ok /\ e.result.status # "NONE"
                         /\ s.processing.active # NoRun
                         /\ s.processing.active.trigger.kind = "Stage"
                         /\ s.processing.active.trigger.stage = s.stage
                         /\ s.processing.active.trigger.attempt = s.attempt
                      THEN [s EXCEPT !.status = e.result.status] ELSE s
                 p == FinishRun(w.processing, e.result)
      <3>1. u = [w EXCEPT !.processing = p]
        <4>1. u = ApplyProcessed(s, e)
          BY <2>5, ApplyEventIs
        <4> QED BY <4>1 DEF ApplyProcessed
      <3> HIDE DEF p, u
      <3> QED BY <1>1, <3>1 DEF State, Terminated
    <2> QED BY <2>1, <2>2, <2>3, <2>4, <2>5 DEF Calm, Processing
  <1>3. EventOK(s, e)
    BY PlainEventOK, PushingEventOK, RejoinedEventOK, RemovedEventOK, ActivityEventOK,
       ReportedEventOK, JoinedEventOK, StartedEventOK, EndedEventOK DEF Fits, Processing
  <1>4. u \in State /\ Ordered(u.processing) /\ FinishOK(u) /\ u.stage \in Stage
    BY <1>3 DEF EventOK, Effect
  <1>5. Apply(s, e) = t
    BY DEF Apply
  <1> HIDE DEF u
  <1>6. v \in State /\ Agree(u, v)
    BY <1>4, QueueFinishKeeps
  <1> HIDE DEF v
  <1>7. t \in State /\ Agree(v, t)
    BY <1>6, TrackDormancyKeeps
  <1> HIDE DEF t
  <1>8. Near(t)
    BY <1>2, <1>6, <1>7 DEF Agree, Terminated
  <1>9. Calmer(s, t)
    BY <1>8 DEF Calmer, Clients, Without
  <1> QED BY <1>5, <1>9

LEMMA CalmBatch ==
    ASSUME NEW o, NEW T, NEW s, NEW b, Good(s), AllFit(o, T, s, b),
           \A i \in DOMAIN b : b[i].type \in Calm
    PROVE  Calmer(s, ApplyBatch(s, b))
  <1> DEFINE Fine(t) == Good(t) /\ Calmer(s, t)
  <1>1. Fine(s)
    BY DEF Calmer
  <1>2. ASSUME NEW u, NEW i, Fine(u), i \in DOMAIN b => FitsAs(o, T, u, b[i])
        PROVE  Fine(ApplyNth(u, b, i))
    <2>1. CASE i \notin DOMAIN b
      BY <1>2, <2>1 DEF ApplyNth
    <2>2. CASE i \in DOMAIN b
      <3> DEFINE e == b[i]
                 t == Apply(u, e)
      <3>1. /\ ApplyNth(u, b, i) = t /\ Good(u) /\ Fits(u, e) /\ e.type \in Calm
        BY <1>2, <2>2 DEF ApplyNth, FitsAs
      <3>2. Good(t) /\ Calmer(u, t)
        BY <3>1, EntryGood, CalmEntry DEF Stepped
      <3> HIDE DEF t
      <3>3. Calmer(s, t)
        BY <1>2, <3>2 DEF Calmer
      <3> QED BY <3>1, <3>2, <3>3
    <2> QED BY <2>1, <2>2
  <1> HIDE DEF Fine
  <1>3. Fine(After1(s, b))
    BY <1>1, <1>2 DEF AllFit, After1
  <1>4. Fine(After2(s, b))
    BY <1>2, <1>3 DEF AllFit, After2
  <1>5. Fine(After3(s, b))
    BY <1>2, <1>4 DEF AllFit, After3
  <1>6. Fine(After4(s, b))
    BY <1>2, <1>5 DEF AllFit, After4
  <1>7. Fine(ApplyNth(After4(s, b), b, 5))
    BY <1>2, <1>6 DEF AllFit
  <1>8. ApplyBatch(s, b) = ApplyNth(After4(s, b), b, 5)
    BY DEF ApplyBatch, After4, After3, After2, After1
  <1> QED BY <1>7, <1>8 DEF Fine

-----------------------------------------------------------------------------
(* Decisions of the actor                                                    *)

ActorMessage == CreateCommand \cup ClientCommand

\* A message that reports stages in order.
InOrderFor(s, cmd) ==
    cmd.type = "Update" /\ cmd.progress.status \in Finished => cmd.progress.stage <= s.stage

LEMMA MessageFits ==
    ASSUME NEW o, NEW s, NEW cmd, Good(s), o => InOrderFor(s, cmd),
           \/ cmd \in CreateCommand
           \/ cmd \in ClientCommand /\ s.created
    PROVE  \E T : AllFit(o, T, s, Decide(s, cmd)) /\ T \cap Processing = {}
  <1>1. /\ Opening \cap Processing = {} /\ Ordinary \cap Processing = {}
    BY DEF Opening, Ordinary, Processing
  <1>2. CASE Terminated(s)
    <2>1. cmd.type \notin {"Processed", "DeadlineFired"}
      BY DEF CreateCommand, ClientCommand
    <2>2. Decide(s, cmd) = <<>>
      BY <1>2, <2>1, DecideIs
    <2> QED BY <1>1, <2>2, NoneFits
  <1>3. CASE ~Terminated(s) /\ cmd \in CreateCommand
    <2>1. /\ cmd.type = "Create" /\ cmd.client \in Client /\ cmd.token \in Token
          /\ cmd.participant \in BOOLEAN /\ cmd.mode \in Mode /\ cmd.stage \in Stage
      BY <1>3 DEF CreateCommand
    <2>2. Decide(s, cmd) = DecideCreate(s, cmd)
      BY <1>3, <2>1, DecideIs
    <2>3. AllFit(o, Opening, s, DecideCreate(s, cmd))
      BY <2>1, CreateFits
    <2> QED BY <1>1, <2>2, <2>3
  <1>4. CASE ~Terminated(s) /\ cmd \in ClientCommand /\ s.created
    <2>1. Open(s)
      BY <1>4 DEF Open
    <2>2. CASE cmd.type = "Join"
      <3>1. cmd.client \in Client /\ cmd.token \in Token /\ cmd.participant \in BOOLEAN
        BY <1>4, <2>2 DEF ClientCommand
      <3>2. Decide(s, cmd) = DecideJoin(s, cmd)
        BY <1>4, <2>2, DecideIs
      <3>3. AllFit(o, Ordinary, s, DecideJoin(s, cmd))
        BY <2>1, <3>1, JoinFits
      <3> QED BY <1>1, <3>2, <3>3
    <2>3. CASE cmd.type = "Update"
      <3>1. cmd.progress = NoProgress \/ Reported(o, s, cmd.progress)
        BY <1>4, <2>3 DEF ClientCommand, Reported, ProgressRecord, InOrderFor
      <3>2. Decide(s, cmd) = DecideUpdate(s, cmd)
        BY <1>4, <2>3, DecideIs
      <3>3. AllFit(o, Ordinary, s, DecideUpdate(s, cmd))
        BY <2>1, <3>1, UpdateFits
      <3> QED BY <1>1, <3>2, <3>3
    <2>4. CASE cmd.type = "Finish"
      <3>1. Decide(s, cmd) = DecideFinish(s, cmd)
        BY <1>4, <2>4, DecideIs
      <3> QED BY <1>1, <2>1, <3>1, FinishFits
    <2>5. CASE cmd.type = "ClientStatus"
      <3>1. Decide(s, cmd) = DecideStatus(s, cmd)
        BY <1>4, <2>5, DecideIs
      <3> QED BY <1>1, <2>1, <3>1, StatusFits
    <2>6. CASE cmd.type = "ClientMovedOn"
      <3>1. Decide(s, cmd) = DecideMovedOn(s, cmd)
        BY <1>4, <2>6, DecideIs
      <3> QED BY <1>1, <2>1, <3>1, MovedOnFits
    <2> QED BY <1>4, <2>2, <2>3, <2>4, <2>5, <2>6 DEF ClientCommand
  <1> QED BY <1>2, <1>3, <1>4

\* A batch either journals one step of a run or leaves the runs alone.
Journalable(o, s, b) ==
    /\ b # None
    /\ \E T : /\ AllFit(o, T, s, b)
              /\ \/ T \cap Processing = {}
                 \/ \E e : b = <<e>> /\ e.type \in Processing

AllCalm(b) == \A i \in DOMAIN b : b[i].type \in Calm

LEMMA RunStepJournalable ==
    ASSUME NEW o, NEW s, NEW e, NEW type \in Processing, Good(s), FitsAs(o, {type}, s, e)
    PROVE  Journalable(o, s, <<e>>) /\ AllCalm(<<e>>) /\ s.created
  <1>1. e.type \in Processing /\ s.created
    BY DEF FitsAs, Fits, Processing
  <1>2. \A i \in DOMAIN <<e>> : <<e>>[i].type \in Calm
    BY <1>1 DEF Calm
  <1>3. AllFit(o, {type}, s, <<e>>) /\ Len(<<e>>) = 1
    BY OneFits
  <1>4. <<e>> # None
    BY <1>3 DEF None
  <1> QED BY <1>1, <1>2, <1>3, <1>4 DEF Journalable, AllCalm

LEMMA TypesOf ==
    ASSUME NEW S, NEW b \in Seq(S), \A e \in S : e.type \in Calm
    PROVE  AllCalm(b)
  BY ElementOfSeq, LenProperties DEF AllCalm

LEMMA DeadlineJournals ==
    ASSUME NEW o, NEW s, Good(s), NEW cmd,
           cmd.kind \in {LifecycleDeadline(s), ProcessingDeadline(s)} \ {"None"}
    PROVE  LET b == DecideDeadline(s, cmd)
           IN  Journalable(o, s, b) /\ AllCalm(b) /\ s.created
  <1> DEFINE b == DecideDeadline(s, cmd)
  <1>1. CASE cmd.kind = ProcessingDeadline(s) /\ cmd.kind # "None"
    <2>1. PICK e : /\ b = <<e>>
                   /\ \/ FitsAs(o, {"ProcessingStarted"}, s, e)
                      \/ FitsAs(o, {"ProcessingEnded"}, s, e)
      BY <1>1, ProcessingDeadlineFits
    <2>2. "ProcessingStarted" \in Processing /\ "ProcessingEnded" \in Processing
      BY DEF Processing
    <2> HIDE DEF b
    <2>3. Journalable(o, s, <<e>>) /\ AllCalm(<<e>>) /\ s.created
      BY <2>1, <2>2, RunStepJournalable
    <2> QED BY <2>1, <2>3 DEF b
  <1>2. CASE cmd.kind = LifecycleDeadline(s) /\ cmd.kind # "None"
    <2> DEFINE e == [type |-> "ClientsRemoved", clients |-> Clients(s)]
               x == Seal(s.stage, s.attempt, TRUE)
               y == [type |-> "ChallengeTerminated"]
               seal == SealOpenStage(s)
               U == {e, x, y}
    <2>1. /\ Open(s)
          /\ cmd.kind \in {"StageEnd", "ChallengeEnd", "CleanupDisconnect", "CleanupAllIdle"}
      BY <1>2, DeadlineOpen
    <2>2. /\ cmd.kind = "StageEnd" => b = <<x>>
          /\ cmd.kind \in {"ChallengeEnd", "CleanupAllIdle"} => b = (<<e>> \o seal) \o <<y>>
          /\ cmd.kind = "CleanupDisconnect" => b = seal \o <<y>>
      BY <1>2, Zenon DEF DecideDeadline, Terminate
    <2>3. seal = <<x>> \/ seal = <<>>
      BY DEF SealOpenStage, None
    <2>4. \A u \in U : u.type \in Calm
      BY DEF Calm, Seal
    <2>5. AllFit(o, Ordinary, s, b)
      BY <1>2, LifecycleDeadlineFits
    <2>6. Ordinary \cap Processing = {}
      BY DEF Ordinary, Processing
    <2> HIDE DEF b, e, x, y, seal
    <2>7. /\ <<x>> \in Seq(U) /\ <<e>> \in Seq(U) /\ <<y>> \in Seq(U) /\ <<>> \in Seq(U)
          /\ Len(<<x>>) = 1 /\ Len(<<y>>) = 1
      OBVIOUS
    <2> HIDE DEF U
    <2>8. seal \in Seq(U)
      BY <2>3, <2>7
    <2>9. <<e>> \o seal \in Seq(U)
      BY <2>7, <2>8, ConcatProperties
    <2>10. /\ seal \o <<y>> \in Seq(U) /\ (<<e>> \o seal) \o <<y>> \in Seq(U)
           /\ Len(seal \o <<y>>) = Len(seal) + 1
           /\ Len((<<e>> \o seal) \o <<y>>) = Len(<<e>> \o seal) + 1
           /\ Len(seal) \in Nat /\ Len(<<e>> \o seal) \in Nat
      BY <2>7, <2>8, <2>9, ConcatProperties, LenProperties
    <2> DEFINE c1 == <<x>>
               c2 == (<<e>> \o seal) \o <<y>>
               c3 == seal \o <<y>>
    <2>11. b \in Seq(U) /\ Len(b) # 0
      <3>1. b \in {c1, c2, c3}
        BY ONLY <2>1, <2>2
      <3>2. c1 \in Seq(U) /\ Len(c1) # 0
        BY <2>7
      <3>3. c2 \in Seq(U) /\ Len(c2) # 0
        BY <2>10
      <3>4. c3 \in Seq(U) /\ Len(c3) # 0
        BY <2>10
      <3> HIDE DEF c1, c2, c3
      <3> QED BY ONLY <3>1, <3>2, <3>3, <3>4, Zenon
    <2>12. AllCalm(b) /\ b # None
      BY <2>4, <2>11, TypesOf, EmptySeq DEF None
    <2>13. s.created
      BY <2>1 DEF Open
    <2> QED BY <2>5, <2>6, <2>12, <2>13 DEF Journalable, b
  <1> QED BY <1>1, <1>2

LEMMA ReportJournals ==
    ASSUME NEW o, NEW s, Good(s), NEW cmd, cmd.result \in ResultRecord,
           DecideProcessed(s, cmd) # None
    PROVE  LET b == DecideProcessed(s, cmd)
           IN  Journalable(o, s, b) /\ AllCalm(b) /\ s.created
  <1> DEFINE b == DecideProcessed(s, cmd)
  <1>1. PICK e : b = <<e>> /\ FitsAs(o, {"ProcessingEnded"}, s, e)
    BY ProcessedFits DEF None
  <1>2. "ProcessingEnded" \in Processing
    BY DEF Processing
  <1> HIDE DEF b
  <1>3. Journalable(o, s, <<e>>) /\ AllCalm(<<e>>) /\ s.created
    BY <1>1, <1>2, RunStepJournalable
  <1> QED BY <1>1, <1>3 DEF b

\* Batches are put together from short ones.
LEMMA Joined ==
    ASSUME NEW a, NEW b, IsBatch(a), IsBatch(b)
    PROVE  /\ IsBatch(a \o b)
           /\ a # <<>> \/ b # <<>> => a \o b # <<>>
  <1>1. PICK S : a \in Seq(S)
    BY DEF IsBatch
  <1>2. PICK R : b \in Seq(R)
    BY DEF IsBatch
  <1> DEFINE U == S \cup R
  <1>3. a \in Seq(U) /\ b \in Seq(U)
    BY <1>1, <1>2, SeqMonotonic
  <1> HIDE DEF U
  <1>4. a \o b \in Seq(U) /\ (a \o b = <<>> <=> a = <<>> /\ b = <<>>)
    BY <1>3, ConcatProperties, ConcatEqualIffEmpty
  <1> QED BY <1>4 DEF IsBatch

LEMMA Short ==
    ASSUME NEW a, NEW b
    PROVE  /\ IsBatch(<<>>)
           /\ IsBatch(<<a>>) /\ <<a>> # <<>>
           /\ IsBatch(<<a, b>>) /\ <<a, b>> # <<>>
  <1> DEFINE U == {a, b}
             f == <<a>>
             g == <<a, b>>
             n == <<>>
  <1>1. n \in Seq(U) /\ f \in Seq(U) /\ g \in Seq(U) /\ Len(f) = 1 /\ Len(g) = 2
    OBVIOUS
  <1>2. Len(n) = 0
    OBVIOUS
  <1> HIDE DEF U, f, g, n
  <1>3. f # n /\ g # n
    <2>1. Len(f) # Len(n) /\ Len(g) # Len(n)
      BY <1>1, <1>2
    <2> QED BY <2>1, Zenon
  <1> QED BY <1>1, <1>3 DEF IsBatch, f, g, n

LEMMA ProgressFilled ==
    ASSUME NEW s, NEW cmd, cmd.progress.status \in StageStatus
    PROVE  IsBatch(DecideProgress(s, cmd)) /\ DecideProgress(s, cmd) # <<>>
  <1> DEFINE d == DecideProgress(s, cmd)
             stage == cmd.progress.stage
  <1>1. \E a, b, c, e :
           \/ d = <<a>> \/ d = <<a>> \o <<b>> \/ d = <<a>> \o <<>>
           \/ d = <<a>> \o <<b, c>> \/ d = <<>> \o <<b, c>>
    <2>1. CASE cmd.progress.status \in Finished
      <3>1. cmd.progress.status # "STARTED" /\ cmd.progress.status # "ENTERED"
        BY <2>1 DEF Finished
      <3>2. d = DecideFinished(s, cmd)
        BY <2>1, <3>1, Zenon DEF DecideProgress
      <3> HIDE DEF d
      <3> QED BY <3>2, Zenon DEF DecideFinished, None
    <2>2. CASE cmd.progress.status = "STARTED"
      <3>1. cmd.progress.status \notin Finished
        BY <2>2 DEF Finished
      <3>2. d = DecideStarted(s, cmd)
        BY <2>2, <3>1, Zenon DEF DecideProgress
      <3> HIDE DEF d
      <3> QED BY <3>2, Zenon DEF DecideStarted, None
    <2>3. CASE cmd.progress.status = "ENTERED"
      <3>1. cmd.progress.status \notin Finished /\ cmd.progress.status # "STARTED"
        BY <2>3 DEF Finished
      <3> QED BY <2>3, <3>1, Zenon DEF DecideProgress
    <2> QED BY <2>1, <2>2, <2>3 DEF StageStatus, Finished
  <1> HIDE DEF d
  <1>2. PICK a, b, c : \/ d = <<a>> \/ d = <<a>> \o <<b>> \/ d = <<a>> \o <<>>
                       \/ d = <<a>> \o <<b, c>> \/ d = <<>> \o <<b, c>>
    BY <1>1, Zenon
  <1>3. /\ IsBatch(<<>>) /\ IsBatch(<<a>>) /\ <<a>> # <<>> /\ IsBatch(<<b>>)
        /\ IsBatch(<<b, c>>) /\ <<b, c>> # <<>>
    BY Short, Zenon
  <1>4. IsBatch(d) /\ d # <<>>
    BY <1>2, <1>3, Joined, Zenon
  <1> QED BY <1>4 DEF d

LEMMA FinishFilled ==
    ASSUME NEW s, NEW cmd, cmd.client \in Clients(s)
    PROVE  DecideFinish(s, cmd) # <<>>
  <1> DEFINE d == DecideFinish(s, cmd)
             seal == SealOpenStage(s)
  <1>1. \E a, b, c : \/ d = <<a>> \o <<b>> \/ d = <<>> \o <<b>>
                     \/ d = (<<b>> \o seal) \o <<c>>
    BY Zenon DEF DecideFinish, None, Terminate
  <1>2. \E x : seal = <<x>> \/ seal = <<>>
    BY Zenon DEF SealOpenStage, None
  <1> HIDE DEF d, seal
  <1>3. IsBatch(seal)
    BY <1>2, Short, Zenon
  <1>4. PICK a, b, c : \/ d = <<a>> \o <<b>> \/ d = <<>> \o <<b>>
                       \/ d = (<<b>> \o seal) \o <<c>>
    BY <1>1, Zenon
  <1>5. /\ IsBatch(<<>>) /\ IsBatch(<<a>>) /\ <<a>> # <<>> /\ IsBatch(<<b>>) /\ <<b>> # <<>>
        /\ IsBatch(<<c>>) /\ <<c>> # <<>>
    BY Short, Zenon
  <1>6. IsBatch(<<b>> \o seal)
    BY <1>3, <1>5, Joined, Zenon
  <1>7. d # <<>>
    BY <1>4, <1>5, <1>6, Joined, Zenon
  <1> QED BY <1>7 DEF d

\* A message without effect stays without effect when only deadlines fire and
\* runs are reported.
LEMMA HarmlessKept ==
    ASSUME NEW s, NEW t, NEW cmd \in ActorMessage, s.created, Calmer(s, t),
           Decide(s, cmd) = None
    PROVE  Decide(t, cmd) = None
  <1>1. cmd.type \notin {"Processed", "DeadlineFired"}
    BY DEF ActorMessage, CreateCommand, ClientCommand
  <1>2. CASE Terminated(t)
    BY <1>1, <1>2, DecideIs DEF None
  <1>3. CASE ~Terminated(t)
    <2>1. ~Terminated(s)
      BY <1>3 DEF Calmer
    <2>2. CASE cmd.type = "Create"
      <3>1. Decide(t, cmd) = DecideCreate(t, cmd)
        BY <1>3, <2>2, DecideIs
      <3> QED BY <3>1 DEF DecideCreate, Calmer
    <2>3. CASE cmd.type = "Join"
      <3>1. Decide(s, cmd) = DecideJoin(s, cmd)
        BY <2>1, <2>3, DecideIs
      <3>2. \E a : Decide(s, cmd) = <<a>>
        BY <3>1, Zenon DEF DecideJoin
      <3> QED BY <3>2, Short, Zenon DEF None
    <2>4. CASE cmd.type = "Update"
      <3> DEFINE infoOf(u) ==
                    (IF cmd.mode \in Mode \ {u.mode}
                     THEN <<[type |-> "ModeChanged", mode |-> cmd.mode]>> ELSE <<>>) \o
                    (IF cmd.party /\ ~u.partyChanged THEN <<[type |-> "PartyChanged"]>> ELSE <<>>)
                 late(u) == cmd.client \notin Clients(u) \/ TooLate(u, cmd.progress.stage)
      <3>1. /\ Decide(s, cmd) = DecideUpdate(s, cmd)
            /\ Decide(t, cmd) = DecideUpdate(t, cmd)
        BY <1>3, <2>1, <2>4, DecideIs
      <3>2. \A u : /\ cmd.progress = NoProgress => DecideUpdate(u, cmd) = infoOf(u)
                   /\ cmd.progress # NoProgress /\ late(u) => DecideUpdate(u, cmd) = <<>>
                   /\ cmd.progress # NoProgress /\ ~late(u) =>
                        DecideUpdate(u, cmd) = infoOf(u) \o DecideProgress(u, cmd)
        BY Zenon DEF DecideUpdate, None
      <3>3. infoOf(t) = infoOf(s)
        BY DEF Calmer
      <3>4. \A u : IsBatch(infoOf(u))
        <4> TAKE u
        <4> DEFINE a == IF cmd.mode \in Mode \ {u.mode}
                        THEN <<[type |-> "ModeChanged", mode |-> cmd.mode]>> ELSE <<>>
                   b == IF cmd.party /\ ~u.partyChanged
                        THEN <<[type |-> "PartyChanged"]>> ELSE <<>>
        <4>1. IsBatch(a) /\ IsBatch(b)
          BY Short, Zenon
        <4> HIDE DEF a, b
        <4>2. IsBatch(a \o b)
          BY <4>1, Joined
        <4> QED BY <4>2 DEF a, b
      <3>5. late(s) => late(t)
        BY DEF Calmer, TooLate
      <3>6. cmd.progress = NoProgress \/ cmd.progress.status \in StageStatus
        BY <2>4 DEF ActorMessage, CreateCommand, ClientCommand
      <3> HIDE DEF infoOf, late
      <3>7. CASE cmd.progress = NoProgress
        BY <3>1, <3>2, <3>3, <3>7
      <3>8. CASE cmd.progress # NoProgress /\ late(s)
        BY <3>1, <3>2, <3>5, <3>8 DEF None
      <3>9. CASE cmd.progress # NoProgress /\ ~late(s)
        <4>1. IsBatch(DecideProgress(s, cmd)) /\ DecideProgress(s, cmd) # <<>>
          BY <3>6, <3>9, ProgressFilled
        <4>2. infoOf(s) \o DecideProgress(s, cmd) # <<>>
          BY <3>4, <4>1, Joined
        <4> QED BY <3>1, <3>2, <3>9, <4>2 DEF None
      <3> QED BY <3>7, <3>8, <3>9
    <2>5. CASE cmd.type = "Finish"
      <3>1. /\ Decide(s, cmd) = DecideFinish(s, cmd)
            /\ Decide(t, cmd) = DecideFinish(t, cmd)
        BY <1>3, <2>1, <2>5, DecideIs
      <3>2. cmd.client \notin Clients(s)
        BY <3>1, FinishFilled DEF None
      <3>3. cmd.client \notin Clients(t)
        BY <3>2 DEF Calmer
      <3>4. DecideFinish(t, cmd) = None
        BY <3>3, Zenon DEF DecideFinish
      <3> QED BY <3>1, <3>4
    <2>6. CASE cmd.type = "ClientStatus"
      <3>1. /\ Decide(s, cmd) = DecideStatus(s, cmd)
            /\ Decide(t, cmd) = DecideStatus(t, cmd)
        BY <1>3, <2>1, <2>6, DecideIs
      <3>2. \/ cmd.client \notin Clients(s) \/ s.clients[cmd.client].token # cmd.token
            \/ /\ cmd.status # "DISCONNECTED"
               /\ (cmd.status = "ACTIVE") = s.clients[cmd.client].active
        <4>1. \A a : <<a>> # <<>>
          BY Short, Zenon
        <4> QED BY <3>1, <4>1, Zenon DEF DecideStatus, None
      <3>3. \/ cmd.client \notin Clients(t) \/ t.clients[cmd.client].token # cmd.token
            \/ /\ cmd.status # "DISCONNECTED"
               /\ (cmd.status = "ACTIVE") = t.clients[cmd.client].active
        BY <3>2, Zenon DEF Calmer
      <3> QED BY <3>1, <3>3, Zenon DEF DecideStatus
    <2>7. CASE cmd.type = "ClientMovedOn"
      <3>1. /\ Decide(s, cmd) = DecideMovedOn(s, cmd)
            /\ Decide(t, cmd) = DecideMovedOn(t, cmd)
        BY <1>3, <2>1, <2>7, DecideIs
      <3>2. cmd.client \notin Clients(s)
        BY <3>1, Short, Zenon DEF DecideMovedOn, None
      <3>3. cmd.client \notin Clients(t)
        BY <3>2 DEF Calmer
      <3> QED BY <3>1, <3>3 DEF DecideMovedOn
    <2> QED BY <2>2, <2>3, <2>4, <2>5, <2>6, <2>7 DEF ActorMessage, CreateCommand, ClientCommand
  <1> QED BY <1>2, <1>3

-----------------------------------------------------------------------------
(* The inductive invariant                                                   *)

\* Clients report the end of a stage only once the actor has reached it.
ReportsInOrder ==
    actor.at = "loop" /\ actor.cursor < Len(inbox) =>
        InOrderFor(actor.state, inbox[actor.cursor + 1])

ActorRecord ==
    [at : Steps, state : State, cursor : Nat, batch : {actor.batch}, cause : Nat,
     sealed : SUBSET (Stage \X Nat), ended : Seq(TriggerRecord)]

ReportRecord == [seq : Nat, attempt : Nat, result : ResultRecord]

InboxOK ==
    /\ inbox \in Seq(ActorMessage) /\ Len(inbox) >= 1
    /\ inbox[1] \in CreateCommand
    /\ \A i \in 2..Len(inbox) : inbox[i] \in ClientCommand

DiskOK ==
    /\ durable \in [state : State, cursor : Nat] /\ Good(durable.state)
    /\ marked \subseteq Stage \X Nat /\ removed \subseteq Stage \X Nat
    /\ ran \subseteq Nat /\ chanel \in Seq(ReportRecord)

\* What is journaled was handled; before the create is journaled nothing was.
CursorsOK ==
    /\ handled \in Nat /\ handled <= Len(inbox)
    /\ durable.cursor <= handled /\ actor.cursor <= handled
    /\ ~durable.state.created => handled = 0
    /\ actor.at \notin {"down", "gone"} => durable.cursor <= actor.cursor

ActorOK ==
    /\ actor \in ActorRecord
    /\ actor.at \notin {"down", "gone"} => actor.state = durable.state
    /\ actor.at \in {"remove", "announce"} => actor.ended # <<>>

\* The batch of an actor comes from the next message of its inbox or is its own.
BatchOK(o) ==
    /\ (actor.at = "append") <=> (actor.batch # None)
    /\ actor.at = "append" =>
         /\ Journalable(o, actor.state, actor.batch)
         /\ actor.cause # 0 => /\ actor.cause = actor.cursor + 1 /\ actor.cause <= Len(inbox)
                               /\ actor.batch = Decide(actor.state, inbox[actor.cause])
         /\ actor.cause = 0 => actor.state.created /\ AllCalm(actor.batch)

\* The processing task works on the attempt the journal shows as running.
WorkOK ==
    LET run == durable.state.processing.active
    IN  work # NoWork =>
            /\ actor.at \notin {"down", "republish", "remark", "gone"}
            /\ run # NoRun /\ run.running /\ work = <<run.trigger.seq, run.attempts>>

PublishedOK ==
    actor.at \in {"remark", "loop"} /\ durable.state.created =>
        published = Snapshot(actor.state, actor.cursor)

\* Streams are closed before anything works on them and go after it settled.
StreamsOK(o) ==
    LET p == durable.state.processing
    IN  /\ o => StagesOnce(durable.state)
        /\ removed \subseteq Streams(p.completed)
        /\ actor.at \in {"mark", "remove", "announce"} =>
             Streams(actor.ended) \subseteq Streams(p.completed)
        /\ actor.at \notin {"down", "republish", "remark", "gone", "mark"} =>
             Waiting(p) \subseteq marked
        /\ actor.at = "mark" => Waiting(p) \subseteq marked \cup actor.sealed
        /\ work # NoWork => Streams(<<p.active.trigger>>) \subseteq marked

Inv(o) ==
    /\ InboxOK /\ DiskOK /\ CursorsOK /\ ActorOK /\ BatchOK(o) /\ WorkOK
    /\ RedeliveryIsHarmless /\ PublishedOK /\ StreamsOK(o)

-----------------------------------------------------------------------------
(* A journaled batch                                                         *)

LEMMA HasIn ==
    ASSUME NEW o, NEW T, NEW s, NEW b, Good(s), AllFit(o, T, s, b), T \cap Processing = {}
    PROVE  ~Has(b, "ProcessingStarted") /\ ~Has(b, "ProcessingEnded")
  <1>1. \A i \in DOMAIN b : b[i].type \in T
    BY EachFits DEF FitsAs
  <1> QED BY <1>1 DEF Has, Processing

LEMMA SealsTyped ==
    ASSUME NEW o, NEW T, NEW s, NEW b, Good(s), AllFit(o, T, s, b)
    PROVE  SealsIn(b) \subseteq Stage \X Nat
  <1>1. \A i \in DOMAIN b : b[i].type = "StageSealed" => b[i].stage \in Stage /\ b[i].attempt \in Nat
    BY EachFits DEF FitsAs, Fits
  <1> QED BY <1>1 DEF SealsIn

\* A single step of a run.
LEMMA RunStepMoves ==
    ASSUME NEW o, NEW T, NEW s, NEW e, Good(s), AllFit(o, T, s, <<e>>), e.type \in Processing
    PROVE  LET t == ApplyBatch(s, <<e>>)
               p == s.processing
               q == t.processing
           IN  /\ Waiting(q) \subseteq Waiting(p) /\ Longer(p.completed, q.completed)
               /\ o /\ StagesOnce(s) => StagesOnce(t)
               /\ Has(<<e>>, "ProcessingStarted") => q.active # NoRun /\ q.active.running
               /\ Has(<<e>>, "ProcessingStarted") \/ Has(<<e>>, "ProcessingEnded")
  <1> DEFINE t == Apply(s, e)
             b == <<e>>
  <1>1. ApplyBatch(s, b) = t
    BY ApplyOne
  <1>2. b[1] = e /\ DOMAIN b = {1}
    OBVIOUS
  <1>3. Fits(s, e) /\ (o => InStep(s, e))
    <2>1. FitsAs(o, T, s, b[1])
      BY <1>2 DEF AllFit
    <2> QED BY <1>2, <2>1 DEF FitsAs
  <1>4. PipelineMoved(s.processing, e, t.processing)
    BY <1>3, EntryMoves
  <1>5. s.processing \in Pipeline /\ t.processing \in Pipeline
    BY <1>3, EntryGood DEF Stepped, Good, State
  <1>6. o /\ StagesOnce(s) => StagesOnce(t)
    BY <1>3, StagesStayOnce
  <1> HIDE DEF t
  <1>7. /\ Waiting(t.processing) \subseteq Waiting(s.processing) \cup SealOf(e)
        /\ Longer(s.processing.completed, t.processing.completed)
    BY <1>4, <1>5, WaitingMoves
  <1>8. SealOf(e) = {}
    BY DEF SealOf, Processing
  <1>9. /\ Has(b, "ProcessingStarted") => e.type = "ProcessingStarted"
        /\ Has(b, "ProcessingStarted") \/ Has(b, "ProcessingEnded")
    BY <1>2 DEF Has, Processing
  <1> HIDE DEF b
  <1>10. Has(b, "ProcessingStarted") => t.processing.active # NoRun /\ t.processing.active.running
    BY <1>4, <1>9 DEF PipelineMoved
  <1>11. Waiting(t.processing) \subseteq Waiting(s.processing)
    BY <1>7, <1>8
  <1> QED BY <1>1, <1>6, <1>7, <1>9, <1>10, <1>11 DEF b

LEMMA JournalMoves ==
    ASSUME NEW o, NEW s, NEW b, Good(s), Journalable(o, s, b)
    PROVE  LET t == ApplyBatch(s, b)
               p == s.processing
               q == t.processing
           IN  /\ Good(t) /\ t.created
               /\ SealsIn(b) \subseteq Stage \X Nat
               /\ Waiting(q) \subseteq Waiting(p) \cup SealsIn(b)
               /\ Longer(p.completed, q.completed)
               /\ o /\ StagesOnce(s) => StagesOnce(t)
               /\ Has(b, "ProcessingStarted") =>
                    q.active # NoRun /\ q.active.running /\ Waiting(q) \subseteq Waiting(p)
               /\ p.active # NoRun =>
                     \/ Has(b, "ProcessingStarted") \/ Has(b, "ProcessingEnded")
                     \/ q.active = p.active
               /\ AllCalm(b) => Calmer(s, t)
  <1> DEFINE t == ApplyBatch(s, b)
             p == s.processing
             q == t.processing
  <1>1. PICK T : /\ AllFit(o, T, s, b)
                 /\ \/ T \cap Processing = {}
                    \/ \E e : b = <<e>> /\ e.type \in Processing
    BY DEF Journalable
  <1>2. Good(t)
    BY <1>1, BatchGood
  <1>3. t.created
    BY <1>1, BatchCreates DEF Journalable, None
  <1>4. SealsIn(b) \subseteq Stage \X Nat
    BY <1>1, SealsTyped
  <1>5. AllCalm(b) => Calmer(s, t)
    BY <1>1, CalmBatch DEF AllCalm
  <1>6. CASE T \cap Processing = {}
    <2>1. /\ q.completed = p.completed
          /\ p.active # NoRun => q.active = p.active
          /\ Waiting(q) \subseteq Waiting(p) \cup SealsIn(b)
          /\ o /\ StagesOnce(s) => StagesOnce(t)
      BY <1>1, <1>6, BatchMoves
    <2>2. ~Has(b, "ProcessingStarted") /\ ~Has(b, "ProcessingEnded")
      BY <1>1, <1>6, HasIn
    <2>3. Len(p.completed) \in Nat
      BY TriggersPlaced DEF Good, State
    <2>4. Longer(p.completed, q.completed)
      BY <2>1, <2>3 DEF Longer
    <2> HIDE DEF t, p, q
    <2>5. /\ Has(b, "ProcessingStarted") =>
               q.active # NoRun /\ q.active.running /\ Waiting(q) \subseteq Waiting(p)
          /\ p.active # NoRun =>
                \/ Has(b, "ProcessingStarted") \/ Has(b, "ProcessingEnded")
                \/ q.active = p.active
      BY <2>1, <2>2
    <2> QED BY <1>2, <1>3, <1>4, <1>5, <2>1, <2>4, <2>5 DEF t, p, q
  <1>7. CASE \E e : b = <<e>> /\ e.type \in Processing
    <2>1. PICK e : b = <<e>> /\ e.type \in Processing
      BY <1>7
    <2>2. AllFit(o, T, s, <<e>>)
      BY <1>1, <2>1
    <2>3. /\ Waiting(q) \subseteq Waiting(p) /\ Longer(p.completed, q.completed)
          /\ o /\ StagesOnce(s) => StagesOnce(t)
          /\ Has(b, "ProcessingStarted") =>
               q.active # NoRun /\ q.active.running /\ Waiting(q) \subseteq Waiting(p)
          /\ Has(b, "ProcessingStarted") \/ Has(b, "ProcessingEnded")
      BY <2>1, <2>2, RunStepMoves
    <2> HIDE DEF t, p, q
    <2> QED BY <1>2, <1>3, <1>4, <1>5, <2>3 DEF t, p, q
  <1> QED BY <1>1, <1>6, <1>7

-----------------------------------------------------------------------------
(* Streams of settled stages                                                 *)

LEMMA StreamsGrow ==
    ASSUME NEW a \in Seq(TriggerRecord), NEW b \in Seq(TriggerRecord), Longer(a, b)
    PROVE  Streams(a) \subseteq Streams(b)
  <1>1. /\ DOMAIN a = 1..Len(a) /\ DOMAIN b = 1..Len(b) /\ Len(a) \in Nat /\ Len(b) \in Nat
    BY LenProperties
  <1>2. \A i \in DOMAIN a : i \in DOMAIN b /\ b[i] = a[i]
    BY <1>1 DEF Longer
  <1> QED BY <1>2, Zenon DEF Streams

LEMMA StreamsOfTail ==
    ASSUME NEW a \in Seq(TriggerRecord), a # <<>>
    PROVE  /\ Tail(a) \in Seq(TriggerRecord) /\ Head(a) \in TriggerRecord
           /\ Len(a) # 1 => Tail(a) # <<>>
           /\ Streams(Tail(a)) \subseteq Streams(a)
           /\ Head(a).kind = "Stage" => StreamOf(Head(a)) \in Streams(a)
  <1> DEFINE b == Tail(a)
  <1>1. /\ b \in Seq(TriggerRecord) /\ Len(b) = Len(a) - 1 /\ Head(a) \in TriggerRecord
        /\ \A i \in 1..Len(b) : b[i] = a[i + 1]
        /\ Len(a) \in Nat \ {0} /\ DOMAIN a = 1..Len(a) /\ Head(a) = a[1]
    BY HeadTailProperties, EmptySeq, LenProperties
  <1> HIDE DEF b
  <1>2. DOMAIN b = 1..Len(b)
    BY <1>1, LenProperties
  <1>3. \A i \in DOMAIN b : i + 1 \in DOMAIN a /\ b[i] = a[i + 1]
    BY <1>1, <1>2
  <1>4. Streams(b) \subseteq Streams(a)
    BY <1>3, Zenon DEF Streams
  <1>5. 1 \in DOMAIN a
    BY <1>1
  <1>6. Head(a).kind = "Stage" => StreamOf(Head(a)) \in Streams(a)
    BY <1>1, <1>5, Zenon DEF Streams
  <1>7. Len(a) # 1 => b # <<>>
    <2>1. Len(a) # 1 => Len(b) # 0
      BY <1>1
    <2> QED BY <2>1, EmptySeq, Zenon
  <1> QED BY <1>1, <1>4, <1>6, <1>7 DEF b

LEMMA StreamsOfNew ==
    ASSUME NEW s \in State, NEW t \in State
    PROVE  /\ NewlyCompleted(s, t) \in Seq(TriggerRecord)
           /\ Streams(NewlyCompleted(s, t)) \subseteq Streams(t.processing.completed)
  <1> DEFINE c == t.processing.completed
             m == Len(s.processing.completed) + 1
             n == Len(c)
             b == SubSeq(c, m, n)
  <1>1. s.processing \in Pipeline /\ t.processing \in Pipeline
    BY DEF State
  <1>2. m \in Int /\ m >= 1 /\ n \in Nat /\ c \in Seq(TriggerRecord) /\ DOMAIN c = 1..n
    BY <1>1, LenProperties DEF Pipeline
  <1>3. \A i \in m..n : c[i] \in TriggerRecord
    BY <1>2, ElementOfSeq
  <1>4. NewlyCompleted(s, t) = b
    BY DEF NewlyCompleted
  <1> HIDE DEF c, m, n
  <1>5. /\ b \in Seq(TriggerRecord)
        /\ Len(b) = IF m <= n THEN n - m + 1 ELSE 0
        /\ \A i \in 1..n - m + 1 : b[i] = c[m + i - 1]
    BY <1>2, <1>3, SubSeqProperties
  <1> HIDE DEF b
  <1>6. DOMAIN b = 1..Len(b)
    BY <1>5, LenProperties
  <1>7. \A i \in DOMAIN b : \E j \in DOMAIN c : b[i] = c[j]
    <2> SUFFICES ASSUME NEW i \in 1..Len(b)
                 PROVE  m + i - 1 \in DOMAIN c /\ b[i] = c[m + i - 1]
      BY <1>6
    <2> QED BY <1>2, <1>5
  <1>8. Streams(b) \subseteq Streams(c)
    BY <1>7, Zenon DEF Streams
  <1> QED BY <1>4, <1>5, <1>8 DEF c

LEMMA StreamTyped ==
    ASSUME NEW x \in TriggerRecord
    PROVE  StreamOf(x) \in Stage \X Nat
  BY DEF StreamOf, TriggerRecord

-----------------------------------------------------------------------------
(* Every step keeps the invariant                                            *)

LEMMA InvInit ==
    ASSUME NEW o, Init
    PROVE  Inv(o)
  <1> DEFINE p == EmptyProcessing
  <1>1. Good(DefaultState)
    BY DefaultGood
  <1>2. DefaultState \in State /\ p \in Pipeline /\ DefaultState.processing = p
    BY <1>1 DEF Good, State, DefaultState
  <1>3. ~DefaultState.created
    BY DEF DefaultState
  <1>4. FirstCommand \in ActorMessage
    BY ActorAssumption DEF ActorMessage
  <1>5. /\ inbox = <<FirstCommand>> /\ inbox \in Seq(ActorMessage) /\ Len(inbox) = 1
        /\ inbox[1] = FirstCommand
    BY <1>4 DEF Init
  <1>6. InboxOK
    BY <1>5, ActorAssumption DEF InboxOK
  <1>7. /\ durable = [state |-> DefaultState, cursor |-> 0]
        /\ durable.state = DefaultState /\ durable.cursor = 0
        /\ marked = {} /\ removed = {} /\ ran = {} /\ chanel = <<>>
        /\ handled = 0 /\ work = NoWork
    BY DEF Init
  <1>8. DiskOK
    BY <1>1, <1>2, <1>7 DEF DiskOK
  <1>9. /\ actor.at = "down" /\ actor.state = DefaultState /\ actor.cursor = 0
        /\ actor.batch = None /\ actor.cause = 0 /\ actor.sealed = {} /\ actor.ended = <<>>
        /\ actor \in ActorRecord
    BY <1>2 DEF Init, Down, Actor, ActorRecord, Steps
  <1>10. CursorsOK
    BY <1>3, <1>5, <1>7, <1>9 DEF CursorsOK
  <1>11. ActorOK /\ BatchOK(o) /\ WorkOK /\ PublishedOK
    BY <1>7, <1>9 DEF ActorOK, BatchOK, WorkOK, PublishedOK
  <1>12. RedeliveryIsHarmless
    BY <1>7 DEF RedeliveryIsHarmless
  <1>13. StreamsOK(o)
    <2>1. Triggers(p) = <<>>
      BY DEF EmptyProcessing, Triggers
    <2>2. StagesOnce(DefaultState)
      BY <1>2, <2>1 DEF StagesOnce
    <2> QED BY <1>2, <1>7, <1>9, <2>2 DEF StreamsOK
  <1> QED BY <1>6, <1>8, <1>10, <1>11, <1>12, <1>13 DEF Inv

LEMMA SendKeeps ==
    ASSUME NEW o, Inv(o), Send
    PROVE  Inv(o)'
  <1>1. PICK cmd \in Commands : inbox' = Append(inbox, cmd)
    BY DEF Send
  <1>2. cmd \in ClientCommand /\ cmd \in ActorMessage
    BY <1>1, ActorAssumption DEF ActorMessage
  <1>3. /\ inbox \in Seq(ActorMessage) /\ Len(inbox) >= 1 /\ Len(inbox) \in Nat
        /\ inbox[1] \in CreateCommand /\ \A i \in 2..Len(inbox) : inbox[i] \in ClientCommand
    BY LenProperties DEF Inv, InboxOK
  <1>4. /\ inbox' \in Seq(ActorMessage) /\ Len(inbox') = Len(inbox) + 1
        /\ \A i \in 1..Len(inbox) : inbox'[i] = inbox[i]
        /\ inbox'[Len(inbox) + 1] = cmd
    BY <1>1, <1>2, <1>3, AppendProperties
  <1>5. InboxOK'
    BY <1>2, <1>3, <1>4 DEF InboxOK
  <1>6. /\ UNCHANGED <<durable, marked, removed, announced, published>>
        /\ UNCHANGED <<actor, work, chanel, handled, ran>>
    BY DEF Send, disk
  <1>7. DiskOK' /\ WorkOK' /\ PublishedOK' /\ StreamsOK(o)'
    BY <1>6 DEF Inv, DiskOK, WorkOK, PublishedOK, StreamsOK
  <1>8. ActorOK'
    BY <1>6 DEF Inv, ActorOK, ActorRecord
  <1>9. CursorsOK'
    BY <1>3, <1>4, <1>6 DEF Inv, CursorsOK
  <1>10. BatchOK(o)'
    <2>1. actor.cursor \in Nat
      BY DEF Inv, ActorOK, ActorRecord
    <2>2. actor.at = "append" /\ actor.cause # 0 => actor.cause \in 1..Len(inbox)
      BY <1>3, <2>1 DEF Inv, BatchOK
    <2> QED BY <1>3, <1>4, <1>6, <2>1, <2>2 DEF Inv, BatchOK
  <1>11. RedeliveryIsHarmless'
    <2>1. \A i \in durable.cursor + 1 .. handled : i \in 1..Len(inbox)
      BY <1>3 DEF Inv, CursorsOK, DiskOK
    <2> QED BY <1>4, <1>6, <2>1 DEF Inv, RedeliveryIsHarmless
  <1> QED BY <1>5, <1>7, <1>8, <1>9, <1>10, <1>11 DEF Inv

\* A challenge that is over has nothing waiting.
LEMMA ConcludedWaits ==
    ASSUME NEW s \in State, Concluded(s)
    PROVE  Waiting(s.processing) = {} /\ s.processing.active = NoRun
  <1>1. s.processing \in Pipeline /\ s.processing.pending \in Seq(TriggerRecord)
    BY DEF State, Pipeline
  <1>2. s.processing.active = NoRun /\ s.processing.pending = <<>>
    BY DEF Concluded, Settled
  <1>3. Outstanding(s.processing) = <<>>
    BY <1>2 DEF Outstanding
  <1>4. Streams(<<>>) = {}
    BY DEF Streams
  <1> QED BY <1>1, <1>2, <1>3, <1>4, WaitingIs

\* Steps that touch no message and nothing the journal holds.
Still == UNCHANGED <<inbox, durable, handled>>

LEMMA StillKeeps ==
    ASSUME NEW o, Inv(o), Still
    PROVE  InboxOK' /\ RedeliveryIsHarmless'
  BY DEF Inv, Still, InboxOK, RedeliveryIsHarmless

LEMMA BootKeeps ==
    ASSUME NEW o, Inv(o), Boot
    PROVE  Inv(o)'
  <1> DEFINE s == durable.state
  <1>1. /\ s \in State /\ durable.cursor \in Nat
    BY DEF Inv, DiskOK
  <1>2. /\ UNCHANGED <<inbox, durable, marked, removed, announced, published>>
        /\ UNCHANGED <<work, chanel, handled, ran>> /\ actor.at = "down"
    BY DEF Boot, disk
  <1>3. /\ actor' \in ActorRecord' /\ actor'.at \in {"conclude", "republish"}
        /\ actor'.at = "conclude" => Concluded(s)
        /\ actor'.state = s /\ actor'.cursor = durable.cursor /\ actor'.batch = None
    BY <1>1 DEF Boot, Actor, ActorRecord, Steps
  <1> HIDE DEF s
  <1>4. work = NoWork
    BY <1>2 DEF Inv, WorkOK
  <1>5. InboxOK' /\ RedeliveryIsHarmless'
    BY <1>2, StillKeeps DEF Still
  <1>6. DiskOK' /\ WorkOK' /\ PublishedOK'
    BY <1>2, <1>3, <1>4 DEF Inv, DiskOK, WorkOK, PublishedOK
  <1>7. ActorOK' /\ BatchOK(o)'
    BY <1>2, <1>3 DEF ActorOK, BatchOK, s
  <1>8. CursorsOK'
    BY <1>1, <1>2, <1>3 DEF Inv, CursorsOK
  <1>9. StreamsOK(o)'
    <2>1. actor'.at = "conclude" => Waiting(s.processing) = {}
      BY <1>1, <1>3, ConcludedWaits
    <2> QED BY <1>2, <1>3, <1>4, <2>1 DEF Inv, StreamsOK, s
  <1> QED BY <1>5, <1>6, <1>7, <1>8, <1>9 DEF Inv

LEMMA RepublishKeeps ==
    ASSUME NEW o, Inv(o), Republish
    PROVE  Inv(o)'
  <1>1. /\ UNCHANGED <<inbox, durable, marked, removed, announced>>
        /\ UNCHANGED <<work, chanel, handled, ran>> /\ actor.at = "republish"
    BY DEF Republish
  <1>2. /\ actor' \in ActorRecord' /\ actor'.at = "remark" /\ actor'.state = actor.state
        /\ actor'.cursor = actor.cursor /\ actor'.batch = actor.batch
    BY DEF Inv, ActorOK, Republish, ActorRecord, Steps
  <1>3. actor.state = durable.state /\ durable.cursor <= actor.cursor /\ actor.batch = None
    BY <1>1 DEF Inv, ActorOK, CursorsOK, BatchOK
  <1>4. work = NoWork
    BY <1>1 DEF Inv, WorkOK
  <1>5. InboxOK' /\ RedeliveryIsHarmless'
    BY <1>1, StillKeeps DEF Still
  <1>6. DiskOK' /\ WorkOK'
    BY <1>1, <1>4 DEF Inv, DiskOK, WorkOK
  <1>7. PublishedOK'
    BY <1>1, <1>2, <1>3 DEF PublishedOK, Republish
  <1>8. ActorOK' /\ BatchOK(o)'
    BY <1>1, <1>2, <1>3 DEF ActorOK, BatchOK
  <1>9. CursorsOK'
    BY <1>1, <1>2, <1>3 DEF Inv, CursorsOK
  <1>10. StreamsOK(o)'
    BY <1>1, <1>2, <1>4 DEF Inv, StreamsOK
  <1> QED BY <1>5, <1>6, <1>7, <1>8, <1>9, <1>10 DEF Inv

LEMMA RespawnedIs ==
    ASSUME NEW p \in Pipeline
    PROVE  LET run == p.active
           IN  Respawned(p) # NoWork =>
                 run # NoRun /\ run.running /\ Respawned(p) = <<run.trigger.seq, run.attempts>>
  BY DEF Respawned

LEMMA RemarkKeeps ==
    ASSUME NEW o, Inv(o), Remark
    PROVE  Inv(o)'
  <1> DEFINE p == durable.state.processing
             c == Streams(Outstanding(p))
  <1>1. /\ UNCHANGED <<inbox, durable, removed, announced, published>>
        /\ UNCHANGED <<chanel, handled, ran>> /\ actor.at = "remark"
    BY DEF Remark
  <1>2. /\ actor' \in ActorRecord' /\ actor'.at = "loop" /\ actor'.state = actor.state
        /\ actor'.cursor = actor.cursor /\ actor'.batch = actor.batch
    BY DEF Inv, ActorOK, Remark, ActorRecord, Steps
  <1>3. actor.state = durable.state /\ durable.cursor <= actor.cursor /\ actor.batch = None
    BY <1>1 DEF Inv, ActorOK, CursorsOK, BatchOK
  <1>4. p \in Pipeline
    BY DEF Inv, DiskOK, State
  <1>5. c = Waiting(p) /\ (p.active # NoRun => Streams(<<p.active.trigger>>) \subseteq Waiting(p))
    BY <1>4, WaitingIs
  <1>6. marked' = marked \cup c /\ work' = Respawned(p)
    BY <1>3 DEF Remark
  <1>7. work' # NoWork =>
          /\ p.active # NoRun /\ p.active.running
          /\ work' = <<p.active.trigger.seq, p.active.attempts>>
    BY <1>4, <1>6, RespawnedIs
  <1>8. c \subseteq Stage \X Nat
    <2>1. Outstanding(p) \in Seq(TriggerRecord)
      BY <1>4, TriggersSplit
    <2>2. \A i \in DOMAIN Outstanding(p) : Outstanding(p)[i] \in TriggerRecord
      BY <2>1, LenProperties, ElementOfSeq
    <2> QED BY <2>2, StreamTyped DEF Streams
  <1> HIDE DEF c
  <1>9. InboxOK' /\ RedeliveryIsHarmless'
    BY <1>1, StillKeeps DEF Still
  <1>10. DiskOK'
    BY <1>1, <1>6, <1>8 DEF Inv, DiskOK
  <1>11. WorkOK'
    BY <1>1, <1>2, <1>7 DEF WorkOK
  <1>12. PublishedOK' /\ CursorsOK'
    BY <1>1, <1>2, <1>3 DEF Inv, PublishedOK, CursorsOK
  <1>13. ActorOK' /\ BatchOK(o)'
    BY <1>1, <1>2, <1>3 DEF ActorOK, BatchOK
  <1>14. StreamsOK(o)'
    BY <1>1, <1>2, <1>5, <1>6, <1>7 DEF Inv, StreamsOK
  <1> QED BY <1>9, <1>10, <1>11, <1>12, <1>13, <1>14 DEF Inv

LEMMA TakeMessageKeeps ==
    ASSUME NEW o, Inv(o), TakeMessage, o => ReportsInOrder
    PROVE  Inv(o)'
  <1> DEFINE id == actor.cursor + 1
             cmd == inbox[id]
             b == Decide(actor.state, cmd)
  <1>1. /\ UNCHANGED <<inbox, durable, marked, removed, announced, published>>
        /\ UNCHANGED <<work, chanel, ran>> /\ actor.at = "loop" /\ id <= Len(inbox)
    BY DEF TakeMessage, disk
  <1>2. /\ actor \in ActorRecord /\ actor.cursor \in Nat /\ actor.state = durable.state
        /\ Good(actor.state) /\ actor.batch = None /\ durable.cursor <= actor.cursor
        /\ durable.cursor \in Nat /\ handled \in Nat /\ actor.cursor <= handled
        /\ handled <= Len(inbox)
    BY <1>1 DEF Inv, ActorOK, ActorRecord, DiskOK, CursorsOK, BatchOK
  <1>3. /\ Len(inbox) \in Nat /\ id \in 1..Len(inbox)
        /\ id = 1 => cmd \in CreateCommand
        /\ id # 1 => cmd \in ClientCommand
    <2>1. inbox \in Seq(ActorMessage)
      BY DEF Inv, InboxOK
    <2> QED BY <1>1, <1>2, <2>1, LenProperties DEF Inv, InboxOK
  <1>4. InboxOK'
    BY <1>1 DEF Inv, InboxOK
  <1>5. DiskOK'
    BY <1>1 DEF Inv, DiskOK
  <1>6. CASE b = None /\ Ignored(id)
    <2>1. /\ actor' \in ActorRecord' /\ actor'.at = "project" /\ actor'.state = actor.state
          /\ actor'.cursor = id /\ actor'.batch = actor.batch
      <3>1. actor' = [actor EXCEPT !.at = "project", !.cursor = id] /\ id \in Nat
        BY <1>2, <1>6 DEF Ignored
      <3> HIDE DEF id, cmd, b
      <3> QED BY <1>2, <3>1 DEF ActorRecord, Steps
    <2>2. handled' = Max2(handled, id)
      BY <1>6 DEF Ignored
    <2>3. handled' \in Nat /\ handled' >= handled /\ handled' >= id /\ handled' <= Len(inbox)
          /\ handled' \in {handled, id}
      BY <1>1, <1>2, <2>2 DEF Max2
    <2>4. actor.state.created
      <3>1. CASE id = 1
        <4>1. ~actor.state.created => b # None
          <5>1. cmd.type = "Create"
            BY <1>3, <3>1 DEF CreateCommand
          <5>2. SUFFICES ASSUME ~actor.state.created PROVE b # None
            OBVIOUS
          <5>3. ~Terminated(actor.state)
            BY <1>2, <5>2 DEF Good, PositionOK, DefaultState, Terminated
          <5>4. b = DecideCreate(actor.state, cmd)
            BY <5>1, <5>3, DecideIs
          <5>5. \E x, y : b = <<x, y>>
            BY <5>2, <5>4, Zenon DEF DecideCreate
          <5> HIDE DEF b
          <5> QED BY <5>5, Short, Zenon DEF None
        <4> QED BY <1>6, <4>1
      <3>2. CASE id # 1
        BY <1>2, <3>2 DEF Inv, CursorsOK
      <3> QED BY <3>1, <3>2
    <2>5. CursorsOK'
      BY <1>1, <1>2, <2>1, <2>3, <2>4 DEF CursorsOK
    <2>6. ActorOK' /\ BatchOK(o)'
      BY <1>1, <1>2, <2>1 DEF ActorOK, BatchOK
    <2>7. WorkOK' /\ PublishedOK'
      BY <1>1, <2>1 DEF Inv, WorkOK, PublishedOK
    <2>8. RedeliveryIsHarmless'
      <3> SUFFICES ASSUME NEW i \in durable.cursor + 1 .. handled'
                   PROVE  Decide(durable.state, inbox[i]) = None
        BY <1>1 DEF RedeliveryIsHarmless
      <3>1. CASE i <= handled
        BY <1>2, <2>3, <3>1 DEF Inv, RedeliveryIsHarmless
      <3>2. CASE i > handled
        <4>1. i = id
          BY <1>2, <2>3, <3>2
        <4> QED BY <1>2, <1>6, <4>1
      <3> QED BY <1>2, <2>3, <3>1, <3>2
    <2>9. StreamsOK(o)'
      BY <1>1, <2>1 DEF Inv, StreamsOK
    <2> QED BY <1>4, <1>5, <2>5, <2>6, <2>7, <2>8, <2>9 DEF Inv
  <1>7. CASE /\ b # None /\ handled' = handled
             /\ actor' = [actor EXCEPT !.at = "append", !.batch = b, !.cause = id]
    <2>1. /\ actor' \in ActorRecord' /\ actor'.at = "append" /\ actor'.state = actor.state
          /\ actor'.cursor = actor.cursor /\ actor'.batch = b /\ actor'.cause = id
      <3>1. id \in Nat
        BY <1>2
      <3> HIDE DEF id, cmd, b
      <3> QED BY <1>2, <1>7, <3>1 DEF ActorRecord, Steps
    <2>2. Journalable(o, actor.state, b)
      <3>1. o => InOrderFor(actor.state, cmd)
        BY <1>1, <1>2, <1>3 DEF ReportsInOrder
      <3>2. cmd \in CreateCommand \/ (cmd \in ClientCommand /\ actor.state.created)
        <4>1. CASE id = 1
          BY <1>3, <4>1
        <4>2. CASE id # 1
          BY <1>2, <1>3, <4>2 DEF Inv, CursorsOK
        <4> QED BY <4>1, <4>2
      <3> HIDE DEF cmd
      <3>3. \E T : AllFit(o, T, actor.state, b) /\ T \cap Processing = {}
        BY <1>2, <3>1, <3>2, MessageFits
      <3> HIDE DEF b
      <3> QED BY <1>7, <3>3 DEF Journalable
    <2>3. CursorsOK' /\ WorkOK' /\ PublishedOK' /\ RedeliveryIsHarmless'
      BY <1>1, <1>7, <2>1 DEF Inv, CursorsOK, WorkOK, PublishedOK, RedeliveryIsHarmless
    <2>4. ActorOK'
      BY <1>1, <1>2, <2>1 DEF ActorOK
    <2>5. BatchOK(o)'
      <3>1. b = Decide(actor.state, inbox[id])
        OBVIOUS
      <3> HIDE DEF b
      <3> QED BY <1>1, <1>2, <1>3, <1>7, <2>1, <2>2, <3>1 DEF BatchOK
    <2>6. StreamsOK(o)'
      BY <1>1, <2>1 DEF Inv, StreamsOK
    <2> QED BY <1>4, <1>5, <2>3, <2>4, <2>5, <2>6 DEF Inv
  <1> QED BY <1>6, <1>7 DEF TakeMessage

\* The actor takes up a batch of its own.
TakesUp(b) ==
    /\ actor.at = "loop"
    /\ actor' = [actor EXCEPT !.at = "append", !.batch = b, !.cause = 0]
    /\ UNCHANGED <<inbox, disk, work, handled, ran>>
    /\ (chanel \in Seq(ReportRecord))'

LEMMA OwnBatchKeeps ==
    ASSUME NEW o, Inv(o), NEW b, TakesUp(b),
           Journalable(o, actor.state, b), AllCalm(b), actor.state.created
    PROVE  Inv(o)'
  <1>1. /\ UNCHANGED <<inbox, durable, marked, removed, announced, published, work, handled, ran>>
        /\ (chanel \in Seq(ReportRecord))' /\ actor.at = "loop"
    BY DEF TakesUp, disk
  <1>2. actor \in ActorRecord /\ actor.state = durable.state /\ b # None
    BY <1>1 DEF Inv, ActorOK, Journalable
  <1>3. /\ actor' \in ActorRecord' /\ actor'.at = "append" /\ actor'.state = actor.state
        /\ actor'.cursor = actor.cursor /\ actor'.batch = b /\ actor'.cause = 0
    BY <1>2 DEF TakesUp, ActorRecord, Steps
  <1>4. InboxOK' /\ RedeliveryIsHarmless'
    BY <1>1, StillKeeps DEF Still
  <1>5. DiskOK' /\ CursorsOK' /\ WorkOK' /\ PublishedOK'
    BY <1>1, <1>3 DEF Inv, DiskOK, CursorsOK, WorkOK, PublishedOK
  <1>6. ActorOK' /\ BatchOK(o)'
    BY <1>1, <1>2, <1>3 DEF ActorOK, BatchOK
  <1>7. StreamsOK(o)'
    BY <1>1, <1>3 DEF Inv, StreamsOK
  <1> QED BY <1>4, <1>5, <1>6, <1>7 DEF Inv

LEMMA TakeReportKeeps ==
    ASSUME NEW o, Inv(o), TakeReport
    PROVE  Inv(o)'
  <1> DEFINE report == Head(chanel)
             cmd == [type |-> "Processed", seq |-> report.seq,
                     attempt |-> report.attempt, result |-> report.result]
             b == Decide(actor.state, cmd)
  <1>1. /\ UNCHANGED <<inbox, disk, work, handled, ran>> /\ actor.at = "loop"
        /\ chanel # <<>> /\ chanel' = Tail(chanel)
        /\ actor' = IF b = None THEN actor
                    ELSE [actor EXCEPT !.at = "append", !.batch = b, !.cause = 0]
    BY DEF TakeReport
  <1>2. Good(actor.state)
    BY <1>1 DEF Inv, ActorOK, DiskOK
  <1>3. report \in ReportRecord /\ (chanel \in Seq(ReportRecord))'
    <2>1. chanel \in Seq(ReportRecord)
      BY DEF Inv, DiskOK
    <2> QED BY <1>1, <2>1, HeadTailProperties
  <1>4. cmd.type = "Processed" /\ cmd.result \in ResultRecord
    BY <1>3 DEF ReportRecord
  <1> HIDE DEF cmd
  <1>5. b = DecideProcessed(actor.state, cmd)
    BY <1>4, DecideIs
  <1> HIDE DEF b
  <1>6. CASE b = None
    <2>1. actor' = actor
      BY <1>1, <1>6
    <2>2. UNCHANGED <<inbox, durable, marked, removed, announced, published, work, handled, ran>>
      BY <1>1 DEF disk
    <2>3. InboxOK' /\ RedeliveryIsHarmless'
      BY <2>2, StillKeeps DEF Still
    <2>4. DiskOK'
      BY <1>3, <2>2 DEF Inv, DiskOK
    <2>5. CursorsOK' /\ WorkOK' /\ PublishedOK' /\ BatchOK(o)' /\ StreamsOK(o)'
      BY <2>1, <2>2 DEF Inv, CursorsOK, WorkOK, PublishedOK, BatchOK, StreamsOK
    <2>6. ActorOK'
      BY <2>1, <2>2 DEF Inv, ActorOK, ActorRecord
    <2> QED BY <2>3, <2>4, <2>5, <2>6 DEF Inv
  <1>7. CASE b # None
    <2>1. Journalable(o, actor.state, b) /\ AllCalm(b) /\ actor.state.created
      BY <1>2, <1>4, <1>5, <1>7, ReportJournals
    <2>2. TakesUp(b)
      BY <1>1, <1>3, <1>7 DEF TakesUp
    <2> QED BY <2>1, <2>2, OwnBatchKeeps
  <1> QED BY <1>6, <1>7

LEMMA TakeDeadlineKeeps ==
    ASSUME NEW o, Inv(o), TakeDeadline
    PROVE  Inv(o)'
  <1>1. PICK kind \in {LifecycleDeadline(actor.state), ProcessingDeadline(actor.state)} \ {"None"} :
            actor' = [actor EXCEPT !.at    = "append",
                                   !.batch = Decide(actor.state, [type |-> "DeadlineFired",
                                                                  kind |-> kind]),
                                   !.cause = 0]
    BY Zenon DEF TakeDeadline
  <1> DEFINE cmd == [type |-> "DeadlineFired", kind |-> kind]
             b == Decide(actor.state, cmd)
  <1>2. cmd.type = "DeadlineFired" /\ cmd.kind = kind
    OBVIOUS
  <1>3. /\ actor' = [actor EXCEPT !.at = "append", !.batch = b, !.cause = 0]
        /\ UNCHANGED <<inbox, disk, work, handled, ran>> /\ actor.at = "loop" /\ UNCHANGED chanel
    BY <1>1 DEF TakeDeadline
  <1> HIDE DEF cmd
  <1>4. Good(actor.state) /\ (chanel \in Seq(ReportRecord))'
    BY <1>3 DEF Inv, ActorOK, DiskOK
  <1>5. b = DecideDeadline(actor.state, cmd)
    BY <1>2, DecideIs
  <1> HIDE DEF b
  <1>6. Journalable(o, actor.state, b) /\ AllCalm(b) /\ actor.state.created
    <2>1. cmd.kind \in {LifecycleDeadline(actor.state), ProcessingDeadline(actor.state)} \ {"None"}
      BY <1>1, <1>2
    <2> QED BY <1>4, <1>5, <2>1, DeadlineJournals
  <1>7. TakesUp(b)
    BY <1>3, <1>4 DEF TakesUp
  <1> QED BY <1>6, <1>7, OwnBatchKeeps

\* Journaling: what was ignored stays harmless behind the new cursor, and what
\* the batch adds to the waiting stages it seals.
LEMMA AppendBatchKeeps ==
    ASSUME NEW o, Inv(o), AppendBatch
    PROVE  Inv(o)'
  <1> DEFINE s == actor.state
             b == actor.batch
             t == ApplyBatch(s, b)
             p == s.processing
             q == t.processing
             cursor == Max2(durable.cursor, actor.cause)
             new == NewlyCompleted(s, t)
             seals == SealsIn(b)
  <1>1. /\ actor.at = "append" /\ UNCHANGED <<inbox, marked, removed, chanel>>
        /\ handled' = Max2(handled, actor.cause)
    BY DEF AppendBatch
  <1>2. /\ s = durable.state /\ Good(s) /\ Journalable(o, s, b)
        /\ actor \in ActorRecord /\ actor.cause \in Nat /\ actor.cursor \in Nat
        /\ durable.cursor \in Nat /\ handled \in Nat
    BY <1>1 DEF Inv, ActorOK, ActorRecord, DiskOK, BatchOK, CursorsOK
  <1>3. durable' = [state |-> t, cursor |-> cursor]
    BY <1>2 DEF AppendBatch, Journaled
  <1>4. /\ Good(t) /\ t.created
        /\ seals \subseteq Stage \X Nat
        /\ Waiting(q) \subseteq Waiting(p) \cup seals
        /\ Longer(p.completed, q.completed)
        /\ o /\ StagesOnce(s) => StagesOnce(t)
        /\ Has(b, "ProcessingStarted") =>
             q.active # NoRun /\ q.active.running /\ Waiting(q) \subseteq Waiting(p)
        /\ p.active # NoRun =>
              \/ Has(b, "ProcessingStarted") \/ Has(b, "ProcessingEnded")
              \/ q.active = p.active
        /\ AllCalm(b) => Calmer(s, t)
    BY <1>2, JournalMoves
  <1>5. s \in State /\ t \in State
    BY <1>2, <1>4 DEF Good
  <1>6. p \in Pipeline /\ q \in Pipeline
    BY <1>5 DEF State
  <1>7. new \in Seq(TriggerRecord) /\ Streams(new) \subseteq Streams(q.completed)
    BY <1>5, StreamsOfNew
  <1>8. Streams(p.completed) \subseteq Streams(q.completed)
    <2>1. p.completed \in Seq(TriggerRecord) /\ q.completed \in Seq(TriggerRecord)
      BY <1>6 DEF Pipeline
    <2> QED BY <1>4, <2>1, StreamsGrow
  <1>9. /\ actor'.at = "mark" /\ actor'.state = t
        /\ actor'.cursor = Max2(actor.cursor, actor.cause)
        /\ actor'.batch = None /\ actor'.cause = 0 /\ actor'.sealed = seals /\ actor'.ended = new
        /\ actor' \in ActorRecord'
    <2> DEFINE c == Max2(actor.cursor, actor.cause)
    <2>1. actor' = [Actor("mark", t, c) EXCEPT !.sealed = seals, !.ended = new]
      BY DEF AppendBatch
    <2>2. c \in Nat
      BY <1>2 DEF Max2
    <2> HIDE DEF t, c, seals, new
    <2>3. actor' = [at |-> "mark", state |-> t, cursor |-> c, batch |-> None, cause |-> 0,
                    sealed |-> seals, ended |-> new]
      BY <2>1 DEF Actor
    <2> QED BY <1>4, <1>5, <1>7, <2>2, <2>3 DEF ActorRecord, Steps, c
  <1>10. /\ Len(inbox) \in Nat /\ inbox \in Seq(ActorMessage)
         /\ durable.cursor <= actor.cursor /\ actor.cursor <= handled /\ handled <= Len(inbox)
    BY <1>1, LenProperties DEF Inv, InboxOK, CursorsOK
  <1>11. \/ /\ actor.cause # 0 /\ actor.cause <= Len(inbox)
            /\ cursor = actor.cause /\ handled' = actor.cause /\ actor'.cursor = actor.cause
         \/ /\ actor.cause = 0 /\ s.created /\ AllCalm(b)
            /\ cursor = durable.cursor /\ handled' = handled /\ actor'.cursor = actor.cursor
    <2>1. CASE actor.cause = 0
      BY <1>1, <1>2, <1>9, <2>1 DEF Inv, BatchOK, Max2
    <2>2. CASE actor.cause # 0
      <3>1. /\ actor.cause = actor.cursor + 1 /\ actor.cause <= Len(inbox)
            /\ b = Decide(s, inbox[actor.cause])
        BY <1>1, <2>2 DEF Inv, BatchOK
      <3>2. actor.cause > handled
        <4>1. actor.cause <= handled => Decide(s, inbox[actor.cause]) = None
          BY <1>2, <1>10, <3>1 DEF Inv, RedeliveryIsHarmless
        <4>2. b # None
          BY <1>2 DEF Journalable
        <4> QED BY <1>2, <3>1, <4>1, <4>2
      <3> QED BY <1>1, <1>2, <1>9, <1>10, <2>2, <3>1, <3>2 DEF Max2
    <2> QED BY <2>1, <2>2
  <1> HIDE DEF t, new, seals, cursor
  <1>12. durable'.state = t /\ durable'.cursor = cursor /\ cursor \in Nat
    BY <1>2, <1>3, <1>11
  <1>13. InboxOK'
    BY <1>1 DEF Inv, InboxOK
  <1>14. /\ Has(b, "ProcessingStarted") =>
               work' = Respawned(q) /\ ran' = ran \cup {q.active.trigger.seq}
         /\ ~Has(b, "ProcessingStarted") =>
               ran' = ran /\ work' = IF Has(b, "ProcessingEnded") THEN NoWork ELSE work
    BY DEF AppendBatch, t
  <1>15. DiskOK'
    <2>1. q.active # NoRun => q.active.trigger.seq \in Nat
      BY <1>6, ActiveRun DEF RunRecord, TriggerRecord
    <2>2. ran' \subseteq Nat
      BY <1>4, <1>14, <2>1 DEF Inv, DiskOK
    <2> HIDE DEF p, q
    <2> QED BY <1>1, <1>3, <1>4, <1>5, <1>12, <2>2 DEF Inv, DiskOK
  <1>16. CursorsOK'
    BY <1>1, <1>2, <1>4, <1>9, <1>10, <1>11, <1>12 DEF CursorsOK
  <1>17. ActorOK' /\ BatchOK(o)'
    BY <1>9, <1>12 DEF ActorOK, BatchOK
  <1>18. WorkOK'
    <2>1. CASE Has(b, "ProcessingStarted")
      <3>1. work' # NoWork =>
               /\ q.active # NoRun /\ q.active.running
               /\ work' = <<q.active.trigger.seq, q.active.attempts>>
        BY <1>6, <1>14, <2>1, RespawnedIs
      <3> QED BY <1>9, <1>12, <3>1 DEF WorkOK
    <2>2. CASE ~Has(b, "ProcessingStarted")
      <3>1. work' # NoWork => work' = work /\ ~Has(b, "ProcessingEnded")
        BY <1>14, <2>2
      <3>2. work' # NoWork =>
               /\ p.active # NoRun /\ p.active.running
               /\ work' = <<p.active.trigger.seq, p.active.attempts>>
        BY <1>2, <3>1 DEF Inv, WorkOK
      <3>3. work' # NoWork => q.active = p.active
        BY <1>4, <2>2, <3>1, <3>2
      <3> QED BY <1>9, <1>12, <3>2, <3>3 DEF WorkOK
    <2> QED BY <2>1, <2>2
  <1>19. PublishedOK'
    BY <1>9 DEF PublishedOK
  <1>20. RedeliveryIsHarmless'
    <2>1. CASE actor.cause # 0
      BY <1>2, <1>11, <1>12, <2>1 DEF RedeliveryIsHarmless
    <2>2. CASE actor.cause = 0
      <3> SUFFICES ASSUME NEW i \in durable.cursor + 1 .. handled
                   PROVE  Decide(t, inbox[i]) = None
        BY <1>1, <1>11, <1>12, <2>2 DEF RedeliveryIsHarmless
      <3>1. Decide(s, inbox[i]) = None
        BY <1>2 DEF Inv, RedeliveryIsHarmless
      <3>2. i \in 1..Len(inbox)
        BY <1>2, <1>10
      <3>3. inbox[i] \in ActorMessage
        BY <1>10, <3>2, ElementOfSeq
      <3>4. s.created /\ Calmer(s, t)
        BY <1>4, <1>11, <2>2
      <3> QED BY <3>1, <3>3, <3>4, HarmlessKept
    <2> QED BY <2>1, <2>2
  <1>21. StreamsOK(o)'
    <2>1. /\ o => StagesOnce(s) /\ removed \subseteq Streams(p.completed)
          /\ removed \subseteq Streams(p.completed) /\ Waiting(p) \subseteq marked
          /\ work # NoWork => Streams(<<p.active.trigger>>) \subseteq marked
      BY <1>1, <1>2 DEF Inv, StreamsOK
    <2>2. work' # NoWork => Streams(<<q.active.trigger>>) \subseteq marked
      <3>1. CASE Has(b, "ProcessingStarted")
        <4>1. Streams(<<q.active.trigger>>) \subseteq Waiting(q)
          BY <1>4, <1>6, <3>1, WaitingIs
        <4>2. Waiting(q) \subseteq Waiting(p)
          BY <1>4, <3>1
        <4>3. Waiting(p) \subseteq marked
          BY <2>1
        <4> QED BY ONLY <4>1, <4>2, <4>3
      <3>2. CASE ~Has(b, "ProcessingStarted")
        <4>1. work' # NoWork => work' = work /\ ~Has(b, "ProcessingEnded")
          BY <1>14, <3>2
        <4>2. work' # NoWork => q.active = p.active
          BY <1>2, <1>4, <3>2, <4>1 DEF Inv, WorkOK
        <4> QED BY <2>1, <4>1, <4>2
      <3> QED BY <3>1, <3>2
    <2>3. /\ o => StagesOnce(t)
          /\ removed \subseteq Streams(q.completed) /\ Waiting(q) \subseteq marked \cup seals
      BY <1>4, <1>8, <2>1
    <2> QED BY <1>1, <1>7, <1>9, <1>12, <2>2, <2>3 DEF StreamsOK
  <1> QED BY <1>13, <1>15, <1>16, <1>17, <1>18, <1>19, <1>20, <1>21 DEF Inv

LEMMA MarkKeeps ==
    ASSUME NEW o, Inv(o), Mark
    PROVE  Inv(o)'
  <1>1. /\ UNCHANGED <<inbox, durable, removed, announced, published>>
        /\ UNCHANGED <<work, chanel, handled, ran>> /\ actor.at = "mark"
        /\ marked' = marked \cup actor.sealed
    BY DEF Mark
  <1>2. /\ actor \in ActorRecord /\ actor.state = durable.state /\ actor.batch = None
        /\ durable.cursor <= actor.cursor /\ actor.sealed \subseteq Stage \X Nat
    BY <1>1 DEF Inv, ActorOK, ActorRecord, BatchOK, CursorsOK
  <1>3. /\ actor' \in ActorRecord' /\ actor'.at \in {"project", "remove"}
        /\ actor'.at = "remove" => actor.ended # <<>>
        /\ actor'.state = actor.state /\ actor'.cursor = actor.cursor
        /\ actor'.batch = actor.batch /\ actor'.ended = actor.ended
    BY <1>2 DEF Mark, ActorRecord, Steps
  <1>4. InboxOK' /\ RedeliveryIsHarmless'
    BY <1>1, StillKeeps DEF Still
  <1>5. DiskOK' /\ CursorsOK' /\ WorkOK' /\ PublishedOK'
    BY <1>1, <1>2, <1>3 DEF Inv, DiskOK, CursorsOK, WorkOK, PublishedOK
  <1>6. ActorOK' /\ BatchOK(o)'
    BY <1>1, <1>2, <1>3 DEF ActorOK, BatchOK
  <1>7. StreamsOK(o)'
    BY <1>1, <1>3 DEF Inv, StreamsOK
  <1> QED BY <1>4, <1>5, <1>6, <1>7 DEF Inv

\* The actor turns to the next settled run.
LEMMA EndedNextIs ==
    ASSUME NEW o, Inv(o), actor.at \in {"remove", "announce"}, actor' = EndedNext
    PROVE  /\ actor' \in ActorRecord' /\ actor'.at \in {"project", "remove"}
           /\ actor'.at = "remove" => actor'.ended # <<>>
           /\ actor'.state = actor.state /\ actor'.cursor = actor.cursor
           /\ actor'.batch = actor.batch
           /\ actor'.ended \in Seq(TriggerRecord) /\ Streams(actor'.ended) \subseteq Streams(actor.ended)
  <1> DEFINE rest == Tail(actor.ended)
  <1>1. actor \in ActorRecord /\ actor.ended \in Seq(TriggerRecord) /\ actor.ended # <<>>
    BY DEF Inv, ActorOK, ActorRecord
  <1>2. /\ rest \in Seq(TriggerRecord) /\ Streams(rest) \subseteq Streams(actor.ended)
        /\ Len(actor.ended) # 1 => rest # <<>>
    BY <1>1, StreamsOfTail
  <1>3. actor' = [actor EXCEPT !.at = IF Len(actor.ended) = 1 THEN "project" ELSE "remove",
                               !.ended = rest]
    BY <1>1 DEF EndedNext, ActorRecord
  <1> HIDE DEF rest
  <1> QED BY <1>1, <1>2, <1>3 DEF ActorRecord, Steps

LEMMA NextEndedKeeps ==
    ASSUME NEW o, Inv(o), actor.at \in {"remove", "announce"}, actor' = EndedNext,
           UNCHANGED <<inbox, durable, marked, removed, published>>,
           UNCHANGED <<work, chanel, handled, ran>>
    PROVE  Inv(o)'
  <1>1. /\ actor' \in ActorRecord' /\ actor'.at \in {"project", "remove"}
        /\ actor'.at = "remove" => actor'.ended # <<>>
        /\ actor'.state = actor.state /\ actor'.cursor = actor.cursor
        /\ actor'.batch = actor.batch
        /\ Streams(actor'.ended) \subseteq Streams(actor.ended)
    BY EndedNextIs
  <1>2. /\ actor.state = durable.state /\ actor.batch = None /\ durable.cursor <= actor.cursor
    BY DEF Inv, ActorOK, BatchOK, CursorsOK
  <1>3. InboxOK' /\ RedeliveryIsHarmless'
    BY StillKeeps DEF Still
  <1>4. DiskOK' /\ CursorsOK' /\ WorkOK' /\ PublishedOK'
    BY <1>1, <1>2 DEF Inv, DiskOK, CursorsOK, WorkOK, PublishedOK
  <1>5. ActorOK' /\ BatchOK(o)'
    BY <1>1, <1>2 DEF ActorOK, BatchOK
  <1>6. StreamsOK(o)'
    BY <1>1 DEF Inv, StreamsOK
  <1> QED BY <1>3, <1>4, <1>5, <1>6 DEF Inv

LEMMA PassOverKeeps ==
    ASSUME NEW o, Inv(o), PassOver
    PROVE  Inv(o)'
  BY NextEndedKeeps DEF PassOver, disk

LEMMA AnnounceKeeps ==
    ASSUME NEW o, Inv(o), AnnounceStageEnd
    PROVE  Inv(o)'
  BY NextEndedKeeps DEF AnnounceStageEnd

LEMMA RemoveStreamKeeps ==
    ASSUME NEW o, Inv(o), RemoveStream
    PROVE  Inv(o)'
  <1> DEFINE x == Head(actor.ended)
             p == durable.state.processing
  <1>1. /\ UNCHANGED <<inbox, durable, marked, announced, published>>
        /\ UNCHANGED <<work, chanel, handled, ran>> /\ actor.at = "remove" /\ x.kind = "Stage"
        /\ removed' \subseteq removed \cup {StreamOf(x)}
    BY DEF RemoveStream
  <1>2. /\ actor \in ActorRecord /\ actor.state = durable.state /\ actor.batch = None
        /\ durable.cursor <= actor.cursor /\ actor.ended \in Seq(TriggerRecord)
        /\ actor.ended # <<>>
    BY <1>1 DEF Inv, ActorOK, ActorRecord, BatchOK, CursorsOK
  <1>3. /\ actor' \in ActorRecord' /\ actor'.at = "announce"
        /\ actor'.state = actor.state /\ actor'.cursor = actor.cursor
        /\ actor'.batch = actor.batch /\ actor'.ended = actor.ended
    BY <1>2 DEF RemoveStream, ActorRecord, Steps
  <1>4. StreamOf(x) \in Streams(actor.ended) /\ x \in TriggerRecord
    BY <1>1, <1>2, StreamsOfTail
  <1>5. StreamOf(x) \in Stage \X Nat
    BY <1>4, StreamTyped
  <1>6. StreamOf(x) \in Streams(p.completed)
    BY <1>1, <1>4 DEF Inv, StreamsOK
  <1> HIDE DEF x, p
  <1>7. InboxOK' /\ RedeliveryIsHarmless'
    BY <1>1, StillKeeps DEF Still
  <1>8. DiskOK'
    BY <1>1, <1>5 DEF Inv, DiskOK
  <1>9. CursorsOK' /\ WorkOK' /\ PublishedOK'
    BY <1>1, <1>2, <1>3 DEF Inv, CursorsOK, WorkOK, PublishedOK
  <1>10. ActorOK' /\ BatchOK(o)'
    BY <1>1, <1>2, <1>3 DEF ActorOK, BatchOK
  <1>11. StreamsOK(o)'
    BY <1>1, <1>3, <1>6 DEF Inv, StreamsOK, p
  <1> QED BY <1>7, <1>8, <1>9, <1>10, <1>11 DEF Inv

LEMMA ProjectKeeps ==
    ASSUME NEW o, Inv(o), Project
    PROVE  Inv(o)'
  <1>1. /\ UNCHANGED <<inbox, durable, marked, removed, announced>>
        /\ UNCHANGED <<work, chanel, handled, ran>> /\ actor.at = "project"
        /\ published' = Snapshot(actor.state, actor.cursor)
    BY DEF Project
  <1>2. /\ actor \in ActorRecord /\ actor.state = durable.state /\ actor.batch = None
        /\ durable.cursor <= actor.cursor
    BY <1>1 DEF Inv, ActorOK, ActorRecord, BatchOK, CursorsOK
  <1>3. /\ actor' \in ActorRecord' /\ actor'.at \in {"conclude", "loop"}
        /\ actor'.state = actor.state /\ actor'.cursor = actor.cursor
        /\ actor'.batch = actor.batch
    BY <1>2 DEF Project, ActorRecord, Steps
  <1>4. InboxOK' /\ RedeliveryIsHarmless'
    BY <1>1, StillKeeps DEF Still
  <1>5. DiskOK' /\ CursorsOK' /\ WorkOK' /\ PublishedOK'
    BY <1>1, <1>2, <1>3 DEF Inv, DiskOK, CursorsOK, WorkOK, PublishedOK
  <1>6. ActorOK' /\ BatchOK(o)'
    BY <1>1, <1>2, <1>3 DEF ActorOK, BatchOK
  <1>7. StreamsOK(o)'
    BY <1>1, <1>3 DEF Inv, StreamsOK
  <1> QED BY <1>4, <1>5, <1>6, <1>7 DEF Inv

\* The end of an actor: it concludes or crashes.
LEMMA ActorEndKeeps ==
    ASSUME NEW o, Inv(o), NEW at \in {"down", "gone"}, NEW s \in State, NEW cursor \in Nat,
           cursor <= handled, actor' = Actor(at, s, cursor), work' = NoWork, chanel' = <<>>,
           UNCHANGED <<inbox, durable, marked, removed, published, handled, ran>>
    PROVE  Inv(o)'
  <1>1. /\ actor' \in ActorRecord' /\ actor'.at \in {"down", "gone"}
        /\ actor'.cursor <= handled /\ actor'.batch = None
    BY DEF Actor, ActorRecord, Steps
  <1>2. InboxOK' /\ RedeliveryIsHarmless'
    BY StillKeeps DEF Still
  <1>3. DiskOK' /\ CursorsOK' /\ WorkOK' /\ PublishedOK'
    BY <1>1 DEF Inv, DiskOK, CursorsOK, WorkOK, PublishedOK
  <1>4. ActorOK' /\ BatchOK(o)'
    BY <1>1 DEF ActorOK, BatchOK
  <1>5. StreamsOK(o)'
    BY <1>1 DEF Inv, StreamsOK
  <1> QED BY <1>2, <1>3, <1>4, <1>5 DEF Inv

LEMMA ConcludeKeeps ==
    ASSUME NEW o, Inv(o), Conclude
    PROVE  Inv(o)'
  <1>1. actor.state \in State /\ actor.cursor \in Nat /\ actor.cursor <= handled
    BY DEF Inv, ActorOK, ActorRecord, CursorsOK
  <1> QED BY <1>1, ActorEndKeeps DEF Conclude, disk

LEMMA CrashKeeps ==
    ASSUME NEW o, Inv(o), Crash
    PROVE  Inv(o)'
  <1>1. DefaultState \in State /\ 0 <= handled
    BY DefaultGood DEF Good, Inv, CursorsOK
  <1> QED BY <1>1, ActorEndKeeps DEF Crash, Down, disk

LEMMA FinishWorkKeeps ==
    ASSUME NEW o, Inv(o), FinishWork
    PROVE  Inv(o)'
  <1> DEFINE run == durable.state.processing.active
  <1>1. PICK result \in Outcomes :
           chanel' = Append(chanel, [seq |-> work[1], attempt |-> work[2], result |-> result])
    BY DEF FinishWork
  <1>2. /\ UNCHANGED <<inbox, durable, marked, removed, announced, published>>
        /\ UNCHANGED <<actor, handled, ran>> /\ work # NoWork /\ work' = NoWork
    BY DEF FinishWork, disk
  <1>3. /\ run # NoRun /\ work = <<run.trigger.seq, run.attempts>>
        /\ durable.state.processing \in Pipeline
    BY <1>2 DEF Inv, WorkOK, DiskOK, State
  <1>4. work[1] \in Nat /\ work[2] \in Nat
    BY <1>3, ActiveRun DEF RunRecord, TriggerRecord
  <1>5. (chanel \in Seq(ReportRecord))'
    <2>1. [seq |-> work[1], attempt |-> work[2], result |-> result] \in ReportRecord
      BY <1>1, <1>4, ActorAssumption DEF ReportRecord
    <2>2. chanel \in Seq(ReportRecord)
      BY DEF Inv, DiskOK
    <2> QED BY <1>1, <2>1, <2>2, AppendProperties
  <1> HIDE DEF run
  <1>6. InboxOK' /\ RedeliveryIsHarmless'
    BY <1>2, StillKeeps DEF Still
  <1>7. DiskOK' /\ CursorsOK' /\ WorkOK' /\ PublishedOK'
    BY <1>2, <1>5 DEF Inv, DiskOK, CursorsOK, WorkOK, PublishedOK
  <1>8. ActorOK' /\ BatchOK(o)'
    BY <1>2 DEF Inv, ActorOK, ActorRecord, BatchOK
  <1>9. StreamsOK(o)'
    BY <1>2 DEF Inv, StreamsOK
  <1> QED BY <1>6, <1>7, <1>8, <1>9 DEF Inv

LEMMA StutterKeeps ==
    ASSUME NEW o, Inv(o), UNCHANGED vars
    PROVE  Inv(o)'
  <1>1. /\ UNCHANGED <<inbox, durable, marked, removed, announced, published>>
        /\ UNCHANGED <<actor, work, chanel, handled, ran>>
    BY DEF vars, disk
  <1>2. InboxOK' /\ RedeliveryIsHarmless'
    BY <1>1, StillKeeps DEF Still
  <1>3. DiskOK' /\ CursorsOK' /\ WorkOK' /\ PublishedOK'
    BY <1>1 DEF Inv, DiskOK, CursorsOK, WorkOK, PublishedOK
  <1>4. ActorOK' /\ BatchOK(o)'
    BY <1>1 DEF Inv, ActorOK, ActorRecord, BatchOK
  <1>5. StreamsOK(o)'
    BY <1>1 DEF Inv, StreamsOK
  <1> QED BY <1>2, <1>3, <1>4, <1>5 DEF Inv

LEMMA NextKeeps ==
    ASSUME NEW o, Inv(o), [Next]_vars, o => ReportsInOrder
    PROVE  Inv(o)'
  BY SendKeeps, BootKeeps, RepublishKeeps, RemarkKeeps, TakeMessageKeeps, TakeReportKeeps,
     TakeDeadlineKeeps, AppendBatchKeeps, MarkKeeps, PassOverKeeps, RemoveStreamKeeps,
     AnnounceKeeps, ProjectKeeps, ConcludeKeeps, FinishWorkKeeps, CrashKeeps, StutterKeeps
  DEF Next, ActorStep, Gone

-----------------------------------------------------------------------------
(* Theorems                                                                  *)

\* Whether clients are known to report stages in order.
AnyOrder == FALSE
InOrder  == TRUE

LEMMA InvHolds == Spec => []Inv(AnyOrder)
  <1>1. Init => Inv(AnyOrder)
    BY InvInit
  <1>2. Inv(AnyOrder) /\ [Next]_vars => Inv(AnyOrder)'
    <2>1. ~AnyOrder
      BY DEF AnyOrder
    <2> QED BY <2>1, NextKeeps
  <1> QED BY <1>1, <1>2, PTL DEF Spec

\* Every variable keeps its type, and the actor holds a batch exactly while it
\* is about to journal one (challenge.rs), whatever is queued and whenever it stops.
THEOREM ActorTypes == Spec => []TypeOK
  <1>1. Inv(AnyOrder) => TypeOK
    <2> SUFFICES ASSUME Inv(AnyOrder) PROVE TypeOK
      OBVIOUS
    <2> DEFINE run == durable.state.processing.active
    <2>1. /\ actor.at \in Steps /\ actor.cursor \in Nat /\ durable.cursor \in Nat
          /\ handled \in Nat /\ actor.cursor <= handled /\ durable.cursor <= handled
          /\ handled <= Len(inbox)
      BY DEF Inv, ActorOK, ActorRecord, DiskOK, CursorsOK
    <2>2. Len(inbox) \in Nat
      BY LenProperties DEF Inv, InboxOK
    <2>3. work \in {NoWork} \cup (Nat \X Nat)
      <3>1. CASE work # NoWork
        <4>1. /\ run # NoRun /\ work = <<run.trigger.seq, run.attempts>>
              /\ durable.state.processing \in Pipeline
          BY <3>1 DEF Inv, WorkOK, DiskOK, State
        <4>2. run.trigger.seq \in Nat /\ run.attempts \in Nat
          BY <4>1, ActiveRun DEF RunRecord, TriggerRecord
        <4> HIDE DEF run
        <4> QED BY <4>1, <4>2
      <3> QED BY <3>1
    <2>4. (actor.at = "append") = (actor.batch # None)
      BY DEF Inv, BatchOK
    <2>5. /\ actor.at \in {"remove", "announce"} => actor.ended # <<>>
          /\ marked \cup removed \subseteq Stage \X Nat /\ ran \subseteq Nat
      BY DEF Inv, ActorOK, DiskOK
    <2> QED BY <2>1, <2>2, <2>3, <2>4, <2>5 DEF TypeOK
  <1> QED BY <1>1, InvHolds, PTL

\* After a restart the messages behind the journal's cursor are delivered again;
\* those that were handled before had no effect and have none (challenge.rs, the
\* inbox is read from the cursor of the last entry a message caused).
THEOREM RedeliveredSafely == Spec => []RedeliveryIsHarmless
  <1>1. Inv(AnyOrder) => RedeliveryIsHarmless
    BY DEF Inv
  <1> QED BY <1>1, InvHolds, PTL

\* The actor waits for input only once everything journaled and every message
\* handled shows in the published snapshot (challenge.rs, project before the next
\* input and republish after a start).
THEOREM PublishedBeforeWaiting == Spec => []WaitsPublished
  <1>1. Inv(AnyOrder) => WaitsPublished
    BY DEF Inv, PublishedOK, ActorOK, WaitsPublished
  <1> QED BY <1>1, InvHolds, PTL

\* The stage that is worked on is queued once, and not settled.
LEMMA WorkSeesItsStream ==
    ASSUME NEW o, o, Inv(o), work # NoWork, WorkTrigger.kind = "Stage"
    PROVE  StreamOf(WorkTrigger) \in marked \ removed
  <1> DEFINE s == durable.state
             p == s.processing
             a == Triggers(p)
             c == p.completed
             n == Len(c)
             x == p.active.trigger
  <1>1. /\ p \in Pipeline /\ Ordered(p) /\ p.active # NoRun /\ work[1] = x.seq
        /\ removed \subseteq Streams(c) /\ Streams(<<x>>) \subseteq marked /\ StagesOnce(s)
    BY DEF Inv, DiskOK, WorkOK, StreamsOK, Good, PipelineOK, State
  <1>2. /\ n \in Nat /\ n < Len(a) /\ a[n + 1] = x /\ Len(a) \in Nat
        /\ \A i \in 1..n : a[i] = c[i]
        /\ DOMAIN a = 1..Len(a) /\ DOMAIN c = 1..n
        /\ \A i \in 1..Len(a) : a[i] \in TriggerRecord
    BY <1>1, TriggersPlaced, TriggersSeq, LenProperties DEF Pipeline
  <1>3. x.seq = n + 1
    BY <1>1, <1>2 DEF Ordered
  <1>4. WorkTrigger = x /\ IsStage(x)
    BY <1>1, <1>2, <1>3 DEF WorkTrigger, IsStage
  <1>5. StreamOf(x) \in marked
    BY <1>1, <1>4 DEF Streams, IsStage
  <1>6. ASSUME NEW i \in 1..n, IsStage(c[i])
        PROVE  StreamOf(c[i]) # StreamOf(x)
    <2>1. a[i] = c[i] /\ i \in DOMAIN a /\ n + 1 \in DOMAIN a /\ i # n + 1
      BY <1>2, <1>6
    <2>2. a[i].stage # a[n + 1].stage \/ a[i].attempt # a[n + 1].attempt
      BY <1>1, <1>2, <1>4, <1>6, <2>1 DEF StagesOnce
    <2> QED BY <1>2, <2>1, <2>2 DEF StreamOf
  <1>7. StreamOf(x) \notin Streams(c)
    BY <1>2, <1>6 DEF Streams, IsStage
  <1> QED BY <1>1, <1>4, <1>5, <1>7

\* A stage is processed from a stream that is closed to writes and not yet
\* deleted, in whatever order actors die and reports arrive (challenge.rs, the
\* streams of outstanding runs are sealed again after a start).
THEOREM StreamsSurvive == Spec /\ []ReportsInOrder => []RunSeesItsStream
  <1>1. Init => Inv(InOrder)
    BY InvInit
  <1>2. Inv(InOrder) /\ ReportsInOrder /\ [Next]_vars => Inv(InOrder)'
    BY NextKeeps
  <1>3. Inv(InOrder) => RunSeesItsStream
    <2>1. InOrder
      BY DEF InOrder
    <2> QED BY <2>1, WorkSeesItsStream DEF RunSeesItsStream
  <1> QED BY <1>1, <1>2, <1>3, PTL DEF Spec

================================================================================
