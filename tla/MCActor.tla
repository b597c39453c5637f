--------------------------------- MODULE MCActor ---------------------------------
(***************************************************************************)
(* Instances of ChallengeActor for TLC.                                     *)
(***************************************************************************)
EXTENDS ChallengeActor

CONSTANTS c1, c2, t1, m1

Create == [type |-> "Create", client |-> c1, token |-> t1, participant |-> TRUE,
           mode |-> m1, stage |-> 1]

Join(c) == [type |-> "Join", client |-> c, token |-> t1, participant |-> TRUE]

Update(c, stage, status) ==
    [type |-> "Update", client |-> c, mode |-> NoMode, party |-> FALSE,
     progress |-> [stage |-> stage, status |-> status]]

Finish(c) == [type |-> "Finish", client |-> c, soft |-> FALSE, times |-> FALSE]

ClientStatus(c, status) == [type |-> "ClientStatus", client |-> c, token |-> t1, status |-> status]

Ok(status)        == [ok |-> TRUE, status |-> status, retriable |-> FALSE]
Failed(retriable) == [ok |-> FALSE, status |-> "NONE", retriable |-> retriable]

OneStage  == {1}
TwoStages == 1 .. 2
NoStage   == {}

\* One client records a stage and leaves; a second one comes and goes.
StageCommands ==
    {Update(c1, 1, "STARTED"), Update(c1, 1, "COMPLETED"), Finish(c1), Finish(c2), Join(c2),
     ClientStatus(c1, "IDLE"), ClientStatus(c1, "ACTIVE")}

SomeOutcomes == {Ok("NONE"), Ok("COMPLETED"), Failed(TRUE)}
================================================================================
