----------------------------- MODULE MCEventLoop -----------------------------
(***************************************************************************)
(* The two things that happen in the main loop without a request: the      *)
(* timer of the user table, and the closures other threads send it.  Both  *)
(* have handlers that run to their end, so that they share no step and no  *)
(* state: a behaviour is one of the timer or one of the queue.             *)
(***************************************************************************)
EXTENDS MCSessionTable, EventMsgqueue

VARIABLE part

LoopInit == part \in {"timer", "queue"} /\ Init /\ QueueInit

LoopNext ==
  \/ part = "timer" /\ Next /\ UNCHANGED part /\ UNCHANGED queueVars
  \/ part = "queue" /\ QueueNext /\ UNCHANGED part /\ UNCHANGED vars

LoopSpec ==
  /\ LoopInit /\ [][LoopNext]_<<part, vars, queueVars>>
  /\ part = "timer" => Fairness
  /\ QueueFairness
=============================================================================
