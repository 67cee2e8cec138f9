------------------------------- MODULE MCAjax -------------------------------
(***************************************************************************)
(* The parts of jQuery and of its form plugin.  `part' chooses what a      *)
(* behaviour is about: the callback lists, the events, the animations, the *)
(* requests, or requests and uploads, which share jQuery.active.           *)
(***************************************************************************)
EXTENDS JQueryCallbacks, JQueryDeferreds, JQueryEvents, JQueryFx, FormUpload

CONSTANT MixedReqs   \* bound: requests beside uploads

VARIABLE part

pageVars == <<cbVars, deferredVars, eventVars, fxVars>>

vars == <<part, pageVars, ajaxVars, formVars>>

Init ==
  /\ part \in {"callbacks", "when", "then", "ready", "events", "fx", "requests", "uploads"}
  /\ CbInit /\ (part # "callbacks" => used = {"plain"} /\ lists.plain = NewList({}, << >>))
  /\ DeferredsInit
  /\ part # "ready" => page = [state |-> "complete", body |-> TRUE, oldIE |-> FALSE,
                               frame |-> FALSE]
  /\ EventsInit /\ FxInit /\ AjaxInit /\ FormInit

Next ==
  \/ part = "callbacks" /\ CbNext
       /\ UNCHANGED <<part, deferredVars, eventVars, fxVars, ajaxVars, formVars>>
  \/ part = "when" /\ WhenNext
       /\ UNCHANGED <<part, cbVars, eventVars, fxVars, ajaxVars, formVars>>
  \/ part = "then" /\ ThenNext
       /\ UNCHANGED <<part, cbVars, eventVars, fxVars, ajaxVars, formVars>>
  \/ part = "ready" /\ ReadyNext
       /\ UNCHANGED <<part, cbVars, eventVars, fxVars, ajaxVars, formVars>>
  \/ part = "events" /\ EventsNext
       /\ UNCHANGED <<part, cbVars, deferredVars, fxVars, ajaxVars, formVars>>
  \/ part = "fx" /\ FxNext
       /\ UNCHANGED <<part, cbVars, deferredVars, eventVars, ajaxVars, formVars>>
  \/ part = "requests" /\ AjaxNext /\ UNCHANGED <<part, pageVars, formVars>>
  \/ part = "uploads" /\ FormNext /\ started' <= MixedReqs /\ UNCHANGED <<part, pageVars>>

\* The browser's timers fire.
Fairness ==
  /\ \A r \in Reqs : WF_vars(Timeout(r) /\ UNCHANGED <<part, pageVars, uploads, begun, keepAlive>>)
  /\ \A u \in Uploads : WF_vars(UploadTimeout(u) /\ UNCHANGED <<part, pageVars>>)

Spec == Init /\ [][Next]_vars /\ Fairness

\* Requests and uploads that were given a timeout end: the timer is there until
\* they do.
TimeoutEnds == RequestsTimeOut /\ UploadsTimeOut

\* A deferred, and those of when, then and ready, are settled as they should be.
DeferredsSettle == SettledOnce /\ WhenSettles /\ ThenSettles /\ ReadySettles
=============================================================================
