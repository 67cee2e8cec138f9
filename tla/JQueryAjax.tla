----------------------------- MODULE JQueryAjax -----------------------------
(***************************************************************************)
(* jQuery.ajax: a request from the call that starts it to done(), over the *)
(* XMLHttpRequest transport ("xhr", and "local" for JSONP that stays in    *)
(* the page's own domain and is evaluated by a converter) or, for JSONP    *)
(* across domains, the script element's ("script").  A request can be      *)
(* ended by its answer, its timer, the page, or a failure on the way out.  *)
(*                                                                         *)
(* A step is one turn of the browser's event loop.  Handlers of the page   *)
(* that start requests themselves do so in steps of their own.             *)
(***************************************************************************)
EXTENDS Integers, Sequences, FiniteSets

CONSTANTS MaxReqs    \* bound: requests, numbered as they are started

ASSUME AjaxAssumption == MaxReqs \in Nat

VARIABLES
  reqs,          \* reqs[r]: the request's jqXHR, settings and transport
  started,       \* requests started
  active,        \* jQuery.active
  oldCallbacks,  \* JSONP callback names free for use
  lastName,      \* names made so far are 1..lastName
  window,        \* window[name]: the request whose function it is, or 0
  doubled        \* requests that done() has gone through twice

ajaxVars == <<reqs, started, active, oldCallbacks, lastName, window, doubled>>

Reqs == 1..MaxReqs
Names == 1..MaxReqs
NoReq == 0
NoName == 0
Kinds == {"xhr", "local", "script"}

\* Which of the deferred's lists is fired; the status texts are not told apart.
Results == {"success", "error"}

NewReq ==
  [phase |-> "new", kind |-> "xhr", global |-> FALSE, timeout |-> FALSE, timer |-> FALSE,
   net |-> "none", name |-> NoName, overwritten |-> NoReq, container |-> NoReq,
   result |-> "none"]

\* Shape of the variables.
AjaxTypeOK ==
  /\ \A r \in Reqs :
       /\ reqs[r].phase \in {"new", "open", "done"}
       /\ reqs[r].net \in {"none", "waiting", "ran", "over"}
       /\ reqs[r].name \in Names \cup {NoName}
       /\ reqs[r].container \in Reqs \cup {NoReq}
  /\ started \in 0..MaxReqs /\ lastName \in 0..MaxReqs
  /\ active \in Int /\ doubled \in Nat
  /\ oldCallbacks \in Seq(Names)
  /\ window \in [Names -> Reqs \cup {NoReq}]

AjaxInit ==
  /\ reqs = [r \in Reqs |-> NewReq]
  /\ started = 0
  /\ active = 0
  /\ oldCallbacks = << >>
  /\ lastName = 0
  /\ window = [n \in Names |-> NoReq]
  /\ doubled = 0

-----------------------------------------------------------------------------
(* JSONP callback names.                                                   *)

\* The name is read off the stack of free names and left there.
NamesAfterKept == oldCallbacks

\* jsonpCallback: oldCallbacks.pop(), or a new name.
NamesAfter ==
  IF oldCallbacks = << >> THEN << >> ELSE SubSeq(oldCallbacks, 1, Len(oldCallbacks) - 1)

JsonpCallback ==
  IF oldCallbacks = << >> THEN lastName + 1 ELSE oldCallbacks[Len(oldCallbacks)]

\* The clean-up that the jsonp prefilter has called when the request settles:
\* the window gets back what it had, and the name is free.
CleanUp(q, free, win) ==
  IF q.name = NoName THEN oldCallbacks' = free /\ window' = win
  ELSE /\ oldCallbacks' = Append(free, q.name)
       /\ window' = [win EXCEPT ![q.name] = q.overwritten]

-----------------------------------------------------------------------------
(* done().                                                                 *)

\* The page, or the network, may call done() of a request that is over.
AnyRequest(q) == q.phase # "new"

\* "Called once".
NotDone(q) == q.phase = "open"

\* What is left of request q after done(): a script that was asked for may still
\* run; of the rest only `global' (fireGlobals) would matter to another done().
Settled(q, result) ==
  LET late == q.net = "waiting" /\ q.kind = "script"
  IN  [NewReq EXCEPT !.phase = "done", !.result = result, !.global = q.global,
                     !.kind = IF late THEN q.kind ELSE @,
                     !.net  = IF late THEN q.net ELSE "over",
                     !.name = IF late THEN q.name ELSE @]

\* done() of request r, in progress since an earlier step.
Done(r, q, result) ==
  /\ reqs' = [reqs EXCEPT ![r] = Settled(q, result)]
  /\ active' = IF q.global THEN active - 1 ELSE active
  /\ CleanUp(q, oldCallbacks, window)
  /\ UNCHANGED <<started, lastName, doubled>>

-----------------------------------------------------------------------------
(* ajax().                                                                 *)

\* inspectPrefiltersOrTransports: the data types whose prefilters are called.  The
\* one of "jsonp" returns "script", whose prefilters come next; "*" is the last.
Inspected(kind) == IF kind = "xhr" THEN {"*"} ELSE {"jsonp", "script", "*"}

\* The prefilter for scripts: one for another domain's script has no global events.
FiresGlobals(kind, global) ==
  LET crossDomain == kind = "script"
  IN  global /\ ~("script" \in Inspected(kind) /\ crossDomain)

\* The settings of a new request after the prefilters; the jsonp one remembers what
\* the window has under the name.
Settings(kind, global, timeout, name) ==
  [NewReq EXCEPT !.kind = kind, !.global = FiresGlobals(kind, global),
                 !.timeout = timeout, !.name = name,
                 !.overwritten = IF name = NoName THEN NoReq ELSE window[name]]

\* A request that is over before ajax() returns: it was cancelled by a prefilter
\* or by beforeSend, it has no transport, its send() failed, or it was synchronous.
\* What it added to jQuery.active, it has taken off again.
AjaxEnds(r, q, free, result) ==
  /\ reqs' = [reqs EXCEPT ![r] = Settled(q, result)]
  /\ CleanUp(q, free, window)
  /\ UNCHANGED <<active, doubled>>

\* A handler of the ajaxSend event calls abort().  done() ends the request, and
\* drops the transport; ajax() goes on, sets the state back to 1, fails to call
\* the transport that is gone, and calls done() once more for that.
AjaxSendAborts(r, q, free) ==
  /\ q.global
  /\ reqs' = [reqs EXCEPT ![r] = Settled(q, "error")]
  /\ CleanUp(q, free, window)
  /\ active' = active - 1
  /\ doubled' = doubled + 1

\* The transport's send: the browser has the request, and the timer is set.
Sent(q) == [q EXCEPT !.phase = "open", !.net = "waiting", !.timer = q.timeout]

\* The request is on its way.
AjaxSent(r, q, free) ==
  /\ reqs' = [reqs EXCEPT ![r] = Sent(q)]
  /\ active' = IF q.global THEN active + 1 ELSE active
  /\ oldCallbacks' = free
  /\ window' = IF q.name = NoName THEN window ELSE [window EXCEPT ![q.name] = r]
  /\ UNCHANGED doubled

Ajax(kind, global, timeout) ==
  /\ started < MaxReqs
  /\ started' = started + 1
  /\ LET r     == started + 1
         jsonp == kind # "xhr"
         name  == IF jsonp THEN JsonpCallback ELSE NoName
         free  == IF jsonp THEN NamesAfter ELSE oldCallbacks
         q     == Settings(kind, global, timeout, name)
     IN  /\ lastName' = IF name > lastName THEN name ELSE lastName
         /\ \/ \E result \in Results : AjaxEnds(r, q, free, result)
            \/ AjaxSendAborts(r, q, free)
            \/ AjaxSent(r, q, free)

-----------------------------------------------------------------------------
(* What can happen to a request in progress.                               *)

\* abort() of the jqXHR: the transport's abort, then done(0).
Abort(r) ==
  /\ NotDone(reqs[r])
  /\ Done(r, reqs[r], "error")

\* The request's timer: abort("timeout").
Timeout(r) ==
  /\ reqs[r].timer /\ NotDone(reqs[r])
  /\ Done(r, reqs[r], "error")

\* The XMLHttpRequest's callback is to come: as its onreadystatechange or, for an
\* answer that was in the cache, by setTimeout.
Awaits(q) == q.net = "waiting" /\ q.kind # "script"

\* The XMLHttpRequest's callback: an answer that converts, one that does not (a
\* script that does not call the function it was asked to call, say), an error.
Answer(r) ==
  /\ Awaits(reqs[r])
  /\ \E result \in Results : Done(r, reqs[r], result)

\* The script of a JSONP request runs, and calls the function that its URL named;
\* it may do so when the request is over, and its name in use for another one.
ScriptRuns(r) ==
  /\ reqs[r].net = "waiting" /\ reqs[r].kind = "script"
  /\ reqs' = [[reqs EXCEPT ![r].net = "ran"] EXCEPT
                ![IF window[reqs[r].name] = NoReq THEN r ELSE window[reqs[r].name]].container =
                     IF window[reqs[r].name] = NoReq THEN @ ELSE r]
  /\ UNCHANGED <<started, active, oldCallbacks, lastName, window, doubled>>

\* The script element's onload handler, which abort() takes off.
ScriptLoaded(r) ==
  /\ reqs[r].net = "ran" /\ NotDone(reqs[r])
  /\ Done(r, reqs[r], IF reqs[r].container = NoReq THEN "error" ELSE "success")

\* A script that cannot be loaded: nothing tells the transport.
ScriptLost(r) ==
  /\ reqs[r].net = "waiting" /\ reqs[r].kind = "script"
  /\ reqs' = [reqs EXCEPT ![r].net = "over"]
  /\ UNCHANGED <<started, active, oldCallbacks, lastName, window, doubled>>

AjaxNext ==
  \/ \E kind \in Kinds, global, timeout \in BOOLEAN : Ajax(kind, global, timeout)
  \/ \E r \in Reqs : \/ Abort(r) \/ Timeout(r) \/ Answer(r)
                     \/ ScriptRuns(r) \/ ScriptLoaded(r) \/ ScriptLost(r)

-----------------------------------------------------------------------------
\* A name for a JSONP callback serves one request at a time: while a request is
\* open its function is in the window under its name, no other open request and
\* no entry of the stack of free names has that name, and no name is free twice.
NamesUnique ==
  LET Open == {r \in Reqs : reqs[r].phase = "open" /\ reqs[r].name # NoName}
  IN  /\ \A r \in Open :
           /\ window[reqs[r].name] = r
           /\ \A i \in DOMAIN oldCallbacks : oldCallbacks[i] # reqs[r].name
           /\ \A q \in Open : reqs[q].name = reqs[r].name => q = r
      /\ \A i, j \in DOMAIN oldCallbacks : oldCallbacks[i] = oldCallbacks[j] => i = j

\* A request with a timeout ends, whatever the network does.
RequestsTimeOut ==
  \A r \in Reqs : (reqs[r].phase = "open" /\ reqs[r].timeout) ~> reqs[r].phase = "done"
=============================================================================
