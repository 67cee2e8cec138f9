----------------------------- MODULE FormUpload -----------------------------
(***************************************************************************)
(* Uploads of jquery.form: a form with files is submitted into an iframe,  *)
(* whose document is the answer.  Uploads count in jQuery.active beside    *)
(* the requests of JQueryAjax, one of which may be what starts them        *)
(* (closeKeepAlive).                                                       *)
(***************************************************************************)
EXTENDS JQueryAjax

CONSTANTS
  MaxUploads,     \* bound: uploads, numbered as they are started
  DomCheckCount   \* times an empty document is looked at again; 50 in the code

ASSUME FormAssumption == MaxUploads \in Nat /\ DomCheckCount \in Nat \ {0}

VARIABLES
  uploads,        \* uploads[u]: the state of a call of fileUpload
  begun,          \* uploads started
  keepAlive       \* closeKeepAlive requests whose success starts an upload

formVars == <<uploads, begun, keepAlive>>

Uploads == 1..MaxUploads

NewUpload ==
  [phase |-> "new", counted |-> FALSE, timeout |-> FALSE, timer |-> FALSE,
   aborted |-> FALSE, checking |-> FALSE, listening |-> FALSE, requeued |-> FALSE,
   domCheckCount |-> DomCheckCount]

\* Shape of the variables.
FormTypeOK ==
  /\ \A u \in Uploads :
       /\ uploads[u].phase \in {"new", "waiting", "submitted", "processed", "given up"}
       /\ uploads[u].domCheckCount \in 0..DomCheckCount
  /\ begun \in 0..MaxUploads
  /\ \A k \in keepAlive : k.req \in Reqs

FormInit ==
  /\ uploads = [u \in Uploads |-> NewUpload]
  /\ begun = 0
  /\ keepAlive = {}

\* The step changes upload u only, and jQuery.active by d.
Upload(u, x, d) ==
  /\ uploads' = [uploads EXCEPT ![u] = x]
  /\ active' = active + d
  /\ UNCHANGED <<begun, keepAlive, reqs, started, oldCallbacks, lastName, window, doubled>>

-----------------------------------------------------------------------------
(* fileUpload.                                                             *)

\* doSubmit: the form is submitted, aborted meanwhile or not.
Submitted(x) ==
  [x EXCEPT !.phase = "submitted", !.timer = x.timeout, !.checking = TRUE,
            !.listening = TRUE]

\* What the call can leave, and what it adds to jQuery.active: it may be cancelled
\* by beforeSend, or aborted by it or by a handler of ajaxSend; otherwise the form
\* is submitted at once or in ten milliseconds.
Outcomes(global, timeout) ==
  LET new == [NewUpload EXCEPT !.phase = "waiting", !.counted = global, !.timeout = timeout]
      one == IF global THEN 1 ELSE 0
  IN  {[x |-> [new EXCEPT !.phase = "given up", !.counted = FALSE], d |-> 0],
       [x |-> [new EXCEPT !.phase = "given up", !.aborted = TRUE], d |-> one],
       [x |-> new, d |-> one],
       [x |-> Submitted(new), d |-> one]}

FileUpload(x) ==
  /\ begun < MaxUploads
  /\ begun' = begun + 1
  /\ uploads' = [uploads EXCEPT ![begun + 1] = x]

\* ajaxSubmit of a form with files, unless a hook vetoes it.  (For another form it
\* reads $.browser.msie, and this jQuery has no $.browser.)
AjaxSubmit(global, timeout) ==
  /\ \E o \in Outcomes(global, timeout) : FileUpload(o.x) /\ active' = active + o.d
  /\ UNCHANGED <<keepAlive, reqs, started, oldCallbacks, lastName, window, doubled>>

\* ajaxSubmit with closeKeepAlive: a request first.
AjaxSubmitKeepAlive(global, timeout) ==
  /\ begun + Cardinality(keepAlive) < MaxUploads
  /\ started < MaxReqs
  /\ started' = started + 1
  /\ LET r == started + 1
         q == Settings("xhr", TRUE, FALSE, NoName)
     IN  \/ AjaxEnds(r, q, oldCallbacks, "error") /\ UNCHANGED keepAlive
         \/ AjaxSendAborts(r, q, oldCallbacks) /\ UNCHANGED keepAlive
         \/ /\ AjaxSent(r, q, oldCallbacks)
            /\ keepAlive' = keepAlive \cup {[req |-> r, global |-> global, timeout |-> timeout]}
  /\ UNCHANGED <<uploads, begun, lastName>>

\* Its answer: fileUpload runs inside done(), before the request is taken off
\* jQuery.active.  A form that has an element named "submit" starts no upload.
KeepAliveAnswered(k) ==
  /\ NotDone(reqs[k.req])
  /\ keepAlive' = keepAlive \ {k}
  /\ reqs' = [reqs EXCEPT ![k.req] = Settled(reqs[k.req], "success")]
  /\ \/ \E o \in Outcomes(k.global, k.timeout) : FileUpload(o.x) /\ active' = active + o.d - 1
     \/ active' = active - 1 /\ UNCHANGED <<uploads, begun>>
  /\ UNCHANGED <<started, oldCallbacks, lastName, window, doubled>>

\* Requests go on beside the uploads; a closeKeepAlive request that fails starts
\* nothing.
RequestsBeside ==
  /\ AjaxNext
  /\ \A k \in keepAlive : reqs'[k.req].result # "success"
  /\ keepAlive' = {k \in keepAlive : reqs'[k.req].phase = "open"}
  /\ UNCHANGED <<uploads, begun>>

DoSubmit(u) == uploads[u].phase = "waiting" /\ Upload(u, Submitted(uploads[u]), 0)

\* abort() of the mock xhr, by the page or by cb.
Aborted(x) == [x EXCEPT !.aborted = TRUE]

AbortUpload(u) ==
  /\ uploads[u].phase # "new"
  /\ Upload(u, Aborted(uploads[u]), 0)

-----------------------------------------------------------------------------
(* cb.                                                                     *)

\* cb does nothing once the upload is aborted or its answer processed.
CbIgnores(x) == x.aborted \/ x.phase = "processed"

\* The answer is there: success or error, jQuery.active, complete.
Processed(x) == [x EXCEPT !.phase = "processed", !.timer = FALSE, !.listening = FALSE]

\* cb called for the timeout, or for an iframe that cannot be read.
CbAborts(u, x) == Upload(u, IF CbIgnores(x) THEN x ELSE Aborted(x), 0)

\* cb called when the iframe's document may have come.  The document the iframe
\* starts with is not an answer; an empty one is looked at again for a while.
CbDocument(u, x, document) ==
  IF CbIgnores(x) \/ document = "initial" THEN Upload(u, x, 0)
  ELSE IF document = "unreadable" THEN Upload(u, Aborted(x), 0)
  ELSE IF document = "empty" /\ x.domCheckCount > 1
  THEN Upload(u, [x EXCEPT !.domCheckCount = @ - 1, !.requeued = TRUE,
                           !.listening = FALSE], 0)
  ELSE Upload(u, Processed(x), IF x.counted THEN -1 ELSE 0)

Documents == {"initial", "unreadable", "empty", "answer"}

UploadTimeout(u) ==
  /\ uploads[u].timer
  /\ CbAborts(u, [uploads[u] EXCEPT !.timer = FALSE])

IframeLoaded(u) ==
  /\ uploads[u].listening
  /\ \E document \in Documents : CbDocument(u, uploads[u], document)

Requeued(u) ==
  /\ uploads[u].requeued
  /\ \E document \in Documents \ {"initial"} :
       CbDocument(u, [uploads[u] EXCEPT !.requeued = FALSE], document)

\* The timer goes whenever checkState has seen enough.
CheckedAlways(x) == [x EXCEPT !.checking = FALSE, !.timer = FALSE]

\* checkState is over; the timer stays for an iframe that could be read.
Checked(x) == [x EXCEPT !.checking = FALSE]

\* checkState, repeated while the iframe's document is uninitialized.
CheckState(u) ==
  /\ uploads[u].checking
  /\ \/ Upload(u, Checked(uploads[u]), 0)
     \/ CbAborts(u, [uploads[u] EXCEPT !.checking = FALSE, !.timer = FALSE])

FormNext ==
  \/ \E global, timeout \in BOOLEAN : \/ AjaxSubmit(global, timeout)
                                      \/ AjaxSubmitKeepAlive(global, timeout)
  \/ \E k \in keepAlive : KeepAliveAnswered(k)
  \/ RequestsBeside
  \/ \E u \in Uploads : \/ DoSubmit(u) \/ AbortUpload(u) \/ UploadTimeout(u)
                        \/ IframeLoaded(u) \/ Requeued(u) \/ CheckState(u)

-----------------------------------------------------------------------------

\* Requests in progress that jQuery.active counts.
Outstanding == {r \in Reqs : reqs[r].phase = "open" /\ reqs[r].global}

\* Uploads that have added to jQuery.active and whose answer is not processed.
UploadsCounted == {u \in Uploads : uploads[u].counted /\ uploads[u].phase # "processed"}

\* jQuery.active counts each request and each upload in progress once: of all the
\* ways in which one can end and be ended again, two only disturb the count, an
\* abort in a handler of ajaxSend (done() runs twice) and an abort of an upload
\* (which stays in the count for ever).
ActiveAccounted ==
  active = Cardinality(Outstanding) + Cardinality(UploadsCounted) - doubled

\* "trigger ajax global events so that activity/block indicators work like
\* normal": when no upload is in progress jQuery.active is what it would be
\* without uploads.
IndicatorsWork ==
  (\A u \in Uploads : uploads[u].phase \in {"new", "processed"} \/ uploads[u].aborted)
    => active = Cardinality(Outstanding) - doubled

\* An upload with a timeout ends after it was submitted, whatever becomes of the
\* iframe.
UploadsTimeOut ==
  \A u \in Uploads : (uploads[u].phase = "submitted" /\ uploads[u].timeout)
                        ~> (uploads[u].phase = "processed" \/ uploads[u].aborted)
=============================================================================
