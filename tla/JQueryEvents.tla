---------------------------- MODULE JQueryEvents ----------------------------
(***************************************************************************)
(* jQuery.event for one type of event on a chain of elements, 1 the        *)
(* innermost: binding and unbinding handlers, direct or delegated, with a  *)
(* namespace or without, triggered and native events bubbling up the       *)
(* chain, and a handler that binds, unbinds and triggers while the event   *)
(* that called it is under way.                                            *)
(*                                                                         *)
(* `frames' is the stack of events under way, the innermost last.  The     *)
(* elements accept data, none is disabled, and all handlers go through     *)
(* jQuery.                                                                 *)
(***************************************************************************)
EXTENDS Integers, Sequences, FiniteSets

LOCAL INSTANCE SequencesExt

CONSTANTS
  Depth,       \* length of the chain of elements
  MaxHandlers, \* bound: functions the page binds
  MaxBinds,    \* bound: calls of on
  MaxEvents    \* bound: events

ASSUME EventsAssumption == {Depth, MaxHandlers, MaxBinds, MaxEvents} \subseteq Nat

VARIABLES
  handlers,      \* handlers[e]: the element's list for the type
  delegateCount, \* delegateCount[e]: how many of them are delegated
  listening,     \* listening[e]: eventHandle is a listener of the element
  bound,         \* bound[e]: handlers bound to the element, oldest first
  frames,        \* events under way
  triggered,     \* jQuery.event.triggered is the type
  binds,         \* calls of on so far
  events         \* events so far

eventVars == <<handlers, delegateCount, listening, bound, frames, triggered, binds, events>>

Elems == 1..Depth
Handlers == 1..MaxHandlers
NoSelector == 0
AnyDelegate == Depth + 1     \* the selector "**"
NoNamespace == 0
Namespaces == {NoNamespace, 1}
AnyFn == 0

\* Shape of the variables.
EventsTypeOK ==
  /\ \A e \in Elems :
       /\ delegateCount[e] \in 0..Len(handlers[e])
       /\ \A h \in ToSet(handlers[e]) : h.fn \in Handlers /\ h.sel \in 0..e - 1
  /\ listening \in [Elems -> BOOLEAN]
  /\ \A k \in DOMAIN frames : frames[k].at \in 1..Depth + 1
  /\ triggered \in BOOLEAN
  /\ binds \in 0..MaxBinds /\ events \in 0..MaxEvents

EventsInit ==
  /\ handlers = [e \in Elems |-> << >>]
  /\ delegateCount = [e \in Elems |-> 0]
  /\ listening = [e \in Elems |-> FALSE]
  /\ bound = [e \in Elems |-> << >>]
  /\ frames = << >>
  /\ triggered = FALSE
  /\ binds = 0
  /\ events = 0

Top == Last(frames)
SetTop(f) == frames' = Append(Front(frames), f)

\* The page's code runs between events and in a handler.
PageCode == IF frames = << >> THEN TRUE ELSE Top.phase = "calling"

-----------------------------------------------------------------------------
(* Binding and unbinding.                                                  *)

\* add(elem, type.ns, handler, data, selector), from on and one.
AddHandler(e, h) ==
  /\ handlers' = [handlers EXCEPT ![e] =
       IF h.sel # NoSelector THEN InsertAt(@, delegateCount[e] + 1, h) ELSE Append(@, h)]
  /\ delegateCount' = [delegateCount EXCEPT ![e] = @ + IF h.sel # NoSelector THEN 1 ELSE 0]
  /\ listening' = [listening EXCEPT ![e] = @ \/ handlers[e] = << >>]
  /\ bound' = [bound EXCEPT ![e] = Append(@, h)]

\* on(type.ns, selector, fn) and one(type.ns, selector, fn).
On(e, h) ==
  /\ PageCode
  /\ binds < MaxBinds
  /\ h.sel < e /\ h.fn <= binds + 1
  /\ AddHandler(e, h)
  /\ binds' = binds + 1
  /\ UNCHANGED <<frames, triggered, events>>

\* What off selects by: a function, a namespace and a selector, each of them
\* optional.
Selected(h, fn, ns, sel) ==
  /\ fn \in {AnyFn, h.fn}
  /\ ns \in {NoNamespace, h.ns}
  /\ \/ sel \in {NoSelector, h.sel}
     \/ sel = AnyDelegate /\ h.sel # NoSelector

\* The count of delegated handlers is left as it is.
RemovedUncounted(e, fn, ns, sel) ==
  LET kept == SelectSeq(handlers[e], LAMBDA h : ~Selected(h, fn, ns, sel))
  IN  [list |-> kept, delegates |-> IF kept = << >> THEN 0 ELSE delegateCount[e]]

\* remove(elem, type.ns, handler, selector): the list it leaves.  A list that
\* becomes empty is deleted with its count.
Removed(e, fn, ns, sel) ==
  LET kept == SelectSeq(handlers[e], LAMBDA h : ~Selected(h, fn, ns, sel))
      gone == SelectSeq(handlers[e], LAMBDA h : Selected(h, fn, ns, sel) /\ h.sel # NoSelector)
  IN  [list |-> kept, delegates |-> delegateCount[e] - Len(gone)]

\* remove: the listener goes with the last handler.
RemoveHandlers(e, fn, ns, sel) ==
  LET left == Removed(e, fn, ns, sel) IN
  /\ handlers' = [handlers EXCEPT ![e] = left.list]
  /\ delegateCount' = [delegateCount EXCEPT ![e] = left.delegates]
  /\ listening' = [listening EXCEPT ![e] = @ /\ left.list # << >>]
  /\ bound' = [bound EXCEPT ![e] = SelectSeq(@, LAMBDA h : ~Selected(h, fn, ns, sel))]

\* off(type.ns, selector, fn); off(type.ns, "**").
Off(e, fn, ns, sel) ==
  /\ PageCode
  /\ handlers[e] # << >>
  /\ RemoveHandlers(e, fn, ns, sel)
  /\ UNCHANGED <<frames, triggered, binds, events>>

-----------------------------------------------------------------------------
(* Events.                                                                 *)

NewFrame(kind, e, ns) ==
  [kind |-> kind, target |-> e, at |-> e, ns |-> ns, phase |-> "path", groups |-> << >>,
   stopped |-> FALSE, immediate |-> FALSE, prevented |-> FALSE,
   expected |-> << >>, called |-> << >>]

NewEvent(f) ==
  /\ PageCode
  /\ events < MaxEvents
  /\ events' = events + 1
  /\ frames' = Append(frames, f)
  /\ UNCHANGED <<handlers, delegateCount, listening, bound, triggered, binds>>

\* special.click.trigger: the click of a checkbox is left to the browser, which
\* knows no namespaces.
CheckboxClick(e) == NewEvent(NewFrame("native", e, NoNamespace))

\* trigger(type.ns) and triggerHandler(type.ns).
Trigger(e, ns) ==
  \/ \E kind \in {"trigger", "only"} : NewEvent(NewFrame(kind, e, ns))
  \/ CheckboxClick(e)

\* The user clicks.
NativeEvent(e) == frames = << >> /\ NewEvent(NewFrame("native", e, NoNamespace))

\* handlers(event, handlers): the delegated handlers whose selector an element
\* from the target up matches, element by element, then the direct ones.
HandlerQueue(e, target) ==
  LET delegates == SubSeq(handlers[e], 1, delegateCount[e])
      direct == SubSeq(handlers[e], delegateCount[e] + 1, Len(handlers[e]))
      matching == [c \in 1..e - target |->
                     SelectSeq(delegates, LAMBDA h : h.sel = target + c - 1)]
  IN  SelectSeq(Append(matching, direct), LAMBDA g : g # << >>)

\* The calls due at element e, by what is bound to it.
Due(e, target, ns) ==
  SelectSeq(FlattenSeq([c \in 1..e - target + 1 |->
              SelectSeq(bound[e], LAMBDA h :
                h.sel = IF c = e - target + 1 THEN NoSelector ELSE target + c - 1)]),
            LAMBDA h : ns \in {NoNamespace, h.ns})

\* eventHandle, called by trigger or as a listener: it discards the native event
\* of a default action.
Handled(f) ==
  IF f.kind = "native" THEN listening[f.at] /\ ~triggered ELSE handlers[f.at] # << >>

\* The next element of the path; triggerHandler stays on the first.
Onward(f) == [f EXCEPT !.phase = "path", !.groups = << >>, !.expected = << >>,
                       !.called = << >>, !.at = IF f.kind = "only" THEN Depth + 1 ELSE @ + 1]

\* trigger's loop over the path, and the browser's; dispatch up to its loop.
Visit ==
  /\ frames # << >>
  /\ Top.phase = "path" /\ Top.at <= Depth /\ ~Top.stopped
  /\ SetTop(IF Handled(Top)
            THEN [Top EXCEPT !.phase = "groups",
                             !.groups = HandlerQueue(Top.at, Top.target),
                             !.expected = IF triggered THEN << >>
                                          ELSE Due(Top.at, Top.target, Top.ns),
                             !.called = << >>]
            ELSE Onward(Top))
  /\ UNCHANGED <<handlers, delegateCount, listening, bound, triggered, binds, events>>

\* trigger after its loop: the default action, unless a handler prevented it, is
\* a native event of the target during which triggered is set.
EndPath ==
  /\ frames # << >>
  /\ Top.phase = "path" /\ (Top.at > Depth \/ Top.stopped)
  /\ IF Top.kind = "trigger" /\ ~Top.prevented
     THEN SetTop(NewFrame("native", Top.target, NoNamespace)) /\ triggered' = TRUE
     ELSE frames' = Front(frames) /\ triggered' = FALSE
  /\ UNCHANGED <<handlers, delegateCount, listening, bound, binds, events>>

\* dispatch's loops: the next handler of the group, or the next group.  A handler
\* bound with one unbinds itself before it runs.
Dispatch ==
  /\ frames # << >> /\ Top.phase = "groups"
  /\ IF Top.groups = << >>
     THEN /\ SetTop(Onward(Top))
          /\ UNCHANGED <<handlers, delegateCount, listening, bound>>
     ELSE IF Head(Top.groups) = << >> \/ Top.immediate
     THEN /\ SetTop([Top EXCEPT !.groups = IF Top.stopped THEN << >> ELSE Tail(@)])
          /\ UNCHANGED <<handlers, delegateCount, listening, bound>>
     ELSE LET h == Head(Head(Top.groups))
              rest == [Top EXCEPT !.groups[1] = Tail(@)]
          IN  IF Top.ns \in {NoNamespace, h.ns}
              THEN /\ SetTop([rest EXCEPT !.phase = "calling", !.called = Append(@, h)])
                   /\ IF h.one THEN RemoveHandlers(Top.at, h.fn, h.ns, h.sel)
                      ELSE UNCHANGED <<handlers, delegateCount, listening, bound>>
              ELSE SetTop(rest) /\ UNCHANGED <<handlers, delegateCount, listening, bound>>
  /\ UNCHANGED <<triggered, binds, events>>

\* The handler returns, having stopped the event or not; false stops it and
\* prevents its default action.
HandlerReturns(result) ==
  /\ frames # << >> /\ Top.phase = "calling"
  /\ SetTop([Top EXCEPT !.phase = "groups",
                        !.stopped = @ \/ result \in {"false", "stop"},
                        !.immediate = @ \/ result = "stop",
                        !.prevented = @ \/ result = "false"])
  /\ UNCHANGED <<handlers, delegateCount, listening, bound, triggered, binds, events>>

EventsNext ==
  \/ \E e \in Elems, fn \in Handlers, sel \in 0..Depth - 1, ns \in Namespaces, one \in BOOLEAN :
       On(e, [fn |-> fn, sel |-> sel, ns |-> ns, one |-> one])
  \/ \E e \in Elems, fn \in {AnyFn} \cup Handlers, ns \in Namespaces,
        sel \in 0..AnyDelegate : Off(e, fn, ns, sel)
  \/ \E e \in Elems, ns \in Namespaces : Trigger(e, ns)
  \/ \E e \in Elems : NativeEvent(e)
  \/ Visit \/ EndPath \/ Dispatch
  \/ \E result \in {"none", "false", "stop"} : HandlerReturns(result)

-----------------------------------------------------------------------------
(* Properties.                                                             *)

\* At every element an event calls the handlers that were bound there and match
\* it when it arrived, each of them once, delegated ones first, in the order of
\* binding, whatever the handlers bind or unbind meanwhile; only a handler that
\* stops the event cuts this short, and the native event of a triggered event's
\* default action calls none a second time.  (trigger, dispatch, handlers,
\* add and remove)
DispatchExact ==
  \A k \in DOMAIN frames : LET f == frames[k] IN
    /\ IsPrefix(f.called, f.expected)
    /\ f.phase = "groups" /\ f.groups = << >> /\ ~f.stopped => f.called = f.expected
    /\ f.phase = "path" /\ f.at <= Depth /\ ~f.stopped /\ ~triggered =>
         (Handled(f) <=> bound[f.at] # << >>)
=============================================================================
