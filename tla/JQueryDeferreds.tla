--------------------------- MODULE JQueryDeferreds ---------------------------
(***************************************************************************)
(* Three deferreds that jQuery settles itself: the one of jQuery.when,     *)
(* from the deferreds it is given, the one that then makes, and the one    *)
(* behind $(document).ready, from the browser's events and the page's      *)
(* holds.  The page's functions do not throw here.                         *)
(***************************************************************************)
EXTENDS Integers, Sequences

LOCAL INSTANCE SequencesExt

CONSTANTS
  MaxDefs,    \* deferreds the page settles
  MaxArgs,    \* bound: arguments of when
  MaxHolds    \* bound: calls of holdReady(true)

ASSUME DeferredsAssumption == {MaxDefs, MaxArgs, MaxHolds} \subseteq Nat

VARIABLES
  defs,       \* defs[d]: state of the page's deferreds
  args,       \* the arguments of when: deferreds, or Value; << >> before the call
  when,       \* the call: the count of uncompleted subordinates, the master's state
  notified,   \* the deferreds the page has notified
  chain,      \* a call of then: its functions and the state of its newDefer
  page,       \* the browser and its document
  ready       \* jQuery's side of it

deferredVars == <<defs, args, when, notified, chain, page, ready>>

Defs == 1..MaxDefs
Value == 0     \* an argument or a result that is no deferred
NoDef == 0

\* What fnDone, fnFail and fnProgress return; an absent one passes a value on.
ThenFns == [resolved : Defs \cup {Value}, rejected : Defs \cup {Value},
            notified : Defs \cup {Value}]
NoFns == [resolved |-> Value, rejected |-> Value, notified |-> Value]

DeferredsInit ==
  /\ defs = [d \in Defs |-> "pending"]
  /\ args = << >>
  /\ when = [called |-> FALSE, remaining |-> 0, state |-> "pending"]
  /\ notified = {}
  /\ chain = [of |-> NoDef, fns |-> NoFns, adopted |-> {}, state |-> "pending"]
  /\ page \in [state : {"loading", "interactive", "complete"}, body : BOOLEAN,
               oldIE : BOOLEAN, frame : BOOLEAN]
  /\ page.state # "loading" => page.body
  /\ ready = [list |-> "none", isReady |-> FALSE, readyWait |-> 1, attached |-> {},
              timeouts |-> 0, holds |-> 0, held |-> FALSE]

-----------------------------------------------------------------------------
(* when.                                                                   *)

\* A deferred is settled once.
SettleOnce(w, outcome) == IF w.state = "pending" THEN [w EXCEPT !.state = outcome] ELSE w

\* updateFunc, called when a subordinate is resolved.
Update(w) ==
  LET left == [w EXCEPT !.remaining = @ - 1]
  IN  IF left.remaining = 0 THEN SettleOnce(left, "resolved") ELSE left

\* One round of when's loop: the callbacks of a deferred that is settled run at
\* once.
Listen(w, a) ==
  IF a = Value THEN [w EXCEPT !.remaining = @ - 1]
  ELSE CASE defs[a] = "resolved" -> Update(w)
         [] defs[a] = "rejected" -> SettleOnce(w, "rejected")
         [] OTHER -> w

\* when(arguments).  The only argument, if it is a deferred, is the master.
When(s) ==
  /\ ~when.called
  /\ args' = s
  /\ LET single == Len(s) = 1 /\ s[1] # Value
         new == [called |-> TRUE, remaining |-> IF Len(s) = 1 /\ ~single THEN 0 ELSE Len(s),
                 state |-> IF single THEN defs[s[1]] ELSE "pending"]
         heard == IF Len(s) > 1 THEN FoldLeft(Listen, new, s) ELSE new
     IN  when' = IF heard.remaining = 0 THEN SettleOnce(heard, "resolved") ELSE heard
  /\ UNCHANGED <<defs, notified, chain, page, ready>>

-----------------------------------------------------------------------------
(* then.                                                                   *)

\* A function returned result: newDefer adopts what becomes of it if it is a
\* deferred, and otherwise does as the deferred that called the function.
\* st is the state of the deferreds.
Forward(c, action, result, st) ==
  IF result # Value
  THEN LET adopting == [c EXCEPT !.adopted = @ \cup {result}]
       IN  IF st[result] = "pending" THEN adopting ELSE SettleOnce(adopting, st[result])
  ELSE IF action = "notified" THEN c ELSE SettleOnce(c, action)

\* then(fnDone, fnFail, fnProgress) of d: the functions of what has happened to d
\* are called at once, that for its progress last.
Then(d, fns) ==
  /\ chain.of = NoDef
  /\ LET new == [chain EXCEPT !.of = d, !.fns = fns]
         forwarded == IF defs[d] = "pending" THEN new ELSE Forward(new, defs[d], fns[defs[d]], defs)
     IN  chain' = IF d \in notified THEN Forward(forwarded, "notified", fns.notified, defs)
                                    ELSE forwarded
  /\ UNCHANGED <<defs, args, when, notified, page, ready>>

\* notify; a settled deferred has its progress list locked.
Notify(d) ==
  /\ defs[d] = "pending"
  /\ notified' = notified \cup {d}
  /\ chain' = IF chain.of = d THEN Forward(chain, "notified", chain.fns.notified, defs) ELSE chain
  /\ UNCHANGED <<defs, args, when, page, ready>>

\* The callbacks of then when d is settled: its own, and those of an adopted deferred,
\* which were added later.
ChainAfter(d, outcome, st) ==
  LET forwarded == IF chain.of = d THEN Forward(chain, outcome, chain.fns[outcome], st) ELSE chain
  IN  IF d \in chain.adopted THEN SettleOnce(forwarded, outcome) ELSE forwarded

-----------------------------------------------------------------------------
\* The page settles a deferred: its callbacks run, those of when and then among them.
SettleDef(d, outcome) ==
  /\ defs[d] = "pending"
  /\ defs' = [defs EXCEPT ![d] = outcome]
  /\ when' = IF Len(args) = 1
             THEN IF args[1] = d THEN SettleOnce(when, outcome) ELSE when
             ELSE FoldLeft(LAMBDA w, a : IF a # d THEN w
                                         ELSE IF outcome = "resolved" THEN Update(w)
                                         ELSE SettleOnce(w, "rejected"), when, args)
  /\ chain' = ChainAfter(d, outcome, defs')
  /\ UNCHANGED <<args, notified, page, ready>>

-----------------------------------------------------------------------------
(* ready.                                                                  *)

\* jQuery.ready(wait).
Ready(r, wait) ==
  LET counted == IF wait THEN [r EXCEPT !.readyWait = @ - 1] ELSE r
      seen == [counted EXCEPT !.isReady = TRUE, !.readyWait = IF wait THEN @ ELSE @ - 1]
  IN  IF (IF wait THEN counted.readyWait # 0 ELSE r.isReady) THEN counted
      ELSE IF ~page.body THEN [counted EXCEPT !.timeouts = @ + 1]
      ELSE IF ~wait /\ seen.readyWait > 0 THEN seen
      ELSE [seen EXCEPT !.list = "resolved", !.held = @ \/ (r.list = "pending" /\ r.holds > 0)]

\* $(fn) for the first time: ready.promise.  An old IE is also asked, now and
\* later, whether the document can be scrolled, unless the page is in a frame.
ReadyPromise ==
  /\ ready.list = "none"
  /\ LET new == [ready EXCEPT !.list = "pending"] IN
     ready' = IF page.state = "complete" THEN [new EXCEPT !.timeouts = 1]
              ELSE IF ~page.oldIE THEN [new EXCEPT !.attached = {"DOMContentLoaded", "load"}]
              ELSE IF page.frame THEN [new EXCEPT !.attached = {"readystatechange", "load"}]
              ELSE IF page.state = "interactive" THEN Ready(new, FALSE)
              ELSE [new EXCEPT !.attached = {"readystatechange", "load", "doScroll"}]
  /\ UNCHANGED <<defs, args, when, notified, chain, page>>

\* completed and detach; in an old IE the document has to be complete.
Completed(p, event) ==
  ready' = IF event \in ready.attached /\ (~p.oldIE \/ p.state = "complete")
           THEN Ready([ready EXCEPT !.attached = @ \cap {"doScroll"}], FALSE)
           ELSE ready

\* The document advances.
DocumentState ==
  /\ page' \in {[page EXCEPT !.state = s] : s \in {"interactive", "complete"}}
  /\ <<page.state, page'.state>> \in {<<"loading", "interactive">>, <<"interactive", "complete">>}
  /\ \E event \in {"DOMContentLoaded", "readystatechange", "load"} :
       /\ event = IF page.oldIE THEN "readystatechange"
                  ELSE IF page'.state = "complete" THEN "load" ELSE "DOMContentLoaded"
       /\ Completed(page', event)
  /\ UNCHANGED <<defs, args, when, notified, chain>>

BodyParsed ==
  /\ ~page.body /\ page' = [page EXCEPT !.body = TRUE]
  /\ UNCHANGED <<defs, args, when, notified, chain, ready>>

\* doScrollCheck, every 50 milliseconds until the document can be scrolled.
DoScrollCheck ==
  /\ "doScroll" \in ready.attached
  /\ ready.isReady \/ page.state # "loading"
  /\ ready' = IF ready.isReady THEN [ready EXCEPT !.attached = @ \ {"doScroll"}]
              ELSE Ready([ready EXCEPT !.attached = {}], FALSE)
  /\ UNCHANGED <<defs, args, when, notified, chain, page>>

\* setTimeout(jQuery.ready).
ReadyTimeout ==
  /\ ready.timeouts > 0
  /\ ready' = Ready([ready EXCEPT !.timeouts = @ - 1], FALSE)
  /\ UNCHANGED <<defs, args, when, notified, chain, page>>

\* holdReady(true), and holdReady(false) for a hold of before.
HoldReady(hold) ==
  /\ IF hold
     THEN /\ ready.holds < MaxHolds
          /\ ready' = [ready EXCEPT !.holds = @ + 1, !.readyWait = @ + 1]
     ELSE /\ ready.holds > 0
          /\ ready' = Ready([ready EXCEPT !.holds = @ - 1], TRUE)
  /\ UNCHANGED <<defs, args, when, notified, chain, page>>

WhenNext ==
  \/ \E n \in 0..MaxArgs : \E s \in [1..n -> Defs \cup {Value}] : When(s)
  \/ \E d \in Defs, outcome \in {"resolved", "rejected"} : SettleDef(d, outcome)

ThenNext ==
  \/ \E d \in Defs, fns \in ThenFns : Then(d, fns)
  \/ \E d \in Defs : Notify(d) \/ \E outcome \in {"resolved", "rejected"} : SettleDef(d, outcome)

ReadyNext ==
  \/ ReadyPromise \/ DocumentState \/ BodyParsed \/ DoScrollCheck \/ ReadyTimeout
  \/ \E hold \in BOOLEAN : HoldReady(hold)

-----------------------------------------------------------------------------
(* Properties.                                                             *)

\* The master of when is rejected once a subordinate is, resolved once all are,
\* and pending until then, whichever were settled before the call and however
\* often one of them is given.  (when, updateFunc)
WhenSettles ==
  LET States == {IF args[i] = Value THEN "resolved" ELSE defs[args[i]] : i \in DOMAIN args}
  IN  when.called => when.state = IF "rejected" \in States THEN "rejected"
                                   ELSE IF "pending" \in States THEN "pending"
                                   ELSE "resolved"

\* The deferred that then makes is settled as soon as its own deferred is, or what
\* a function of the call returned, and as one of them was; a function that
\* handles the failure of a deferred does not make a success of it.  (then)
ThenSettles ==
  LET own == IF defs[chain.of] = "pending" THEN {}
             ELSE IF chain.fns[defs[chain.of]] = Value THEN {defs[chain.of]}
             ELSE {defs[chain.fns[defs[chain.of]]]}
      Sources == {"pending"} \cup own \cup {defs[e] : e \in chain.adopted}
  IN  chain.of # NoDef => /\ chain.state \in Sources
                          /\ chain.state = "pending" => Sources = {"pending"}

\* The functions given to ready run when the document is there and no hold is
\* outstanding, and they do run once jQuery has seen the document and the last
\* hold is released.  (ready, holdReady, completed, doScrollCheck)
ReadySettles ==
  /\ ready.list = "resolved" => page.state # "loading" /\ page.body /\ ~ready.held
  /\ ready.list = "pending" /\ ready.isReady => ready.holds > 0
  /\ ready.list = "pending" /\ page.state = "complete" /\ page.body /\ ready.timeouts = 0
       /\ ready.attached = {} => ready.isReady
=============================================================================
