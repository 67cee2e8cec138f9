--------------------------- MODULE JQueryCallbacks ---------------------------
(***************************************************************************)
(* jQuery.Callbacks and jQuery.Deferred.  A callback list is fired by a    *)
(* loop over its callbacks; a callback may itself add to, remove from,     *)
(* empty, lock, disable or fire the list whose loop called it, or another  *)
(* one, whose loop then runs inside the call.                              *)
(*                                                                         *)
(* The lists are the three of a deferred and one list by itself, "plain",  *)
(* with options of its own.  `loops' is the stack of loops in progress,    *)
(* the innermost last, each with the callback it is calling.               *)
(***************************************************************************)
EXTENDS Integers, Sequences, FiniteSets

LOCAL INSTANCE SequencesExt
LOCAL INSTANCE Functions

CONSTANTS
  MaxFns,     \* bound: callbacks of the page, numbered as they are added
  MaxFires    \* bound: calls of fireWith; the n-th passes the value n

ASSUME CallbacksAssumption == MaxFns \in Nat /\ MaxFires \in Nat

VARIABLES
  used,       \* the lists the page uses
  lists,      \* lists[l]: a callback list
  state,      \* of the deferred
  loops,      \* the loops in progress, [list, fn]
  fires,      \* calls of fireWith so far
  added,      \* callbacks the page has added, each of them once
  expected,   \* expected[l]: callbacks the current round of l has to call
  seen,       \* seen[l]: callbacks it has called, in order
  emptied     \* the list by itself was emptied during its current round

cbVars == <<used, lists, state, loops, fires, added, expected, seen, emptied>>

\* What a deferred puts into its lists before anything else.
SetState == -1
DisableOther == -2
LockProgress == -3
Own == {SetState, DisableOther, LockProgress}

Fns == 1..MaxFns
NoFn == 0
ListNames == {"done", "fail", "progress", "plain"}
NoMemory == 0

\* jQuery.Callbacks(options).
NewList(options, list) ==
  [once |-> "once" \in options, remembers |-> "memory" \in options,
   unique |-> "unique" \in options, stopOnFalse |-> "stopOnFalse" \in options,
   list |-> list, enabled |-> TRUE, stackOn |-> "once" \notin options, stack |-> << >>,
   memory |-> NoMemory, fired |-> FALSE, firing |-> FALSE,
   firingIndex |-> 0, firingLength |-> 0, firingStart |-> 0]

\* Shape of the variables.
CbTypeOK ==
  /\ \A l \in ListNames :
       /\ Range(lists[l].list) \subseteq Fns \cup Own
       /\ lists[l].firingIndex \in -1..MaxFns + 3
  /\ state \in {"pending", "resolved", "rejected"}
  /\ \A i \in DOMAIN loops : loops[i].list \in ListNames
  /\ fires \in 0..MaxFires /\ added \in 0..MaxFns

\* Nothing is done to the list for the other outcome.
OwnCallbacksShort == <<SetState, LockProgress>>

\* The order in which a deferred's own callbacks are added.
OwnCallbacks == <<SetState, DisableOther, LockProgress>>

\* jQuery.Deferred, and a list by itself with any options.
CbInit ==
  /\ used \in {{"plain"}, {"done", "fail", "progress"}}
  /\ \E options \in SUBSET {"once", "memory", "unique", "stopOnFalse"} :
       ("plain" \notin used => options = {}) /\
       lists = [done |-> NewList({"once", "memory"}, OwnCallbacks),
                fail |-> NewList({"once", "memory"}, OwnCallbacks),
                progress |-> NewList({"memory"}, << >>),
                plain |-> NewList(options, << >>)]
  /\ state = "pending"
  /\ loops = << >>
  /\ fires = 0
  /\ added = 0
  /\ expected = [l \in ListNames |-> {}]
  /\ seen = [l \in ListNames |-> << >>]
  /\ emptied = FALSE

-----------------------------------------------------------------------------
(* Operations on a list.                                                   *)

\* fire(data): the state before its loop.
Begin(x, data) ==
  [x EXCEPT !.memory = IF x.remembers THEN data ELSE NoMemory, !.fired = TRUE,
            !.firingIndex = x.firingStart, !.firingStart = 0,
            !.firingLength = Len(x.list), !.firing = TRUE]

Round(x) == Range(SubSeq(x.list, x.firingStart + 1, Len(x.list))) \cap Fns

Disable(x) ==
  [x EXCEPT !.enabled = FALSE, !.list = << >>, !.stackOn = FALSE, !.stack = << >>,
            !.memory = NoMemory]

Lock(x) ==
  LET y == [x EXCEPT !.stackOn = FALSE, !.stack = << >>]
  IN  IF x.memory = NoMemory THEN Disable(y) ELSE y

\* Positions are not moved when a callback before them goes.
RemoveKeepsIndex(x, f) == [x EXCEPT !.list = Remove(@, f)]

\* remove: a callback occurs at most once in a list here.
RemoveFn(x, f) ==
  LET index == IndexFirstSubSeq(<<f>>, x.list) - 1
      y     == [x EXCEPT !.list = Remove(@, f)]
  IN  IF ~x.firing THEN y
      ELSE [y EXCEPT !.firingLength = IF index <= x.firingLength THEN @ - 1 ELSE @,
                     !.firingIndex = IF index <= x.firingIndex THEN @ - 1 ELSE @]

-----------------------------------------------------------------------------
(* Calls, from a callback or from outside.                                 *)

Innermost == Last(loops)

\* Some code of the page runs: none of the loops, or a callback of its own.
PageRuns == IF loops = << >> THEN TRUE ELSE Innermost.fn \in Fns

Push(l) == loops' = Append(loops, [list |-> l, fn |-> NoFn])

\* fire on list l, whose record is now x.
FireNow(l, x, data) ==
  /\ lists' = [lists EXCEPT ![l] = Begin(x, data)]
  /\ expected' = [expected EXCEPT ![l] = Round(x)]
  /\ seen' = [seen EXCEPT ![l] = << >>]
  /\ emptied' = (emptied /\ l # "plain")

\* add.
Add(l) ==
  /\ PageRuns /\ l \in used /\ added < MaxFns /\ lists[l].enabled
  /\ added' = added + 1
  /\ LET f     == added + 1
         x     == [lists[l] EXCEPT !.list = Append(@, f)]
         start == Len(lists[l].list)
     IN  IF lists[l].firing
         THEN /\ lists' = [lists EXCEPT ![l] = [x EXCEPT !.firingLength = start + 1]]
              /\ expected' = [expected EXCEPT ![l] = @ \cup {f}]
              /\ UNCHANGED <<loops, seen, emptied>>
         ELSE IF lists[l].memory # NoMemory
         THEN /\ FireNow(l, [x EXCEPT !.firingStart = start], lists[l].memory)
              /\ Push(l)
         ELSE lists' = [lists EXCEPT ![l] = x] /\ UNCHANGED <<loops, expected, seen, emptied>>
  /\ UNCHANGED <<used, state, fires>>

\* add of a callback that is there, to a list that is "unique": nothing to do
\* but the firing that follows.
AddAgain(f) ==
  /\ PageRuns /\ lists.plain.enabled /\ lists.plain.unique
  /\ f \in Range(lists.plain.list)
  /\ ~lists.plain.firing /\ lists.plain.memory # NoMemory
  /\ FireNow("plain", [lists.plain EXCEPT !.firingStart = Len(lists.plain.list)],
             lists.plain.memory)
  /\ Push("plain")
  /\ UNCHANGED <<used, state, fires, added>>

\* remove, empty, disable and lock: a page has them for a list of its own only.
RemoveCallback(f) ==
  /\ PageRuns /\ lists.plain.enabled /\ f \in Range(lists.plain.list)
  /\ lists' = [lists EXCEPT !.plain = RemoveFn(lists.plain, f)]
  /\ expected' = [expected EXCEPT !.plain = @ \ {f}]
  /\ UNCHANGED <<used, state, loops, fires, added, seen, emptied>>

Empty ==
  /\ PageRuns /\ "plain" \in used
  /\ lists' = [lists EXCEPT !.plain.list = << >>, !.plain.enabled = TRUE]
  /\ emptied' = (emptied \/ lists.plain.firing)
  /\ UNCHANGED <<used, state, loops, fires, added, expected, seen>>

DisableOrLock ==
  /\ PageRuns /\ "plain" \in used
  /\ \/ lists' = [lists EXCEPT !.plain = Disable(lists.plain)]
     \/ lists' = [lists EXCEPT !.plain = Lock(lists.plain)]
  /\ UNCHANGED <<used, state, loops, fires, added, expected, seen, emptied>>

\* fireWith: now, after the round in progress, or not at all.
FireWith(l) ==
  /\ PageRuns /\ l \in used /\ fires < MaxFires
  /\ lists[l].enabled /\ (~lists[l].fired \/ lists[l].stackOn)
  /\ fires' = fires + 1
  /\ IF lists[l].firing
     THEN /\ lists' = [lists EXCEPT ![l].stack = Append(@, fires + 1)]
          /\ UNCHANGED <<loops, expected, seen, emptied>>
     ELSE FireNow(l, lists[l], fires + 1) /\ Push(l)
  /\ UNCHANGED <<used, state, added>>

-----------------------------------------------------------------------------
(* The innermost loop.                                                     *)

SetInnermost(fn) == loops' = [loops EXCEPT ![Len(loops)].fn = fn]

Looping(l) == loops # << >> /\ Innermost = [list |-> l, fn |-> NoFn]

LoopOver(l) == ~lists[l].enabled \/ lists[l].firingIndex >= lists[l].firingLength

\* An exception ends every loop and leaves the lists as they are, `firing'.
Throw == loops' = << >> /\ expected' = [l \in ListNames |-> {}]

\* The next callback is called; a list emptied in the meantime has none there.
CallNext(l) ==
  /\ Looping(l) /\ ~LoopOver(l)
  /\ LET i == lists[l].firingIndex + 1
     IN  IF i > Len(lists[l].list) THEN Throw /\ UNCHANGED seen
         ELSE /\ SetInnermost(lists[l].list[i])
              /\ seen' = [seen EXCEPT ![l] = IF lists[l].list[i] \in Fns
                                             THEN Append(@, lists[l].list[i]) ELSE @]
              /\ UNCHANGED expected
  /\ UNCHANGED <<used, lists, state, fires, added, emptied>>

\* A callback of the page returns, returns false, or throws.
Return(l, result) ==
  /\ loops # << >> /\ Innermost.list = l /\ Innermost.fn \in Fns
  /\ IF result = "throws" THEN Throw /\ UNCHANGED lists
     ELSE IF result = "false" /\ lists[l].stopOnFalse
     THEN /\ lists' = [lists EXCEPT ![l].memory = NoMemory,
                                    ![l].firingIndex = lists[l].firingLength]
          /\ expected' = [expected EXCEPT ![l] = {}]
          /\ SetInnermost(NoFn)
     ELSE /\ lists' = [lists EXCEPT ![l].firingIndex = @ + 1]
          /\ SetInnermost(NoFn) /\ UNCHANGED expected
  /\ UNCHANGED <<used, state, fires, added, seen, emptied>>

\* The deferred's own callbacks: the first sets its state, the others see to it
\* that it is not settled again.
ReturnOwn(l) ==
  /\ loops # << >> /\ Innermost.list = l /\ Innermost.fn \in Own
  /\ SetInnermost(NoFn)
  /\ LET fn    == Innermost.fn
         other == IF l = "done" THEN "fail" ELSE "done"
         moved == [lists EXCEPT ![l].firingIndex = @ + 1]
     IN  /\ state' = IF fn # SetState THEN state
                     ELSE IF l = "done" THEN "resolved" ELSE "rejected"
         /\ lists' = CASE fn = SetState     -> moved
                       [] fn = DisableOther -> [moved EXCEPT ![other] = Disable(@)]
                       [] fn = LockProgress -> [moved EXCEPT !.progress = Lock(@)]
  /\ UNCHANGED <<used, fires, added, expected, seen, emptied>>

\* The loop is over: the next round that was asked for, or the end of the list.
EndLoop(l) ==
  /\ Looping(l) /\ LoopOver(l)
  /\ LET x == [lists[l] EXCEPT !.firing = FALSE]
     IN  IF x.enabled /\ x.stackOn /\ x.stack # << >>
         THEN /\ FireNow(l, [x EXCEPT !.stack = Tail(@)], Head(x.stack))
              /\ UNCHANGED loops
         ELSE /\ lists' = [lists EXCEPT ![l] =
                    IF ~x.enabled \/ x.stackOn THEN x
                    ELSE IF x.memory # NoMemory THEN [x EXCEPT !.list = << >>]
                    ELSE Disable(x)]
              /\ loops' = Front(loops)
              /\ UNCHANGED <<expected, seen, emptied>>
  /\ UNCHANGED <<used, state, fires, added>>

CbNext ==
  \/ \E l \in ListNames :
       \/ Add(l) \/ FireWith(l) \/ CallNext(l) \/ ReturnOwn(l) \/ EndLoop(l)
       \/ \E result \in {"returns", "false", "throws"} : Return(l, result)
  \/ \E f \in Fns : AddAgain(f) \/ RemoveCallback(f)
  \/ Empty \/ DisableOrLock

-----------------------------------------------------------------------------
\* However the callbacks change the list that calls them: a round calls no
\* callback twice, and when it is over every callback was called that was in the
\* list at its start or has come since, and has not been removed.  (Emptying the
\* list is the exception: the loop's position then counts callbacks that are gone.)
RoundExact ==
  \A l \in ListNames :
    /\ IsInjective(seen[l])
    /\ Looping(l) /\ LoopOver(l) /\ lists[l].enabled /\ ~(l = "plain" /\ emptied)
         => expected[l] \subseteq Range(seen[l])

\* A deferred that is settled stays so, and calls no callback for the other
\* outcome; the list for the other outcome is disabled before the page's first
\* callback for this one is called.
SettledOnce ==
  /\ seen.done # << >> => state = "resolved" /\ ~lists.fail.enabled
  /\ seen.fail # << >> => state = "rejected" /\ ~lists.done.enabled
=============================================================================
