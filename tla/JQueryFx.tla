------------------------------ MODULE JQueryFx ------------------------------
(***************************************************************************)
(* The fx queue of one element and its animations: queue, dequeue, delay,  *)
(* promise, animate, stop, finish and the interval that ticks.  A callback *)
(* of the page runs inside the call that fires it and may call any of      *)
(* these again.                                                            *)
(*                                                                         *)
(* `fx.todo' is what the call in progress still has to do, first thing     *)
(* first: a step does the head of it, and a call puts its own steps before *)
(* the rest.  Styles, easing and progress are left out.                    *)
(***************************************************************************)
EXTENDS Integers, Sequences, FiniteSets

LOCAL INSTANCE SequencesExt

CONSTANTS
  MaxItems,  \* bound: animations and delays, numbered as they are created
  MaxCalls   \* bound: calls the page makes

ASSUME FxAssumption == MaxItems \in Nat /\ MaxCalls \in Nat

VARIABLES
  fx,     \* the element's queue, its hooks and its animations
  calls   \* calls of the page so far

fxVars == <<fx, calls>>

InProgress == 0
NoItem == 0
Items == 1..MaxItems

NoHooks == [on |-> FALSE, cur |-> NoItem, stop |-> NoItem, unqueued |-> 0, waiting |-> FALSE]

NewItem(kind, queued, instant) ==
  [kind |-> kind, queued |-> queued, instant |-> instant, state |-> "pending",
   begun |-> FALSE, ran |-> FALSE, stopped |-> FALSE, armed |-> FALSE]

FxInit ==
  /\ fx = [queue |-> << >>, hooks |-> NoHooks, timers |-> << >>, timerId |-> FALSE,
           items |-> << >>, finish |-> FALSE, todo |-> << >>,
           forced |-> FALSE, threw |-> FALSE]
  /\ calls = 0

\* An animation that has been started and has not ended.
Runs(s, a) ==
  LET t == s.items[a] IN t.kind = "anim" /\ t.begun /\ t.state = "pending"

Unqueued(s) == {a \in DOMAIN s.items : ~s.items[a].queued /\ Runs(s, a)}

\* Shape of the variables.
FxTypeOK ==
  /\ ToSet(fx.queue) \subseteq {InProgress} \cup DOMAIN fx.items
  /\ ToSet(fx.timers) \subseteq DOMAIN fx.items
  /\ Len(fx.items) <= MaxItems
  /\ fx.hooks.unqueued \in 0..MaxItems
  /\ calls \in 0..MaxCalls

-----------------------------------------------------------------------------
(* Steps.                                                                  *)

Step(op, a, i, goto) == [op |-> op, a |-> a, i |-> i, goto |-> goto, ended |-> {}]
Do(op) == Step(op, NoItem, 0, FALSE)
DoItem(op, a) == Step(op, a, 0, FALSE)
First(steps, s) == [s EXCEPT !.todo = steps \o @]

\* _queueHooks(elem, "fx").
QueueHooks(s) == IF s.hooks.on THEN s ELSE [s EXCEPT !.hooks = [NoHooks EXCEPT !.on = TRUE]]

\* hooks.empty.fire(), as defaultPrefilter replaces it: nothing happens while an
\* animation with queue: false runs.  It removes the queue and the hooks, and
\* resolves the promises.
EmptyFire(s) ==
  IF s.hooks.unqueued > 0 THEN s
  ELSE First(IF s.hooks.waiting THEN <<Do("page")>> ELSE << >>,
             [s EXCEPT !.queue = << >>, !.hooks = NoHooks])

\* jQuery.dequeue(elem, "fx").
Dequeue(t) ==
  LET s == QueueHooks(t)
      queue == IF s.queue # << >> /\ s.queue[1] = InProgress THEN Tail(s.queue) ELSE s.queue
  IN  IF queue = << >>
      THEN EmptyFire([s EXCEPT !.queue = << >>, !.hooks.cur = NoItem])
      ELSE First(<<DoItem("run", queue[1])>>,
                 [s EXCEPT !.queue = <<InProgress>> \o Tail(queue),
                           !.hooks.cur = queue[1], !.hooks.stop = NoItem])

\* jQuery.queue(elem, "fx", fn).
Queue(s, a) == [s EXCEPT !.queue = Append(@, a)]

\* fn.queue("fx", data) once data is in the queue: dequeues unless an item is in
\* progress.
FnQueue(t) ==
  LET s == QueueHooks(t) IN
  IF s.queue # << >> /\ s.queue[1] = InProgress THEN s ELSE Dequeue(s)

\* The animation's deferred is resolved or rejected; complete, then the counting
\* of defaultPrefilter, which is added last.
Settle(s, a, outcome) ==
  IF s.items[a].state # "pending" THEN s
  ELSE First((IF outcome = "done" THEN <<DoItem("complete", a)>> ELSE << >>) \o
             (IF s.items[a].queued THEN << >> ELSE <<Do("uncount")>>),
             [s EXCEPT !.items[a].state = outcome])

\* animation.stop(gotoEnd).
AnimationStop(s, a, goto) ==
  IF s.items[a].stopped THEN s
  ELSE Settle([s EXCEPT !.items[a].stopped = TRUE], a, IF goto THEN "done" ELSE "fail")

\* defaultPrefilter for queue: false.
CountUnqueued(s, a) ==
  IF s.items[a].queued THEN s ELSE [QueueHooks(s) EXCEPT !.hooks.unqueued = @ + 1]

\* fx.timer once the timer has returned true, and fx.start.
FxTimer(s, a) == [s EXCEPT !.timers = Append(@, a), !.timerId = TRUE]

\* doAnimation: Animation(elem, prop, opts), whose fx.timer calls tick once and
\* keeps the timer unless the animation is over at once.  Then its deferred is
\* settled before complete is attached to it.
DoAnimation(s, a) ==
  LET t == [CountUnqueued(s, a) EXCEPT !.items[a].begun = TRUE]
      counted == IF s.items[a].queued THEN << >> ELSE <<Do("uncount")>>
  IN  IF s.items[a].instant
      THEN First(counted \o <<DoItem("complete", a), DoItem("ran", a)>>,
                 [t EXCEPT !.items[a].state = "done"])
      ELSE First(<<DoItem("ran", a)>>, FxTimer(t, a))

\* An item of the queue is called: doAnimation, or the function of delay.
Run(s, a) ==
  IF s.items[a].kind = "anim" THEN DoAnimation(s, a)
  ELSE [s EXCEPT !.items[a].armed = TRUE, !.hooks.stop = a]

\* doAnimation after Animation: an animation begun while finish is under way ends
\* at once.
Ran(s, a) ==
  LET t == [s EXCEPT !.items[a].ran = TRUE] IN
  IF t.finish THEN AnimationStop(t, a, TRUE) ELSE t

\* opt.complete of jQuery.speed: the page's callback, then dequeue.
Complete(s, a) ==
  First(<<Do("page")>> \o IF s.items[a].queued THEN <<Do("dequeue")>> ELSE << >>, s)

\* The end of an animation is not announced.
UncountSilently(s) == [s EXCEPT !.hooks.unqueued = @ - 1]

\* The callback that defaultPrefilter adds for queue: false.
Uncount(s) ==
  LET t == [s EXCEPT !.hooks.unqueued = @ - 1] IN
  IF t.queue = << >> THEN EmptyFire(t) ELSE t

\* tick of an animation that is over, or was: it resolves unless stopped.
TickOver(s, a) == IF s.items[a].stopped THEN s ELSE Settle(s, a, "done")

\* jQuery.fx.tick from timers[i] on; `over' says that the time of the animation
\* is up.
Tick(s, i, over) ==
  IF i > Len(s.timers) THEN [s EXCEPT !.timerId = s.timers # << >>]
  ELSE LET a == s.timers[i] IN
       IF over \/ s.items[a].stopped \/ s.items[a].state # "pending"
       THEN TickOver(First(<<Step("ticked", a, i, FALSE)>>, s), a)
       ELSE First(<<Step("tick", NoItem, i + 1, FALSE)>>, s)

\* The timer returned false: it is removed if it still is where it was.
Ticked(s, i, a) ==
  IF i <= Len(s.timers) /\ s.timers[i] = a
  THEN First(<<Step("tick", NoItem, i, FALSE)>>, [s EXCEPT !.timers = RemoveAt(@, i)])
  ELSE First(<<Step("tick", NoItem, i + 1, FALSE)>>, s)

Splice(timers, i) == IF i <= Len(timers) THEN RemoveAt(timers, i) ELSE timers

\* A callback has emptied the list: timers[index].elem throws, and nothing more
\* is done.
Throws(s) == [s EXCEPT !.todo = << >>, !.threw = TRUE]

\* The queue is dequeued only when no animation was stopped.
StopEndedOnlyIdle(s, ended, goto) == IF ended = {} THEN Dequeue(s) ELSE s

\* fn.stop after its loop: it dequeues unless an animation was ended, whose
\* complete has then dequeued if it came from the queue.
StopEnded(s, ended, goto) ==
  IF ended = {} \/ ~goto THEN Dequeue(s)
  ELSE [s EXCEPT !.forced = @ \/ \A a \in ended : ~s.items[a].queued]

\* fn.stop's loop at index i: an animation of the element, of the queue "fx" if a
\* type is given, is stopped, and whatever is at i then is removed.
StopLoop(s, st) ==
  IF st.i = 0 THEN StopEnded(s, st.ended, st.goto)
  ELSE IF st.i > Len(s.timers) THEN Throws(s)
  ELSE LET a == s.timers[st.i]
           down == [st EXCEPT !.i = @ - 1]
       IN  IF s.items[a].state = "pending" /\ (st.op = "stop" \/ s.items[a].queued)
           THEN AnimationStop(First(<<Step("splice", NoItem, st.i, FALSE),
                                      [down EXCEPT !.ended = @ \cup {a}]>>, s), a, st.goto)
           ELSE First(<<down>>, s)

\* hooks.stop of a delay: its timeout is cleared.
StopQueue(s) ==
  IF s.hooks.stop = NoItem THEN s
  ELSE [s EXCEPT !.items[s.hooks.stop].armed = FALSE, !.hooks.stop = NoItem]

\* fn.finish's loop at index i.
FinishLoop(s, st) ==
  IF st.i = 0 THEN s
  ELSE IF st.i > Len(s.timers) THEN Throws(s)
  ELSE LET a == s.timers[st.i]
           down == [st EXCEPT !.i = @ - 1]
       IN  IF s.items[a].state = "pending" /\ s.items[a].queued
           THEN AnimationStop(First(<<Step("splice", NoItem, st.i, FALSE), down>>, s), a, TRUE)
           ELSE First(<<down>>, s)

\* An animation's finish: it is started, or ended if it has been.
FinishItem(s, a) ==
  IF s.items[a].kind = "delay" THEN s
  ELSE IF s.items[a].ran THEN AnimationStop(s, a, TRUE) ELSE DoAnimation(s, a)

\* One step of the call in progress.
Proceed(over) ==
  /\ fx.todo # << >> /\ calls' = calls
  /\ LET st == fx.todo[1]
         s == [fx EXCEPT !.todo = Tail(@)]
     IN  /\ over => st.op = "tick" /\ st.i <= Len(s.timers)
         /\ fx' = CASE st.op = "page" -> s
                    [] st.op = "dequeue" -> Dequeue(s)
                    [] st.op = "run" -> Run(s, st.a)
                    [] st.op = "ran" -> Ran(s, st.a)
                    [] st.op = "complete" -> Complete(s, st.a)
                    [] st.op = "uncount" -> Uncount(s)
                    [] st.op = "tick" -> Tick(s, st.i, over)
                    [] st.op = "ticked" -> Ticked(s, st.i, st.a)
                    [] st.op = "splice" -> [s EXCEPT !.timers = Splice(@, st.i)]
                    [] st.op \in {"stop", "stopfx"} -> StopLoop(s, st)
                    [] st.op = "stopqueue" -> StopQueue(s)
                    [] st.op = "stoptimers" ->
                         First(<<Step(IF st.i = 1 THEN "stopfx" ELSE "stop", NoItem,
                                      Len(s.timers), st.goto)>>, s)
                    [] st.op = "finish" -> FinishItem(s, st.a)
                    [] st.op = "finishtimers" ->
                         First(<<Step("finishloop", NoItem, Len(s.timers), TRUE)>>, s)
                    [] st.op = "finishloop" -> FinishLoop(s, st)
                    [] st.op = "finished" -> [s EXCEPT !.finish = FALSE]
-----------------------------------------------------------------------------
(* Calls of the page, and of the browser's timers.                         *)

\* The page's code runs between calls and in a callback.
PageRunsFx == IF fx.todo = << >> THEN TRUE ELSE fx.todo[1].op = "page"

PageCall(s) == PageRunsFx /\ calls < MaxCalls /\ calls' = calls + 1 /\ fx' = s

\* animate, and delay, whose function is queued the same way; an animation with
\* queue: false, or of no properties, is begun at once.
Animate(kind, queued, instant) ==
  /\ Len(fx.items) < MaxItems
  /\ kind = "delay" => queued /\ ~instant
  /\ LET a == Len(fx.items) + 1
         s == [fx EXCEPT !.items = Append(@, NewItem(kind, queued, instant))]
     IN  PageCall(IF queued THEN FnQueue(Queue(s, a))
                  ELSE First(<<DoItem("run", a)>>, s))

\* clearQueue(): fn.queue with an empty array.
ClearQueue == fx.queue # << >> /\ PageCall(FnQueue([fx EXCEPT !.queue = << >>]))

\* fn.dequeue.
FnDequeue == fx.queue # << >> /\ PageCall(Dequeue(fx))

\* promise(): resolved at once unless there are hooks.
Promise ==
  /\ fx.hooks.on /\ ~fx.hooks.waiting
  /\ PageCall([fx EXCEPT !.hooks.waiting = TRUE])

\* stop(type, clearQueue, gotoEnd), with the type "fx" or none.
Stop(typed, clear, goto) ==
  LET rest == <<Do("stopqueue"), Step("stoptimers", NoItem, IF typed THEN 1 ELSE 0, goto)>>
      s == First(rest, fx)
  IN  /\ fx.items # << >>
      /\ PageCall(IF clear THEN FnQueue([s EXCEPT !.queue = << >>]) ELSE s)

\* finish(): the item in progress, the animations that run, those in the queue.
Finish ==
  LET old == SelectSeq(fx.queue, LAMBDA a : a # InProgress)
      cur == IF fx.hooks.cur = NoItem THEN << >> ELSE <<DoItem("finish", fx.hooks.cur)>>
      queued == [k \in DOMAIN old |-> DoItem("finish", old[k])]
  IN  /\ fx.items # << >>
      /\ PageCall(First(cur \o <<Do("finishtimers")>> \o queued \o <<Do("finished")>>,
                        [fx EXCEPT !.finish = TRUE, !.queue = << >>]))

\* The interval.
Interval ==
  /\ fx.todo = << >> /\ fx.timerId
  /\ fx' = First(<<Step("tick", NoItem, 1, FALSE)>>, fx)
  /\ UNCHANGED calls

\* The timeout of a delay calls next.
DelayOver(a) ==
  /\ fx.todo = << >> /\ a \in DOMAIN fx.items /\ fx.items[a].armed
  /\ fx' = Dequeue([fx EXCEPT !.items[a].armed = FALSE])
  /\ UNCHANGED calls

FxNext ==
  \/ \E over \in BOOLEAN : Proceed(over)
  \/ \E kind \in {"anim", "delay"}, queued, instant \in BOOLEAN : Animate(kind, queued, instant)
  \/ ClearQueue \/ FnDequeue \/ Promise \/ Finish \/ Interval
  \/ \E typed, clear, goto \in BOOLEAN : Stop(typed, clear, goto)
  \/ \E a \in Items : DelayOver(a)

-----------------------------------------------------------------------------
(* Properties.                                                             *)

\* Something that will dequeue: a delay whose timeout is pending, or an animation
\* from the queue that runs and that the interval still ticks.
WillDequeue(s) ==
  \E a \in DOMAIN s.items :
    \/ s.items[a].armed
    \/ s.items[a].queued /\ Runs(s, a) /\ a \in ToSet(s.timers) /\ s.timerId

\* Between calls, a queue that holds anything will be dequeued.  Excepted are a
\* stop to the end that ended animations with queue: false only, after which
\* nothing dequeues, and a loop over the timers that threw.  (dequeue, stop,
\* finish, complete, tick)
QueueMoves ==
  fx.todo = << >> /\ fx.queue # << >> /\ ~fx.forced /\ ~fx.threw => WillDequeue(fx)

\* Between calls, hooks.unqueued counts the animations with queue: false that
\* run, and while a promise waits, one of them runs or the queue will be dequeued:
\* the promise is neither resolved early nor forgotten.  (promise,
\* defaultPrefilter, dequeue)
PromiseRight ==
  fx.todo = << >> /\ ~fx.threw =>
    /\ fx.hooks.unqueued = Cardinality(Unqueued(fx))
    /\ fx.hooks.waiting /\ ~fx.forced => Unqueued(fx) # {} \/ WillDequeue(fx)
=============================================================================
