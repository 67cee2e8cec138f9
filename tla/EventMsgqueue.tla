---------------------------- MODULE EventMsgqueue ----------------------------
(***************************************************************************)
(* The bounded queue through which other threads run code in the main loop *)
(* (event_msgqueue.c, loop_executor.cc): the driver's threads, the         *)
(* authentication threads and the receiving thread of the peers push       *)
(* closures; the loop is woken by a byte on a socket pair, takes them out  *)
(* one by one and calls them.  The loop pushes too: the driver runs the    *)
(* callback of a query that is already answered in the thread that asked.  *)
(* A closure is the number of its call to RunInMainLoop.                   *)
(***************************************************************************)
EXTENDS Naturals, Sequences

CONSTANTS
  Threads,         \* the threads that call RunInMainLoop
  Loop,            \* the one of them that runs the event loop
  NoThread,        \* no holder of the lock
  max_entries,     \* 1000000
  array_elements,  \* nextpow2(max_entries)
  RecvMax,         \* bytes taken by one recv: 64
  MaxPushed        \* bound: calls of RunInMainLoop

ASSUME QueueAssumption ==
  /\ Loop \in Threads /\ NoThread \notin Threads
  /\ max_entries \in Nat \ {0} /\ array_elements \in Nat /\ max_entries <= array_elements
  /\ \E k \in 0..array_elements : array_elements = 2^k
  /\ RecvMax \in Nat \ {0} /\ MaxPushed \in Nat

VARIABLES
  head, tail, count, entries,   \* struct circqueue
  wake,      \* bytes in the socket pair
  lock,      \* the thread that holds the lock
  pc,        \* "idle"; "trying", about to push; "pushed", about to send the byte
  closure,   \* what a thread is pushing
  loop,      \* "dispatch", "popping" in msgqueue_pop, or "callback"
  made,      \* calls of RunInMainLoop
  pushed,    \* history: the closures in the order of their pushes
  called     \* history: the closures in the order of their calls

queueVars == <<head, tail, count, entries, wake, lock, pc, closure, loop, made, pushed, called>>

QueueSlots == 0..(array_elements - 1)

\* Shape of the variables.
QueueTypeOK ==
  /\ head \in QueueSlots /\ tail \in QueueSlots
  /\ count \in 0..max_entries
  /\ entries \in [QueueSlots -> 0..MaxPushed]
  /\ wake \in Nat
  /\ lock \in Threads \cup {NoThread}
  /\ pc \in [Threads -> {"idle", "trying", "pushed"}]
  /\ closure \in [Threads -> 0..MaxPushed]
  /\ loop \in {"dispatch", "popping", "callback"}
  /\ made \in 0..MaxPushed
  /\ pushed \in Seq(0..MaxPushed)
  /\ called \in Seq(0..MaxPushed)

\* msgqueue_new; the entries are uninitialized, 0 stands for what is there.
QueueInit ==
  /\ head = 0 /\ tail = 0 /\ count = 0
  /\ entries = [s \in QueueSlots |-> 0]
  /\ wake = 0 /\ lock = NoThread
  /\ pc = [t \in Threads |-> "idle"]
  /\ closure = [t \in Threads |-> 0]
  /\ loop = "dispatch" /\ made = 0
  /\ pushed = << >> /\ called = << >>

-----------------------------------------------------------------------------
\* A thread calls RunInMainLoop.  The loop does so from a handler or a callback.
RunInMainLoop(t) ==
  /\ pc[t] = "idle" /\ made < MaxPushed
  /\ t = Loop => loop # "popping"
  /\ pc' = [pc EXCEPT ![t] = "trying"]
  /\ made' = made + 1
  /\ closure' = [closure EXCEPT ![t] = made + 1]
  /\ UNCHANGED <<head, tail, count, entries, wake, lock, loop, pushed, called>>

\* The bound is not looked at.
HasRoomAlways == TRUE

HasRoom == count # max_entries

Wrap(i) == i % array_elements

\* msgqueue_push takes the lock and appends the closure.
PushTail(t) ==
  /\ pc[t] = "trying" /\ lock = NoThread
  /\ HasRoom
  /\ lock' = t
  /\ count' = count + 1
  /\ entries' = [entries EXCEPT ![tail] = closure[t]]
  /\ tail' = Wrap(tail + 1)
  /\ pc' = [pc EXCEPT ![t] = "pushed"]
  /\ pushed' = Append(pushed, closure[t])
  /\ UNCHANGED <<head, wake, closure, loop, made, called>>

\* The queue is full: the thread tries again 100 ms later.
PushFull(t) ==
  /\ pc[t] = "trying" /\ lock = NoThread
  /\ ~HasRoom
  /\ UNCHANGED queueVars

\* A byte is sent when there was something in the queue, not when there was
\* nothing.
WakesIfMore == count = 2

Wakes == count = 1

\* It sends a byte if the queue was empty, and releases the lock.
PushSend(t) ==
  /\ pc[t] = "pushed"
  /\ wake' = IF Wakes THEN wake + 1 ELSE wake
  /\ lock' = NoThread
  /\ pc' = [pc EXCEPT ![t] = "idle"]
  /\ UNCHANGED <<head, tail, count, entries, closure, loop, made, pushed, called>>

-----------------------------------------------------------------------------
\* The socket is readable: msgqueue_pop takes the bytes, before it takes the lock.
PopWake ==
  /\ loop = "dispatch" /\ pc[Loop] = "idle"
  /\ wake > 0
  /\ wake' = IF wake > RecvMax THEN wake - RecvMax ELSE 0
  /\ loop' = "popping"
  /\ UNCHANGED <<head, tail, count, entries, lock, pc, closure, made, pushed, called>>

\* Under the lock, the oldest closure is taken out; the lock is released before
\* it is called.
PopHead ==
  /\ loop = "popping" /\ lock = NoThread
  /\ count # 0
  /\ count' = count - 1
  /\ head' = Wrap(head + 1)
  /\ called' = Append(called, entries[head])
  /\ loop' = "callback"
  /\ UNCHANGED <<tail, entries, wake, lock, pc, closure, made, pushed>>

\* The queue is empty: back to the event loop.
PopEnd ==
  /\ loop = "popping" /\ lock = NoThread
  /\ count = 0
  /\ loop' = "dispatch"
  /\ UNCHANGED <<head, tail, count, entries, wake, lock, pc, closure, made, pushed, called>>

\* The closure returns.
CallbackDone ==
  /\ loop = "callback" /\ pc[Loop] = "idle"
  /\ loop' = "popping"
  /\ UNCHANGED <<head, tail, count, entries, wake, lock, pc, closure, made, pushed, called>>

QueueNext ==
  \/ \E t \in Threads : RunInMainLoop(t) \/ PushTail(t) \/ PushFull(t) \/ PushSend(t)
  \/ PopWake \/ PopHead \/ PopEnd \/ CallbackDone

QueueSpec == QueueInit /\ [][QueueNext]_queueVars

\* A thread inside msgqueue_push goes on, the loop serves its events and its
\* callbacks return.  The lock is not held across a wait, and once the queue is
\* full no push succeeds before a pop: weak fairness is enough.  Nothing is
\* assumed of when threads call RunInMainLoop.
QueueFairness ==
  /\ \A t \in Threads : WF_queueVars(PushTail(t)) /\ WF_queueVars(PushSend(t))
  /\ WF_queueVars(PopWake) /\ WF_queueVars(PopHead) /\ WF_queueVars(PopEnd)
  /\ WF_queueVars(CallbackDone)

-----------------------------------------------------------------------------
(* Properties.                                                             *)

\* The loop itself waits for room that only it can make (DoRunInMainLoop tries
\* for ever).
LoopBlocked == pc[Loop] = "trying" /\ count = max_entries

\* A byte is on its way, or the loop is already taking closures out, whenever
\* there is something in the queue: msgqueue_pop takes the bytes before the
\* lock, and msgqueue_push sends one only into an empty queue.
WakeupPending ==
  count > 0 => wake > 0 \/ loop # "dispatch" \/ lock # NoThread

\* What is called is what was pushed, each once and in the order of the pushes,
\* whatever the circular buffer wraps around and however the pushes of several
\* threads meet the pops (circqueue_push_tail, circqueue_pop_head).
CalledInOrder ==
  /\ Len(called) + count = Len(pushed)
  /\ \A i \in 1..Len(called) : called[i] = pushed[i]

\* Every closure that was pushed is called, unless the loop blocks itself
\* (msgqueue_push, msgqueue_pop, DoRunInMainLoop).
ClosuresRun ==
  \A i \in 1..MaxPushed : Len(pushed) >= i ~> Len(called) >= i \/ LoopBlocked

=============================================================================
