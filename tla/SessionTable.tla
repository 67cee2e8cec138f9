---------------------------- MODULE SessionTable ----------------------------
(***************************************************************************)
(* The online users of one SessionServer: the map users_, the User objects *)
(* it owns, the timeout wheel that links them, and the counters of         *)
(* connects and disconnects.  Everything runs on the event loop, so a      *)
(* handler is one step, except for two that loop: the timer callback is    *)
(* split into its iterations, as each of them changes the list the callback*)
(* is walking over, and a message to several users is split into its       *)
(* sends.  No other handler runs in between.                               *)
(***************************************************************************)
EXTENDS UserCircleQueue

CONSTANTS
  Uids,             \* user names
  Freed,            \* an address with no User at it
  Idle,             \* no timer callback is running
  ServerHeartbeat,  \* FLAGS_is_server_heartbeat
  OfflineCounts     \* how many offline messages a login may find

ASSUME SessionTableAssumption ==
  /\ Null \notin Uids
  /\ Idle \notin Objects \cup {Null}
  /\ ServerHeartbeat \in BOOLEAN
  /\ OfflineCounts \subseteq Nat
  /\ Freed \notin [uid : Uids, type : {"stream", "polling"}]

VARIABLES
  running,   \* is the event loop running?
  users,     \* users_: the User of every online name, else Null
  user,      \* the User objects: uid_ and type_, or Freed
  queue,     \* timeout_queue_ with the links inside the User objects
  cur,       \* the iterator of OnTimer, Idle outside of it
  sending,   \* the names the running handler still has to send to
  online,    \* user_connect - user_disconnect of the statistics
  unsent     \* offline messages the latest login had no live User for

vars == <<running, users, user, queue, cur, sending, online, unsent>>

Types == {"stream", "polling"}

Init ==
  /\ running = TRUE
  /\ users = [u \in Uids |-> Null]
  /\ user = [o \in Objects |-> Freed]
  /\ queue = NewQueue
  /\ cur = Idle
  /\ sending = {}
  /\ online = 0
  /\ unsent = 0

-----------------------------------------------------------------------------
(* Handlers call each other, so their effects are operators on the part of *)
(* the state they share.                                                   *)
Table == [users |-> users, user |-> user, queue |-> queue, online |-> online]

Becomes(t) ==
  /\ users' = t.users
  /\ user' = t.user
  /\ queue' = t.queue
  /\ online' = t.online

\* A user erased from users_ while its object stays linked into the wheel.
OnUserDisconnectStillLinked(t, o) ==
  LET uid == t.user[o].uid
      erased == t.users[uid]
  IN  [users  |-> [t.users EXCEPT ![uid] = Null],
       user   |-> [t.user EXCEPT ![erased] = Freed],
       queue  |-> ResetUser(t.queue, erased),
       online |-> t.online - 1]

\* OnUserDisconnect: users_ holds the only reference, so erasing the name
\* destroys the User it stands for.
OnUserDisconnect(t, o) ==
  LET uid == t.user[o].uid
      erased == t.users[uid]
  IN  [users  |-> [t.users EXCEPT ![uid] = Null],
       user   |-> [t.user EXCEPT ![erased] = Freed],
       queue  |-> ResetUser(RemoveUser(t.queue, o), erased),
       online |-> t.online - 1]

\* User::Close.  It marks the session closed and removes its close callback,
\* so the session reports no disconnect of its own later.
Close(t, o) == OnUserDisconnect(t, o)

\* User::Send: one message is all a polling request waits for.
Send(t, o) == IF t.user[o].type = "polling" THEN Close(t, o) ELSE t

\* A send to a name, which is dropped when the name is not online.
SendTo(t, uid) == IF t.users[uid] = Null THEN t ELSE Send(t, t.users[uid])

\* The replaced User survives the relogin, as it would with a reference to it
\* in the callbacks of its session.
LoginKeepsOld(t, uid, type, o) ==
  LET old == t.users[uid]
      new == ResetUser(t.queue, o)
      rest == IF old = Null THEN new ELSE RemoveUser(new, old)
  IN  [users  |-> [t.users EXCEPT ![uid] = o],
       user   |-> [t.user EXCEPT ![o] = [uid |-> uid, type |-> type]],
       queue  |-> PushUserBack(rest, o),
       online |-> IF old = Null THEN t.online + 1 ELSE t.online]

\* The relogin is counted as one more connect.
LoginCountTwice(t, uid, type, o) ==
  LET old == t.users[uid]
      new == ResetUser(t.queue, o)
      rest == IF old = Null THEN new
              ELSE ResetUser(RemoveUser(new, old), old)
  IN  [users  |-> [t.users EXCEPT ![uid] = o],
       user   |-> [x \in Objects |-> IF x = o THEN [uid |-> uid, type |-> type]
                                     ELSE IF x = old THEN Freed ELSE t.user[x]],
       queue  |-> PushUserBack(rest, o),
       online |-> t.online + 1]

\* The authenticated part of Connect up to PushUserBack: a User is constructed
\* at address o, and the one it replaces in users_ leaves the wheel and is
\* destroyed without being counted as a disconnect.
Login(t, uid, type, o) ==
  LET old == t.users[uid]
      new == ResetUser(t.queue, o)
      rest == IF old = Null THEN new
              ELSE ResetUser(RemoveUser(new, old), old)
  IN  [users  |-> [t.users EXCEPT ![uid] = o],
       user   |-> [x \in Objects |-> IF x = o THEN [uid |-> uid, type |-> type]
                                     ELSE IF x = old THEN Freed ELSE t.user[x]],
       queue  |-> PushUserBack(rest, o),
       online |-> IF old = Null THEN t.online + 1 ELSE t.online]

-----------------------------------------------------------------------------
\* The event loop is between two callbacks.
Ready == running /\ cur = Idle /\ sending = {}

\* Connect: log in, then send the n offline messages.  The first one sent to
\* a polling user destroys it; the loop goes on with the erased iterator,
\* which either goes unnoticed or ends the process.
Connect(uid, type, n) ==
  /\ Ready
  /\ \E o \in Objects :
       /\ user[o] = Freed
       /\ LET t == Login(Table, uid, type, o)
          IN  Becomes(IF n > 0 THEN Send(t, o) ELSE t)
  /\ unsent' = IF type = "polling" /\ n > 1 THEN n - 1 ELSE 0
  /\ running' \in IF unsent' = 0 THEN {TRUE} ELSE BOOLEAN
  /\ UNCHANGED <<cur, sending>>

\* Disconnect: the admin request to close a user.
Disconnect(uid) ==
  /\ Ready
  /\ users[uid] # Null
  /\ Becomes(Close(Table, users[uid]))
  /\ UNCHANGED <<running, cur, sending, unsent>>

\* User::OnSessionDisconnected: the connection of a live session is gone.
OnSessionDisconnected(o) ==
  /\ Ready
  /\ user[o] # Freed
  /\ Becomes(OnUserDisconnect(Table, o))
  /\ UNCHANGED <<running, cur, sending, unsent>>

\* OnUserMessage on the session of User o.  The message is sent to the users
\* tos: nobody for a heartbeat, an acknowledgement or a subscription, one user
\* or the users of a channel otherwise.
OnUserMessage(o, tos) ==
  /\ Ready
  /\ user[o] # Freed
  /\ LET from == users[user[o].uid]
     IN  queue' = IF from = Null THEN queue ELSE PushUserBack(queue, from)
  /\ sending' = tos
  /\ UNCHANGED <<running, users, user, cur, online, unsent>>

\* A message that did not come from one of the sessions: Pub or a peer.
Deliver(tos) ==
  /\ Ready
  /\ tos # {}
  /\ sending' = tos
  /\ UNCHANGED <<running, users, user, queue, cur, online, unsent>>

\* One iteration of SendChannelMsg, or the only send of SendUserMsg.
SendNext(uid) ==
  /\ running
  /\ uid \in sending
  /\ Becomes(SendTo(Table, uid))
  /\ sending' = sending \ {uid}
  /\ UNCHANGED <<running, cur, unsent>>

-----------------------------------------------------------------------------
\* OnTimer takes a copy of the front list and an iterator on it ...
OnTimerStart ==
  /\ Ready
  /\ cur' = queue.buffer[queue.head].head
  /\ UNCHANGED <<running, users, user, queue, sending, online, unsent>>

\* The iterator is advanced after the user has been closed.
OnTimerUserLateNext ==
  /\ running
  /\ cur \in Objects
  /\ LET t == IF ServerHeartbeat /\ user[cur].type # "polling"
                THEN Table ELSE Close(Table, cur)
     IN  Becomes(t) /\ cur' = t.queue.next[cur]
  /\ UNCHANGED <<running, sending, unsent>>

\* ... closes the users on it, or sends them a heartbeat, where the iterator
\* is advanced before the user it was on may be destroyed ...
OnTimerUser ==
  /\ running
  /\ cur \in Objects
  /\ cur' = queue.next[cur]
  /\ Becomes(IF ServerHeartbeat /\ user[cur].type # "polling"
               THEN Table ELSE Close(Table, cur))
  /\ UNCHANGED <<running, sending, unsent>>

\* ... and turns the wheel.
OnTimerEnd ==
  /\ running
  /\ cur = Null
  /\ queue' = IncHead(queue)
  /\ cur' = Idle
  /\ UNCHANGED <<running, users, user, sending, online, unsent>>

\* A signal: users_ is cleared and the loop is left.  The wheel keeps its
\* pointers, and no callback looks at it any more.
Stop ==
  /\ Ready
  /\ running' = FALSE
  /\ users' = [u \in Uids |-> Null]
  /\ user' = [o \in Objects |-> Freed]
  /\ UNCHANGED <<queue, cur, sending, online, unsent>>

\* The process is started again.
Start ==
  /\ ~running
  /\ running' = TRUE
  /\ users' = [u \in Uids |-> Null]
  /\ user' = [o \in Objects |-> Freed]
  /\ queue' = NewQueue
  /\ cur' = Idle
  /\ sending' = {}
  /\ online' = 0
  /\ unsent' = 0

Next ==
  \/ \E uid \in Uids, type \in Types, n \in OfflineCounts : Connect(uid, type, n)
  \/ \E uid \in Uids : Disconnect(uid) \/ SendNext(uid)
  \/ \E o \in Objects : OnSessionDisconnected(o)
  \/ \E o \in Objects, tos \in SUBSET Uids : OnUserMessage(o, tos)
  \/ \E tos \in SUBSET Uids : Deliver(tos)
  \/ OnTimerStart
  \/ OnTimerUser
  \/ OnTimerEnd
  \/ Stop
  \/ Start

\* The timer event is persistent and the loop serves it, however often other
\* handlers run before it; a handler that has begun runs to its end.
Fairness ==
  /\ SF_vars(OnTimerStart)
  /\ WF_vars(OnTimerUser)
  /\ WF_vars(OnTimerEnd)
  /\ WF_vars(\E uid \in Uids : SendNext(uid))

Spec == Init /\ [][Next]_vars /\ Fairness

-----------------------------------------------------------------------------
Live == {o \in Objects : user[o] # Freed}

TypeOK ==
  /\ running \in BOOLEAN
  /\ users \in [Uids -> Objects \cup {Null}]
  /\ user \in [Objects -> [uid : Uids, type : Types] \cup {Freed}]
  /\ queue \in QueueType
  /\ cur \in Objects \cup {Null, Idle}
  /\ sending \subseteq Uids
  /\ online \in Int

\* users_ owns every User object there is and holds each under its own name
\* (Connect, OnUserDisconnect): a relogin never leaves two of them behind,
\* and no disconnect erases the User of somebody else's session.
UsersOwnObjects ==
  running =>
    /\ {users[u] : u \in Uids} \ {Null} = Live
    /\ \A u \in Uids : users[u] # Null => user[users[u]].uid = u

\* The users linked into bucket b, by their own account.
InBucket(b) == {o \in Live : queue.queue_index[o] = b}

\* Every bucket of the wheel (DLinkedList::Remove, PushBack) is a well-formed
\* list of exactly the users that carry its index, forwards and backwards,
\* with the right size and ends, and every online user is in one.
BucketsLinked ==
  running =>
    /\ \A o \in Live : queue.queue_index[o] # -1
    /\ \A b \in Buckets :
         LET list == queue.buffer[b]
             n == Cardinality(InBucket(b))
         IN  /\ list.size = n
             /\ Chain(queue.next, list.head) = InBucket(b)
             /\ Chain(queue.prev, list.tail) = InBucket(b)
             /\ n > 0 => /\ Follow(queue.next, list.head, n - 1) = list.tail
                         /\ Follow(queue.prev, list.tail, n - 1) = list.head

\* No link of the wheel and no iterator of OnTimer leads to a destroyed User,
\* and neighbours agree on being neighbours, after every sequence of logins,
\* relogins, closes and messages (RemoveUser, PushUserBack, OnTimer).
LinksMatch ==
  running =>
    /\ Linked(queue, Live)
    /\ cur # Idle => cur \in InBucket(queue.head) \cup {Null}

\* OnTimer walks over a list its own body takes users from.  Every user of the
\* front bucket that has to be closed at this tick is still ahead of it.
TimerReachesAll ==
  running /\ cur # Idle =>
    \A o \in InBucket(queue.head) :
      ~ServerHeartbeat \/ user[o].type = "polling" =>
        o \in Chain(queue.next, cur)

\* The connects counted less the disconnects counted are the users online:
\* a relogin counts as neither, and no close is counted twice.
OnlineCounted == running => online = Cardinality(Live)

\* Every offline message a login fetched was sent while its User was alive.
OfflineAllSent == unsent = 0

\* A user that stops talking does not stay: it is infinitely often offline,
\* or heard of, or logging in again.
SilentUserExpires ==
  \A u \in Uids :
    \/ []<>(users[u] = Null)
    \/ []<><<\/ \E type \in Types, n \in OfflineCounts : Connect(u, type, n)
             \/ \E o \in Objects, tos \in SUBSET Uids :
                  user[o] # Freed /\ user[o].uid = u /\ OnUserMessage(o, tos)>>_vars

-----------------------------------------------------------------------------
\* The ticks until the bucket of an online user is reached.
Left ==
  [u \in Uids |->
     IF users[u] = Null THEN 0
     ELSE ((queue.queue_index[users[u]] - queue.head + Size) % Size) + 1]

Polling == {u \in Uids : users[u] # Null /\ user[users[u]].type = "polling"}

Ticking == running /\ cur # Idle

Timeout ==
  INSTANCE IdleTimeout WITH left <- Left, polling <- Polling, ticking <- Ticking

\* The wheel keeps the promise of IdleTimeout: with timeout_counter_ buckets a
\* silent user is closed at exactly that many ticks after it was last heard
\* of, whatever logins, messages, closes and relogins move it around.
ImplementsIdleTimeout == Timeout!Spec
=============================================================================
