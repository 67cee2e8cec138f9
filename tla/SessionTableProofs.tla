------------------------- MODULE SessionTableProofs -------------------------
(***************************************************************************)
(* For every set of user names and addresses, every wheel size and both    *)
(* heartbeat settings: the links of the timeout wheel stay consistent,     *)
(* users_ owns exactly the live User objects, and the statistics count the *)
(* users online.  First what each operation of the wheel does to a         *)
(* consistent set of links, then one step per action.                      *)
(***************************************************************************)
EXTENDS SessionTable, UserCircleQueueProofs

-----------------------------------------------------------------------------
(* The same for the part of the state the handlers share.                  *)
LiveIn(t) == {o \in Objects : t.user[o] # Freed}

TableType ==
  [users : [Uids -> Objects \cup {Null}],
   user : [Objects -> [uid : Uids, type : Types] \cup {Freed}],
   queue : QueueType,
   online : Int]

Owned(t) ==
  /\ \A u \in Uids : t.users[u] # Null =>
       t.users[u] \in LiveIn(t) /\ t.user[t.users[u]].uid = u
  /\ \A o \in LiveIn(t) : t.users[t.user[o].uid] = o

Good(t) ==
  /\ t \in TableType
  /\ Owned(t)
  /\ Wheel(t.queue, LiveIn(t))
  /\ t.online = Cardinality(LiveIn(t))

LEMMA LiveFinite ==
  ASSUME NEW t
  PROVE  IsFiniteSet(LiveIn(t)) /\ LiveIn(t) \in SUBSET Objects
<1>1. LiveIn(t) \in SUBSET Objects
  BY DEF LiveIn
<1> QED
  BY <1>1, UserCircleQueueAssumption, FS_Subset

\* The users of the names V are the same, and in the same buckets.
Same(t, r, V) ==
  /\ r.queue.head = t.queue.head
  /\ \A v \in V :
       /\ r.users[v] = t.users[v]
       /\ t.users[v] # Null =>
            /\ r.user[t.users[v]] = t.user[t.users[v]]
            /\ r.queue.queue_index[t.users[v]] = t.queue.queue_index[t.users[v]]

\* What OnUserDisconnect leaves behind.
LEMMA DisconnectGood ==
  ASSUME NEW t, Good(t), NEW o \in LiveIn(t)
  PROVE  LET r == OnUserDisconnect(t, o) IN
         /\ Good(r)
         /\ LiveIn(r) = LiveIn(t) \ {o}
         /\ r.queue.head = t.queue.head
         /\ \A x \in LiveIn(t) \ {o} :
              r.queue.queue_index[x] = t.queue.queue_index[x]
         /\ r.queue = ResetUser(RemoveUser(t.queue, o), o)
         /\ r.users = [t.users EXCEPT ![t.user[o].uid] = Null]
         /\ r.user = [t.user EXCEPT ![o] = Freed]
<1> DEFINE r == OnUserDisconnect(t, o)
           L == LiveIn(t)
           uid == t.user[o].uid
           q1 == RemoveUser(t.queue, o)
           q2 == ResetUser(q1, o)
<1>1. o \in Objects /\ t \in TableType /\ Owned(t) /\ L \in SUBSET Objects
  BY DEF Good, LiveIn
<1>2. uid \in Uids /\ t.users[uid] = o
  BY <1>1 DEF TableType, Owned, LiveIn
<1>3. /\ q1 \in QueueType /\ q1.head = t.queue.head
      /\ q1.queue_index = t.queue.queue_index /\ Wheel(q1, L \ {o})
  <2> HIDE DEF L
  <2>1. t.queue \in QueueType /\ Wheel(t.queue, L)
    BY DEF Good, TableType, L
  <2> QED
    BY <1>1, <2>1, RemoveUserWheel DEF L
<1>4. /\ q2 \in QueueType /\ q2.head = t.queue.head /\ Wheel(q2, L \ {o})
      /\ \A x \in Objects \ {o} : q2.queue_index[x] = t.queue.queue_index[x]
  <2> HIDE DEF q1
  <2>1. L \ {o} \in SUBSET Objects /\ o \notin L \ {o}
    BY <1>1
  <2>2. Wheel(q2, L \ {o})
    BY <1>1, <1>3, <2>1, ResetUserWheel
  <2>3. /\ q2 \in QueueType /\ q2.head = q1.head
        /\ \A x \in Objects \ {o} : q2.queue_index[x] = q1.queue_index[x]
    BY <1>1, <1>3, ResetUserIs
  <2> QED
    BY <1>3, <2>2, <2>3
<1>5. /\ r.users = [t.users EXCEPT ![uid] = Null]
      /\ r.user = [t.user EXCEPT ![o] = Freed]
      /\ r.queue = q2
      /\ r.online = t.online - 1
      /\ r = [users |-> r.users, user |-> r.user, queue |-> r.queue,
              online |-> r.online]
  BY <1>2 DEF OnUserDisconnect
<1> HIDE DEF r, q1, q2
<1>6. r \in TableType
  <2>1. /\ r.users \in [Uids -> Objects \cup {Null}]
        /\ r.user \in [Objects -> [uid : Uids, type : Types] \cup {Freed}]
    BY <1>1, <1>5, Zenon DEF TableType
  <2>2. r.queue \in QueueType /\ r.online \in Int
    BY <1>1, <1>4, <1>5 DEF TableType
  <2> QED
    BY <1>5, <2>1, <2>2 DEF TableType
<1>7. LiveIn(r) = L \ {o}
  BY <1>1, <1>5 DEF TableType, LiveIn
<1>8. Owned(r)
  <2>1. ASSUME NEW u \in Uids, r.users[u] # Null
        PROVE  r.users[u] \in LiveIn(r) /\ r.user[r.users[u]].uid = u
    <3>1. u # uid /\ r.users[u] = t.users[u]
      BY <1>1, <1>5, <2>1 DEF TableType
    <3>2. t.users[u] \in L /\ t.user[t.users[u]].uid = u
      BY <1>1, <2>1, <3>1 DEF Owned
    <3>3. t.users[u] # o
      BY <3>1, <3>2
    <3> QED
      BY <1>1, <1>5, <1>7, <3>1, <3>2, <3>3 DEF TableType
  <2>2. ASSUME NEW x \in LiveIn(r)
        PROVE  r.users[r.user[x].uid] = x
    <3>1. x \in L /\ x # o /\ x \in Objects
      BY <1>1, <1>7
    <3>2. r.user[x] = t.user[x] /\ t.users[t.user[x].uid] = x
      BY <1>1, <1>5, <3>1 DEF TableType, Owned
    <3>3. t.user[x].uid # uid /\ t.user[x].uid \in Uids
      BY <1>1, <1>2, <3>1, <3>2 DEF TableType, LiveIn
    <3> QED
      BY <1>1, <1>5, <3>2, <3>3 DEF TableType
  <2> QED
    BY <2>1, <2>2 DEF Owned
<1>9. r.online = Cardinality(LiveIn(r))
  <2>1. IsFiniteSet(L)
    BY LiveFinite
  <2>2. t.online = Cardinality(L)
    BY DEF Good
  <2> HIDE DEF L
  <2>3. o \in L
    BY DEF L
  <2>4. Cardinality(L \ {o}) = Cardinality(L) - 1
    BY <2>1, <2>3, FS_RemoveElement
  <2> QED
    BY <1>5, <1>7, <2>2, <2>4
<1>10. Good(r)
  BY <1>4, <1>5, <1>6, <1>7, <1>8, <1>9 DEF Good
<1>11. r.queue = ResetUser(RemoveUser(t.queue, o), o)
  BY <1>5 DEF q1, q2
<1>12. r.users = [t.users EXCEPT ![t.user[o].uid] = Null] /\ r.user = [t.user EXCEPT ![o] = Freed]
  BY <1>5
<1> QED
  BY <1>1, <1>4, <1>5, <1>7, <1>10, <1>11, <1>12 DEF r

\* What Login leaves behind.
LoggedIn(t, r, u, o) ==
  /\ Good(r) /\ o \in LiveIn(r)
  /\ Same(t, r, Uids \ {u})
  /\ r.users[u] = o /\ r.user[o].uid = u
  /\ r.queue.queue_index[o] = (r.queue.head - 1 + Size) % Size

LEMMA LoginGood ==
  ASSUME NEW t, Good(t), NEW u \in Uids, NEW type \in Types,
         NEW o \in Objects, t.user[o] = Freed
  PROVE  LoggedIn(t, Login(t, u, type, o), u, o)
<1> DEFINE r == Login(t, u, type, o)
           L == LiveIn(t)
           old == t.users[u]
           new == ResetUser(t.queue, o)
           rest == IF old = Null THEN new ELSE ResetUser(RemoveUser(new, old), old)
           M == L \ {old}
<1>1. /\ t \in TableType /\ Owned(t) /\ L \in SUBSET Objects /\ o \notin L
      /\ t.queue \in QueueType /\ Wheel(t.queue, L)
  BY DEF Good, TableType, LiveIn
<1>2. old = Null \/ (old \in L /\ old # o /\ t.user[old].uid = u)
  BY <1>1 DEF Owned
<1>3. old # Null => old \in Objects
  BY <1>1, <1>2
<1> HIDE DEF L
<1>4. /\ new \in QueueType /\ new.queue_index[o] = -1 /\ Wheel(new, L)
      /\ new.head = t.queue.head
      /\ \A x \in Objects \ {o} : new.queue_index[x] = t.queue.queue_index[x]
  <2>1. /\ new \in QueueType /\ new.queue_index[o] = -1 /\ new.head = t.queue.head
        /\ \A x \in Objects \ {o} : new.queue_index[x] = t.queue.queue_index[x]
    BY <1>1, ResetUserIs
  <2> QED
    BY <1>1, <2>1, ResetUserWheel
<1>5. /\ rest \in QueueType /\ rest.queue_index[o] = -1 /\ Wheel(rest, M)
      /\ rest.head = t.queue.head
      /\ \A x \in Objects \ {o, old} : rest.queue_index[x] = t.queue.queue_index[x]
  <2>1. CASE old = Null
    <3>1. rest = new /\ M = L
      BY <1>1, <2>1, UserCircleQueueAssumption
    <3> QED
      BY <1>4, <3>1
  <2>2. CASE old # Null
    <3> DEFINE q1 == RemoveUser(new, old)
    <3>1. rest = ResetUser(q1, old)
      BY <2>2
    <3> HIDE DEF new, old
    <3>2. /\ q1 \in QueueType /\ Wheel(q1, M)
          /\ q1.queue_index = new.queue_index /\ q1.head = new.head
      BY <1>1, <1>2, <1>4, <2>2, RemoveUserWheel
    <3>3. M \in SUBSET Objects /\ old \notin M
      BY <1>1
    <3> HIDE DEF q1, M
    <3>4. Wheel(ResetUser(q1, old), M)
      BY <1>3, <2>2, <3>2, <3>3, ResetUserWheel
    <3>5. /\ ResetUser(q1, old) \in QueueType
          /\ ResetUser(q1, old).queue_index[o] = -1
          /\ ResetUser(q1, old).head = q1.head
          /\ \A x \in Objects \ {old} :
               ResetUser(q1, old).queue_index[x] = q1.queue_index[x]
      <4>1. /\ ResetUser(q1, old) \in QueueType
            /\ ResetUser(q1, old).head = q1.head
            /\ \A x \in Objects \ {old} :
                 ResetUser(q1, old).queue_index[x] = q1.queue_index[x]
        BY <1>3, <2>2, <3>2, ResetUserIs
      <4> QED
        BY <1>2, <1>4, <2>2, <3>2, <4>1
    <3> HIDE DEF rest
    <3>6. \A x \in Objects \ {o, old} : rest.queue_index[x] = t.queue.queue_index[x]
      BY <1>4, <3>1, <3>2, <3>5
    <3> QED
      BY <1>4, <3>1, <3>2, <3>4, <3>5, <3>6
  <2> QED
    BY <2>1, <2>2
<1>6. /\ PushUserBack(rest, o) \in QueueType /\ Wheel(PushUserBack(rest, o), M \cup {o})
      /\ PushUserBack(rest, o).head = rest.head
      /\ \A x \in Objects : PushUserBack(rest, o).queue_index[x] =
           IF x = o THEN (rest.head - 1 + Size) % Size ELSE rest.queue_index[x]
  <2> HIDE DEF rest
  <2>1. M \in SUBSET Objects
    BY <1>1
  <2> HIDE DEF M
  <2> QED
    BY <1>5, <2>1, PushUserBackWheel
<1>7. /\ r.users = [t.users EXCEPT ![u] = o]
      /\ r.user = [x \in Objects |-> IF x = o THEN [uid |-> u, type |-> type]
                                     ELSE IF x = old THEN Freed ELSE t.user[x]]
      /\ r.queue = PushUserBack(rest, o)
      /\ r.online = IF old = Null THEN t.online + 1 ELSE t.online
      /\ r = [users |-> r.users, user |-> r.user, queue |-> r.queue,
              online |-> r.online]
  BY DEF Login
<1> HIDE DEF r, rest
<1>8. r \in TableType
  <2>1. r.users \in [Uids -> Objects \cup {Null}]
    BY <1>1, <1>7 DEF TableType
  <2>2. r.user \in [Objects -> [uid : Uids, type : Types] \cup {Freed}]
    BY <1>1, <1>7 DEF TableType
  <2>3. r.queue \in QueueType /\ r.online \in Int
    BY <1>1, <1>6, <1>7 DEF TableType
  <2> QED
    BY <1>7, <2>1, <2>2, <2>3 DEF TableType
<1>9. LiveIn(r) = M \cup {o}
  <2>1. [uid |-> u, type |-> type] # Freed
    BY SessionTableAssumption DEF Types
  <2> QED
    BY <1>1, <1>7, <2>1 DEF LiveIn, L
<1>10. Owned(r)
  <2>1. ASSUME NEW v \in Uids, r.users[v] # Null
        PROVE  r.users[v] \in LiveIn(r) /\ r.user[r.users[v]].uid = v
    <3>1. CASE v = u
      BY <1>1, <1>7, <1>9, <3>1 DEF TableType
    <3>2. CASE v # u
      <4>1. r.users[v] = t.users[v]
        BY <1>1, <1>7, <3>2 DEF TableType
      <4>2. t.users[v] \in L /\ t.user[t.users[v]].uid = v
        BY <1>1, <2>1, <4>1 DEF Owned, L
      <4>3. t.users[v] # o /\ t.users[v] # old
        BY <1>1, <1>2, <3>2, <4>2, UserCircleQueueAssumption
      <4> QED
        BY <1>1, <1>7, <1>9, <4>1, <4>2, <4>3
    <3> QED
      BY <3>1, <3>2
  <2>2. ASSUME NEW x \in LiveIn(r)
        PROVE  r.users[r.user[x].uid] = x
    <3>1. CASE x = o
      BY <1>1, <1>7, <3>1 DEF TableType
    <3>2. CASE x # o
      <4>1. x \in L /\ x # old /\ x \in Objects
        BY <1>1, <1>9, <3>2
      <4>2. r.user[x] = t.user[x] /\ t.users[t.user[x].uid] = x
        BY <1>1, <1>7, <3>2, <4>1 DEF Owned, L
      <4>3. t.user[x].uid # u /\ t.user[x].uid \in Uids
        BY <1>1, <4>1, <4>2 DEF TableType, LiveIn, L
      <4> QED
        BY <1>1, <1>7, <4>2, <4>3 DEF TableType
    <3> QED
      BY <3>1, <3>2
  <2> QED
    BY <2>1, <2>2 DEF Owned
<1>11. r.online = Cardinality(LiveIn(r))
  <2>1. IsFiniteSet(L) /\ t.online = Cardinality(L) /\ Cardinality(L) \in Nat
    BY LiveFinite, FS_CardinalityType DEF Good, L
  <2>2. CASE old = Null
    <3>1. LiveIn(r) = L \cup {o}
      BY <1>1, <1>9, <2>2, UserCircleQueueAssumption
    <3>2. Cardinality(L \cup {o}) = Cardinality(L) + 1
      BY <1>1, <2>1, FS_AddElement, Zenon
    <3> QED
      BY <1>7, <2>1, <2>2, <3>1, <3>2
  <2>3. CASE old # Null
    <3>1. IsFiniteSet(M) /\ Cardinality(M) = Cardinality(L) - 1
      <4> HIDE DEF old
      <4> QED
        BY <1>2, <2>1, <2>3, FS_RemoveElement
    <3>2. o \notin M
      BY <1>1
    <3> HIDE DEF M
    <3>3. Cardinality(M \cup {o}) = Cardinality(M) + 1
      BY <3>1, <3>2, FS_AddElement, Zenon
    <3> QED
      BY <1>7, <1>9, <2>1, <2>3, <3>1, <3>3
  <2> QED
    BY <2>2, <2>3
<1>12. Good(r)
  BY <1>6, <1>7, <1>8, <1>9, <1>10, <1>11 DEF Good
<1>13. r.queue.head = t.queue.head
  BY <1>5, <1>6, <1>7
<1>14. ASSUME NEW v \in Uids \ {u}
       PROVE  /\ r.users[v] = t.users[v]
              /\ t.users[v] # Null =>
                   /\ r.user[t.users[v]] = t.user[t.users[v]]
                   /\ r.queue.queue_index[t.users[v]] = t.queue.queue_index[t.users[v]]
  <2>1. r.users[v] = t.users[v]
    BY <1>1, <1>7 DEF TableType
  <2>2. ASSUME t.users[v] # Null
        PROVE  /\ r.user[t.users[v]] = t.user[t.users[v]]
               /\ r.queue.queue_index[t.users[v]] = t.queue.queue_index[t.users[v]]
    <3>1. t.users[v] \in L /\ t.user[t.users[v]].uid = v
      BY <1>1, <2>2 DEF Owned, L
    <3>2. t.users[v] # o /\ t.users[v] # old /\ t.users[v] \in Objects
      BY <1>1, <1>2, <2>2, <3>1
    <3> QED
      BY <1>5, <1>6, <1>7, <3>2
  <2> QED
    BY <2>1, <2>2
<1>15. Same(t, r, Uids \ {u})
  BY <1>13, <1>14 DEF Same
<1>16. r.users[u] = o /\ r.user[o].uid = u
  BY <1>1, <1>7 DEF TableType
<1>17. r.queue.queue_index[o] = (r.queue.head - 1 + Size) % Size
  BY <1>6, <1>7
<1> QED
  <2>1. LoggedIn(t, r, u, o)
    BY <1>9, <1>12, <1>15, <1>16, <1>17 DEF LoggedIn
  <2> QED
    BY <2>1 DEF r

\* What User::Send, a send to a name, and the move of a user that was heard of
\* to the last bucket leave behind.
LEMMA SendGood ==
  ASSUME NEW t, Good(t), NEW o \in LiveIn(t)
  PROVE  Good(Send(t, o))
BY DisconnectGood, Zenon DEF Send, Close

LEMMA SendToGood ==
  ASSUME NEW t, Good(t), NEW u \in Uids
  PROVE  Good(SendTo(t, u))
<1>1. t.users[u] = Null \/ t.users[u] \in LiveIn(t)
  BY DEF Good, Owned
<1> QED
  BY <1>1, SendGood DEF SendTo

LEMMA PushGood ==
  ASSUME NEW t, Good(t), NEW o \in LiveIn(t), NEW r,
         r = [users |-> t.users, user |-> t.user,
              queue |-> PushUserBack(t.queue, o), online |-> t.online]
  PROVE  Good(r)
<1>1. /\ t.queue \in QueueType /\ Wheel(t.queue, LiveIn(t)) /\ o \in Objects
      /\ LiveIn(t) \in SUBSET Objects /\ LiveIn(t) \cup {o} = LiveIn(t)
  BY DEF Good, TableType, LiveIn
<1>2. r.queue \in QueueType /\ Wheel(r.queue, LiveIn(t))
  <2> DEFINE L == LiveIn(t)
  <2>1. o \in L
    OBVIOUS
  <2> HIDE DEF L
  <2>2. Wheel(PushUserBack(t.queue, o), L \cup {o}) /\ PushUserBack(t.queue, o) \in QueueType
    BY <1>1, <2>1, PushUserBackWheel DEF L
  <2> QED
    BY <1>1, <2>2 DEF L
<1>3. LiveIn(r) = LiveIn(t) /\ Owned(r)
  <2>1. LiveIn(r) = LiveIn(t)
    BY DEF LiveIn
  <2> QED
    BY <2>1 DEF Good, Owned
<1>4. r \in TableType
  BY <1>2 DEF Good, TableType
<1> QED
  BY <1>2, <1>3, <1>4 DEF Good

-----------------------------------------------------------------------------
(* The inductive invariant.  OnTimer needs more of the lists than that      *)
(* neighbours agree: an object that was its own successor would satisfy     *)
(* that, and its iterator would step onto the User it has just destroyed.   *)
CurOK ==
  cur # Idle => sending = {} /\ cur \in InBucket(queue.head) \cup {Null}

\* K are the users of the front bucket the iterator has left behind: the list
\* leads through them to the iterator, and none of them had to be closed.
Behind(K, q, u, p) ==
  /\ q.buffer[q.head].head \in K \cup {p}
  /\ \A o \in K : q.next[o] \in K \cup {p}
  /\ \A o \in K : ServerHeartbeat /\ u[o].type # "polling"

Passed ==
  cur # Idle => \E K \in SUBSET InBucket(queue.head) : Behind(K, queue, user, cur)

IInv == TypeOK /\ (running => Good(Table) /\ CurOK /\ Passed)

LEMMA LiveIs == LiveIn(Table) = Live
BY DEF LiveIn, Live, Table

\* A handler that leaves a good table behind and no callback running.
LEMMA HandlerIInv ==
  ASSUME IInv, NEW r, Good(r), Becomes(r), cur' = Idle, running' \in BOOLEAN,
         sending' \subseteq Uids
  PROVE  IInv'
<1>1. r \in TableType
  BY DEF Good
<1>2. Table' = r
  BY <1>1 DEF TableType, Becomes, Table
<1>3. TypeOK'
  BY <1>1 DEF TypeOK, TableType, Becomes
<1> QED
  BY <1>2, <1>3 DEF IInv, CurOK, Passed

LEMMA InitGood ==
  ASSUME NEW t,
         t = [users |-> [u \in Uids |-> Null], user |-> [o \in Objects |-> Freed],
              queue |-> NewQueue, online |-> 0]
  PROVE  Good(t)
<1>1. NewQueue \in QueueType
  <2>1. EmptyList \in [size : Int, head : Objects \cup {Null}, tail : Objects \cup {Null}]
    BY DEF EmptyList
  <2>2. 0 \in Buckets
    BY UserCircleQueueAssumption DEF Buckets
  <2> QED
    BY <2>1, <2>2 DEF NewQueue, QueueType
<1>2. LiveIn(t) = {}
  BY DEF LiveIn
<1>3. Wheel(NewQueue, {})
  <2>1. \A b \in Buckets : LinkedBucket(NewQueue, {}, b)
    BY DEF LinkedBucket, NewQueue, EmptyList
  <2>2. Acyclic(NewQueue, {})
    <3>1. [o \in Objects |-> 0] \in [Objects -> Int]
      OBVIOUS
    <3> QED
      BY <3>1, Zenon DEF Acyclic
  <2> QED
    <3>1. \A b \in Buckets : Listed(NewQueue, {}, b) = {} /\ NewQueue.buffer[b].size = 0
      BY DEF Listed, NewQueue, EmptyList
    <3>2. Sized(NewQueue, {})
      BY <3>1, FS_EmptySet DEF Sized
    <3> QED
      BY <2>1, <2>2, <3>2, Zenon DEF Wheel, Linked
<1>4. t \in TableType
  BY <1>1 DEF TableType
<1>5. Owned(t)
  BY <1>2 DEF Owned
<1>6. Cardinality(LiveIn(t)) = 0
  BY <1>2, FS_EmptySet
<1> QED
  BY <1>2, <1>3, <1>4, <1>5, <1>6 DEF Good

LEMMA InitIInv == Init => IInv
<1> SUFFICES ASSUME Init PROVE IInv
  OBVIOUS
<1>1. Good(Table)
  BY InitGood DEF Init, Table
<1>2. TypeOK
  BY <1>1 DEF Init, TypeOK, Good, TableType, Table
<1> QED
  BY <1>1, <1>2 DEF IInv, CurOK, Passed, Init

LEMMA OnTimerStartIInv ==
  ASSUME IInv, OnTimerStart
  PROVE  IInv'
<1>1. running /\ TypeOK /\ Good(Table) /\ queue \in QueueType /\ Wheel(queue, Live)
  BY LiveIs DEF IInv, OnTimerStart, Ready, Good, Table, TypeOK
<1>2. Table' = Table /\ Live' = Live /\ Live \in SUBSET Objects
  BY DEF OnTimerStart, Table, Live
<1>3. cur' # Null => cur' \in Live /\ queue.queue_index[cur'] = queue.head
  BY <1>1, <1>2, IteratorOK DEF OnTimerStart
<1>4. TypeOK'
  BY <1>1, <1>2, <1>3 DEF OnTimerStart, TypeOK
<1>5. CurOK'
  BY <1>2, <1>3 DEF OnTimerStart, Ready, CurOK, InBucket
<1>6. Passed'
  <2>1. {} \in SUBSET InBucket(queue.head)' /\ Behind({}, queue', user', cur')
    BY DEF OnTimerStart, Behind
  <2> QED
    BY <2>1 DEF Passed
<1> QED
  BY <1>1, <1>2, <1>4, <1>5, <1>6 DEF IInv

LEMMA OnTimerUserIInv ==
  ASSUME IInv, OnTimerUser
  PROVE  IInv'
<1>1. /\ running /\ TypeOK /\ Good(Table) /\ queue \in QueueType
      /\ Wheel(queue, Live) /\ Live \in SUBSET Objects
  BY LiveIs, Zenon DEF IInv, OnTimerUser, Good, Table, TypeOK, Live
<1>2. cur \in Live /\ queue.queue_index[cur] = queue.head /\ sending = {}
  BY SessionTableAssumption, UserCircleQueueAssumption
  DEF IInv, CurOK, OnTimerUser, InBucket
<1>3. cur' # Null => /\ cur' \in Live \ {cur}
                     /\ queue.queue_index[cur'] = queue.head
  BY <1>1, <1>2, IteratorOK DEF OnTimerUser
<1>4. cur # Idle /\ cur \in InBucket(queue.head) /\ cur' = queue.next[cur]
  BY <1>2, SessionTableAssumption DEF InBucket, Live, OnTimerUser
<1>5. PICK K \in SUBSET InBucket(queue.head) : Behind(K, queue, user, cur)
  BY <1>1, <1>4 DEF IInv, Passed
<1>6. CASE ServerHeartbeat /\ user[cur].type # "polling"
  <2>1. Becomes(Table)
    BY <1>6 DEF OnTimerUser
  <2>2. Table' = Table /\ Live' = Live /\ queue' = queue /\ user' = user
    BY <2>1 DEF Becomes, Table, Live
  <2>3. TypeOK'
    BY <1>1, <1>3, <2>1, <2>2 DEF OnTimerUser, TypeOK, Becomes, Table
  <2>4. CurOK'
    BY <1>2, <1>3, <2>2 DEF CurOK, InBucket, OnTimerUser
  <2>5. Passed'
    <3>1. Behind(K \cup {cur}, queue', user', cur')
      BY <1>4, <1>5, <1>6, <2>2 DEF Behind
    <3>2. K \cup {cur} \in SUBSET InBucket(queue.head)'
      BY <1>4, <2>2 DEF InBucket
    <3> QED
      BY <3>1, <3>2 DEF Passed
  <2> QED
    BY <1>1, <2>2, <2>3, <2>4, <2>5 DEF IInv
<1>7. CASE ~(ServerHeartbeat /\ user[cur].type # "polling")
  <2> DEFINE r == OnUserDisconnect(Table, cur)
  <2>1. /\ Good(r)
        /\ LiveIn(r) = Live \ {cur}
        /\ r.queue.head = queue.head
        /\ \A x \in Live \ {cur} :
             r.queue.queue_index[x] = queue.queue_index[x]
        /\ r.queue = ResetUser(RemoveUser(queue, cur), cur)
        /\ r.user = [user EXCEPT ![cur] = Freed]
    <3>1. Table.queue = queue /\ Table.user = user /\ LiveIn(Table) = Live
      BY LiveIs DEF Table
    <3>2. cur \in LiveIn(Table)
      BY <1>2, <3>1
    <3>3. /\ Good(r)
          /\ LiveIn(r) = LiveIn(Table) \ {cur}
          /\ r.queue.head = Table.queue.head
          /\ \A x \in LiveIn(Table) \ {cur} :
               r.queue.queue_index[x] = Table.queue.queue_index[x]
          /\ r.queue = ResetUser(RemoveUser(Table.queue, cur), cur)
          /\ r.user = [Table.user EXCEPT ![cur] = Freed]
      BY <1>1, <3>2, DisconnectGood, Zenon
    <3> HIDE DEF r
    <3> QED
      BY <3>1, <3>3, Zenon
  <2>2. Becomes(r)
    BY <1>7 DEF OnTimerUser, Close
  <2> HIDE DEF r
  <2>3. r \in TableType
    BY <2>1 DEF Good
  <2>4. Table' = r /\ queue' = r.queue /\ Live' = LiveIn(r) /\ user' = r.user
    BY <2>2, <2>3 DEF TableType, Becomes, Table, Live, LiveIn
  <2>5. TypeOK'
    BY <1>1, <1>3, <2>2, <2>3 DEF TypeOK, TableType, Becomes, OnTimerUser
  <2>6. CurOK'
    BY <1>2, <1>3, <2>1, <2>4 DEF CurOK, InBucket, OnTimerUser
  <2>7. Passed'
    <3>1. cur \notin K
      BY <1>5, <1>7 DEF Behind
    <3>2. queue.head \in Buckets /\ InBucket(queue.head) = Listed(queue, Live, queue.head)
      BY <1>1, SMTT(20) DEF QueueType, InBucket, Listed
    <3>3. /\ queue'.buffer[queue.head].head \in K \cup {queue.next[cur]}
          /\ \A x \in K : queue'.next[x] \in K \cup {queue.next[cur]}
      <4>1. /\ queue.buffer[queue.head].head \in K \cup {cur}
            /\ \A x \in K : queue.next[x] \in K \cup {cur}
        BY <1>5 DEF Behind
      <4> QED
        BY <1>1, <1>4, <2>1, <2>4, <3>1, <3>2, <4>1, LeaveBehind
    <3>4. \A x \in K : user'[x] = user[x]
      <4>1. K \in SUBSET Objects
        BY DEF InBucket, Live
      <4> QED
        BY <1>1, <2>1, <2>4, <3>1, <4>1 DEF TypeOK
    <3>5. Behind(K, queue', user', cur')
      BY <1>4, <1>5, <2>1, <2>4, <3>3, <3>4 DEF Behind
    <3>6. K \in SUBSET InBucket(queue.head)'
      BY <2>1, <2>4, <3>1 DEF InBucket
    <3> QED
      BY <3>5, <3>6 DEF Passed
  <2> QED
    BY <2>1, <2>4, <2>5, <2>6, <2>7 DEF IInv
<1> QED
  BY <1>6, <1>7

LEMMA OnTimerEndIInv ==
  ASSUME IInv, OnTimerEnd
  PROVE  IInv'
<1>1. /\ running /\ TypeOK /\ Good(Table) /\ queue \in QueueType
      /\ Wheel(queue, Live)
  BY LiveIs DEF IInv, OnTimerEnd, Good, Table, TypeOK
<1> DEFINE h == (queue.head + 1) % Size
<1>2. h \in Buckets
  BY <1>1, UserCircleQueueAssumption DEF QueueType, Buckets
<1>3. queue' = [queue EXCEPT !.head = h]
  BY <1>1 DEF OnTimerEnd, IncHead, QueueType
<1> HIDE DEF h
<1>4. /\ queue' \in QueueType /\ queue'.buffer = queue.buffer
      /\ queue'.prev = queue.prev /\ queue'.next = queue.next
      /\ queue'.queue_index = queue.queue_index
  BY <1>1, <1>2, <1>3 DEF QueueType
<1>5. LiveIn(Table') = LiveIn(Table) /\ LiveIn(Table) = Live
  BY LiveIs DEF OnTimerEnd, Table, LiveIn
<1>6. Wheel(queue', Live)
  <2>1. Linked(queue', Live)
    BY <1>1, <1>4 DEF Wheel, Linked, LinkedUser, LinkedBucket
  <2>2. Acyclic(queue', Live)
    BY <1>1, <1>4 DEF Wheel, Acyclic
  <2>3. Sized(queue', Live)
    <3>1. \A b \in Buckets : Listed(queue', Live, b) = Listed(queue, Live, b)
      BY <1>4 DEF Listed
    <3> QED
      BY <1>1, <1>4, <3>1 DEF Wheel, Sized
  <2> QED
    BY <2>1, <2>2, <2>3, SMTT(20) DEF Wheel
<1>7. Table' \in TableType
  BY <1>1, <1>4, SMTT(20) DEF Good, TableType, Table, OnTimerEnd
<1>8. Owned(Table')
  BY <1>1, <1>5 DEF Good, Owned, Table, OnTimerEnd
<1>9. Good(Table')
  BY <1>1, <1>5, <1>6, <1>7, <1>8 DEF Good, Table, OnTimerEnd
<1>10. TypeOK'
  BY <1>1, <1>4 DEF TypeOK, OnTimerEnd
<1> QED
  BY <1>9, <1>10 DEF IInv, CurOK, Passed, OnTimerEnd

LEMMA ConnectIInv ==
  ASSUME IInv, NEW uid \in Uids, NEW type \in Types, NEW n \in OfflineCounts,
         Connect(uid, type, n)
  PROVE  IInv'
<1>1. running /\ cur = Idle /\ Good(Table)
  BY DEF IInv, Connect, Ready
<1>2. PICK o \in Objects :
        /\ user[o] = Freed
        /\ LET t == Login(Table, uid, type, o)
           IN  Becomes(IF n > 0 THEN Send(t, o) ELSE t)
  BY DEF Connect
<1> DEFINE t == Login(Table, uid, type, o)
           r == IF n > 0 THEN Send(t, o) ELSE t
<1>3. Good(t) /\ o \in LiveIn(t)
  <2>1. Table.user[o] = Freed
    BY <1>2 DEF Table
  <2> QED
    BY <1>1, <2>1, LoginGood, Zenon DEF LoggedIn
<1> HIDE DEF t
<1>4. Good(r)
  BY <1>3, SendGood
<1>5. Becomes(r)
  BY <1>2 DEF t
<1>6. cur' = Idle /\ running' \in BOOLEAN /\ sending' \subseteq Uids
  BY <1>1, Zenon DEF Connect, IInv, TypeOK
<1> HIDE DEF r
<1> QED
  BY <1>4, <1>5, <1>6, HandlerIInv

LEMMA OnUserMessageIInv ==
  ASSUME IInv, NEW o \in Objects, NEW tos \in SUBSET Uids,
         OnUserMessage(o, tos)
  PROVE  IInv'
<1> DEFINE r == [users |-> Table.users, user |-> Table.user,
                 queue |-> PushUserBack(Table.queue, o), online |-> Table.online]
<1>1. /\ running' \in BOOLEAN /\ cur' = Idle /\ sending' \subseteq Uids
      /\ Good(Table) /\ o \in LiveIn(Table)
  BY LiveIs DEF IInv, TypeOK, OnUserMessage, Ready, Live
<1>2. users[user[o].uid] = o /\ o # Null
  BY <1>1, UserCircleQueueAssumption DEF Good, Owned, Table
<1>3. Good(r)
  BY <1>1, PushGood
<1>4. Becomes(r)
  BY <1>2 DEF OnUserMessage, Becomes, Table
<1> HIDE DEF r
<1> QED
  BY <1>1, <1>3, <1>4, HandlerIInv

LEMMA NextIInv == IInv /\ [Next]_vars => IInv'
<1> SUFFICES ASSUME IInv, [Next]_vars PROVE IInv'
  OBVIOUS
<1>1. ASSUME NEW uid \in Uids, NEW type \in Types, NEW n \in OfflineCounts,
             Connect(uid, type, n)
      PROVE  IInv'
  BY <1>1, ConnectIInv
<1>2. ASSUME NEW uid \in Uids, Disconnect(uid) PROVE IInv'
  <2>1. /\ running' \in BOOLEAN /\ cur' = Idle /\ sending' \subseteq Uids
        /\ Good(Table) /\ Table.users[uid] # Null
    BY <1>2 DEF IInv, Disconnect, Ready, Table, TypeOK
  <2>2. users[uid] \in LiveIn(Table)
    BY <2>1 DEF Good, Owned, Table
  <2>3. Good(Close(Table, users[uid]))
    BY <2>1, <2>2, DisconnectGood, Zenon DEF Close
  <2> QED
    BY <1>2, <2>1, <2>3, HandlerIInv DEF Disconnect
<1>3. ASSUME NEW uid \in Uids, SendNext(uid) PROVE IInv'
  <2>1. /\ running' \in BOOLEAN /\ cur' = Idle /\ sending' \subseteq Uids
        /\ Good(Table)
    BY <1>3 DEF IInv, SendNext, CurOK, TypeOK
  <2>2. Good(SendTo(Table, uid))
    BY <2>1, SendToGood
  <2> QED
    BY <1>3, <2>1, <2>2, HandlerIInv DEF SendNext
<1>4. ASSUME NEW o \in Objects, OnSessionDisconnected(o) PROVE IInv'
  <2>1. /\ running' \in BOOLEAN /\ cur' = Idle /\ sending' \subseteq Uids
        /\ Good(Table) /\ o \in LiveIn(Table)
    BY <1>4, LiveIs DEF IInv, OnSessionDisconnected, Ready, TypeOK, Live
  <2>2. Good(OnUserDisconnect(Table, o))
    BY <2>1, DisconnectGood, Zenon
  <2> QED
    BY <1>4, <2>1, <2>2, HandlerIInv DEF OnSessionDisconnected
<1>5. ASSUME NEW o \in Objects, NEW tos \in SUBSET Uids, OnUserMessage(o, tos)
      PROVE  IInv'
  BY <1>5, OnUserMessageIInv
<1>6. CASE OnTimerStart
  BY <1>6, OnTimerStartIInv
<1>7. CASE OnTimerUser
  BY <1>7, OnTimerUserIInv
<1>8. CASE OnTimerEnd
  BY <1>8, OnTimerEndIInv
<1>9. CASE Stop
  BY <1>9, Zenon DEF Stop, IInv, TypeOK, Ready
<1>10. CASE Start
  <2> DEFINE r == [users |-> [u \in Uids |-> Null], user |-> [o \in Objects |-> Freed],
                   queue |-> NewQueue, online |-> 0]
  <2>1. Good(r)
    BY InitGood
  <2>2. Becomes(r) /\ cur' = Idle /\ running' \in BOOLEAN /\ sending' \subseteq Uids
    BY <1>10 DEF Start, Becomes
  <2> HIDE DEF r
  <2> QED
    BY <2>1, <2>2, HandlerIInv
<1>11. ASSUME NEW tos \in SUBSET Uids, Deliver(tos) PROVE IInv'
  <2>1. Table' = Table /\ running /\ cur' = Idle /\ TypeOK'
    BY <1>11 DEF Deliver, Ready, Table, TypeOK, IInv
  <2> QED
    BY <2>1 DEF IInv, CurOK, Passed
<1>12. CASE UNCHANGED vars
  <2>1. Table' = Table /\ TypeOK' /\ Live' = Live
    BY <1>12 DEF vars, Table, TypeOK, IInv, Live
  <2> QED
    BY <1>12, <2>1 DEF vars, IInv, CurOK, Passed, InBucket
<1> QED
  BY <1>1, <1>2, <1>3, <1>4, <1>5, <1>6, <1>7, <1>8, <1>9, <1>10, <1>11,
     <1>12 DEF Next

-----------------------------------------------------------------------------
\* The inductive invariant holds in every reachable state of the table.
THEOREM SpecIInv == Spec => []IInv
BY InitIInv, NextIInv, PTL DEF Spec

\* The state has its type for every set of names and addresses and every
\* wheel size: in particular no bucket index leaves the wheel.
THEOREM SpecTypeOK == Spec => []TypeOK
<1>1. IInv => TypeOK
  BY DEF IInv
<1> QED
  BY SpecIInv, <1>1, PTL

\* users_ owns exactly the live User objects, each under its own name
\* (Connect, OnUserDisconnect).
THEOREM SpecUsersOwnObjects == Spec => []UsersOwnObjects
<1>1. IInv => UsersOwnObjects
  <2> SUFFICES ASSUME IInv, running
               PROVE  /\ {users[u] : u \in Uids} \ {Null} = Live
                      /\ \A u \in Uids : users[u] # Null => user[users[u]].uid = u
    BY DEF UsersOwnObjects
  <2>1. /\ \A u \in Uids : users[u] # Null =>
             users[u] \in Live /\ user[users[u]].uid = u
        /\ \A o \in Live : users[user[o].uid] = o
    BY LiveIs DEF IInv, Good, Owned, Table
  <2>2. \A o \in Live : user[o].uid \in Uids /\ o # Null
    BY UserCircleQueueAssumption DEF IInv, TypeOK, Live
  <2> QED
    BY <2>1, <2>2
<1> QED
  BY SpecIInv, <1>1, PTL

\* No link of the wheel and no iterator of OnTimer leads to a destroyed User
\* (RemoveUser, PushUserBack, OnTimer).
THEOREM SpecLinksMatch == Spec => []LinksMatch
<1>1. IInv => LinksMatch
  BY LiveIs DEF IInv, Good, Wheel, Table, CurOK, LinksMatch
<1> QED
  BY SpecIInv, <1>1, PTL

\* Connects less disconnects, as the statistics count them, are the number of
\* User objects alive.
THEOREM SpecOnlineCounted == Spec => []OnlineCounted
<1>1. IInv => OnlineCounted
  BY LiveIs DEF IInv, Good, Table, OnlineCounted
<1> QED
  BY SpecIInv, <1>1, PTL

\* Every bucket is a list of its users, forwards and backwards, with the right
\* size and ends, whatever logins, closes, messages and ticks went before
\* (DLinkedList::Remove, PushBack).
THEOREM SpecBucketsLinked == Spec => []BucketsLinked
<1>1. IInv => BucketsLinked
  <2> SUFFICES ASSUME IInv, running
               PROVE  /\ \A o \in Live : queue.queue_index[o] # -1
                      /\ \A b \in Buckets :
                           LET list == queue.buffer[b]
                               n == Cardinality(InBucket(b))
                           IN  /\ list.size = n
                               /\ Chain(queue.next, list.head) = InBucket(b)
                               /\ Chain(queue.prev, list.tail) = InBucket(b)
                               /\ n > 0 =>
                                    /\ Follow(queue.next, list.head, n - 1) = list.tail
                                    /\ Follow(queue.prev, list.tail, n - 1) = list.head
    BY DEF BucketsLinked
  <2>1. queue \in QueueType /\ Wheel(queue, Live) /\ Live \in SUBSET Objects
    BY LiveIs DEF IInv, Good, Table, TypeOK, Live
  <2>2. ASSUME NEW o \in Live PROVE queue.queue_index[o] # -1
    <3>1. queue.queue_index[o] \in Buckets
      BY <2>1 DEF Wheel, Linked, LinkedUser
    <3> QED
      BY <3>1, UserCircleQueueAssumption DEF Buckets
  <2>3. ASSUME NEW b \in Buckets PROVE InBucket(b) = Listed(queue, Live, b)
    BY DEF InBucket, Listed
  <2> QED
    BY <2>1, <2>2, <2>3, WheelLists
<1> QED
  BY SpecIInv, <1>1, PTL

\* OnTimer, which closes users of the list it walks over, has every user that
\* is to be closed at this tick still ahead of it.
THEOREM SpecTimerReachesAll == Spec => []TimerReachesAll
<1>1. IInv => TimerReachesAll
  <2> SUFFICES ASSUME IInv, running, cur # Idle, NEW o \in InBucket(queue.head),
                      ~ServerHeartbeat \/ user[o].type = "polling"
               PROVE  o \in Chain(queue.next, cur)
    BY DEF TimerReachesAll
  <2>1. queue \in QueueType /\ Wheel(queue, Live) /\ Live \in SUBSET Objects
    BY LiveIs, Zenon DEF IInv, Good, Table, TypeOK, Live
  <2>2. cur \in InBucket(queue.head) \cup {Null}
    BY DEF IInv, CurOK
  <2>3. queue.head \in Buckets /\ InBucket(queue.head) = Listed(queue, Live, queue.head)
    BY <2>1 DEF QueueType, InBucket, Listed
  <2>4. PICK K \in SUBSET InBucket(queue.head) : Behind(K, queue, user, cur)
    BY DEF IInv, Passed
  <2>5. InBucket(queue.head) \ K \subseteq Chain(queue.next, cur)
    <3>1. /\ queue.buffer[queue.head].head \in K \cup {cur}
          /\ \A x \in K : queue.next[x] \in K \cup {cur}
      BY <2>4 DEF Behind
    <3> QED
      BY <2>1, <2>2, <2>3, <3>1, WheelReaches
  <2>6. o \notin K
    BY <2>4 DEF Behind
  <2> QED
    BY <2>5, <2>6
<1> QED
  BY SpecIInv, <1>1, PTL

-----------------------------------------------------------------------------
(* The table implements IdleTimeout.  Every handler leaves the users of all *)
(* names but one as they are; that one is gone, or heard of, or unchanged.  *)
LeftIn(t) ==
  [u \in Uids |-> IF t.users[u] = Null THEN 0
                  ELSE TicksTo(t.queue.queue_index[t.users[u]], t.queue.head)]

PollingIn(t) == {u \in Uids : t.users[u] # Null /\ t.user[t.users[u]].type = "polling"}

LEMMA LeftPositive ==
  ASSUME NEW t, Good(t), NEW u \in Uids, t.users[u] # Null
  PROVE  /\ t.queue.queue_index[t.users[u]] \in Buckets /\ t.queue.head \in Buckets
         /\ LeftIn(t)[u] = TicksTo(t.queue.queue_index[t.users[u]], t.queue.head)
         /\ LeftIn(t)[u] \in 1..Size
<1>1. t.users[u] \in LiveIn(t) /\ Wheel(t.queue, LiveIn(t)) /\ t.queue \in QueueType
  BY SMTT(20) DEF Good, Owned, TableType
<1>2. t.queue.queue_index[t.users[u]] \in Buckets /\ t.queue.head \in Buckets
  BY <1>1 DEF Wheel, Linked, LinkedUser, QueueType
<1>3. LeftIn(t)[u] = TicksTo(t.queue.queue_index[t.users[u]], t.queue.head)
  BY DEF LeftIn
<1> QED
  BY <1>2, <1>3, TicksToRange

LEMMA SameTrans ==
  ASSUME NEW t, NEW s, NEW r, NEW V, Same(t, s, V), Same(s, r, V)
  PROVE  Same(t, r, V)
BY DEF Same

LEMMA SameLeft ==
  ASSUME NEW t, NEW r, NEW V \in SUBSET Uids, Same(t, r, V), NEW v \in V
  PROVE  LeftIn(r)[v] = LeftIn(t)[v] /\ (v \in PollingIn(r) <=> v \in PollingIn(t))
<1>1. /\ r.queue.head = t.queue.head
      /\ r.users[v] = t.users[v]
      /\ t.users[v] # Null =>
           /\ r.user[t.users[v]] = t.user[t.users[v]]
           /\ r.queue.queue_index[t.users[v]] = t.queue.queue_index[t.users[v]]
  BY DEF Same
<1>2. LeftIn(r)[v] = LeftIn(t)[v]
  BY <1>1 DEF LeftIn
<1>3. v \in PollingIn(r) <=> v \in PollingIn(t)
  BY <1>1 DEF PollingIn
<1> QED
  BY <1>2, <1>3

\* A close takes its user off the count, and no other.
LEMMA DisconnectSame ==
  ASSUME NEW t, Good(t), NEW o \in LiveIn(t), NEW u, u = t.user[o].uid,
         NEW r, r = OnUserDisconnect(t, o)
  PROVE  u \in Uids /\ Same(t, r, Uids \ {u}) /\ r.users[u] = Null
<1>1. t \in TableType /\ Owned(t) /\ o \in Objects
  BY DEF Good, LiveIn
<1>2. u \in Uids /\ t.users[u] = o
  BY <1>1 DEF TableType, Owned, LiveIn
<1>3. /\ r.queue.head = t.queue.head
      /\ \A x \in LiveIn(t) \ {o} : r.queue.queue_index[x] = t.queue.queue_index[x]
      /\ r.users = [t.users EXCEPT ![u] = Null]
      /\ r.user = [t.user EXCEPT ![o] = Freed]
  <2> DEFINE c == OnUserDisconnect(t, o)
  <2>1. /\ c.queue.head = t.queue.head
        /\ \A x \in LiveIn(t) \ {o} : c.queue.queue_index[x] = t.queue.queue_index[x]
        /\ c.users = [t.users EXCEPT ![t.user[o].uid] = Null]
        /\ c.user = [t.user EXCEPT ![o] = Freed]
    BY DisconnectGood, Zenon
  <2>2. r = c
    OBVIOUS
  <2> HIDE DEF c
  <2> QED
    BY <2>1, <2>2
<1>4. ASSUME NEW v \in Uids \ {u}
      PROVE  /\ r.users[v] = t.users[v]
             /\ t.users[v] # Null =>
                  /\ r.user[t.users[v]] = t.user[t.users[v]]
                  /\ r.queue.queue_index[t.users[v]] = t.queue.queue_index[t.users[v]]
  <2>1. r.users[v] = t.users[v]
    BY <1>1, <1>2, <1>3 DEF TableType
  <2>2. t.users[v] # Null => t.users[v] \in LiveIn(t) \ {o} /\ t.users[v] \in Objects
    BY <1>1, <1>2 DEF Owned, LiveIn
  <2>3. t.users[v] # Null => r.user[t.users[v]] = t.user[t.users[v]]
    BY <1>1, <1>3, <2>2 DEF TableType
  <2> QED
    BY <1>3, <2>1, <2>2, <2>3
<1>5. Same(t, r, Uids \ {u})
  BY <1>3, <1>4, Zenon DEF Same
<1>6. r.users[u] = Null
  BY <1>1, <1>2, <1>3 DEF TableType
<1> QED
  BY <1>2, <1>5, <1>6

\* The mapping, in terms of the table.
LEMMA MappingIs ==
  /\ Left = LeftIn(Table) /\ Polling = PollingIn(Table)
  /\ Left' = LeftIn(Table') /\ Polling' = PollingIn(Table')
BY Zenon DEF Left, LeftIn, Table, TicksTo, Polling, PollingIn

\* Outside a tick: one name is gone or heard of.
LEMMA TrafficStep ==
  ASSUME Good(Table'), ~Ticking, ~Ticking', NEW u \in Uids,
         Same(Table, Table', Uids \ {u}),
         Table'.users[u] = Null \/ LeftIn(Table')[u] = Size
  PROVE  Timeout!Next
<1> DEFINE L == LeftIn(Table')
<1>1. PICK gone \in SUBSET Uids : gone = IF Table'.users[u] = Null THEN {u} ELSE {}
  BY Zenon
<1>2. L = [v \in Uids |-> IF v \in gone THEN 0
                          ELSE IF v \in {u} THEN Size ELSE LeftIn(Table)[v]]
  <2>1. L = [v \in Uids |-> L[v]]
    BY DEF LeftIn
  <2>2. \A v \in Uids : L[v] = IF v \in gone THEN 0
                               ELSE IF v \in {u} THEN Size ELSE LeftIn(Table)[v]
    <3>1. Table'.users[u] = Null => L[u] = 0
      BY DEF LeftIn
    <3>2. \A v \in Uids \ {u} : L[v] = LeftIn(Table)[v]
      BY SameLeft
    <3> HIDE DEF L
    <3>3. Table'.users[u] # Null => L[u] = Size
      BY DEF L
    <3> QED
      BY <1>1, <3>1, <3>2, <3>3
  <2> HIDE DEF L
  <2> QED
    BY <2>1, <2>2, Zenon
<1>3. \A v \in Uids \ ({u} \cup gone) : v \in PollingIn(Table') <=> v \in PollingIn(Table)
  BY SameLeft
<1>4. PollingIn(Table') \subseteq {v \in Uids : L[v] > 0}
  <2>1. ASSUME NEW v \in PollingIn(Table') PROVE v \in Uids /\ L[v] > 0
    <3>1. v \in Uids /\ Table'.users[v] # Null
      BY DEF PollingIn
    <3>2. L[v] \in 1..Size
      BY <3>1, LeftPositive
    <3> QED
      BY <3>1, <3>2, UserCircleQueueAssumption
  <2> QED
    BY <2>1
<1>5. Ticking' = Ticking
  BY DEF Ticking
<1>6. Timeout!Traffic({u}, gone)
  BY <1>2, <1>3, <1>4, <1>5, MappingIs, Zenon DEF Timeout!Traffic
<1>7. {u} \in SUBSET Uids
  OBVIOUS
<1> QED
  BY <1>6, <1>7, Zenon DEF Timeout!Next

\* Nothing IdleTimeout speaks of has changed.
LEMMA Stutters ==
  ASSUME Table' = Table, Ticking' <=> Ticking
  PROVE  UNCHANGED Timeout!vars
<1>1. Left' = Left /\ Polling' = Polling
  BY MappingIs
<1>2. Ticking' = Ticking
  BY DEF Ticking
<1> QED
  BY <1>1, <1>2 DEF Timeout!vars

\* The whole table is emptied at the end and at the start of the process.
LEMMA AllGone ==
  ASSUME ~Ticking, ~Ticking', users' = [u \in Uids |-> Null]
  PROVE  Timeout!Next
<1>1. Left' = [u \in Uids |-> IF u \in Uids THEN 0 ELSE IF u \in {} THEN Size ELSE Left[u]]
  BY DEF Left
<1>2. Polling' = {}
  BY DEF Polling
<1>3. Ticking' = Ticking
  BY DEF Ticking
<1>4. \A u \in Uids \ ({} \cup Uids) : u \in Polling' <=> u \in Polling
  OBVIOUS
<1>5. Timeout!Traffic({}, Uids)
  BY <1>1, <1>2, <1>3, <1>4, Zenon DEF Timeout!Traffic
<1>6. {} \in SUBSET Uids /\ Uids \in SUBSET Uids
  OBVIOUS
<1> QED
  BY <1>5, <1>6, Zenon DEF Timeout!Next

LEMMA BecomesTable ==
  ASSUME NEW r, Good(r), Becomes(r)
  PROVE  Table' = r
<1>1. r \in TableType
  BY DEF Good
<1> QED
  BY <1>1 DEF TableType, Becomes, Table

LEMMA ConnectTimeout ==
  ASSUME IInv, NEW uid \in Uids, NEW type \in Types, NEW n \in OfflineCounts,
         Connect(uid, type, n)
  PROVE  Timeout!Next
<1>1. Good(Table) /\ ~Ticking /\ ~Ticking'
  BY DEF IInv, Connect, Ready, Ticking
<1>2. PICK o \in Objects :
        /\ user[o] = Freed
        /\ LET t == Login(Table, uid, type, o)
           IN  Becomes(IF n > 0 THEN Send(t, o) ELSE t)
  BY DEF Connect
<1> DEFINE t == Login(Table, uid, type, o)
           r == IF n > 0 THEN Send(t, o) ELSE t
<1>3. /\ Good(t) /\ o \in LiveIn(t)
      /\ Same(Table, t, Uids \ {uid})
      /\ t.users[uid] = o /\ t.user[o].uid = uid
      /\ t.queue.queue_index[o] = (t.queue.head - 1 + Size) % Size
  <2>1. Table.user[o] = Freed
    BY <1>2 DEF Table
  <2> QED
    <3>1. LoggedIn(Table, t, uid, o)
      BY <1>1, <2>1, LoginGood
    <3> HIDE DEF t
    <3> QED
      BY <3>1 DEF LoggedIn
<1>4. Becomes(r)
  BY <1>2
<1> HIDE DEF t
<1>5. Good(r) /\ Same(Table, r, Uids \ {uid}) /\ (r.users[uid] = Null \/ LeftIn(r)[uid] = Size)
  <2>1. r = t \/ r = OnUserDisconnect(t, o)
    BY DEF Send, Close
  <2> HIDE DEF r
  <2>2. CASE r = t
    <3>1. t.users[uid] # Null
      BY <1>3, UserCircleQueueAssumption
    <3>2. t.queue.head \in Buckets /\ LeftIn(t)[uid] = TicksTo(t.queue.queue_index[o], t.queue.head)
      BY <1>3, <3>1, LeftPositive
    <3>3. LeftIn(t)[uid] = Size
      BY <1>3, <3>2, TicksToTail
    <3> QED
      BY <1>3, <2>2, <3>3
  <2>3. CASE r = OnUserDisconnect(t, o)
    <3>1. Good(r)
      <4>1. Good(OnUserDisconnect(t, o))
        BY <1>3, DisconnectGood, Zenon
      <4> QED
        BY <2>3, <4>1
    <3>2. Same(t, r, Uids \ {uid}) /\ r.users[uid] = Null
      BY <1>3, <2>3, DisconnectSame
    <3>3. Same(Table, r, Uids \ {uid})
      BY <1>3, <3>2, SameTrans
    <3> QED
      BY <3>1, <3>2, <3>3
  <2> QED
    BY <2>1, <2>2, <2>3
<1> HIDE DEF r
<1>6. Table' = r
  BY <1>4, <1>5, BecomesTable
<1> QED
  BY <1>1, <1>5, <1>6, TrafficStep

\* A handler that closes the user o.
LEMMA CloseTimeout ==
  ASSUME Good(Table), ~Ticking, ~Ticking', NEW o \in LiveIn(Table),
         Becomes(OnUserDisconnect(Table, o))
  PROVE  Timeout!Next
<1> DEFINE r == OnUserDisconnect(Table, o)
           u == Table.user[o].uid
<1>1. Good(r)
  BY DisconnectGood, Zenon
<1>2. u \in Uids /\ Same(Table, r, Uids \ {u}) /\ r.users[u] = Null
  BY DisconnectSame
<1>3. Becomes(r)
  OBVIOUS
<1> HIDE DEF r
<1>4. Table' = r
  BY <1>1, <1>3, BecomesTable
<1>5. PICK v \in Uids : Same(Table, r, Uids \ {v}) /\ r.users[v] = Null
  BY <1>2
<1> QED
  BY <1>1, <1>4, <1>5, TrafficStep

LEMMA MessageTimeout ==
  ASSUME IInv, NEW o \in Objects, NEW tos \in SUBSET Uids, OnUserMessage(o, tos)
  PROVE  Timeout!Next
<1> DEFINE r == [users |-> Table.users, user |-> Table.user,
                 queue |-> PushUserBack(Table.queue, o), online |-> Table.online]
<1>1. Good(Table) /\ ~Ticking /\ ~Ticking' /\ o \in LiveIn(Table)
  BY LiveIs, SMTT(20) DEF IInv, OnUserMessage, Ready, Ticking, Live
<1>2. users[user[o].uid] = o /\ o # Null /\ user[o].uid \in Uids
  BY <1>1, UserCircleQueueAssumption DEF Good, Owned, Table, TableType, LiveIn
<1>3. PICK u \in Uids : u = user[o].uid
  BY <1>2
<1>4. Good(r)
  BY <1>1, PushGood
<1>5. Becomes(r)
  BY <1>2 DEF OnUserMessage, Becomes, Table
<1>6. r.users = users /\ r.user = user /\ r.queue = PushUserBack(queue, o)
  BY DEF Table
<1> HIDE DEF r
<1>7. /\ r.queue.head = queue.head
      /\ \A x \in Objects : r.queue.queue_index[x] =
           IF x = o THEN (queue.head - 1 + Size) % Size ELSE queue.queue_index[x]
  <2> DEFINE L == LiveIn(Table)
  <2>1. queue \in QueueType /\ Wheel(queue, L) /\ L \in SUBSET Objects /\ o \in L
    BY <1>1, LiveFinite DEF Good, TableType, Table
  <2> HIDE DEF L
  <2> QED
    <3>1. /\ PushUserBack(queue, o).head = queue.head
          /\ \A x \in Objects : PushUserBack(queue, o).queue_index[x] =
               IF x = o THEN (queue.head - 1 + Size) % Size ELSE queue.queue_index[x]
      BY <2>1, PushUserBackWheel, Zenon
    <3> QED
      BY <1>6, <3>1
<1>8. Same(Table, r, Uids \ {u})
  <2>1. ASSUME NEW v \in Uids \ {u}, users[v] # Null
        PROVE  r.queue.queue_index[users[v]] = queue.queue_index[users[v]]
    <3>1. users[v] \in Objects /\ user[users[v]].uid = v
      BY <1>1, <2>1 DEF Good, Owned, Table, LiveIn
    <3>2. users[v] # o
      BY <1>3, <3>1
    <3> QED
      BY <1>7, <3>1, <3>2, SMTT(20)
  <2>2. Table.users = users /\ Table.user = user /\ Table.queue = queue
    BY DEF Table
  <2> QED
    BY <1>6, <1>7, <2>1, <2>2 DEF Same
<1>9. LeftIn(r)[u] = Size
  <2>1. r.users[u] = o /\ r.users[u] # Null
    BY <1>2, <1>3, <1>6
  <2>2. r.queue.head \in Buckets /\ LeftIn(r)[u] = TicksTo(r.queue.queue_index[o], r.queue.head)
    BY <1>4, <2>1, LeftPositive
  <2>3. r.queue.queue_index[o] = (r.queue.head - 1 + Size) % Size
    BY <1>7
  <2> QED
    BY <2>2, <2>3, TicksToTail
<1>10. Table' = r
  BY <1>4, <1>5, BecomesTable
<1> QED
  BY <1>1, <1>4, <1>8, <1>9, <1>10, TrafficStep

LEMMA TimerUserTimeout ==
  ASSUME IInv, OnTimerUser
  PROVE  Timeout!Next \/ UNCHANGED Timeout!vars
<1>1. /\ running /\ Good(Table) /\ queue \in QueueType
      /\ Wheel(queue, Live) /\ Live \in SUBSET Objects /\ LiveIn(Table) = Live
  BY LiveIs, Zenon DEF IInv, OnTimerUser, Good, Table, TypeOK, Live
<1>2. cur \in Live /\ queue.queue_index[cur] = queue.head
  BY SessionTableAssumption, UserCircleQueueAssumption
  DEF IInv, CurOK, OnTimerUser, InBucket
<1>3. cur' \in Objects \cup {Null}
  BY <1>1, <1>2 DEF OnTimerUser, QueueType
<1>4. Ticking /\ Ticking'
  BY <1>1, <1>2, <1>3, SessionTableAssumption DEF Ticking, OnTimerUser
<1>5. Table.users = users /\ Table.user = user /\ Table.queue = queue
  BY DEF Table
<1>6. CASE ServerHeartbeat /\ user[cur].type # "polling"
  <2>1. Becomes(Table)
    BY <1>6 DEF OnTimerUser
  <2>2. Table' = Table
    BY <2>1 DEF Becomes, Table
  <2> QED
    BY <1>4, <2>2, Stutters
<1>7. CASE ~(ServerHeartbeat /\ user[cur].type # "polling")
  <2> DEFINE r == OnUserDisconnect(Table, cur)
  <2>1. PICK u : u = Table.user[cur].uid
    OBVIOUS
  <2>2. u \in Uids /\ Same(Table, r, Uids \ {u}) /\ r.users[u] = Null
    BY <1>1, <1>2, <2>1, DisconnectSame
  <2>3. Good(r)
    BY <1>1, <1>2, DisconnectGood, Zenon
  <2>4. Becomes(r)
    BY <1>7 DEF OnTimerUser, Close
  <2> HIDE DEF r
  <2>5. Table' = r
    BY <2>3, <2>4, BecomesTable
  <2>6. users[u] = cur /\ users[u] # Null
    BY <1>1, <1>2, <1>5, <2>1, UserCircleQueueAssumption DEF Good, Owned
  <2>7. LeftIn(Table)[u] = 1
    <3>1. queue.head \in Buckets /\ LeftIn(Table)[u] = TicksTo(queue.head, queue.head)
      BY <1>1, <1>2, <1>5, <2>2, <2>6, LeftPositive
    <3> QED
      BY <3>1, TicksToRange
  <2>8. ~ServerHeartbeat \/ u \in PollingIn(Table)
    BY <1>5, <1>7, <2>2, <2>6 DEF PollingIn
  <2>9. LeftIn(r) = [LeftIn(Table) EXCEPT ![u] = 0]
    <3> DEFINE L == LeftIn(r)
               M == LeftIn(Table)
    <3>1. L = [v \in Uids |-> L[v]] /\ M = [v \in Uids |-> M[v]]
      BY DEF LeftIn
    <3>2. L[u] = 0
      BY <2>2 DEF LeftIn
    <3>3. \A v \in Uids \ {u} : L[v] = M[v]
      BY <2>2, SameLeft
    <3> HIDE DEF L, M
    <3>4. L = [M EXCEPT ![u] = 0]
      BY <2>2, <3>1, <3>2, <3>3
    <3> QED
      BY <3>4 DEF L, M
  <2>10. PollingIn(r) = PollingIn(Table) \ {u}
    <3>1. u \notin PollingIn(r)
      BY <2>2 DEF PollingIn
    <3>2. \A v \in Uids \ {u} : v \in PollingIn(r) <=> v \in PollingIn(Table)
      BY <2>2, SameLeft
    <3>3. PollingIn(r) \subseteq Uids /\ PollingIn(Table) \subseteq Uids
      BY DEF PollingIn
    <3> QED
      BY <3>1, <3>2, <3>3
  <2>11. Ticking' = Ticking
    BY <1>4 DEF Ticking
  <2>12. Timeout!Expire(u)
    BY <1>4, <2>5, <2>7, <2>8, <2>9, <2>10, <2>11, MappingIs, Zenon
    DEF Timeout!Expire, Timeout!MustClose
  <2> QED
    BY <2>2, <2>12, Zenon DEF Timeout!Next
<1> QED
  BY <1>6, <1>7

\* All users that were to be closed have been when the wheel is turned.
LEMMA TimerEndTimeout ==
  ASSUME IInv, OnTimerEnd
  PROVE  Timeout!Next
<1>1. /\ running /\ Good(Table) /\ queue \in QueueType
      /\ Wheel(queue, Live) /\ Live \in SUBSET Objects /\ LiveIn(Table) = Live
  BY LiveIs, Zenon DEF IInv, OnTimerEnd, Good, Table, TypeOK, Live
<1>2. Ticking /\ ~Ticking'
  BY <1>1, SessionTableAssumption DEF Ticking, OnTimerEnd
<1>3. /\ Table.users = users /\ Table.user = user /\ Table.queue = queue
      /\ Table'.users = users /\ Table'.user = user /\ Table'.queue = queue'
  BY DEF Table, OnTimerEnd
<1>4. /\ queue'.head = (queue.head + 1) % Size
      /\ queue'.queue_index = queue.queue_index
  BY <1>1 DEF OnTimerEnd, IncHead, QueueType
<1>5. PollingIn(Table') = PollingIn(Table)
  BY <1>3 DEF PollingIn
<1>6. ASSUME NEW u \in Uids, LeftIn(Table)[u] = 1
      PROVE  ServerHeartbeat /\ u \notin PollingIn(Table)
  <2>1. users[u] # Null
    BY <1>3, <1>6 DEF LeftIn
  <2>2. /\ queue.queue_index[users[u]] \in Buckets /\ queue.head \in Buckets
        /\ LeftIn(Table)[u] = TicksTo(queue.queue_index[users[u]], queue.head)
    BY <1>1, <1>3, <2>1, LeftPositive
  <2>3. queue.queue_index[users[u]] = queue.head
    BY <1>6, <2>2, TicksToRange
  <2>4. users[u] \in InBucket(queue.head)
    <3>1. users[u] \in Live
      BY <1>1, <1>3, <2>1 DEF Good, Owned
    <3> QED
      BY <2>3, <3>1 DEF InBucket
  <2>5. InBucket(queue.head) = Listed(queue, Live, queue.head)
    BY DEF InBucket, Listed
  <2>6. PICK K \in SUBSET InBucket(queue.head) : Behind(K, queue, user, Null)
    BY <1>1, SessionTableAssumption, SMTT(20) DEF IInv, Passed, OnTimerEnd
  <2>7. InBucket(queue.head) \ K \subseteq Chain(queue.next, Null)
    <3>1. /\ queue.buffer[queue.head].head \in K \cup {Null}
          /\ \A x \in K : queue.next[x] \in K \cup {Null}
      BY <2>6 DEF Behind
    <3> QED
      BY <1>1, <2>2, <2>5, <3>1, WheelReaches, Zenon
  <2>8. users[u] \in K
    BY <2>4, <2>7, ChainOfNull
  <2> QED
    BY <1>3, <2>6, <2>8 DEF Behind, PollingIn
<1>7. ASSUME NEW u \in Uids
      PROVE  LeftIn(Table')[u] = IF LeftIn(Table)[u] = 0 THEN 0
                                 ELSE IF LeftIn(Table)[u] = 1 THEN Size
                                 ELSE LeftIn(Table)[u] - 1
  <2>1. CASE users[u] = Null
    BY <1>3, <2>1 DEF LeftIn
  <2>2. CASE users[u] # Null
    <3> DEFINE i == queue.queue_index[users[u]]
    <3>1. /\ i \in Buckets /\ queue.head \in Buckets
          /\ LeftIn(Table)[u] = TicksTo(i, queue.head)
          /\ LeftIn(Table)[u] \in 1..Size
      BY <1>1, <1>3, <2>2, LeftPositive
    <3>2. LeftIn(Table')[u] = TicksTo(i, (queue.head + 1) % Size)
      BY <1>3, <1>4, <2>2 DEF LeftIn
    <3> HIDE DEF i
    <3>3. LeftIn(Table)[u] # 0
      BY <3>1
    <3> QED
      BY <3>1, <3>2, <3>3, TicksToNext
  <2> QED
    BY <2>1, <2>2
<1>8. LeftIn(Table') = [u \in Uids |-> IF LeftIn(Table)[u] = 0 THEN 0
                                       ELSE IF LeftIn(Table)[u] = 1 THEN Size
                                       ELSE LeftIn(Table)[u] - 1]
  <2> DEFINE L == LeftIn(Table')
  <2>1. L = [u \in Uids |-> L[u]]
    BY DEF LeftIn
  <2> HIDE DEF L
  <2>2. LeftIn(Table') = L
    BY DEF L
  <2> QED
    BY <1>7, <2>1, <2>2, Zenon
<1>9. Ticking' = FALSE
  BY <1>2 DEF Ticking
<1>10. Timeout!EndTick
  BY <1>2, <1>5, <1>6, <1>8, <1>9, MappingIs, Zenon DEF Timeout!EndTick, Timeout!MustClose
<1> QED
  BY <1>10 DEF Timeout!Next

LEMMA SendTimeout ==
  ASSUME IInv, NEW uid \in Uids, SendNext(uid)
  PROVE  Timeout!Next \/ UNCHANGED Timeout!vars
<1>1. Good(Table) /\ ~Ticking /\ ~Ticking'
  BY SessionTableAssumption DEF IInv, CurOK, SendNext, Ticking
<1>2. Becomes(SendTo(Table, uid))
  BY DEF SendNext
<1>3. CASE Table.users[uid] = Null \/ Table.user[Table.users[uid]].type # "polling"
  <2>1. SendTo(Table, uid) = Table
    BY <1>3 DEF SendTo, Send
  <2>2. Table' = Table
    BY <1>1, <1>2, <2>1, BecomesTable
  <2> QED
    BY <1>1, <2>2, Stutters
<1>4. CASE Table.users[uid] # Null /\ Table.user[Table.users[uid]].type = "polling"
  <2>1. Becomes(OnUserDisconnect(Table, Table.users[uid]))
    BY <1>2, <1>4 DEF SendTo, Send, Close
  <2>2. Table.users[uid] \in LiveIn(Table)
    BY <1>1, <1>4 DEF Good, Owned
  <2> QED
    BY <1>1, <2>1, <2>2, CloseTimeout
<1> QED
  BY <1>3, <1>4

\* Every step of the table is a step of the promise, or none.
LEMMA NextTimeout == IInv /\ [Next]_vars => [Timeout!Next]_(Timeout!vars)
<1> SUFFICES ASSUME IInv, [Next]_vars
             PROVE  Timeout!Next \/ UNCHANGED Timeout!vars
  OBVIOUS
<1>1. ASSUME NEW uid \in Uids, NEW type \in Types, NEW n \in OfflineCounts,
             Connect(uid, type, n)
      PROVE  Timeout!Next
  BY <1>1, ConnectTimeout
<1>2. ASSUME NEW uid \in Uids, Disconnect(uid)
      PROVE  Timeout!Next
  <2>1. Good(Table) /\ ~Ticking /\ ~Ticking'
    BY <1>2 DEF IInv, Disconnect, Ready, Ticking
  <2>2. Table.users = users
    BY DEF Table
  <2>3. users[uid] \in LiveIn(Table)
    BY <1>2, <2>1, <2>2 DEF Disconnect, Good, Owned
  <2>4. Becomes(OnUserDisconnect(Table, users[uid]))
    BY <1>2 DEF Disconnect, Close
  <2> QED
    BY <2>1, <2>3, <2>4, CloseTimeout
<1>3. ASSUME NEW uid \in Uids, SendNext(uid)
      PROVE  Timeout!Next \/ UNCHANGED Timeout!vars
  BY <1>3, SendTimeout
<1>4. ASSUME NEW o \in Objects, OnSessionDisconnected(o)
      PROVE  Timeout!Next
  <2>1. Good(Table) /\ ~Ticking /\ ~Ticking'
    BY <1>4 DEF IInv, OnSessionDisconnected, Ready, Ticking
  <2>2. o \in LiveIn(Table) /\ Becomes(OnUserDisconnect(Table, o))
    BY <1>4, LiveIs DEF OnSessionDisconnected, Live
  <2> QED
    BY <2>1, <2>2, CloseTimeout
<1>5. ASSUME NEW o \in Objects, NEW tos \in SUBSET Uids, OnUserMessage(o, tos)
      PROVE  Timeout!Next
  BY <1>5, MessageTimeout
<1>6. ASSUME NEW tos \in SUBSET Uids, Deliver(tos)
      PROVE  UNCHANGED Timeout!vars
  <2>1. Table' = Table /\ (Ticking' <=> Ticking)
    BY <1>6 DEF Deliver, Table, Ticking
  <2> QED
    BY <2>1, Stutters
<1>7. CASE OnTimerStart
  <2>1. Table' = Table
    BY <1>7 DEF OnTimerStart, Table
  <2>2. Left' = Left /\ Polling' = Polling
    BY <2>1, MappingIs
  <2>3. queue.buffer[queue.head].head \in Objects \cup {Null}
    BY DEF IInv, TypeOK, QueueType
  <2>4. Ticking' /\ ~Ticking
    BY <1>7, <2>3, SessionTableAssumption DEF OnTimerStart, Ready, Ticking
  <2>5. Ticking' = TRUE
    BY <2>4 DEF Ticking
  <2>6. Timeout!BeginTick
    BY <2>2, <2>4, <2>5, Zenon DEF Timeout!BeginTick
  <2> QED
    BY <2>6 DEF Timeout!Next
<1>8. CASE OnTimerUser
  BY <1>8, TimerUserTimeout
<1>9. CASE OnTimerEnd
  BY <1>9, TimerEndTimeout
<1>10. CASE Stop
  <2>1. ~Ticking /\ ~Ticking' /\ users' = [u \in Uids |-> Null]
    BY <1>10 DEF Stop, Ready, Ticking
  <2> QED
    BY <2>1, AllGone
<1>11. CASE Start
  <2>1. ~Ticking /\ ~Ticking' /\ users' = [u \in Uids |-> Null]
    BY <1>11 DEF Start, Ticking
  <2> QED
    BY <2>1, AllGone
<1>12. CASE UNCHANGED vars
  <2>1. Table' = Table /\ (Ticking' <=> Ticking)
    BY <1>12 DEF vars, Table, Ticking
  <2> QED
    BY <2>1, Stutters
<1> QED
  BY <1>1, <1>2, <1>3, <1>4, <1>5, <1>6, <1>7, <1>8, <1>9, <1>10, <1>11, <1>12, Zenon
  DEF Next

LEMMA InitTimeout == Init => Timeout!Init
<1> SUFFICES ASSUME Init PROVE Timeout!Init
  OBVIOUS
<1>1. Left = [u \in Uids |-> 0]
  BY DEF Init, Left
<1>2. Polling = {}
  BY DEF Init, Polling
<1>3. ~Ticking
  BY DEF Init, Ticking
<1>4. Ticking = FALSE
  BY <1>3 DEF Ticking
<1> QED
  BY <1>1, <1>2, <1>4, Zenon DEF Timeout!Init

\* The wheel implements the timeout it stands for, for every number of
\* buckets, users and sessions: a user is closed at exactly the Size-th tick
\* after it was last heard of, and no tick ends with a user left over that had
\* to be closed (OnTimer, PushUserBack, IncHead).
THEOREM SpecImplementsIdleTimeout == Spec => ImplementsIdleTimeout
BY InitTimeout, NextTimeout, SpecIInv, PTL DEF Spec, ImplementsIdleTimeout, Timeout!Spec
=============================================================================
