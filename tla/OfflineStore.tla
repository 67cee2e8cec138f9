---------------------------- MODULE OfflineStore ----------------------------
(***************************************************************************)
(* One user's messages with the in-memory storage backend: the sequence    *)
(* counter SessionServer keeps in user_infos_, the ring the storage keeps  *)
(* in user_data_, the acknowledgements and fetches that read it, and the   *)
(* dump and load around a restart.  The backend runs its callbacks inside  *)
(* the call, so each handler is one step of the main loop.                 *)
(***************************************************************************)
EXTENDS InMemoryUserData

CONSTANTS
  Ttls,       \* the ttl values messages are saved with; 0 is never saved
  MaxSeq,     \* bound: messages saved to the user
  MaxClock    \* bound: the clock stops there

ASSUME OfflineStoreAssumption ==
  /\ Ttls \subseteq Int \ {0}
  /\ MaxSeq \in Nat
  /\ MaxClock \in Nat

VARIABLES
  has_info,   \* is there a UserInfo for the user in user_infos_?
  max_seq,    \* its max_seq_, -1 before the storage has been asked
  user_data,  \* the storage's record of the user
  now,        \* the clock, in seconds
  fetched,    \* result of the latest GetMessage
  sent,       \* history: sent[s] is the expiry of message s
  acked       \* history: the highest number ever acknowledged

vars == <<has_info, max_seq, user_data, now, fetched, sent, acked>>

-----------------------------------------------------------------------------
Init ==
  /\ has_info = FALSE
  /\ max_seq = -1
  /\ user_data = NewUserData
  /\ now = 1
  /\ fetched = << >>
  /\ sent = << >>
  /\ acked = 0

Max2(a, b) == IF a < b THEN b ELSE a

\* The counter is used without asking the storage for it first.
NextSeqFromZero == max_seq + 1

\* The number SendSave stamps: the counter is read from the storage the first
\* time, and only ever raised by what the storage says.
NextSeq ==
  1 + IF max_seq = -1 THEN Max2(max_seq, GetMaxSeq(user_data)) ELSE max_seq

\* SendSave with a ttl other than NO_EXPIRE, and the DoSendSave and
\* SaveMessage it ends in.
SendSave(ttl) ==
  /\ GetMaxSeq(user_data) < MaxSeq
  /\ has_info' = TRUE
  /\ max_seq' = NextSeq
  /\ user_data' = AddMessage(user_data, NextSeq, ttl, now)
  /\ sent' = Append(sent, IF ttl <= 0 THEN 0 ELSE now + ttl)
  /\ UNCHANGED <<now, fetched, acked>>

\* UpdateUserAck: the number in a client's T_ACK message, -1 when it has none.
UpdateUserAck(a) ==
  /\ has_info
  /\ user_data' = SetAck(user_data, a)
  /\ acked' = Max2(acked, a)
  /\ UNCHANGED <<has_info, max_seq, now, fetched, sent>>

\* The part of Connect after authentication that concerns the storage: make
\* sure there is a UserInfo and fetch the offline messages.
Connect ==
  /\ has_info' = TRUE
  /\ fetched' = GetMessages(user_data, now)
  /\ UNCHANGED <<max_seq, user_data, now, sent, acked>>

\* The admin request /msg.
Msg ==
  /\ fetched' = GetMessages(user_data, now)
  /\ UNCHANGED <<has_info, max_seq, user_data, now, sent, acked>>

\* An orderly stop and a start: the storage dumps in its destructor and loads
\* in its constructor, user_infos_ starts empty.
Restart ==
  /\ user_data' = Load(Dump(user_data, now))
  /\ has_info' = FALSE
  /\ max_seq' = -1
  /\ UNCHANGED <<now, fetched, sent, acked>>

Tick ==
  /\ now < MaxClock
  /\ now' = now + 1
  /\ UNCHANGED <<has_info, max_seq, user_data, fetched, sent, acked>>

Next ==
  \/ \E ttl \in Ttls : SendSave(ttl)
  \* a client acknowledges a number it was sent
  \/ \E a \in -1 .. GetMaxSeq(user_data) : UpdateUserAck(a)
  \/ Connect
  \/ Msg
  \/ Restart
  \/ Tick

Spec == Init /\ [][Next]_vars

-----------------------------------------------------------------------------
\* The slot message s occupies in a ring while it is kept.
PosIn(q, s) ==
  LET i == q.head + s - q.head_seq - 1
  IN  IF i < Size THEN i ELSE i - Size

Pos(s) == PosIn(user_data, s)

Kept == user_data.head_seq + 1 .. user_data.tail_seq

TypeOK ==
  /\ has_info \in BOOLEAN
  /\ max_seq \in Nat \cup {-1}
  /\ user_data \in [head : Slots, head_seq : Nat, tail : Slots, tail_seq : Nat,
                    ack : Int,
                    msg_queue : [Slots -> [expire : Int, msg : Nat]]]
  /\ now \in Nat \ {0}
  /\ sent \in Seq(Int)
  /\ acked \in Nat

\* The two cursors of the ring and the two sequence numbers they stand for
\* (InMemoryUserData::AddMessage) never drift apart, across wrap-around,
\* overflow, dump and load: the distance between the cursors is the number of
\* messages kept, the oldest ones are the ones dropped, the acknowledged
\* position does not pass the newest one, and the slot of a number holds that
\* number or nothing.
RingAligned ==
  LET q == user_data IN
  /\ q.tail_seq - q.head_seq =
       IF q.head <= q.tail THEN q.tail - q.head ELSE q.tail - q.head + Size
  /\ q.head_seq = Max2(0, q.tail_seq - MaxOffline)
  /\ q.ack <= q.tail_seq
  /\ \A s \in Kept : q.msg_queue[Pos(s)].msg \in {s, NullMsg}

\* The counter in user_infos_ and the storage's own count (SaveMessage ignores
\* the number it is given) agree once the counter has been read, and they
\* count every message ever saved, also across restarts.
SeqLockstep ==
  /\ max_seq \in {-1, GetMaxSeq(user_data)}
  /\ GetMaxSeq(user_data) = Len(sent)

\* No message is lost: one that was never acknowledged, is not among the ones
\* pushed out by newer ones and has not expired is still in its slot, with
\* the expiry it was saved with.  The acknowledged position moves only by
\* acknowledgements and by the dropping of old messages.
UnackedKept ==
  /\ user_data.ack <= Max2(acked, user_data.head_seq)
  /\ \A s \in Kept :
       s > acked /\ (sent[s] <= 0 \/ now < sent[s]) =>
         user_data.msg_queue[Pos(s)] = [expire |-> sent[s], msg |-> s]

\* The first number behind both the acknowledged and the dropped messages,
\* less one.
FetchFrom == Max2(user_data.ack, user_data.head_seq)

\* The two reading loops of GetMessages and Dump visit the slots of exactly
\* the messages behind the acknowledged position, oldest first: none twice,
\* none beyond the tail, none missed where the ring wraps around.
FetchWindow ==
  Visited(user_data) =
    [k \in 1 .. user_data.tail_seq - FetchFrom |-> Pos(FetchFrom + k)]

-----------------------------------------------------------------------------
\* The log that the ring stands for: the messages in the slots of the numbers
\* kept.
KeptLog ==
  {[seq |-> s, expire |-> user_data.msg_queue[Pos(s)].expire] :
     s \in {t \in Kept : user_data.msg_queue[Pos(t)].msg # NullMsg}}

Log ==
  INSTANCE OfflineLog WITH last <- user_data.tail_seq, log <- KeptLog, ack <- user_data.ack

\* The ring with its cursors, its two reading loops and its dump behaves as
\* the bounded log of OfflineLog: every fetch returns, in order, exactly the
\* unexpired messages behind the acknowledged position.
ImplementsOfflineLog == Log!Spec
=============================================================================
