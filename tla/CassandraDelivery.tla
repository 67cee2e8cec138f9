-------------------------- MODULE CassandraDelivery --------------------------
(***************************************************************************)
(* The messages of one user when the storage is Cassandra: numbering,      *)
(* saving, live sending, the offline fetch of a login, acknowledgements,   *)
(* and one channel the user may subscribe to.                              *)
(*                                                                         *)
(* Every storage call is a query that the database carries out at some     *)
(* later time, independently of the others.  Its callback is posted to the *)
(* main loop by one of the driver's threads, so callbacks of different     *)
(* queries run in any order.  Those of saves, acknowledgements and         *)
(* subscriptions only write to the log, and are left out.                  *)
(*                                                                         *)
(* The user's type is streaming: a session stays open after a message.     *)
(***************************************************************************)
EXTENDS Integers, Sequences, FiniteSets, FiniteSetsExt

CONSTANTS
  Messages,              \* messages published
  ToChannel,             \* those of them published to the channel, not to the user
  Transient,             \* those of them sent with ttl NO_EXPIRE
  NoMsg,
  max_offline_msg_num,   \* the flag
  MaxSessions,           \* bound: logins
  MaxAcks,               \* bound: acknowledgements
  MaxSubs,               \* bound: subscriptions and their cancellations
  MaxFaults,             \* bound: queries that fail
  MaxExpired,            \* bound: rows that expire
  MaxRestarts            \* bound: restarts of the server

ASSUME DeliveryAssumption ==
  /\ ToChannel \subseteq Messages /\ Transient \subseteq Messages
  /\ NoMsg \notin Messages /\ IsFiniteSet(Messages)
  /\ max_offline_msg_num \in Nat \ {0}

VARIABLES
  session,     \* the user's session in users_, 0 when offline
  sessions,    \* number of logins so far
  max_seq,     \* UserInfo::max_seq_
  channel,     \* channels_[cid]: "no entry", or the "user" is in it or "not"
  queries,     \* queries the database has not carried out
  answers,     \* answers whose callback has not run in the main loop
  message,     \* table message: message[seq] is the body, NoMsg for no row
  last_ack,    \* table user, column last_ack; 0 for no row
  subscribed,  \* table channel: is there a row for the user?
  received,    \* client: what it has received, [msg, seq]
  toack,       \* client: numbers it has still to acknowledge, in order
  acks, subs, faults, expired, restarts,
  published,   \* history: messages that were published
  numbered,    \* history: [msg, seq] in the order the numbers were given
  overlap,     \* history: a change of the subscription overlapped with another
               \* or with the filling of the cache
  lost         \* history: numbers in `numbered' whose row was not written or expired

vars == <<session, sessions, max_seq, channel, queries, answers, message, last_ack,
          subscribed, received, toack, acks, subs, faults, expired, restarts,
          published, numbered, overlap, lost>>

MaxSeq == Cardinality(Messages)
Seqs == 1..MaxSeq
NoSeq == -1

\* A query: its kind, the message it is for, a number, and which call it is.
Query(kind, msg, seq, no) == [kind |-> kind, msg |-> msg, seq |-> seq, no |-> no]

\* Its answer: did it succeed, and the number, rows or membership it returns.
Answer(query, ok, seq, rows, user) ==
  [query |-> query, ok |-> ok, seq |-> seq, rows |-> rows, user |-> user]

Kinds == {"GetMaxSeq", "SaveMessage", "GetLastAck", "GetMessage", "UpdateAck",
          "GetChannelUsers", "AddUserToChannel", "RemoveUserFromChannel"}

\* Shape of the variables.
TypeOK ==
  /\ session \in 0..MaxSessions /\ sessions \in 0..MaxSessions
  /\ max_seq \in -1..MaxSeq
  /\ channel \in {"no entry", "user", "not"}
  /\ queries \subseteq [kind : Kinds, msg : Messages \cup {NoMsg}, seq : 0..MaxSeq,
                        no : Nat]
  /\ \A a \in answers : a.query.kind \in {"GetMaxSeq", "GetMessage", "GetChannelUsers"}
  /\ message \in [Seqs -> Messages \cup {NoMsg}]
  /\ last_ack \in 0..MaxSeq
  /\ subscribed \in BOOLEAN
  /\ received \subseteq [msg : Messages, seq : Seqs \cup {NoSeq}]
  /\ toack \in Seq(Seqs)
  /\ acks \in 0..MaxAcks /\ subs \in 0..MaxSubs /\ faults \in 0..MaxFaults
  /\ expired \in 0..MaxExpired /\ restarts \in 0..MaxRestarts
  /\ published \subseteq Messages
  /\ \A i \in DOMAIN numbered : numbered[i].seq \in Seqs
  /\ overlap \in BOOLEAN
  /\ lost \subseteq DOMAIN numbered

Init ==
  /\ session = 0 /\ sessions = 0
  /\ max_seq = -1
  /\ channel = "no entry"
  /\ queries = {} /\ answers = {}
  /\ message = [s \in Seqs |-> NoMsg]
  /\ last_ack = 0
  /\ subscribed = FALSE
  /\ received = {} /\ toack = << >>
  /\ acks = 0 /\ subs = 0 /\ faults = 0 /\ expired = 0 /\ restarts = 0
  /\ published = {} /\ numbered = << >>
  /\ overlap = FALSE /\ lost = {}

-----------------------------------------------------------------------------
(* Sending, as handlers do it.                                             *)

\* User::Send of a sequence of [msg, seq]: the client takes each and will
\* acknowledge the ones that have a number.
Send(rows) ==
  /\ received' = received \cup {rows[i] : i \in DOMAIN rows}
  /\ toack' = toack \o [i \in DOMAIN rows |-> rows[i].seq]

\* DoSendSave with the next number after base; `rest' are the other queries.
DoSendSave(m, base, rest) ==
  LET row == [msg |-> m, seq |-> base + 1]
  IN  /\ max_seq' = base + 1
      /\ numbered' = Append(numbered, row)
      /\ IF session # 0 THEN Send(<<row>>) ELSE UNCHANGED <<received, toack>>
      /\ queries' = rest \cup {Query("SaveMessage", m, base + 1, 0)}

\* The number is taken as if it were known.
SendSaveUnasked(m) ==
  IF m \in Transient
  THEN /\ received' = IF session # 0 THEN received \cup {[msg |-> m, seq |-> NoSeq]}
                      ELSE received
       /\ UNCHANGED <<max_seq, numbered, toack, queries>>
  ELSE DoSendSave(m, IF max_seq = -1 THEN 0 ELSE max_seq, queries)

\* SendSave: a transient message is sent or dropped; another is numbered, once
\* the highest number of the user has been asked for.
SendSave(m) ==
  IF m \in Transient
  THEN /\ received' = IF session # 0 THEN received \cup {[msg |-> m, seq |-> NoSeq]}
                      ELSE received
       /\ UNCHANGED <<max_seq, numbered, toack, queries>>
  ELSE IF max_seq = -1
       THEN /\ queries' = queries \cup {Query("GetMaxSeq", m, 0, 0)}
            /\ UNCHANGED <<max_seq, numbered, received, toack>>
       ELSE DoSendSave(m, max_seq, queries)

-----------------------------------------------------------------------------
(* Handlers of the main loop.                                              *)

Changing == \E q \in queries : q.kind \in {"AddUserToChannel", "RemoveUserFromChannel"}
Filling == \/ \E q \in queries : q.kind = "GetChannelUsers"
           \/ \E a \in answers : a.query.kind = "GetChannelUsers"

\* Pub to the user.
Pub(m) ==
  /\ m \notin published \cup ToChannel
  /\ published' = published \cup {m}
  /\ SendSave(m)
  /\ UNCHANGED <<session, sessions, channel, answers, message, last_ack, subscribed,
                 acks, subs, faults, expired, restarts, overlap, lost>>

\* SendChannelMsg: the users of the channel come from the cache, or are asked for.
PubChannel(m) ==
  /\ m \in ToChannel \ published
  /\ published' = published \cup {m}
  /\ \/ /\ channel = "no entry"
        /\ overlap' = (overlap \/ Changing)
        /\ queries' = queries \cup {Query("GetChannelUsers", m, 0, 0)}
        /\ UNCHANGED <<max_seq, numbered, received, toack>>
     \/ /\ channel = "user"
        /\ SendSave(m)
        /\ UNCHANGED overlap
     \/ /\ channel = "not"
        /\ UNCHANGED <<overlap, queries, max_seq, numbered, received, toack>>
  /\ UNCHANGED <<session, sessions, channel, answers, message, last_ack, subscribed,
                 acks, subs, faults, expired, restarts, lost>>

\* Connect, after the authentication: a relogin replaces the session.
Connect ==
  /\ sessions < MaxSessions
  /\ sessions' = sessions + 1
  /\ session' = sessions + 1
  /\ toack' = << >>
  /\ queries' = queries \cup {Query("GetLastAck", NoMsg, 0, sessions + 1)}
  /\ UNCHANGED <<max_seq, channel, answers, message, last_ack, subscribed, received,
                 acks, subs, faults, expired, restarts, published, numbered, overlap, lost>>

\* The session ends, from either side.
OnUserDisconnect ==
  /\ session # 0
  /\ session' = 0
  /\ toack' = << >>
  /\ UNCHANGED <<sessions, max_seq, channel, queries, answers, message, last_ack,
                 subscribed, received, acks, subs, faults, expired, restarts,
                 published, numbered, overlap, lost>>

\* An acknowledgement of the client arrives.
UpdateUserAck ==
  /\ session # 0 /\ toack # << >> /\ acks < MaxAcks
  /\ acks' = acks + 1
  /\ toack' = Tail(toack)
  /\ queries' = queries \cup {Query("UpdateAck", NoMsg, Head(toack), acks + 1)}
  /\ UNCHANGED <<session, sessions, max_seq, channel, answers, message, last_ack,
                 subscribed, received, subs, faults, expired, restarts,
                 published, numbered, overlap, lost>>

\* The cache is left as it is.
SubscribeUncached ==
  /\ subs < MaxSubs
  /\ subs' = subs + 1
  /\ overlap' = (overlap \/ Changing \/ Filling)
  /\ queries' = queries \cup {Query("AddUserToChannel", NoMsg, 0, subs + 1)}
  /\ UNCHANGED <<session, sessions, max_seq, channel, answers, message, last_ack,
                 subscribed, received, toack, acks, faults, expired, restarts,
                 published, numbered, lost>>

Subscribe ==
  /\ subs < MaxSubs
  /\ subs' = subs + 1
  /\ channel' = IF channel = "no entry" THEN channel ELSE "user"
  /\ overlap' = (overlap \/ Changing \/ Filling)
  /\ queries' = queries \cup {Query("AddUserToChannel", NoMsg, 0, subs + 1)}
  /\ UNCHANGED <<session, sessions, max_seq, answers, message, last_ack, subscribed,
                 received, toack, acks, faults, expired, restarts,
                 published, numbered, lost>>

Unsubscribe ==
  /\ subs < MaxSubs
  /\ subs' = subs + 1
  /\ channel' = IF channel = "no entry" THEN channel ELSE "not"
  /\ overlap' = (overlap \/ Changing \/ Filling)
  /\ queries' = queries \cup {Query("RemoveUserFromChannel", NoMsg, 0, subs + 1)}
  /\ UNCHANGED <<session, sessions, max_seq, answers, message, last_ack, subscribed,
                 received, toack, acks, faults, expired, restarts,
                 published, numbered, lost>>

-----------------------------------------------------------------------------
(* Callbacks, run by the main loop.                                        *)

\* The answer becomes the counter, whatever the counter is by now.
CounterFromAnswer(seq) == seq

\* The highest number known: the answer's, or one given since it was asked for.
CounterAfter(seq) == IF max_seq < seq THEN seq ELSE max_seq

\* Only the callback that raises the counter saves its message.
GotMaxSeqOnce(a) ==
  /\ a \in answers /\ a.query.kind = "GetMaxSeq"
  /\ answers' = answers \ {a}
  /\ IF a.ok /\ max_seq < a.seq
     THEN DoSendSave(a.query.msg, a.seq, queries)
     ELSE UNCHANGED <<max_seq, numbered, received, toack, queries>>
  /\ UNCHANGED <<session, sessions, channel, message, last_ack, subscribed, acks, subs,
                 faults, expired, restarts, published, overlap, lost>>

\* The callback of GetMaxSeq.
GotMaxSeq(a) ==
  /\ a \in answers /\ a.query.kind = "GetMaxSeq"
  /\ answers' = answers \ {a}
  /\ IF a.ok THEN DoSendSave(a.query.msg, CounterAfter(a.seq), queries)
     ELSE UNCHANGED <<max_seq, numbered, received, toack, queries>>
  /\ UNCHANGED <<session, sessions, channel, message, last_ack, subscribed, acks, subs,
                 faults, expired, restarts, published, overlap, lost>>

\* The offline messages go to the session the user has now, if any.
GotMessages(a) ==
  /\ a \in answers /\ a.query.kind = "GetMessage"
  /\ answers' = answers \ {a}
  /\ IF a.ok /\ session # 0 THEN Send(a.rows) ELSE UNCHANGED <<received, toack>>
  /\ UNCHANGED <<session, sessions, max_seq, channel, queries, message, last_ack,
                 subscribed, acks, subs, faults, expired, restarts, published,
                 numbered, overlap, lost>>

\* The users of the channel: send to them, and keep them unless there is an entry.
GotChannelUsers(a) ==
  /\ a \in answers /\ a.query.kind = "GetChannelUsers"
  /\ answers' = answers \ {a}
  /\ IF a.ok /\ a.user THEN SendSave(a.query.msg)
     ELSE UNCHANGED <<max_seq, numbered, received, toack, queries>>
  /\ channel' = IF a.ok /\ channel = "no entry"
                THEN IF a.user THEN "user" ELSE "not"
                ELSE channel
  /\ UNCHANGED <<session, sessions, message, last_ack, subscribed, acks, subs,
                 faults, expired, restarts, published, overlap, lost>>

-----------------------------------------------------------------------------
(* The database.                                                           *)

server == <<session, sessions, max_seq, channel, received, toack, acks, subs,
            restarts, published, numbered, overlap>>

\* SELECT seq ... ORDER BY seq DESC limit 1, or 0.
HighestSeq == Max({0} \cup {s \in Seqs : message[s] # NoMsg})

\* The rows above `ack', oldest first, and of these the newest that fit.
Rows(ack) ==
  LET above == SelectSeq([s \in Seqs |-> [msg |-> message[s], seq |-> s]],
                         LAMBDA r : r.seq > ack /\ r.msg # NoMsg)
      skipped == Max({0, Len(above) - max_offline_msg_num})
  IN  SubSeq(above, skipped + 1, Len(above))

ReadQuery(q) ==
  /\ q \in queries
  /\ \/ /\ q.kind = "GetMaxSeq"
        /\ queries' = queries \ {q}
        /\ answers' = answers \cup {Answer(q, TRUE, HighestSeq, << >>, FALSE)}
     \/ /\ q.kind = "GetLastAck"
        /\ queries' = (queries \ {q}) \cup {Query("GetMessage", NoMsg, last_ack, q.no)}
        /\ UNCHANGED answers
     \/ /\ q.kind = "GetMessage"
        /\ queries' = queries \ {q}
        /\ answers' = answers \cup {Answer(q, TRUE, 0, Rows(q.seq), FALSE)}
     \/ /\ q.kind = "GetChannelUsers"
        /\ queries' = queries \ {q}
        /\ answers' = answers \cup {Answer(q, TRUE, 0, << >>, subscribed)}
  /\ UNCHANGED server /\ UNCHANGED <<message, last_ack, subscribed, faults, expired, lost>>

WriteQuery(q) ==
  /\ q \in queries
  /\ queries' = queries \ {q}
  /\ \/ /\ q.kind = "SaveMessage"
        /\ message' = [message EXCEPT ![q.seq] = q.msg]
        /\ UNCHANGED <<last_ack, subscribed>>
     \/ /\ q.kind = "UpdateAck"
        /\ last_ack' = q.seq
        /\ UNCHANGED <<message, subscribed>>
     \/ /\ q.kind \in {"AddUserToChannel", "RemoveUserFromChannel"}
        /\ subscribed' = (q.kind = "AddUserToChannel")
        /\ UNCHANGED <<message, last_ack>>
  /\ UNCHANGED server /\ UNCHANGED <<answers, faults, expired, lost>>

Named(m) == {i \in DOMAIN numbered : numbered[i].msg = m}

\* A query fails: a read is answered with the error, a write leaves no trace.
FailedQuery(q) ==
  /\ q \in queries /\ faults < MaxFaults
  /\ faults' = faults + 1
  /\ queries' = queries \ {q}
  /\ answers' = CASE q.kind \in {"GetMaxSeq", "GetMessage", "GetChannelUsers"} ->
                       answers \cup {Answer(q, FALSE, 0, << >>, FALSE)}
                  [] q.kind = "GetLastAck" ->
                       answers \cup {Answer(Query("GetMessage", NoMsg, 0, q.no),
                                            FALSE, 0, << >>, FALSE)}
                  [] OTHER -> answers
  /\ lost' = IF q.kind = "SaveMessage" THEN lost \cup Named(q.msg) ELSE lost
  /\ UNCHANGED server /\ UNCHANGED <<message, last_ack, subscribed, expired>>

\* The time to live of a row is over.
Expire(s) ==
  /\ message[s] # NoMsg /\ expired < MaxExpired
  /\ expired' = expired + 1
  /\ message' = [message EXCEPT ![s] = NoMsg]
  /\ lost' = lost \cup Named(message[s])
  /\ UNCHANGED server /\ UNCHANGED <<queries, answers, last_ack, subscribed, faults>>

\* The server stops and starts again.  Closing the database session waits for
\* its queries; callbacks that have not run are dropped.
Restart ==
  /\ restarts < MaxRestarts /\ queries = {}
  /\ restarts' = restarts + 1
  /\ session' = 0 /\ toack' = << >>
  /\ max_seq' = -1
  /\ channel' = "no entry"
  /\ answers' = {}
  /\ UNCHANGED <<sessions, queries, message, last_ack, subscribed, received, acks, subs,
                 faults, expired, published, numbered, overlap, lost>>

Next ==
  \/ \E m \in Messages : Pub(m) \/ PubChannel(m)
  \/ Connect \/ OnUserDisconnect \/ UpdateUserAck \/ Subscribe \/ Unsubscribe
  \/ \E a \in answers : GotMaxSeq(a) \/ GotMessages(a) \/ GotChannelUsers(a)
  \/ \E q \in queries : ReadQuery(q) \/ WriteQuery(q) \/ FailedQuery(q)
  \/ \E s \in Seqs : Expire(s)
  \/ Restart

Spec == Init /\ [][Next]_vars

\* The driver answers every query, if need be with an error, and the main loop
\* runs every callback that was posted to it.
Fairness ==
  \A m \in Messages :
    /\ WF_vars(\E q \in queries : q.msg = m /\ (ReadQuery(q) \/ WriteQuery(q)))
    /\ WF_vars(\E a \in answers : a.query.msg = m /\ (GotMaxSeq(a) \/ GotChannelUsers(a)))

FairSpec == Spec /\ Fairness

-----------------------------------------------------------------------------
(* Properties.                                                             *)

\* Two messages get the same number only if the row of the first one was never
\* written or has expired: concurrent questions for the highest number, and a
\* restart, give each message a number of its own (SendSave, OnGetMaxSeq).
NumbersShared ==
  \A i, j \in DOMAIN numbered :
    i < j /\ numbered[i].seq = numbered[j].seq => i \in lost

\* A message that was given a number is being saved, or is in the table under
\* that number, unless its row was lost: no save overwrites another's row
\* (DoSendSave, SaveMessage).
NumberedKept ==
  \A i \in DOMAIN numbered :
    \/ Query("SaveMessage", numbered[i].msg, numbered[i].seq, 0) \in queries
    \/ message[numbered[i].seq] = numbered[i].msg
    \/ i \in lost

\* The cached users of a channel are those in the table, unless a change is
\* still on its way, was refused by the database, or overlapped with another
\* change or with the filling of the cache (SendChannelMsg, Subscribe,
\* Unsubscribe).
CacheRight ==
  channel # "no entry" /\ ~Changing /\ ~overlap /\ faults = 0
    => ((channel = "user") <=> subscribed)

\* A message published to the user is saved in the end, though its number may
\* have to be asked for first; only an error of the database or a restart in
\* between can prevent it (SendSave, GetMaxSeq, DoSendSave).
PubSaved ==
  \A m \in Messages \ (ToChannel \cup Transient) :
    m \in published ~> \/ \E s \in Seqs : message[s] = m
                       \/ \E i \in lost : numbered[i].msg = m
                       \/ faults > 0 \/ restarts > 0

\* The offline fetch of a login is not over.
Fetching == \/ \E q \in queries : q.kind \in {"GetLastAck", "GetMessage"}
            \/ \E a \in answers : a.query.kind = "GetMessage"

\* Once the offline fetch is over, what is below the acknowledged position has
\* been received: then it is enough to fetch the messages above it, as the
\* README says of offline messages (Connect, GetMessage, UpdateUserAck).
AckedReceived ==
  \A i \in DOMAIN numbered :
    numbered[i].seq <= last_ack /\ ~Fetching => numbered[i] \in received

=============================================================================
