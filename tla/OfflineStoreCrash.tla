------------------------- MODULE OfflineStoreCrash --------------------------
(***************************************************************************)
(* OfflineStore with processes that are killed: the storage is rebuilt     *)
(* from the latest dump, while the clients keep the numbers they were sent *)
(* and may still acknowledge them.                                         *)
(***************************************************************************)
EXTENDS OfflineStore

VARIABLES
  dump,       \* the latest dump on disk
  issued      \* the highest number a client was ever sent

CrashInit ==
  /\ Init
  /\ dump = Dump(NewUserData, now)
  /\ issued = 0

\* A stop that runs no destructor, then a start from the latest dump.
Crash ==
  /\ user_data' = Load(dump)
  /\ has_info' = FALSE
  /\ max_seq' = -1
  /\ sent' = SubSeq(sent, 1, dump.cursors.tail_seq)
  /\ UNCHANGED <<now, fetched, acked, dump, issued>>

CrashNext ==
  \/ /\ \E ttl \in Ttls : SendSave(ttl)
     /\ issued' = Max2(issued, max_seq')
     /\ UNCHANGED dump
  \/ \E a \in -1 .. issued : UpdateUserAck(a) /\ UNCHANGED <<dump, issued>>
  \/ (Connect \/ Msg \/ Tick) /\ UNCHANGED <<dump, issued>>
  \/ /\ Restart
     /\ dump' = Dump(user_data, now)
     /\ UNCHANGED issued
  \/ Crash

CrashSpec == CrashInit /\ [][CrashNext]_<<vars, dump, issued>>

\* A fetch (GetMessages) returns only messages behind the position the client
\* acknowledged last; the README: "all messages with seq > last_ack".
FetchBehindAck ==
  \A k \in DOMAIN GetMessages(user_data, now) :
    GetMessages(user_data, now)[k] > user_data.ack
=============================================================================
