----------------------------- MODULE IdleTimeout -----------------------------
(***************************************************************************)
(* What the timeout wheel promises: an online user is closed by the timer  *)
(* exactly at the Size-th tick after it was last heard of, neither earlier *)
(* nor later.  Where the server sends heartbeats, a streaming user is sent *)
(* one at that tick instead, and the count starts again.                   *)
(***************************************************************************)
EXTENDS Integers

CONSTANTS
  Uids,             \* user names
  Size,             \* ticks of silence
  ServerHeartbeat   \* FLAGS_is_server_heartbeat

VARIABLES
  left,      \* ticks until the user is due; 0 when it is offline
  polling,   \* the online users that use polling
  ticking    \* is the timer callback running?

vars == <<left, polling, ticking>>

Init ==
  /\ left = [u \in Uids |-> 0]
  /\ polling = {}
  /\ ticking = FALSE

\* The user has to be closed once it is due.
MustClose(u) == ~ServerHeartbeat \/ u \in polling

\* Between ticks: users are heard of (heard), go offline (gone) and change
\* between polling and streaming.
Traffic(heard, gone) ==
  /\ ~ticking
  /\ left' = [u \in Uids |-> IF u \in gone THEN 0
                             ELSE IF u \in heard THEN Size ELSE left[u]]
  /\ \A u \in Uids \ (heard \cup gone) : u \in polling' <=> u \in polling
  /\ polling' \subseteq {u \in Uids : left'[u] > 0}
  /\ UNCHANGED ticking

BeginTick == ~ticking /\ ticking' = TRUE /\ UNCHANGED <<left, polling>>

Expire(u) ==
  /\ ticking
  /\ left[u] = 1
  /\ MustClose(u)
  /\ left' = [left EXCEPT ![u] = 0]
  /\ polling' = polling \ {u}
  /\ UNCHANGED ticking

\* No user that has to be closed is left over at the end of its tick.
EndTick ==
  /\ ticking
  /\ \A u \in Uids : left[u] = 1 => ~MustClose(u)
  /\ left' = [u \in Uids |-> IF left[u] = 0 THEN 0
                             ELSE IF left[u] = 1 THEN Size ELSE left[u] - 1]
  /\ ticking' = FALSE
  /\ UNCHANGED polling

Next ==
  \/ \E heard, gone \in SUBSET Uids : Traffic(heard, gone)
  \/ BeginTick
  \/ \E u \in Uids : Expire(u)
  \/ EndTick

Spec == Init /\ [][Next]_vars
=============================================================================
