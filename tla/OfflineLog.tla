----------------------------- MODULE OfflineLog -----------------------------
(***************************************************************************)
(* What the offline store of one user promises, without a ring: a log of   *)
(* numbered messages of which at most the MaxOffline newest are kept, a    *)
(* position up to which the client acknowledged, and a fetch that returns, *)
(* in the order of their numbers, the messages behind that position that   *)
(* have not expired.  A restart may forget what was acknowledged or had    *)
(* expired, and nothing else.                                              *)
(***************************************************************************)
EXTENDS Integers, Sequences

CONSTANTS
  MaxOffline,  \* how many messages are kept
  Ttls         \* the times to live, in seconds, messages are saved with

VARIABLES
  last,        \* number of the last message saved
  log,         \* the messages kept, a set of records [seq, expire]
  ack,         \* the last acknowledged number
  now,         \* the clock, in seconds
  fetched      \* what the last fetch returned, a sequence of numbers

logvars == <<last, log, ack, now, fetched>>

Expired(m) == m.expire > 0 /\ now >= m.expire

\* f lists the numbers of S in increasing order.
Lists(f, S) ==
  /\ f \in Seq(S)
  /\ \A i, j \in DOMAIN f : i < j => f[i] < f[j]
  /\ \A s \in S : \E i \in DOMAIN f : f[i] = s

Pending == {m \in log : m.seq > ack /\ ~Expired(m)}

-----------------------------------------------------------------------------
Init ==
  /\ last = 0
  /\ log = {}
  /\ ack = 0
  /\ now = 1
  /\ fetched = << >>

Save(ttl) ==
  LET oldest == last + 1 - MaxOffline
      m      == [seq |-> last + 1, expire |-> IF ttl <= 0 THEN 0 ELSE now + ttl]
  IN  /\ last' = last + 1
      /\ log' = {k \in log : k.seq > oldest} \cup {m}
      /\ ack' = IF oldest > 0 /\ ack < oldest THEN oldest ELSE ack
      /\ UNCHANGED <<now, fetched>>

Acknowledge(a) ==
  /\ a \in -1 .. last
  /\ ack' = a
  /\ UNCHANGED <<last, log, now, fetched>>

Fetch ==
  /\ Lists(fetched', {m.seq : m \in Pending})
  /\ UNCHANGED <<last, log, ack, now>>

Restart ==
  /\ last > 0
  /\ log' = Pending
  /\ UNCHANGED <<last, ack, now, fetched>>

RestartEmpty ==
  /\ last = 0
  /\ ack' = 0
  /\ UNCHANGED <<last, log, now, fetched>>

Tick ==
  /\ now' = now + 1
  /\ UNCHANGED <<last, log, ack, fetched>>

Next ==
  \/ \E ttl \in Ttls : Save(ttl)
  \/ \E a \in -1 .. last : Acknowledge(a)
  \/ Fetch
  \/ Restart
  \/ RestartEmpty
  \/ Tick

Spec == Init /\ [][Next]_logvars
=============================================================================
