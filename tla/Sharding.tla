------------------------------ MODULE Sharding ------------------------------
(***************************************************************************)
(* How users are divided among the servers of a cluster: every server has  *)
(* VirtualNodeNum points on a ring of fingerprints, and a user belongs to  *)
(* the server of the first point at or after the user's own fingerprint.   *)
(* Servers are known by their index in the list of peers.                  *)
(***************************************************************************)
EXTENDS Integers

CONSTANTS
  VirtualNodeNum,   \* VIRTUAL_NODE_NUM
  Fingerprint       \* Fingerprint[i][j]: that of "i:j", 64 bits

Virtual == 0..VirtualNodeNum - 1

\* base::Fingerprint of the virtual nodes, as far as it matters.
Fingerprints == [Nat -> [Virtual -> Nat]]

\* Server i has a point at p.
HasPoint(i, p) == \E j \in Virtual : Fingerprint[i][j] = p

\* The keys of mapping_ for n servers.
Points(n) == {p \in Nat : \E i \in 0..n - 1 : HasPoint(i, p)}

\* mapping_[p]: of servers with equal fingerprints the last one is entered last.
Mapping(n, p) ==
  CHOOSE i \in 0..n - 1 : HasPoint(i, p) /\ \A k \in 0..n - 1 : HasPoint(k, p) => k <= i

Least(S) == CHOOSE x \in S : \A y \in S : x <= y

\* lower_bound of a user's fingerprint, and around the end of the map.
Bound(n, hash) ==
  LET after == {p \in Points(n) : hash <= p}
  IN  Least(IF after = {} THEN Points(n) ELSE after)

\* operator[].
Shard(n, hash) == Mapping(n, Bound(n, hash))
=============================================================================
