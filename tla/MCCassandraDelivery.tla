------------------------- MODULE MCCassandraDelivery -------------------------
(* One user, one channel, a few messages.                                  *)
EXTENDS CassandraDelivery, TLC

Symmetry == Permutations(Messages \ Transient)
=============================================================================
