--------------------------- MODULE MCOfflineStore ---------------------------
(* TLC instance of OfflineStore. *)
EXTENDS OfflineStore

\* -1 is what a message relayed without a ttl is saved with.
MCTtls == {-1, 1}
=============================================================================
