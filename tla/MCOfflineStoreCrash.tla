------------------------ MODULE MCOfflineStoreCrash -------------------------
(* TLC instance of OfflineStoreCrash. *)
EXTENDS OfflineStoreCrash

MCTtls == {-1}
=============================================================================
