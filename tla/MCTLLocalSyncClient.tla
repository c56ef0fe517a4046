-------------------------- MODULE MCTLLocalSyncClient --------------------------
(* Instances of TLLocalSyncClient for TLC. *)
EXTENDS TLLocalSyncClient, TLC

CONSTANTS a, v1, v2, t1, t2

OneRecord == a :> v1
=============================================================================
