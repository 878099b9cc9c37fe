---------------------------- MODULE MCKeeperHub ----------------------------
(* Instances of KeeperHub: one account that mints, and KeeperHub's wallet. *)
EXTENDS KeeperHub

CONSTANTS a1, k1, d1, r1, r2, zero
=============================================================================
