---------------------------- MODULE MCPublishing ----------------------------
(* Publishing for TLC: a tab shows the profile of one wallet.              *)
EXTENDS Publishing

CONSTANTS u1, u2, k, d1, d2, t1

MCAddressOf == [t \in Tab |-> u1]
MCShown == [t \in Tab |-> d2]
=============================================================================
