----------------------------- MODULE MCSdbConn -----------------------------
(* Instances of SdbConn for TLC. *)
EXTENDS SdbConn, TLC

Symmetry == Permutations(Addrs)
=============================================================================
