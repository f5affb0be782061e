---------------------------- MODULE MC_CertStore ----------------------------
(* Two certificates of different sizes in a small heap.                   *)
EXTENDS CertStore, TLC

CONSTANTS c1, c2

MC_Certs == {c1, c2}
MC_Size == (c1 :> 2) @@ (c2 :> 3)
=============================================================================
