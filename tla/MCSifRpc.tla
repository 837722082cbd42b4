------------------------------ MODULE MCSifRpc ------------------------------
(* Two threads and two clients of SifRpc, with fewer packets than the threads *)
(* can ask for.                                                               *)
EXTENDS SifRpc, TLC

CONSTANTS t1, t2, c1, c2

MCThread == {t1, t2}
MCClient == {c1, c2}
MCSymmetry == Permutations(MCThread)
=============================================================================
