----------------------------- MODULE MCRecovery -----------------------------
(* Recovery for TLC: two files fill level 0 and level 1, so that a fourth  *)
(* flush compacts twice.                                                   *)
EXTENDS Recovery

TwoTwo == <<2, 2, 4, 8, 16, 32, 64, 128, 256, 512>>
=============================================================================
