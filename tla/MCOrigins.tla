----------------------------- MODULE MCOrigins -----------------------------
(* One origin, two users, and days of three ticks.                         *)

EXTENDS Origins, TLC

CONSTANTS url, u1, u2

SymUsers == Permutations({u1, u2})
=============================================================================
