---------------------------- MODULE MCLifecycle ----------------------------
(* Three artifacts, two of them prefetched by the command.                 *)

EXTENDS Lifecycle

CONSTANTS a, b, c
=============================================================================
