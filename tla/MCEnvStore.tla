----------------------------- MODULE MCEnvStore -----------------------------
(* EnvStore with two values, a longer one of which does not fit beside a full
   configuration. *)
EXTENDS EnvStore

CONSTANTS short, long

MCSize == (short :> 1) @@ (long :> 2)
=============================================================================
