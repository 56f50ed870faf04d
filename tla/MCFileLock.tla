----------------------------- MODULE MCFileLock -----------------------------
(* Instances of FileLock for TLC.                                          *)
EXTENDS FileLock, TLC
CONSTANTS a, b, c, p, q, r

OnePerProcess == (a :> p) @@ (b :> q) @@ (c :> r)
=============================================================================
