----------------------------- MODULE MCHashMap -----------------------------
(***************************************************************************)
(* Three keys in a table that starts with two entries: growth to sixteen,  *)
(* rebuilds at the same size, tombstones taken again, and probes that wrap *)
(* around all happen.  The hashes put all three keys at the last entry,    *)
(* two at one entry next to the third's, three at different entries of a   *)
(* table of four, and two that part only when the table grows.             *)
(***************************************************************************)
EXTENDS HashMap, TLC

CONSTANTS k1, k2, k3

Hashed(a, b, c) == (k1 :> a) @@ (k2 :> b) @@ (k3 :> c)

MCHashes == {Hashed(3, 3, 3), Hashed(0, 0, 1), Hashed(0, 1, 3), Hashed(1, 3, 2)}
=============================================================================
