------------------------------ MODULE Soroban ------------------------------
(***************************************************************************)
(* The part of the Soroban host that the contracts lean on: the Map type   *)
(* they keep in contract storage, and the Vec type of their arguments.     *)
(* A call is atomic and calls are serialised by the ledger; a call that    *)
(* returns an error or panics leaves no trace, so the modules below have   *)
(* one action per SUCCESSFUL call, and its guard is what the call checks.  *)
(***************************************************************************)
EXTENDS Integers, Sequences

\* Map::set: the entry of k is v, whether or not there was one.
MapSet(m, k, v) == [x \in DOMAIN m \cup {k} |-> IF x = k THEN v ELSE m[x]]

\* Map::get followed by unwrap_or(d).
MapGet(m, k, d) == IF k \in DOMAIN m THEN m[k] ELSE d

\* Map::new.
EmptyMap == [x \in {} |-> 0]

\* The elements of a Vec, as Vec::iter().any(..) sees them.
Elements(v) == {v[i] : i \in 1..Len(v)}
=============================================================================
