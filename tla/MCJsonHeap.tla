----------------------------- MODULE MCJsonHeap -----------------------------
(***************************************************************************)
(* A small instance of JsonHeap: a handful of nodes, which are             *)
(* interchangeable.                                                        *)
(***************************************************************************)
EXTENDS JsonHeap, TLC

Interchangeable == Permutations(Nodes)

(* What splices lists and copies them; only "rename" brings keys.          *)
ListOps == {"list", "array", "detach", "insert", "replace", "rename", "duplicate"}

(* What puts keys and flags on items.                                      *)
KeyOps == {"list", "object", "const", "reference", "detach", "rename", "duplicate"}
=============================================================================
