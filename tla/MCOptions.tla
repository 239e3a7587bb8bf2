----------------------------- MODULE MCOptions -----------------------------
(***************************************************************************)
(* A small instance of Options: command lines of up to four options.  Two  *)
(* values of everything that may be given twice; two long paths that are   *)
(* the same as far as sun_path goes; two spellings of one address; and a   *)
(* size_t of 8 bits, which shows the same wrap as one of 64.               *)
(***************************************************************************)
EXTENDS Options

MCWords == {"w1", "w2"}
MCLongPaths == {"path1", "path2"}
MCCut == [p \in MCLongPaths |-> "path"]
MCAddresses == {"10.1", "10.0.0.1", "10.0.0.2"}
MCDotted == [a \in MCAddresses |-> IF a = "10.1" THEN "10.0.0.1" ELSE a]
MCNameLists == {"g1", "g1:g2"}
MCNumbers == {-1, 0, 3}
=============================================================================
