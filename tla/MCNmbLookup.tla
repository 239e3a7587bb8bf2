---------------------------- MODULE MCNmbLookup ----------------------------
(***************************************************************************)
(* A small instance of NmbLookup: up to two workgroups, perhaps the same   *)
(* one twice, up to two interfaces, and answers of up to two addresses, an *)
(* empty list among them.                                                  *)
(***************************************************************************)
EXTENDS NmbLookup

MCAnswers == {<<>>, <<"a">>, <<"b", "c">>}

MCAnyIface == {"ipv4", "other"}
=============================================================================
