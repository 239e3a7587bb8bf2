--------------------------- MODULE MCSmbDiscover ---------------------------
(***************************************************************************)
(* A small instance of SmbDiscover: all three standard descriptors open,   *)
(* or one of them closed, or none open at all; credentials of no or of     *)
(* 200 characters; one SIGPIPE from outside.                               *)
(***************************************************************************)
EXTENDS SmbDiscover

MCLaunchFds == {0..2, {1, 2}, {0, 2}, {0, 1}, {}}
MCCredLens  == {0, 200}
=============================================================================
