---------------------------- MODULE MCSmbClient ----------------------------
(***************************************************************************)
(* A small instance of SmbClient: servers of up to three shares, one of    *)
(* each sort that the code tells apart, and clock readings on both sides   *)
(* of a second, of a millisecond and of the borrow.  A millisecond has 1000 *)
(* nanoseconds, to stay within the integers of TLC.                        *)
(***************************************************************************)
EXTENDS SmbClient

Share(kind, flag, name, comment) ==
  [kind |-> kind, flag |-> flag, name |-> name, comment |-> comment]

MCShares == { Share("disktree", "plain", "plain", TRUE),
              Share("disktree", "hidden", "plain", FALSE),
              Share("disktree", "plain", "dollar", FALSE),
              Share("disktree", "plain", "none", FALSE),
              Share("ipc", "hidden", "dollar", TRUE) }

MCDirLimits == {1, 2, 50}

MCClock == [sec : 0..3, nsec : {0, 1, NsPerMs - 1, NsPerMs, NsPerSec - 1}]
=============================================================================
