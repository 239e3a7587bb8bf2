--------------------------- MODULE InvokerChannel ---------------------------
(***************************************************************************)
(* What smb_discover promises the program that starts it (its invoker),    *)
(* seen from the channel between them: the UNIX socket of option -K, or    *)
(* standard output.  One run sends at most a report of itself and then at  *)
(* most one response, in that order and with nothing after them.  Each     *)
(* message may be lost or cut short, for no write is ever retried, but     *)
(* the run always comes to an end.                                         *)
(***************************************************************************)
EXTENDS Sequences

VARIABLES
  stage,  (* "silent", "reported", "answered" or "ended"                   *)
  sent    (* the messages on the channel, oldest first                     *)

channelVars == <<stage, sent>>

Forms == {"whole", "cut", "garbled"}
Message(kind) == [kind : {kind}, form : Forms]

Init == stage = "silent" /\ sent = <<>>

(* The channel carries one more message of this kind, or lost it.          *)
Send(kind) ==
  \/ \E m \in Message(kind) : sent' = Append(sent, m)
  \/ UNCHANGED sent

Report == stage = "silent"   /\ stage' = "reported" /\ Send("report")
Answer == stage = "reported" /\ stage' = "answered" /\ Send("response")
End    == stage # "ended"    /\ stage' = "ended"    /\ UNCHANGED sent

Next == Report \/ Answer \/ End

Safety == Init /\ [][Next]_channelVars

Spec == Safety /\ WF_channelVars(End)
=============================================================================
