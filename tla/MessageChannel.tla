--------------------------- MODULE MessageChannel ---------------------------
(***************************************************************************)
(* What a codec promises both ends (docs/04_codec_system.md, section 1:    *)
(* TCP may split and join what was sent, the codec decides when a message  *)
(* is complete): the messages come out as they went in, in order, each     *)
(* once, and every one of them does come out.  Any value is a message.     *)
(***************************************************************************)
EXTENDS Naturals, Sequences

VARIABLES
  sent,      \* messages given to the sender's encode
  received   \* messages the receiver's decode has emitted

vars == <<sent, received>>

Init == sent = <<>> /\ received = <<>>

Send ==
  /\ Len(sent') = Len(sent) + 1
  /\ sent' = Append(sent, sent'[Len(sent')])
  /\ UNCHANGED received

Deliver ==
  /\ Len(received) < Len(sent)
  /\ received' = Append(received, sent[Len(received) + 1])
  /\ UNCHANGED sent

Next == Send \/ Deliver

SafeSpec == Init /\ [][Next]_vars
Spec     == SafeSpec /\ WF_vars(Deliver)
=============================================================================
