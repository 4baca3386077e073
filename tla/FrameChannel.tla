---------------------------- MODULE FrameChannel ----------------------------
(***************************************************************************)
(* What ASync_Send promises its callers (docs/01_overview.md, section 2,   *)
(* "safe asynchronous sending"): the frames it accepted reach the          *)
(* connection one at a time, in the order they were accepted, none lost    *)
(* and none twice, until the connection breaks.  Nothing accepted reaches  *)
(* the connection after that.                                              *)
(***************************************************************************)
EXTENDS Sequences

CONSTANT Frames

VARIABLES
  accepted,   \* every frame accepted, in order
  pending,    \* accepted, not yet written to the connection
  wire,       \* written to the connection, in order
  up          \* the connection is not broken

vars == <<accepted, pending, wire, up>>

Init == accepted = <<>> /\ pending = <<>> /\ wire = <<>> /\ up = TRUE

Accept ==
  \E f \in Frames :
    /\ accepted' = Append(accepted, f)
    /\ pending' = IF up THEN Append(pending, f) ELSE pending
    /\ UNCHANGED <<wire, up>>

Transmit ==
  /\ up /\ pending # <<>>
  /\ wire' = Append(wire, Head(pending))
  /\ pending' = Tail(pending)
  /\ UNCHANGED <<accepted, up>>

Break ==
  /\ up /\ up' = FALSE
  /\ pending' = <<>>
  /\ UNCHANGED <<accepted, wire>>

Next == Accept \/ Transmit \/ Break

SafeSpec == Init /\ [][Next]_vars
Spec     == SafeSpec /\ WF_vars(Transmit)
=============================================================================
