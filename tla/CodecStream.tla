----------------------------- MODULE CodecStream -----------------------------
(***************************************************************************)
(* The setting every codec runs in: a sender encodes messages onto a TCP   *)
(* stream, the receiver's session reads the stream in pieces cut anywhere  *)
(* and gives each piece to decode.  A codec's module EXTENDS this one and  *)
(* adds its encode and the iterations of the loop in its decode.  What a   *)
(* codec takes for granted of its parameters and messages is a definition, *)
(* its ...Assumption.                                                      *)
(*                                                                         *)
(* decode is a loop that emits one message at a time; one iteration is one *)
(* step.  The erase that follows an emit (or, for Delimiter, the whole     *)
(* loop) is part of that step: buf is what the loop has still to look at.  *)
(***************************************************************************)
EXTENDS Naturals, Sequences, FiniteSets

CONSTANT MaxStream   \* bound: symbols the sender writes to the connection

VARIABLES
  sent,      \* messages the sender encoded, in order
  ends,      \* for each of them, the place in the stream of its last symbol
  wire,      \* written by the sender, not yet read
  position,  \* number of symbols read
  buf,       \* the codec's buffer
  decoding,  \* decode is running
  out        \* messages emitted, in order

streamVars == <<sent, ends, wire, position, buf, decoding, out>>

StreamInit ==
  /\ sent = <<>> /\ ends = <<>> /\ wire = <<>> /\ position = 0
  /\ buf = <<>> /\ decoding = FALSE /\ out = <<>>

\* The sender writes a frame; counts = FALSE: one the receiver is not to emit.
SendFrame(m, frame, counts) ==
  LET end == position + Len(wire) + Len(frame) IN
  /\ end <= MaxStream
  /\ wire' = wire \o frame
  /\ sent' = IF counts THEN Append(sent, m) ELSE sent
  /\ ends' = IF counts THEN Append(ends, end) ELSE ends
  /\ UNCHANGED <<position, buf, decoding, out>>

\* A read of n symbols: Handler_Receive calls decode, which appends them to its buffer.
Read(n) ==
  /\ ~decoding /\ decoding' = TRUE
  /\ buf' = buf \o SubSeq(wire, 1, n)
  /\ wire' = SubSeq(wire, n + 1, Len(wire))
  /\ position' = position + n
  /\ UNCHANGED <<sent, ends, out>>

ReadSome == \E n \in 1..Len(wire) : Read(n)

-----------------------------------------------------------------------------
(* What an iteration of decode's loop ends with.                            *)

\* Emit m and erase the first used symbols of the buffer.
Emit(m, used) ==
  /\ decoding
  /\ out' = Append(out, m)
  /\ buf' = SubSeq(buf, used + 1, Len(buf))
  /\ UNCHANGED <<sent, ends, wire, position, decoding>>

\* Erase and go on without emitting.
Skip(used) ==
  /\ decoding
  /\ buf' = SubSeq(buf, used + 1, Len(buf))
  /\ UNCHANGED <<sent, ends, wire, position, decoding, out>>

\* Leave the loop: nothing complete is left.
Return ==
  /\ decoding /\ decoding' = FALSE
  /\ UNCHANGED <<sent, ends, wire, position, buf, out>>

-----------------------------------------------------------------------------
(* The properties every codec shares.                                       *)

Channel == INSTANCE MessageChannel WITH received <- out

\* Whatever the cuts, the receiver's application sees the messages that were sent, in order, and
\* all of them in the end: the codec with a TCP stream under it implements MessageChannel.
Implements == Channel!Spec

\* Its safety part: in order, each once, never before it was sent.
ImplementsSafely == Channel!SafeSpec

\* What the application was given so far is what was sent: nothing corrupted, invented or left out.
InOrder == \A i \in DOMAIN out : i <= Len(sent) /\ out[i] = sent[i]

\* When decode returns it has emitted every message whose last symbol was read, and no other:
\* none is held back until more data comes, none is emitted early.
Prompt ==
  ~decoding => Len(out) = Cardinality({i \in DOMAIN ends : ends[i] <= position})
=============================================================================
