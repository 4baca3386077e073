--------------------------- MODULE ConnectionPool ---------------------------
(***************************************************************************)
(* What a Rigi_SessionPool promises the manager, without sockets, threads  *)
(* or a mutex: how far each session is in its life, and that the pool is   *)
(* cleared once.  A session is offered, and admitted or refused; a member  *)
(* is closed before it leaves, except when the pool is cleared.            *)
(***************************************************************************)
EXTENDS Naturals, FiniteSets

CONSTANTS
  Sessions,
  Capacity   \* how many members the pool takes

VARIABLES
  stage,     \* how far each session is
  cleared    \* the pool has been cleared

vars == <<stage, cleared>>

At(x)   == {s \in Sessions : stage[s] = x}
Members == At("member") \union At("closing")
Waiting == At("offered") \union At("refused")

Init == stage = [s \in Sessions |-> "new"] /\ cleared = FALSE

Move(s, from, to) == stage[s] = from /\ stage' = [stage EXCEPT ![s] = to] /\ UNCHANGED cleared

\* Sessions come one at a time, and none after the pool was cleared.
Offer(s) == Waiting = {} /\ ~cleared /\ Move(s, "new", "offered")

\* One that was offered before may still come in then.
Admit(s) == Cardinality(Members) < Capacity /\ Move(s, "offered", "member")

Refuse(s)  == Cardinality(Members) >= Capacity /\ Move(s, "offered", "refused")
Discard(s) == Move(s, "refused", "gone")

Close(s) == Move(s, "member", "closing")
Leave(s) == Move(s, "closing", "gone")

Clear ==
  /\ ~cleared /\ cleared' = TRUE
  /\ stage' = [s \in Sessions |-> IF s \in Members THEN "gone" ELSE stage[s]]

Next ==
  \/ \E s \in Sessions : Offer(s) \/ Admit(s) \/ Refuse(s) \/ Discard(s) \/ Close(s) \/ Leave(s)
  \/ Clear

Spec == Init /\ [][Next]_vars
=============================================================================
