------------------------------ MODULE CrlfText ------------------------------
(***************************************************************************)
(* The symbols of the text protocols.  A symbol is a pair <<kind, value>>: *)
(* a byte that matters, or a word the parsers read as a whole (a header    *)
(* field, a number).  A read may cut between any two symbols; cutting      *)
(* inside a word is no different, as the parsers wait for the end of the   *)
(* line it stands in.                                                      *)
(***************************************************************************)
EXTENDS Integers, Sequences

CR   == <<"cr", 0>>
LF   == <<"lf", 0>>
CRLF == <<CR, LF>>

\* The first offset (from 0) not below off at which a CRLF begins in s; -1: there is none.
FindCrlf(s, off) ==
  LET places == {i \in off..(Len(s) - 2) : s[i + 1] = CR /\ s[i + 2] = LF}
  IN IF places = {} THEN -1 ELSE CHOOSE i \in places : \A j \in places : i <= j
=============================================================================
