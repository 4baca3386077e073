------------------------------ MODULE RESPCodec ------------------------------
(***************************************************************************)
(* Rigi_Codec_RESP between the encoding helpers of Rigi_RESP_Value and its *)
(* parse.  A value is <<type, content>>: the characters of a string, a     *)
(* number, or the elements of an array.  Offsets count from 0, as in the   *)
(* code.                                                                   *)
(***************************************************************************)
EXTENDS CodecStream, CrlfText, SequencesExt

CONSTANT Messages   \* what may be sent

VARIABLE overread   \* decode has emitted or erased beyond the end of its buffer

vars == <<streamVars, overread>>

Null   == <<"null", <<>>>>
Mark(c) == <<c, 0>>          \* a type character
Num(n)  == <<"num", n>>      \* a decimal number

-----------------------------------------------------------------------------
(* The encoding helpers.                                                    *)

encode_scalar(v) ==
  CASE v[1] = "simple"  -> <<Mark("+")>> \o v[2] \o CRLF
    [] v[1] = "error"   -> <<Mark("-")>> \o v[2] \o CRLF
    [] v[1] = "integer" -> <<Mark(":"), Num(v[2])>> \o CRLF
    [] v[1] = "null"    -> <<Mark("$"), Num(-1)>> \o CRLF
    [] v[1] = "bulk"    -> <<Mark("$"), Num(Len(v[2]))>> \o CRLF \o v[2] \o CRLF

\* encode_array, and with bulk strings as elements encode_command.
encode_array(items) ==
  <<Mark("*"), Num(Len(items))>> \o CRLF
    \o FlattenSeq([i \in DOMAIN items |-> encode_scalar(items[i])])

\* The messages hold no arrays in arrays.
encode(v) == IF v[1] = "array" THEN encode_array(v[2]) ELSE encode_scalar(v)

Send(v) == SendFrame(v, encode(v), TRUE) /\ UNCHANGED overread

-----------------------------------------------------------------------------
(* complete: whether a whole value begins at off, and the "consumed" it     *)
(* sets, which is the offset behind the value.                              *)

IsNumber(line) == Len(line) = 1 /\ line[1][1] = "num"

\* Mutated form: the CRLF behind a bulk string is not counted.
BulkEnd_NoCrlf(s, after, n) == IF Len(s) < after + n THEN 0 ELSE after + n

BulkEnd(s, after, n) == IF Len(s) < after + n + 2 THEN 0 ELSE after + n + 2

\* 0: the value is not complete.  Elements is the loop over the elements of an array, whose body
\* is cur += elem.
complete(s, start) ==
  LET at[off \in Nat] ==
        LET Elements[cur, count \in Nat] ==
              IF count = 0 THEN cur
              ELSE LET elem == at[cur]
                   IN IF elem = 0 THEN 0 ELSE Elements[cur + elem, count - 1]
            crlf  == FindCrlf(s, off + 1)
            line  == SubSeq(s, off + 2, crlf)
            after == crlf + 2
            t     == s[off + 1][1]
        IN IF off >= Len(s) \/ crlf = -1 THEN 0
           ELSE CASE t \in {"+", "-", ":"} -> after
                  [] t \in {"$", "*"} /\ IsNumber(line) /\ line[1][2] < 0 -> after
                  [] t = "$" /\ IsNumber(line) /\ line[1][2] >= 0 -> BulkEnd(s, after, line[1][2])
                  [] t = "*" /\ IsNumber(line) /\ line[1][2] >= 0 -> Elements[after, line[1][2]]
                  [] OTHER -> 0
  IN at[start]

-----------------------------------------------------------------------------
(* Rigi_RESP_Value::parse, with the same arithmetic: the value at off and   *)
(* the offset behind it.                                                    *)

parse_at(s, start) ==
  LET at[off \in Nat] ==
        LET Elements[cur, count \in Nat] ==
              IF count = 0 THEN [values |-> <<>>, end |-> cur]
              ELSE LET elem == at[cur]
                       rest == Elements[cur + elem.end, count - 1]
                   IN [values |-> <<elem.value>> \o rest.values, end |-> rest.end]
            crlf  == FindCrlf(s, off + 1)
            line  == SubSeq(s, off + 2, crlf)
            after == crlf + 2
            t     == s[off + 1][1]
        IN CASE t = "+" -> [value |-> <<"simple", line>>, end |-> after]
             [] t = "-" -> [value |-> <<"error", line>>, end |-> after]
             [] t = ":" -> [value |-> <<"integer", line[1][2]>>, end |-> after]
             [] t \in {"$", "*"} /\ line[1][2] < 0 -> [value |-> Null, end |-> after]
             [] t = "$" /\ line[1][2] >= 0 ->
                  [value |-> <<"bulk", SubSeq(s, after + 1, after + line[1][2])>>,
                   end |-> after + line[1][2] + 2]
             [] t = "*" /\ line[1][2] >= 0 ->
                  LET all == Elements[after, line[1][2]]
                  IN [value |-> <<"array", all.values>>, end |-> all.end]
  IN at[start]

-----------------------------------------------------------------------------
DecodeEmit ==
  LET consumed == complete(buf, 0) IN
  /\ consumed # 0
  /\ Emit(parse_at(buf, 0).value, consumed)
  /\ overread' = (overread \/ consumed > Len(buf))

DecodeReturn == complete(buf, 0) = 0 /\ Return /\ UNCHANGED overread

Decode == DecodeEmit \/ DecodeReturn

ReadAny == ReadSome /\ UNCHANGED overread

Init == StreamInit /\ overread = FALSE
Next == ~overread /\ (Decode \/ ReadAny \/ \E v \in Messages : Send(v))
Spec == Init /\ [][Next]_vars /\ WF_vars(~overread /\ Decode) /\ WF_vars(~overread /\ ReadAny)

-----------------------------------------------------------------------------
\* What complete says of the front of the buffer ends where a value ends: the comment on it
\* (Rigi_Codec_RESP.hpp:85) says that it sets the number of bytes of the complete value.
ConsumesOneValue ==
  LET consumed == complete(buf, 0) IN
  decoding /\ consumed # 0 /\ ~overread =>
    \E i \in DOMAIN ends : ends[i] = position - Len(buf) + consumed
=============================================================================
