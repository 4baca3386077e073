----------------------------- MODULE SyslogText -----------------------------
(***************************************************************************)
(* Rigi_Syslog_Message: the text of a message behind the framing, as parse *)
(* reads it and as encode writes it.  A text is a sequence of symbols: the *)
(* number of the priority is one, every other symbol is a character.       *)
(***************************************************************************)
EXTENDS Naturals, Sequences, SequencesExt

CONSTANT TimeLength   \* characters of an RFC 3164 timestamp, 15

Lt    == <<"<", 0>>
Gt    == <<">", 0>>
SP    == <<"sp", 0>>
Dash  == <<"-", 0>>
Colon == <<":", 0>>
Open  == <<"[", 0>>
Close == <<"]", 0>>
Number(n) == <<"number", n>>
Digit(d)  == <<"digit", d>>

\* The offset of the text x at or behind pos; Len(s) + 1: there is none (npos).
FindAt(s, x, pos) ==
  LET at == {i \in pos..(Len(s) + 1 - Len(x)) : SubSeq(s, i, i + Len(x) - 1) = x} IN
  IF at = {} THEN Len(s) + 1 ELSE CHOOSE i \in at : \A j \in at : i <= j

Behind(s, pos) == SubSeq(s, pos, Len(s))

Invalid == [valid |-> FALSE]
Fields(priority, version, timestamp, hostname, app_name, proc_id, msg_id, structured_data, message) ==
  [valid |-> TRUE, facility |-> priority \div 8, severity |-> priority % 8, version |-> version,
   timestamp |-> timestamp, hostname |-> hostname, app_name |-> app_name, proc_id |-> proc_id,
   msg_id |-> msg_id, structured_data |-> structured_data, message |-> message]

-----------------------------------------------------------------------------
(* parse.                                                                   *)

\* Mutated form: the field "-" is taken for a text.
next_field_Nil(s, pos) ==
  LET end == FindAt(s, <<SP>>, pos) IN
  [text |-> SubSeq(s, pos, end - 1), next |-> IF end > Len(s) THEN end ELSE end + 1]

\* The text up to the next space, and the offset behind that.
next_field(s, pos) ==
  LET end == FindAt(s, <<SP>>, pos)
      raw == SubSeq(s, pos, end - 1)
  IN [text |-> IF raw = <<Dash>> THEN <<>> ELSE raw, next |-> IF end > Len(s) THEN end ELSE end + 1]

\* RFC 5424: five fields, the structured data, the message.  Structured data that does not end with
\* "] " is left to the message.
parse5424(s, priority, version, pos) ==
  LET timestamp == next_field(s, pos)
      hostname  == next_field(s, timestamp.next)
      app_name  == next_field(s, hostname.next)
      proc_id   == next_field(s, app_name.next)
      msg_id    == next_field(s, proc_id.next)
      sd        == msg_id.next
      sd_end    == FindAt(s, <<Close, SP>>, sd)
      hasData   == sd <= Len(s) /\ s[sd] = Open
      ended     == hasData /\ sd_end <= Len(s)
      message   == IF ended THEN sd_end + 2 ELSE IF hasData THEN sd ELSE next_field(s, sd).next
  IN Fields(priority, version, timestamp.text, hostname.text, app_name.text, proc_id.text,
            msg_id.text, IF ended THEN SubSeq(s, sd, sd_end) ELSE <<>>, Behind(s, message))

\* RFC 3164: a timestamp if there is room for one, HOST TAG: MSG.
parse3164(s, priority, pos) ==
  LET stamped == pos + TimeLength <= Len(s) + 1
      host    == IF stamped THEN pos + TimeLength + 1 ELSE pos
      sp      == FindAt(s, <<SP>>, host)
      tag     == IF sp <= Len(s) THEN sp + 1 ELSE host
      colon   == FindAt(s, <<Colon>>, tag)
      bracket == FindAt(s, <<Open>>, tag)
      tag_end == IF colon <= bracket THEN colon ELSE bracket
      message == IF tag_end > Len(s) THEN tag ELSE IF colon <= bracket THEN colon + 2 ELSE bracket
  IN Fields(priority, 0, IF stamped THEN SubSeq(s, pos, pos + TimeLength - 1) ELSE <<>>,
            IF sp <= Len(s) THEN SubSeq(s, host, sp - 1) ELSE <<>>,
            IF tag_end <= Len(s) THEN SubSeq(s, tag, tag_end - 1) ELSE <<>>,
            <<>>, <<>>, <<>>, Behind(s, message))

\* A priority that is no number, or none, makes the message invalid.  A version is one digit and a
\* space behind it.
parse(s) ==
  LET close == FindAt(s, <<Gt>>, 1)
      pos   == close + 1
  IN IF s = <<>> \/ s[1] # Lt \/ close > Len(s) \/ close < 3 \/ s[2][1] # "number" THEN Invalid
     ELSE IF pos < Len(s) /\ s[pos][1] = "digit" /\ s[pos][2] > 0 /\ s[pos + 1] = SP
     THEN parse5424(s, s[2][2], s[pos][2], pos + 2)
     ELSE parse3164(s, s[2][2], pos)

\* encode: RFC 3164 without the timestamp.
encode(facility, severity, hostname, app_name, message) ==
  <<Lt, Number((facility % 32) * 8 + (severity % 8)), Gt>>
    \o hostname \o <<SP>> \o app_name \o <<Colon, SP>> \o message
=============================================================================
