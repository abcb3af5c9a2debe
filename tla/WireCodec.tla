----------------------------- MODULE WireCodec -----------------------------
(***************************************************************************)
(* The payload codec of the wire protocol (protocol.cpp).                  *)
(*                                                                         *)
(* Encoders and decoders are written by hand, field after field, in the    *)
(* code; here each of them is a LAYOUT, the sequence of the fields it      *)
(* writes or reads, in its own order, and Written and Read say what        *)
(* PayloadWriter and PayloadReader do with it.  The recursion over layouts *)
(* keeps this module to TLC.                                               *)
(***************************************************************************)
EXTENDS WireFrames, SequencesExt, FiniteSets, TLC

\* Op(value), with value evaluated once.
With(value, Op(_)) == CHOOSE result \in {Op(x) : x \in {value}} : TRUE

----------------------------------------------------------------------------
(* Layouts.  A field has no limit unless its reader checks one (AtMost).   *)

Field(op, name, width, items) ==
  [op |-> op, name |-> name, width |-> width, items |-> items, limit |-> Huge]

U8(name)          == Field("number", name, 1, <<>>)
U16(name)         == Field("number", name, 2, <<>>)
U32(name)         == Field("number", name, 4, <<>>)
U64(name)         == Field("number", name, 8, <<>>)
Flag(name)        == Field("flag", name, 1, <<>>)
Text(name)        == Field("text", name, 4, <<>>)
Many(name, items) == Field("many", name, 4, items)
SetOf(name, items) == Field("set", name, 4, items)
Maybe(name, items) == Field("maybe", name, 1, items)
Part(name, items)  == Field("part", name, 0, items)

AtMost(field, limit) == [field EXCEPT !.limit = limit]

Ids(names)          == [i \in DOMAIN names |-> U64(names[i])]
Texts(names, limit) == [i \in DOMAIN names |-> AtMost(Text(names[i]), limit)]

----------------------------------------------------------------------------
(* PayloadWriter.  A text is its bytes, a list the sequence of its items,  *)
(* an optional part a sequence of at most one.                             *)

RECURSIVE Written(_, _)
RECURSIVE WrittenItems(_, _)

PutField(field, value) ==
  LET Items(s) == WrittenItems(field.items, s)
      Count(n) == LittleEndian(n, field.width)
  IN CASE field.op = "number" -> LittleEndian(value, field.width)
       [] field.op = "flag"   -> <<IF value THEN 1 ELSE 0>>
       [] field.op = "text"   -> Count(Len(value)) \o value
       [] field.op = "part"   -> Written(field.items, value)
       [] field.op = "set"    -> Count(Cardinality(value)) \o Items(SetToSeq(value))
       [] OTHER               -> Count(Len(value)) \o Items(value)

Written(layout, message) ==
  IF layout = <<>> THEN <<>>
  ELSE PutField(Head(layout), message[Head(layout).name]) \o Written(Tail(layout), message)

WrittenItems(layout, items) ==
  IF items = <<>> THEN <<>>
  ELSE Written(layout, Head(items)) \o WrittenItems(layout, Tail(items))

----------------------------------------------------------------------------
(* PayloadReader.  A reader that failed stays failed and decode_or refuses *)
(* it, so the first failure decides: the result is Refused from there on.  *)

Refused == [ok |-> FALSE, value |-> <<>>, rest |-> <<>>]
Got(value, rest) == [ok |-> TRUE, value |-> value, rest |-> rest]

RECURSIVE Read(_, _, _)
RECURSIVE ReadItems(_, _, _, _)

GetField(field, bytes) ==
  LET number == Number(Take(bytes, field.width))
      rest   == Drop(bytes, field.width)
      items  == ReadItems(field.items, number, rest, <<>>)
  IN IF Len(bytes) < field.width \/ number > field.limit THEN Refused
     ELSE CASE field.op = "flag" -> Got(number # 0, rest)
            [] field.op = "part" -> Read(field.items, rest, <<>>)
            [] field.op = "maybe" ->
                 ReadItems(field.items, IF number # 0 THEN 1 ELSE 0, rest, <<>>)
            [] field.op = "number" -> Got(number, rest)
            [] field.op = "text" ->
                 IF Len(rest) < number THEN Refused
                 ELSE Got(Take(rest, number), Drop(rest, number))
            [] field.op = "set" -> [items EXCEPT !.value = ToSet(@)]
            [] OTHER -> items

Read(layout, bytes, message) ==
  IF layout = <<>> THEN Got(message, bytes)
  ELSE With(GetField(Head(layout), bytes),
            LAMBDA got : IF got.ok
                         THEN Read(Tail(layout), got.rest,
                                   (Head(layout).name :> got.value) @@ message)
                         ELSE Refused)

ReadItems(layout, count, bytes, items) ==
  IF count = 0 THEN Got(items, bytes)
  ELSE With(Read(layout, bytes, <<>>),
            LAMBDA got : IF got.ok
                         THEN ReadItems(layout, count - 1, got.rest, Append(items, got.value))
                         ELSE Refused)

\* Mutant: the payload need not be exhausted.
ReadPrefix(layout, bytes) == Read(layout, bytes, <<>>)

\* decode_or: every byte of the payload must have been read.
Decoded(layout, bytes) ==
  With(Read(layout, bytes, <<>>),
       LAMBDA read : IF read.ok /\ read.rest = <<>> THEN read ELSE Refused)
============================================================================
