--------------------------- MODULE LayoutSamples ---------------------------
(* Values for a layout: every field holds a value of its own, texts and      *)
(* lists have the given size, and a number its reader limits is at its limit *)
(* or beyond it by the given excess.  Layouts nest three deep at most.       *)
EXTENDS WireCodec

SampleField(Below(_, _, _, _), field, seed, size, excess) ==
  LET items == [i \in 1..size |-> Below(field.items, seed + i, size, excess)]
  IN CASE field.op = "number" -> IF field.limit < Huge THEN field.limit + excess ELSE seed
       [] field.op = "flag"   -> seed % 2 = 0
       [] field.op = "text"   -> [i \in 1..size |-> seed + i]
       [] field.op = "part"   -> Below(field.items, seed + 1, size, excess)
       [] field.op = "set"    -> ToSet(items)
       [] field.op = "maybe"  -> IF size = 0 THEN <<>> ELSE <<items[1]>>
       [] OTHER               -> items

Sample(Below(_, _, _, _), layout, seed, size, excess) ==
  [name \in {layout[i].name : i \in DOMAIN layout} |->
     LET i == CHOOSE j \in DOMAIN layout : layout[j].name = name
     IN SampleField(Below, layout[i], seed + i, size, excess)]

Nothing(layout, seed, size, excess)  == <<>>
Flat(layout, seed, size, excess)   == Sample(Nothing, layout, seed, size, excess)
Nested(layout, seed, size, excess) == Sample(Flat, layout, seed, size, excess)
Deep(layout, seed, size, excess)   == Sample(Nested, layout, seed, size, excess)
============================================================================
