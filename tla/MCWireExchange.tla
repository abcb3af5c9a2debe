--------------------------- MODULE MCWireExchange ---------------------------
(* WireProtocol for TLC.  The calls are built from the readers' layouts.     *)
EXTENDS WireProtocol, LayoutSamples

CONSTANT Sizes   \* lengths of the texts and lists of the calls

AllRequests ==
  {[structure |-> s, message |-> Deep(Messages[s].reader, 0, size, excess)] :
     s \in Structures, size \in Sizes, excess \in {0, 1}}
Reconciliation == {r \in AllRequests : r.structure = "Reconcile"}

\* A call of any kind and then a short one.
AnyThenShort == <<AllRequests, Reconciliation>>

ReplyOf(reasons) ==
  [outcome |-> 0, reasons |-> [i \in 1..reasons |-> [code |-> i, detail |-> <<7>>]],
   values |-> <<>>]

\* Replies that can be encoded, up to the limit.
EncodableReplies == {ReplyOf(n) : n \in {0, MaxReasons}}

\* A command and a short answer.
CommandAndReply ==
  {[type |-> WireTypes[s], payload |-> Encoded(s, message).value] :
     <<s, message>> \in {<<"Command", Deep(Messages["Command"].reader, 0, 1, 0)>>,
                        <<"Reply", ReplyOf(0)>>}}
============================================================================
