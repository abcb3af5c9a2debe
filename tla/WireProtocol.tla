---------------------------- MODULE WireProtocol ----------------------------
(***************************************************************************)
(* The connections of the coordinator with the protocol's own messages: a  *)
(* client's, where WireExchange takes its TypeOf, Encode and Decode to be  *)
(* WireTypes, Encoded and Interpreted, and a worker's, of WirePush.        *)
(***************************************************************************)
EXTENDS WireExchange, WirePush, WireMessages

WireTypes == [s \in DOMAIN Messages |-> Messages[s].type]

ConnectionInit == Init /\ PushInit

\* A connection carries the calls of a client, or what is pushed to a worker.
ConnectionNext ==
  \/ sent = <<>> /\ Next /\ UNCHANGED pushVars
  \/ calls = 0 /\ link /\ PushNext /\ UNCHANGED vars

ConnectionSpec ==
  /\ ConnectionInit
  /\ [][ConnectionNext]_<<vars, pushVars>>
  /\ Fairness

RECURSIVE Fits(_, _)

\* The reference for a reader's limits, on the message instead of its bytes.
Fits(layout, message) ==
  \A i \in DOMAIN layout :
    LET field == layout[i]
        value == message[field.name]
        Within(n) == n <= field.limit
    IN CASE field.op = "number" -> Within(value)
         [] field.op = "flag"   -> TRUE
         [] field.op = "text"   -> Within(Len(value))
         [] field.op = "part"   -> Fits(field.items, value)
         [] field.op = "set"    -> /\ Within(Cardinality(value))
                                   /\ \A item \in value : Fits(field.items, item)
         [] OTHER               -> /\ Within(Len(value))
                                   /\ \A k \in DOMAIN value : Fits(field.items, value[k])

\* A call was sent and no byte of it was read yet.
Underway == waiting /\ session.buffer = <<>> /\ Len(up) > kFrameHeaderSize
              /\ handled = NoMessage

\* decode() undoes encode(): for every message of every structure, the payload the
\* hand-written encoder wrote is read back by the hand-written decoder as the same
\* message when it is within the limits of its fields, and refused when it is not.
DecodeUndoesEncode ==
  Underway =>
    LET s       == request.structure
        decoded == Interpreted(s, Encoded(s, request.message).value)
    IN IF Fits(Messages[s].reader, request.message)
       THEN decoded.ok /\ decoded.value = request.message
       ELSE ~decoded.ok

\* A payload is interpreted whole or not at all: no proper prefix of what an encoder
\* wrote, and nothing longer, is ever accepted by the decoder of its structure.
OnlyWholePayloads ==
  Underway =>
    LET s       == request.structure
        payload == Encoded(s, request.message).value
    IN /\ \A n \in 0..(Len(payload) - 1) : ~Interpreted(s, Take(payload, n)).ok
       /\ ~Interpreted(s, Append(payload, 0)).ok
============================================================================
