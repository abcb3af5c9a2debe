---------------------------- MODULE WireExchange ----------------------------
(***************************************************************************)
(* One connection between a LifecycleClient and a session of the           *)
(* coordinator (client.cpp, coordinator.cpp, FrameChannel and FrameDecoder *)
(* of protocol.cpp).  The client sends the frame of one call and waits for *)
(* the frame of its reply; both ends read the stream in whatever pieces    *)
(* the socket returns; a byte may be damaged on the way, and the           *)
(* connection may be lost with what was still in flight.                   *)
(*                                                                         *)
(* What the engine answers is an input (Replies), and so is the codec of   *)
(* the payloads: the operations behind the messages and their layouts are  *)
(* the subject of other modules.  request, pending, handled, answer and    *)
(* damaged are history variables of the properties.                        *)
(***************************************************************************)
EXTENDS WireFrames

CONSTANTS
  TypeOf,        \* the wire type each structure travels under
  Encode(_, _),  \* what encode() makes of a structure's message, as [ok, value]
  Decode(_, _),  \* what decode() makes of a payload, as [ok, value]
  Requests,    \* per call the client makes, the requests [structure, message] it may send
  Replies,     \* what the engine may answer
  ReadSizes,   \* how many bytes a read of the socket may return
  DamageAt     \* the offsets in flight at which a byte may be damaged

Structures == DOMAIN TypeOf
StructureOf(type) == {s \in Structures : TypeOf[s] = type}

\* The reply of rejected(): one reason.
Rejection == [outcome |-> 1, reasons |-> <<[code |-> 1, detail |-> <<>>]>>, values |-> <<>>]

\* What encode() accepts fits into a frame.
Sendable(structure, message) ==
  LET payload == Encode(structure, message)
  IN payload.ok => payload.value \in Seq(Byte) /\ Len(payload.value) <= MaxPayload

\* The numbers of a frame stay below Huge.
ASSUME ExchangeAssumption ==
  /\ MaxPayload < Huge
  /\ \A n \in DOMAIN Requests : \A r \in Requests[n] :
       r.structure \in Structures /\ Sendable(r.structure, r.message)
  /\ ReadSizes \subseteq Nat \ {0} /\ DamageAt \subseteq Nat \ {0}

\* The types of the structures, and a reply that decode() accepts is the one sent.
ASSUME CodecAssumption ==
  /\ TypeOf \in [Structures -> 1..kMessageTypeCount] /\ "Reply" \in Structures
  /\ \A reply \in Replies \cup {Rejection} :
       /\ Sendable("Reply", reply)
       /\ LET sent == Encode("Reply", reply)
              read == Decode("Reply", sent.value)
          IN sent.ok /\ read.ok => read.value = reply

MaxCalls == Len(Requests)

VARIABLES
  calls,     \* calls made so far
  request,   \* the last call
  waiting,   \* the client is inside receive()
  result,    \* what the last call returned
  up,        \* bytes in flight to the session
  down,      \* bytes in flight to the client
  link,      \* neither peer's network gave up
  open,      \* the session's socket is open
  session,   \* the session's FrameDecoder
  channel,   \* the client's FrameDecoder
  pending,   \* the calls whose frames the session has not taken yet
  handled,   \* the message the coordinator interpreted since the last call was made
  answer,    \* the reply it sent since then, and the call it answers
  damaged    \* a byte was damaged

client == <<calls, request, waiting, result, channel>>
server == <<open, session, pending, handled, answer>>
vars == <<calls, request, waiting, result, up, down, link, open, session, channel,
          pending, handled, answer, damaged>>

NoMessage == [structure |-> "none", message |-> <<>>]
NoAnswer  == [to |-> NoMessage, reply |-> <<>>]
NoResult  == [kind |-> "none", reply |-> <<>>]

\* The structures handle_frame has a case for.
Served == Structures \ {"HelloAck", "Reply", "Command"}

Init ==
  /\ calls = 0 /\ request = NoMessage /\ waiting = FALSE
  /\ result = NoResult
  /\ up = <<>> /\ down = <<>> /\ link = TRUE /\ open = TRUE
  /\ session = NewDecoder /\ channel = NewDecoder
  /\ pending = <<>> /\ handled = NoMessage /\ answer = NoAnswer /\ damaged = FALSE

----------------------------------------------------------------------------
(* The client.                                                             *)

Returns(kind, reply) ==
  /\ result' = [kind |-> kind, reply |-> reply]
  /\ waiting' = FALSE

\* call(): encode, send, wait.  A message that cannot be encoded, and one that
\* cannot be delivered, is rejected on the spot; a send into a connection the
\* peer already closed may still succeed, and the receive that follows fails.
Call(r) ==
  LET payload == Encode(r.structure, r.message)
      frame   == EncodedFrame(TypeOf[r.structure], payload.value)
  IN /\ ~waiting
     /\ calls' = calls + 1
     /\ request' = r
     /\ IF payload.ok /\ link
        THEN /\ waiting' = TRUE
             /\ IF open THEN up' = up \o frame /\ pending' = Append(pending, r)
                ELSE UNCHANGED <<up, pending>>
             /\ result' = NoResult
        ELSE Returns("rejected", <<>>) /\ UNCHANGED <<up, pending>>
     /\ handled' = NoMessage /\ answer' = NoAnswer
     /\ UNCHANGED <<open, session, down, link, channel, damaged>>

\* receive(): a frame is not complete yet, and the socket has bytes.
ClientRead(size) ==
  LET n == Piece(down, size)
  IN /\ waiting /\ down # <<>>
     /\ Peek(channel).status = "NeedMoreData"
     /\ channel' = Feed(channel, Take(down, n))
     /\ down' = Drop(down, n)
     /\ UNCHANGED <<calls, request, waiting, result, server, up, link, damaged>>

\* receive() returns: a frame, a refused stream, or the end of the connection.
ClientReturn ==
  /\ waiting
  /\ \E frame \in {Peek(channel)} :
       LET decoded == Decode("Reply", frame.payload)
           ended   == down = <<>> /\ ~(link /\ open)
       IN /\ frame.status = "NeedMoreData" => ended
          /\ IF frame.status = "Ok" /\ frame.type = TypeOf["Reply"] /\ decoded.ok
             THEN Returns("reply", decoded.value)
             ELSE Returns("rejected", <<>>)
  /\ channel' = After(channel)
  /\ UNCHANGED <<calls, request, server, up, down, link, damaged>>

----------------------------------------------------------------------------
(* The session of the coordinator.                                         *)

\* send_reply: a reply that cannot be encoded is counted and not sent.
Answer(reply) ==
  LET payload == Encode("Reply", reply)
  IN IF payload.ok
     THEN /\ down' = IF link THEN down \o EncodedFrame(TypeOf["Reply"], payload.value)
                     ELSE down
          /\ answer' = [to |-> Head(pending), reply |-> reply]
     ELSE UNCHANGED <<down, answer>>

\* service_session reads once.
SessionRead(size) ==
  LET n == Piece(up, size)
  IN /\ open /\ up # <<>>
     /\ Peek(session).status = "NeedMoreData"
     /\ session' = Feed(session, Take(up, n))
     /\ up' = Drop(up, n)
     /\ UNCHANGED <<client, down, link, open, pending, handled, answer, damaged>>

\* A whole frame: handle_frame decodes the message its type names and answers,
\* or rejects the frame.
SessionHandle ==
  /\ open
  /\ \E frame \in {Peek(session)} :
       LET served == {s \in StructureOf(frame.type) \cap Served :
                        Decode(s, frame.payload).ok}
       IN /\ frame.status = "Ok"
          /\ \/ served = {} /\ Answer(Rejection) /\ UNCHANGED handled
             \/ \E s \in served, reply \in Replies :
                  /\ handled' = [structure |-> s,
                                 message |-> Decode(s, frame.payload).value]
                  /\ Answer(reply)
  /\ session' = After(session) /\ pending' = Tail(pending)
  /\ UNCHANGED <<client, up, link, open, damaged>>

\* A framing violation: rejected and closed.
SessionRefuse ==
  /\ open /\ Peek(session).status \notin {"Ok", "NeedMoreData"}
  /\ session' = After(session)
  /\ Answer(Rejection)
  /\ open' = FALSE /\ up' = <<>> /\ pending' = <<>>
  /\ UNCHANGED <<client, link, handled, damaged>>

\* recv_some reports that the peer closed.
SessionClosed ==
  /\ open /\ ~link /\ up = <<>> /\ Peek(session).status = "NeedMoreData"
  /\ open' = FALSE /\ pending' = <<>>
  /\ UNCHANGED <<client, up, down, link, session, handled, answer, damaged>>

----------------------------------------------------------------------------
(* The network.                                                            *)

\* The connection is lost, with any suffix of what is in flight.
Lose ==
  /\ link
  /\ link' = FALSE
  /\ \E n \in {0, Len(up) \div 2, Len(up)} : up' = Take(up, n)
  /\ \E n \in {0, Len(down) \div 2, Len(down)} : down' = Take(down, n)
  /\ UNCHANGED <<client, server, damaged>>

\* One byte of one direction arrives changed.
Damage ==
  /\ ~damaged
  /\ damaged' = TRUE
  /\ \/ \E i \in DamageAt \cap DOMAIN up :
          up' = [up EXCEPT ![i] = (@ + 1) % 256] /\ UNCHANGED down
     \/ \E i \in DamageAt \cap DOMAIN down :
          down' = [down EXCEPT ![i] = (@ + 1) % 256] /\ UNCHANGED up
  /\ UNCHANGED <<client, server, link>>

\* The last call ended and there is nothing left to do.
Finished == ~waiting /\ calls = MaxCalls /\ UNCHANGED vars

\* What the two ends do by themselves.
Progress ==
  \/ \E size \in ReadSizes : ClientRead(size) \/ SessionRead(size)
  \/ ClientReturn
  \/ SessionHandle
  \/ SessionRefuse
  \/ SessionClosed

Next ==
  \/ \E n \in DOMAIN Requests : n = calls + 1 /\ \E r \in Requests[n] : Call(r)
  \/ Progress
  \/ Lose
  \/ Damage
  \/ Finished

\* Both ends run: the client is blocked inside receive(), and poll_once services
\* every session select() reports readable.
Fairness == WF_vars(Progress)

Spec == Init /\ [][Next]_vars /\ Fairness

----------------------------------------------------------------------------
(* Properties.                                                             *)

\* What the coordinator acts on is the oldest call it has not taken yet, whatever the
\* pieces it was read in and whatever was damaged or lost: a truncated or damaged
\* message is never acted on, no message twice, and none out of order.
TakenAsSent ==
  handled' \notin {handled, NoMessage}
    => pending # <<>> /\ handled' = Head(pending) /\ pending' = Tail(pending)
InterpretedAsSent == [][TakenAsSent]_vars

\* A call returns the answer the coordinator gave to that call, or a rejection: never
\* the reply to another call, and never a damaged one.
ReplyIsTheAnswer ==
  result.kind = "reply" => answer.to = request /\ answer.reply = result.reply

\* Where one frame travels at a time, a decoder refuses the stream only when it was
\* damaged: a frame of any legal size, cut into any pieces, gets through.
RefusesOnlyDamage ==
  session.failure # "Ok" \/ channel.failure # "Ok" => damaged

\* call() ends, as long as no byte is damaged: the client gets an answer or learns that
\* the exchange could not complete.
CallReturns == [](~damaged) => (waiting ~> ~waiting)
============================================================================
