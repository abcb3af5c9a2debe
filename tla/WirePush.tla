------------------------------ MODULE WirePush ------------------------------
(***************************************************************************)
(* What the coordinator sends to a worker without being asked: the COMMANDs *)
(* of dispatch_pending, one behind the other, and among them its answers to *)
(* what the worker publishes.  The worker's receive() takes the frames out  *)
(* of the stream, which it reads in pieces.                                 *)
(*                                                                         *)
(* A client's connection never carries more than the frame of one call      *)
(* (WireExchange); here a read may end anywhere, and may begin while the    *)
(* FrameDecoder still holds frames it handed out.  What the worker does     *)
(* with a frame is the subject of CommandDispatch.                          *)
(***************************************************************************)
EXTENDS WireFrames

CONSTANTS
  Outgoing,    \* the frames [type, payload] the coordinator may send
  PieceSizes,  \* how many bytes a read of the worker's socket may return
  MaxPushes    \* bound on the frames sent

ASSUME PushAssumption ==
  /\ MaxPayload < Huge
  /\ Outgoing \subseteq [type : 1..kMessageTypeCount, payload : Seq(Byte)]
  /\ \A frame \in Outgoing : Len(frame.payload) <= MaxPayload
  /\ PieceSizes \subseteq Nat \ {0} /\ MaxPushes \in Nat

VARIABLES
  sent,      \* the frames sent
  taken,     \* the frames receive() returned
  stream,    \* bytes in flight to the worker
  worker,    \* the worker's FrameDecoder
  received,  \* history: bytes read
  handed,    \* history: bytes of the frames taken
  emptied    \* history: bytes read when the worker last had taken all it had read

pushVars == <<sent, taken, stream, worker, received, handed, emptied>>

FrameSize(frame) == kFrameHeaderSize + Len(frame.payload) + kFrameTrailerSize

PushInit ==
  /\ sent = <<>> /\ taken = <<>> /\ stream = <<>> /\ worker = NewDecoder
  /\ received = 0 /\ handed = 0 /\ emptied = 0

\* dispatch_pending sends a command to the session of its worker, send_reply an
\* answer; neither waits for what was sent before.  A worker that refused the stream
\* has closed the connection.
Push(frame) ==
  /\ Len(sent) < MaxPushes /\ worker.failure = "Ok"
  /\ sent' = Append(sent, frame)
  /\ stream' = stream \o EncodedFrame(frame.type, frame.payload)
  /\ UNCHANGED <<taken, worker, received, handed, emptied>>

\* receive() has no whole frame and reads.
WorkerRead(size) ==
  LET n == Piece(stream, size)
  IN /\ stream # <<>> /\ Peek(worker).status = "NeedMoreData"
     /\ worker' = Feed(worker, Take(stream, n))
     /\ stream' = Drop(stream, n)
     /\ received' = received + n
     /\ UNCHANGED <<sent, taken, handed, emptied>>

\* receive() returns a frame.
WorkerTake ==
  /\ \E frame \in {Peek(worker)} :
       /\ frame.status = "Ok"
       /\ taken' = Append(taken, [type |-> frame.type, payload |-> frame.payload])
       /\ handed' = handed + FrameSize(frame)
  /\ worker' = After(worker)
  /\ emptied' = IF handed' = received THEN received ELSE emptied
  /\ UNCHANGED <<sent, stream, received>>

\* Everything sent was taken, or serve_one closed a connection it could not trust.
PushEnds ==
  /\ \/ Len(sent) = MaxPushes /\ stream = <<>> /\ Peek(worker).status # "Ok"
     \/ worker.failure # "Ok"
  /\ UNCHANGED pushVars

PushNext ==
  \/ \E frame \in Outgoing : Push(frame)
  \/ \E size \in PieceSizes : WorkerRead(size)
  \/ WorkerTake
  \/ PushEnds

PushSpec == PushInit /\ [][PushNext]_pushVars

----------------------------------------------------------------------------
(* Properties.                                                             *)

\* The worker takes the frames as they were sent, in order; and its FrameDecoder
\* refuses the stream, as Oversized, exactly when more bytes than the largest legal
\* frame has were read since it last had nothing left over.  A stream of legal frames
\* is refused for that, however small they are: the bytes handed out still count.
PushedFramesArrive ==
  /\ Len(taken) <= Len(sent) /\ \A i \in DOMAIN taken : taken[i] = sent[i]
  /\ worker.failure = IF received - emptied > MaxFrame THEN "Oversized" ELSE "Ok"
============================================================================
