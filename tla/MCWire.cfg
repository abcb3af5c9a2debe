CONSTANTS
  MaxPayload = 226
  MaxConnections = 1
  MaxString = 1
  MaxDigest = 1
  MaxReasons = 2
  MaxValues = 1
  MaxItems = 1
  MaxUnit = 1
  TypeOf <- WireTypes
  Encode <- Encoded
  Decode <- Interpreted
  Requests <- AnyThenShort
  Replies <- EncodableReplies
  ReadSizes = {24, 300}
  DamageAt = {13, 17}
  Sizes = {1, 2}
  Outgoing <- CommandAndReply
  PieceSizes = {24, 300}
  MaxPushes = 4
SPECIFICATION ConnectionSpec
INVARIANTS DecodeUndoesEncode OnlyWholePayloads ReplyIsTheAnswer PushedFramesArrive
PROPERTIES InterpretedAsSent CallReturns
