\* Two frames in a row with messages below, at and above the reader's limits, one
\* of them damaged or not, cut into pieces.
CONSTANTS
  kMaxString = 1
  kMaxCount = 2
  Messages <- MCMessages
  Frames <- MCFrames
  Faults = {"magic", "size", "checksum"}
  MaxPayload = 60
  RecvSize = 6
  MaxSent = 2
SPECIFICATION WireSpec
INVARIANT BufferBounded
INVARIANT RoundTrip
INVARIANT TruncatedRefused
PROPERTY ImplementsChannel
\* The peer may close.
CHECK_DEADLOCK FALSE
