SPECIFICATION Spec
CONSTANTS
  Packets <- MCPackets
  Size <- MCSize
  MaxSize = 2
  Word = 8
  Flag = 6
  Garbage <- MCGarbage
  MaxPackets = 10
INVARIANTS TypeOK TwoFramesWhileConnected
PROPERTY ImplementsRtpStream
\* A session ends.
CHECK_DEADLOCK FALSE
