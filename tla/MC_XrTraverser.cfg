\* parse(), iter() and Iterator::next() over every packet of MC_Packets.
\* Struct sizes other than the headers are scaled down to fit block
\* lengths of 4..16 bytes.
CONSTANTS
  HeaderSize = 8
  BlockHeaderSize = 4
  RrtrSize = 12
  DlrrSize = 4
  DlrrSubblockSize = 12
  MeasurementInfoSize = 8
  DelayMetricsSize = 12
  QueueMetricsSize = 8
  SizeBits = 16
  Packets <- MC_Packets
SPECIFICATION Spec
INVARIANT TypeOK
INVARIANT NoPanic
INVARIANT NextTerminates
INVARIANT BlocksCountMatches
INVARIANT AccessorsReadInBuffer
PROPERTY ImplementsBlockStream
