SPECIFICATION Spec
CONSTANTS
  SeqMod = 16
  IsnStep = 15
  PortRange = 8
  MAX_RX_BYTES = 1
  SynTries = 2
  ReplyLen = 2
  RequestLen = 1
  MaxConn = 2
  MaxTick = 1
  IssStep = 14
INVARIANTS ReconnectNotConfused
CHECK_DEADLOCK FALSE
