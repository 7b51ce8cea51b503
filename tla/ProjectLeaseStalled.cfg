CONSTANTS
  a = a
  b = b
  NoHolder = NoHolder
  Instance <- TwoInstances
  TTL = 8
  Heartbeat = 2
  MaxDelay = 0
  MaxStall = 9
  MaxMissed = 0
  Skew <- NoSkew
  Patience <- LongPatience
SPECIFICATION Spec
INVARIANT MutualExclusion
