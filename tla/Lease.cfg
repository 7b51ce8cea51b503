CONSTANTS
  a = a
  b = b
  NoHolder = NoHolder
  Instance <- TwoInstances
  TTL = 8
  Heartbeat = 2
  MaxDelay = 1
  MaxStall = 1
  MaxMissed = 1
  Skew <- NoSkew
  Patience <- OneImpatient
SPECIFICATION FairSpec
INVARIANT LeaseInv MutualExclusion LiveHolderNeverLapses
PROPERTY SuccessorUndisturbed ImplementsMutex PatientTakeover WaiterAnswered
