CHECK_DEADLOCK FALSE
SPECIFICATION DeploymentSpec
CONSTANTS
  Instance <- MCInstance
  InPort <- MCInPort
  OutPort <- MCOutPort
  Command <- MCCommand
  Topologies <- MCTopologies
  Options <- MCOptions
  NoEntry = NoEntry
  MaxStack = 4
INVARIANTS GraphInvariant CompleteUnlessTruncated TruncatedOnlyWhenTooLarge StrictNeverGuesses OriginsCoverRuntime NestingPredicted SelfDeadlockPredicted CircularWaitPredicted
