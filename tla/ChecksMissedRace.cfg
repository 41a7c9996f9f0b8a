CHECK_DEADLOCK FALSE
SPECIFICATION DeploymentSpec
CONSTANTS
  Instance <- MCInstance
  InPort <- MCInPort
  OutPort <- MCOutPort
  Command <- MCCommand
  Topologies <- MCTopologies
  Module = {"M", "N"}
  Member = {"m"}
  Lock = {"l"}
  Facts <- MCFacts
  Selections <- MCSelections
  MaxChain = 5
  MinDepth = 4
  None = None
  MaxStack = 4
INVARIANT EveryRaceReported
