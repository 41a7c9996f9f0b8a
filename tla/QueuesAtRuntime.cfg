CHECK_DEADLOCK FALSE
SPECIFICATION DeploymentSpec
CONSTANTS
  Instance <- MCInstance
  InPort <- MCInPort
  OutPort <- MCOutPort
  Command <- MCCommand
  Topologies <- MCTopologies
  DividerSet = {"a", "b"}
  Facts <- MCFacts
  DefaultPriority = 0
  RecursionLimit = 7
  None = None
  MaxStack = 5
INVARIANTS ThreadInfoExact FillTimesHonest DrainPriorityRight InversionPredicted RequeuePredicted TicksPredicted
PROPERTY AnalysisEnds
