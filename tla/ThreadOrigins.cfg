SPECIFICATION Spec
CONSTANTS
  Instance <- MCInstance
  InPort <- MCInPort
  OutPort <- MCOutPort
  Command <- MCCommand
  Topologies <- MCBoth
  NoPort = NoPort
  NoSeed = NoSeed
  NoAnswer = NoAnswer
INVARIANTS TypeOK LabelsSound AnswersExact FloodInvariant
PROPERTY QueryEnds
