SPECIFICATION Spec
CONSTANTS
  Instance <- MCInstance
  InPort <- MCInPort
  OutPort <- MCOutPort
  Command <- MCCommand
  Topologies <- MCStrict
  NoPort = NoPort
  NoSeed = NoSeed
  NoAnswer = NoAnswer
INVARIANT EveryAnswerExact
