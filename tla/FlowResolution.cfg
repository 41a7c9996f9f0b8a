CHECK_DEADLOCK FALSE
SPECIFICATION DeploymentSpec
CONSTANTS
  Class <- MCClass
  Method <- MCMethod
  Entry = {"in_handler"}
  Port <- MCPort
  Member <- MCMember
  Generated = {"Base", "Framework"}
  Component = {"Base", "Framework", "Mid", "FooImpl", "Sub", "Util", "Foo", "Passive"}
  ComponentOf <- MCComponentOf
  NoClass = NoClass
  Programs <- MCPrograms
  NoKey = NoKey
  Unparsed = Unparsed
  NoBody = NoBody
  Suffixed <- MCSuffixed
INVARIANTS ResolutionInvariant ExecutionCovered
PROPERTIES ResolvesFlow ResolutionEnds
