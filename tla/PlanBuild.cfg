SPECIFICATION Spec
CONSTANTS
  Names <- MCNames
  Dotted <- MCDotted
  Ignored <- MCIgnored
  Trees <- MCTrees
  Outputs <- MCOutputs
  HostFiles <- MCHostFiles
  Commands <- MCCommands
  MaxSteps = 2
INVARIANTS
  TypeOK
  NothingIsLeft
  FilesMirrorTheHost
  InputsArrive
  PlanIsAccepted
  ArtifactIsLinked
