SPECIFICATION Spec
CONSTANTS
  a = a
  b = b
  None = None
  Tokens = {a, b}
  Prompts <- MCPrompts
  Layers <- MCLayers
  ConvTail = 2
  MaxNews <- MCMaxNews
  MaxWrites = 2
INVARIANTS
  TypeOK
  StagedIsForward
PROPERTIES
  FailuresAreSettled
  KeepsPromise
