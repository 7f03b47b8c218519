CONSTANTS
  Messages <- MCMessages
  Root <- R
  Descriptors <- MCDescriptors
  Arguments <- MCArguments
  Depth = 2
SPECIFICATION ToolSpec
CHECK_DEADLOCK FALSE
INVARIANTS
  DefinitionsFilled
  AcceptedDecodes
  ResponsesAccepted
  ExamplesValid
PROPERTY BuilderTerminates
