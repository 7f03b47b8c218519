\* Five languages, two generated files, three registrations, two sessions.
SPECIFICATION Spec
CONSTANTS
  Languages = {"go", "python", "java", "kotlin", "typescript"}
  Registrations = {"r1", "r2", "r3"}
  FileOf <- MCFileOf
  NamesOf <- MCNamesOf
  PromptFiles = {"A"}
  Sessions = {"s1", "s2"}
  ForeignNames = {"x", "f"}
  NoTable = NoTable
  Failed = Failed
  Server = Server
INVARIANTS  RegisteredStaysServed
PROPERTY CallsKeepContract
CHECK_DEADLOCK FALSE
