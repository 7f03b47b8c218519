\* Prompts registered on a Java server.
SPECIFICATION Spec
CONSTANTS
  Languages = {"java"}
  Registrations = {"r1", "r2", "r3"}
  FileOf <- MCFileOf
  NamesOf <- MCNamesOf
  PromptFiles = {"A", "B"}
  Sessions = {"s1"}
  ForeignNames = {"x", "f"}
  NoTable = NoTable
  Failed = Failed
  Server = Server
INVARIANT PromptsServed
CHECK_DEADLOCK FALSE
