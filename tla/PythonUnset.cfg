CONSTANTS
  Types <- MCTypes
  Enums <- MCEnums
  FileOf <- MCFileOf
  Path <- MCPath
  TypesOf <- MCTypesOf
  WellKnown = {"Empty", "Timestamp"}
  WellKnownFile = "google/protobuf"
  EnumValues <- MCEnumValues
  Params = {"{id}", "{key}"}
  Malformed = "{1}"
  maxToolNameLength = 5
  Characters = {"a", "b", "t", ".", "_", " "}
  Visible <- MCVisible
  Projects <- MCProjects
  Depth = 3
  Texts = {"one", "x"}
SPECIFICATION GeneratedSpec
CHECK_DEADLOCK FALSE
INVARIANT UnsetStaysUnset
