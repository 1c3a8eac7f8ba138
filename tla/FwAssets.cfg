SPECIFICATION Spec
CONSTANTS
  Files <- MCFiles
  Item = {"p", "q", "s", "t"}
  End = "end"
  Info = {"a", "b"}
  DescrLen <- MCDescrLen
  ItemLen <- MCItemLen
INVARIANTS
  TypeOK
  NoOverread
  DeviceOfThisFile
