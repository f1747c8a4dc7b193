SPECIFICATION Spec
CONSTANTS
  Null = Null
  Text = Text
  NoVersion = NoVersion
  NoItem = NoItem
  Versions <- MCVersions
  Definition <- MCDefinition
  ItemValues <- MCItemValues
  InstanceValues <- MCInstanceValues
  Quantities = {1, 2}
INVARIANTS
  PipelineGetsExport
CHECK_DEADLOCK FALSE
