SPECIFICATION Spec
CONSTANTS
  Text <- MCText
  Key <- MCKey
  ObjectName <- MCObjectName
  Namespace = {"n1", "n2"}
  Undefined = Undefined
  AppName = {"blog", "shop", "on"}
  NameOf <- MCNameOf
  AppTag <- MCAppTag
  Attribute = {}
  Misread = {"on"}
  NotText = NotText
  Apps <- MCApps
  Configs <- MCConfigs
  Junk = Junk
  Cut = Cut
  Capacity = 3
  MaxFaults = 0
CHECK_DEADLOCK FALSE
INVARIANTS
  PrintedIsReturned
