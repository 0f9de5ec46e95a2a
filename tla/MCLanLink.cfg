SPECIFICATION FairSpec
CONSTANTS
  Links = {l1, l2}
  AutoVersions <- Auto
  FixedVersion = "3.4"
  DeviceProto = "3.4"
  MaxFaults = 1
  None = None
INVARIANTS TypeOK NoOrphanLink SingleSession FailureLeavesNoLink
PROPERTIES CallReturns DeadSessionEvicted SilentLinkClosed
