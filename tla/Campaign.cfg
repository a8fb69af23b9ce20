\* Two phases of up to two changes; the run is cut short anywhere.
SPECIFICATION Spec
CONSTANTS
  Base <- MCBase
  Zone <- MCZone
  AutoMac <- MCAutoMac
  GatewayMac <- MCGatewayMac
  Ships <- MCShips
  INCIDENTS <- MCIncidents
  Catalog <- MCCatalog
  Service <- MCService
  Changes <- MCChanges
  AnyAddress = "0"
  Anyone = "ff"
  None = None
  Length = 2
  Gaps = {1}
  MaxPhases = 2
  MaxChanges = 2
  MaxFrames = 1
INVARIANTS
  Attributed
  FlowsTrue
  PhasesAddUp
  OnlineOnly
  Detected
  Recognised
  Placed
  DiffsReplay
CHECK_DEADLOCK FALSE
