SPECIFICATION FairSpec
CONSTANTS
  Planners = {p1, p2}
  Lanes = 2
  SlotsPerDay = 1
  WaitingSlots = {0}
  MaxSlot = 1
  MaxFaults = 1
INVARIANTS TypeOK CapHolds ValidationsBounded RouteFits
PROPERTY FindingsRouted
