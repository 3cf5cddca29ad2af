CONSTANTS
  c1 = c1
  c2 = c2
  Cars <- MCCars
  SnapshotOrders <- MCOrders
  NoCar = NoCar
  MaxShown = 1
  QueueSize = 4
  Limit = 2
  MaxTime = 3
  MaxEvents = 4
  MaxOutages = 1
SPECIFICATION Spec
INVARIANT BoardCurrent
INVARIANT StopsExact
INVARIANT NeverShort
INVARIANT TrackersAgree
CHECK_DEADLOCK FALSE
