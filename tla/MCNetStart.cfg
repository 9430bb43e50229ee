SPECIFICATION NetFairSpec
CONSTANTS
  MaxLosses = 2
  MaxEvents = 3
  Socket = {s1, s2}
  NoSocket = NoSocket
  Length = {1}
  MaxFails = 2
INVARIANTS OneUdpSocket
PROPERTIES SearchUndisturbed SmartconfigStops StationJoins ListensInTheEnd
CHECK_DEADLOCK FALSE
