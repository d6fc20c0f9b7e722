SPECIFICATION LiveSpec
CONSTANTS
  h1 = h1
  s1 = s1
  s2 = s2
  Doors <- MCDoors
  Person = {p1}
  Handle = {h1}
  Space = {a}
  EventSpace = a
  EventKey = {e1}
  Name = {h1, n1}
  ProxyName = {h1}
  FoldOf <- MCFoldOf
  StartSpaces = {a}
  Nobody = Nobody
  Stream = {s1, s2}
  Writer = {w1}
  PerPerson = 1
  Capacity = 1
  MaxChanges = 2
  MaxFaults = 1
INVARIANTS
  SlotsAreStreams
  QuietMeansCurrent
PROPERTIES
  ToldInTheEnd
  RingsAtEveryDoor
