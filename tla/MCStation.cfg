SPECIFICATION FairStationSpec
CONSTANTS
  e1 = e1  e2 = e2  k1 = k1  k2 = k2  p = p  d1 = d1  d2 = d2
  NoEvent = NoEvent  NoId = NoId  NoOwner = NoOwner
  Events <- TwoEvents
  Keys = {k1, k2}
  Endpoints = {p}
  Ids = {d1, d2}
  EventIds = {e1, e2}
  KeyOf <- EventKeys
  EndpointOf <- EventEndpoints
  EventIdOf <- EventNames
  CreatedAt <- EventTimes
  PriorityOf <- EventTimes
  Specs = {p}
  IdOf <- DeliveryIds
  Clients = {c1}
  Dispatchers = {}
  Confirmers = {}
  Supervisors = {}
  ReportedDead = {}
  Steppers = {w1}
  Replayers = {r1}
  Sweepers = {s1}
  Capacity = 1
  WindowCapacity = 1
  WindowInterval = 1
  WindowAt = 0
  EventTTL = 1
  MaxDead = 1
  RetainFor = 1
  RunLeads = {0}
  Interval = 1
  Threshold = 1
  Cooldown = 1
  LeaseTTL = 1
  MaxAttempts = 1
  ReplayLimit = 1
  SweepLeads = {0}
  MaxTime = 1
  LastCall = 1
  MaxSubmits = 2
  MaxRejects = 1
  MaxRestarts = 0
INVARIANTS
  StationTypeOK
  BatchIsAdmitted
PROPERTIES
  ReplaySkipsNothing
  NothingIsLeftBehind
  ReplayCatchesUp
