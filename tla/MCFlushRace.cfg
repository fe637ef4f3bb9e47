SPECIFICATION Spec
CONSTANTS
  e1 = e1  e2 = e2  e3 = e3  k1 = k1  k2 = k2  k3 = k3  p = p
  d1 = d1  d2 = d2  d3 = d3  x1 = x1  x2 = x2  x3 = x3
  NoEvent = NoEvent  NoId = NoId  NoOwner = NoOwner
  Events <- TwoEvents
  Keys = {k1, k2}
  Endpoints = {p}
  Ids = {d1, d2}
  EventIds = {x1, x2}
  KeyOf <- EventKeys
  EndpointOf <- EventEndpoints
  EventIdOf <- EventNames
  CreatedAt <- EventTimes
  PriorityOf <- EventPriorities
  Specs = {p}
  IdOf <- DeliveryIds
  Clients = {c1}
  Dispatchers = {m1}
  Confirmers = {}
  Supervisors = {s1}
  ReportedDead = {}
  Capacity = 2
  WindowCapacity = 2
  WindowInterval = 1
  WindowAt = 0
  EventTTL = 1
  MaxDead = 1
  RetainFor = 1
  RunLeads = {0}
  Interval = 1
  MaxTime = 3
  LastCall = 3
  MaxSubmits = 2
  MaxRejects = 0
PROPERTIES
  FailedFlushTakesNothing
