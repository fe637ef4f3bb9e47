SPECIFICATION Spec
CONSTANTS
  e1 = e1  e2 = e2  e3 = e3  k1 = k1  k2 = k2  k3 = k3  p = p
  d1 = d1  d2 = d2  d3 = d3  x1 = x1  x2 = x2  x3 = x3
  NoEvent = NoEvent  NoId = NoId  NoOwner = NoOwner
  Events <- ThreeEvents
  Keys = {k1, k2, k3}
  Endpoints = {p}
  Ids = {d1, d2, d3}
  EventIds = {x1, x2, x3}
  KeyOf <- EventKeys
  EndpointOf <- EventEndpoints
  EventIdOf <- EventNames
  CreatedAt <- EventTimes
  PriorityOf <- EventPriorities
  Specs = {p}
  IdOf <- DeliveryIds
  Clients = {c1}
  Dispatchers = {m1, m2}
  Confirmers = {f1}
  Supervisors = {s1}
  ReportedDead = {}
  Capacity = 1
  WindowCapacity = 1
  WindowInterval = 1
  WindowAt = 0
  EventTTL = 3
  MaxDead = 1
  RetainFor = 1
  RunLeads = {1}
  Interval = 1
  MaxTime = 1
  LastCall = 1
  MaxSubmits = 4
  MaxRejects = 1
SYMMETRY DispatchSymmetry
INVARIANTS
  DockTypeOK
  SentOnce
  BatchIsAdmitted
PROPERTIES
  ConfirmedIsFinal
