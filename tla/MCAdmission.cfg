SPECIFICATION Spec
CONSTANTS
  e1 = e1  e1b = e1b  e2 = e2  k1 = k1  k2 = k2  p = p  d1 = d1  d2 = d2
  NoEvent = NoEvent  NoId = NoId  NoOwner = NoOwner
  Events <- AllEvents
  Keys = {k1, k2}
  Endpoints = {p}
  Ids = {d1, d2}
  KeyOf <- EventKeys
  EndpointOf <- EventEndpoints
  IdOf <- KeyIds
  Clients = {c1, c2}
  Steppers = {w1, w2}
  Batchers = {}
  Replayers = {}
  Supervisors = {}
  Capacity = 1
  Threshold = 1
  Cooldown = 1
  LeaseTTL = 1
  MaxAttempts = 1
  ReplayLimit = 2
  SweepLeads = {0}
  MaxTime = 2
  LastCall = 1
  MaxSubmits = 3
  MaxRejects = 1
SYMMETRY Symmetry
INVARIANTS
  TypeOK
  ReservationsAgree
  AdmissionJournaled
  OneHandler
  DeadIsJournaled
PROPERTIES
  PendingIsTracked
  JournalTracksState
