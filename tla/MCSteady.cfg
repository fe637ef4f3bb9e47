SPECIFICATION Spec
CONSTANTS
  e1 = e1  e1b = e1b  e2 = e2  k1 = k1  k2 = k2  p = p  d1 = d1  d2 = d2
  NoEvent = NoEvent  NoId = NoId  NoOwner = NoOwner
  Events <- OneKeyTwice
  Keys = {k1}
  Endpoints = {p}
  Ids = {d1}
  KeyOf <- EventKeys
  EndpointOf <- EventEndpoints
  IdOf <- KeyIds
  Clients = {c1}
  Steppers = {w1, w2}
  Batchers = {b1}
  Replayers = {r1}
  Supervisors = {s1}
  Capacity = 1
  Threshold = 1
  Cooldown = 1
  LeaseTTL = 1
  MaxAttempts = 2
  ReplayLimit = 2
  SweepLeads = {0}
  MaxTime = 2
  LastCall = 1
  MaxSubmits = 1
  MaxRejects = 0
SYMMETRY WorkerSymmetry
INVARIANTS
  LeaseMutex
  LeaseCopyCurrent
  DeadIsExhausted
  ProbeHasCall
PROPERTIES
  DeliveredIsFinal
  TakeoverAfterExpiry
  ImplementsLeasing
