SPECIFICATION Spec
CONSTANTS
  t = t
  Sites = {1, 2}
  NoSite = 0
  Tenants = {t}
  HealthWindow = 1
  Specs <- TwoSpecs
  Deltas <- UpAndDown
  Supervisors = {s1, s2}
  RunLeads = {0, 1}
  MaxTime = 2
  MaxSends = 2
  MaxPasses = 2
  MaxChanges = 3
SYMMETRY SupervisorSymmetry
CHECK_DEADLOCK FALSE
INVARIANTS
  OrderedIsRegistry
  RoutingTypeOK
  PlannerIsRight
PROPERTIES
  VerdictsFromHistory
  NoBlameWithoutFailure
