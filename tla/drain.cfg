CONSTANTS
  Pods = {p1}
  Threads = {t1}
  Tenants = {n1}
  Inputs = {i1}
  Interrupts = {}
  Deletes = {t1}
  Poison = {}
  Callers = {c1, c2}
  Sessions = {s1, s2}
  None = None
  MaxTurns = 1
  MaxEvents = 2
  MaxStops = 1
  Resumes = FALSE
  StoreFaults = FALSE
  CoreFaults = FALSE
  HeartbeatsTimely = TRUE
  TenantOf <- OneTenant
  ThreadOf <- AllOnT1
  p1 = p1
  p2 = p2
  t1 = t1
  t2 = t2
  i1 = i1
  i2 = i2
  i3 = i3
  n1 = n1
SPECIFICATION StubbornCoreSpec
PROPERTIES
  DrainTerminates
CHECK_DEADLOCK FALSE
