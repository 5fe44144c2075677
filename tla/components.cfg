CONSTANTS
  c1 = c1
  c2 = c2
  k1 = k1
  n1 = n1
  n2 = n2
  q1 = q1
  q2 = q2
  x1 = x1
  x2 = x2
  Runs = {a1, a2}
  Machines = {m1, m2}
  Meters = {p1, p2}
  None = None
SPECIFICATION Spec
INVARIANTS
  TypeOK
  OneMachinePerConnector
  EnrollOkIsUsable
  OneCreationPerKey
  CredentialsOwned
  NoDanglingRefs
  PagesAreSeamless
  HistoryAlternates
  EntitiesCoverReadings
  LayerStillHolds
  ChargedOnce
  OvershootBounded
  Accounted
  CollectionIsSound
PROPERTIES
  EndedIsFinal
  OkMeansCurrent
CHECK_DEADLOCK FALSE
