\* A conflict retry of CreateOrUpdateEndpoints writes back a label another actor changed.
CONSTANTS
  p1 = p1
  p2 = p2
  p3 = p3
  k1 = k1
  k2 = k2
  v1 = v1
  v2 = v2
  o1 = o1
  o2 = o2
  d1 = d1
  d2 = d2
  restart = restart
  other = other
  Nil = Nil
  Kinds <- EpKinds
  Procs <- EpProcs
  ProcKind <- EpProcKind
  Keys <- MCKeys
  Vals <- MCVals
  TmplKeys <- MCTmplKeys
  KubectlKeys <- MCKubectlKeys
  Owners <- MCOwners
  Data <- MCData
  Desired <- EpDesired
  InitStore <- EpInit
  RetrySteps = 2
  MaxExternal = 2
  TransportErrors = FALSE

SPECIFICATION Spec
PROPERTY ForeignLabelsUntouched
