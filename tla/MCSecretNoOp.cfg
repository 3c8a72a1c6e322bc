\* CreateOrUpdateSecret with a fresh secret whose content the store already holds.
CONSTANTS
  p1 = p1
  p2 = p2
  p3 = p3
  k1 = k1
  k2 = k2
  v1 = v1
  v2 = v2
  o1 = o1
  o2 = o2
  d1 = d1
  d2 = d2
  restart = restart
  other = other
  Nil = Nil
  Kinds <- SecKinds
  Procs <- SecProcs
  ProcKind <- SecProcKind
  Keys <- MCKeys
  Vals <- MCVals
  TmplKeys <- MCTmplKeys
  KubectlKeys <- MCKubectlKeys
  Owners <- MCOwners
  Data <- MCData
  Desired <- SecDesired
  InitStore <- SecInit
  RetrySteps = 2
  MaxExternal = 0
  TransportErrors = FALSE

SPECIFICATION Spec
PROPERTY SecretNoOpSkipped
