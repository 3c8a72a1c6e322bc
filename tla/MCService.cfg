\* Two callers racing CreateOrUpdateService on the shared governing Service.
CONSTANTS
  p1 = p1
  p2 = p2
  p3 = p3
  k1 = k1
  k2 = k2
  v1 = v1
  v2 = v2
  o1 = o1
  o2 = o2
  d1 = d1
  d2 = d2
  restart = restart
  other = other
  Nil = Nil
  Kinds <- SvcKinds
  Procs <- SvcProcs
  ProcKind <- SvcProcKind
  Keys <- MCKeys
  Vals <- MCVals
  TmplKeys <- MCTmplKeys
  KubectlKeys <- MCKubectlKeys
  Owners <- MCOwners
  Data <- MCData
  Desired <- SvcDesired
  InitStore <- SvcInit
  RetrySteps = 2
  MaxExternal = 2
  TransportErrors = TRUE

SPECIFICATION Spec
INVARIANT TypeOK
PROPERTY LabelMergeSafe
PROPERTY OwnerReferencesUnion
PROPERTY CreateRaceLostOnlyToRacer
