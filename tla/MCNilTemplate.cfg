\* UpdateStatefulSet / UpdateDaemonSet with a desired pod template whose annotations are nil.
CONSTANTS
  p1 = p1
  p2 = p2
  p3 = p3
  k1 = k1
  k2 = k2
  v1 = v1
  v2 = v2
  o1 = o1
  o2 = o2
  d1 = d1
  d2 = d2
  restart = restart
  other = other
  Nil = Nil
  Kinds <- WlKinds
  Procs <- WlProcs
  ProcKind <- WlProcKind
  Keys <- MCKeys
  Vals <- MCVals
  TmplKeys <- MCTmplKeys
  KubectlKeys <- MCKubectlKeys
  Owners <- MCOwners
  Data <- MCData
  Desired <- WlNilDesired
  InitStore <- WlInit
  RetrySteps = 2
  MaxExternal = 2
  TransportErrors = FALSE

SPECIFICATION Spec
PROPERTY KubectlAnnotationsKept
