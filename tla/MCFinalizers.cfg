\* One controller adding, then removing, its finalizer.
CONSTANTS
  c1 = c1
  c2 = c2
  f1 = f1
  f2 = f2
  g1 = g1
  g2 = g2
  g3 = g3
  Controllers <- OneControllers
  Fin <- OneFin
  Names <- OneNames
  InitLists <- OneInitLists
  InitDeleted = {FALSE, TRUE}

SPECIFICATION Spec
PROPERTY OthersUntouched
PROPERTY FinalizerConverges
