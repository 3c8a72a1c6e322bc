\* Two controllers removing their finalizers from a deleted object.
CONSTANTS
  c1 = c1
  c2 = c2
  f1 = f1
  f2 = f2
  g1 = g1
  g2 = g2
  g3 = g3
  Controllers <- TwoControllers
  Fin <- TwoFin
  Names <- TwoNames
  InitLists <- TwoRemoveLists
  InitDeleted = {TRUE}

SPECIFICATION Spec
PROPERTY OthersUntouched
