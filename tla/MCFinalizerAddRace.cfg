\* Two controllers adding their finalizers to a fresh object.
CONSTANTS
  c1 = c1
  c2 = c2
  f1 = f1
  f2 = f2
  g1 = g1
  g2 = g2
  g3 = g3
  Controllers <- TwoControllers
  Fin <- TwoFin
  Names <- TwoNames
  InitLists <- TwoAddLists
  InitDeleted = {FALSE}

SPECIFICATION Spec
PROPERTY OthersUntouched
