\* A degraded workload is refreshed twice in one tick.
CONSTANTS
  r1 = r1
  Resources <- MCResources
  Expected <- MCExpected
  MaxChanges = 2

SPECIFICATION Spec
INVARIANT RefreshedAtMostOncePerTick
