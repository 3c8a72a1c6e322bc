\* A workload reported healthy but degraded in the cluster, its watch event lost.
CONSTANTS
  r1 = r1
  Resources <- MCResources
  Expected <- MCExpected
  MaxChanges = 2

SPECIFICATION Spec
PROPERTY DriftEventuallyCorrected
