\* The poller over a one-replica workload whose watch events may be lost.
CONSTANTS
  r1 = r1
  Resources <- MCResources
  Expected <- MCExpected
  MaxChanges = 2

SPECIFICATION Spec
INVARIANT TypeOK
PROPERTY DegradedStatusRepaired CancellationHonoured StatusRepairSpec
