\* Three groups, two requests at a time.
SPECIFICATION Spec
CONSTANTS
  Groups = {g1, g2, g3}
  NoGroup = NoGroup
  Requests = {r1, r2}
  MaxNamed = 3
  MaxDeactivated = 1
SYMMETRY GroupsSymmetry
INVARIANT TypeOK
INVARIANT CyclesOnlyFromMisreads
INVARIANT DeadlocksOnlyFromConflicts
PROPERTY OnlyActiveSubgroupsAdded
