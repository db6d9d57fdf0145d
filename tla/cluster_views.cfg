\* Every pod of the scenarios and what the tools and their readers say of it.
SPECIFICATION TrafficSpec
CONSTANTS
  PodSpecs <- ThePods
  Objects <- TheObjects
  Others <- TheOthers
  Networks <- TheNetworks
  NAMESPACE = "shop"
  LIMIT = 2
  MaxRestarts = 2
  None = None
  o1 = o1
  o2 = o2
SYMMETRY Symmetric
INVARIANTS
  CulpritNamed
  FailureLeavesTrace
  BlockedIsExplained
  DescribeShowsWarnings
  
CHECK_DEADLOCK FALSE
