\* All 22621 lists of at most four reactions over two fork groups.  Two groups
\* give chains (a join that is itself a member of the next fork) and mutual
\* waiting; four reactions fill two groups with two members each.
SPECIFICATION Spec
CONSTANTS
  g1 = g1
  g2 = g2
  Groups = {g1, g2}
  NoGroup = NoGroup
  MaxMatched = 4
  Dispatchable <- MCDispatchable
INVARIANTS
  TypeOK
  JoinAfterForks
  EachReactionInOnePlace
  NothingRunnableLeft
  EqualsFireInSourceOrder
  FiresTheLeastClosedSet
PROPERTIES
  ImplementsForkJoin
  DispatchEnds
CHECK_DEADLOCK FALSE
