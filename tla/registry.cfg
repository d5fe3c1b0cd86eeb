CONSTANTS
  t1 = t1
  t2 = t2
  t3 = t3
  t4 = t4
  Tasks = {t1, t2, t3, t4}
  Plans <- MCPlans
  Services = {"a", "b", "c"}
  Shards = {"x", "y"}
  ShardOf <- MCShardOf
  Workers = 2
  Capacity = 1
  NONE = NONE
SPECIFICATION FairSpec
CHECK_DEADLOCK FALSE
INVARIANTS
  TypeOK
  RequestsKept
PROPERTIES
  LookupsEnd
  ConnectsEnd
