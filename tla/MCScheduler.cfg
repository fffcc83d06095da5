SPECIFICATION Spec
CONSTANTS
  t1 = t1
  t2 = t2
  t3 = t3
  t4 = t4
  t5 = t5
  Tasks = {t1, t2, t3, t4, t5}
  Ids = {1, 2, 3, 4}
  task_id <- SharedId
  Weightings <- MixedOrSame
  max_concurrent = 2
  Second = 2
  Minute = 1
  MaxAging = 2
INVARIANTS
  SlotsExact OnePlace 
 
