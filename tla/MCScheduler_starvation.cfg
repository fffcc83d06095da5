SPECIFICATION KernelSpec
CONSTANTS
  t1 = t1
  t2 = t2
  t3 = t3
  t4 = t4
  t5 = t5
  Tasks = {t1, t2, t3}
  Ids = {t1, t2, t3}
  task_id <- OwnIds
  Weightings <- BeyondAging
  max_concurrent = 1
  Second = 1
  Minute = 1
  MaxAging = 5
PROPERTY NoStarvation
