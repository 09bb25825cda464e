CONSTANTS
  Users = {t1, t2, t3}
  Strings = {s1, s2, s3, s4}
  Null = Null
SPECIFICATION FairRopeSpec
INVARIANTS RopeTypeOK CountsRopes FreedOnce NoStringLeaks
PROPERTY EventuallyFreed
CHECK_DEADLOCK FALSE
