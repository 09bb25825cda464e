CONSTANTS
  Users = {t1, t2, t3}
  Strings = {s1, s2, s3, s4}
  Null = Null
SPECIFICATION RopeSpec
INVARIANT ReturnedStaysValid
CHECK_DEADLOCK FALSE
