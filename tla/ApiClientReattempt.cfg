SPECIFICATION FairClientSpec
CONSTANTS
  Caller = {sub, c1}
  Subscriber = sub
  MaxFailures = 1
  MaxLosses = 0
PROPERTY ReattemptsAfterTimeout
CHECK_DEADLOCK FALSE
