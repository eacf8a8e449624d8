SPECIFICATION Spec
CONSTANTS
  Event = {"accepted", "imported"}
  Target = {"hook"}
  Subscription = {"all", "plans"}
  TargetOf <- MCTargetOf
  Wants <- MCWants
  Request = {r1, r2}
  MaxSubscriptions = 2
  MaxEvents = 1
  RetryDelay = 1
  Horizon = 1
  MaxSends = 3
  MaxCrashes = 1
  MaxFailures = 1
SYMMETRY RequestsAlike
INVARIANTS
  EverySendAccounted
PROPERTY
  HonestLog
