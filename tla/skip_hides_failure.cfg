\* Expected to fail: see the comment of SkippedOnlyUnconfigured.
SPECIFICATION Spec
CONSTANTS
  r1 = r1  r2 = r2  k1 = k1  k2 = k2
  NoRequest = NoRequest
  Requests <- OneRequest
  Keys = {k1}
  KeyOf <- KeyOfOne
  Strategy <- ResendFirst1
  Configured = {"resend"}
  HasSender = {r1}
  MaxAttempts = 3
  MaxCrashes = 0
  MaxFaults = 0
  MaxExpiries = 0
INVARIANT SkippedOnlyUnconfigured
CHECK_DEADLOCK FALSE
