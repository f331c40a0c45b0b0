\* Expected to fail: see the comment of OneAlertPerWindow.
SPECIFICATION Spec
CONSTANTS
  e1 = e1  e2 = e2  e3 = e3  minor = minor  bot = bot  f1 = f1  f2 = f2
  Events <- Burst
  Fingerprints = {f1}
  FingerprintOf <- BurstFingerprint
  SourceOf <- BurstSource
  SeverityOf <- BurstSeverity
  MinSeverity = "error"
  MinSeverityBot = "invalid"
  Throttle = 2
  ThrottleBot <- Unset
  DefaultThrottle = 2
  CompactAt = 1000
  MaxTime = 1
  MaxCrashes = 0
  MaxFaults = 0
INVARIANT OneAlertPerWindow
CHECK_DEADLOCK FALSE
