\* Concurrent events, windows that end, two failed Redis commands and a restart.
SPECIFICATION Spec
CONSTANTS
  e1 = e1  e2 = e2  e3 = e3  minor = minor  bot = bot  f1 = f1  f2 = f2
  Events <- MCEvents
  Fingerprints = {f1, f2}
  FingerprintOf <- MCFingerprintOf
  SourceOf <- MCSourceOf
  SeverityOf <- MCSeverityOf
  MinSeverity = "invalid"
  MinSeverityBot = "warn"
  Throttle <- Unset
  ThrottleBot = 0
  DefaultThrottle = 2
  CompactAt = 1
  MaxTime = 3
  MaxCrashes = 1
  MaxFaults = 2
SYMMETRY Alike
INVARIANT NoRepeatInWindow
PROPERTY ThrottledHasAlert
\* All events answered: the service waits.
CHECK_DEADLOCK FALSE
