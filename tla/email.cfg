\* Around the queue.  Without Redis: its keys, its single attempt, its losses, and the abstract
\* delivery it implements.  The scan: repeated over pages and windows, with failures for a
\* while and for good, restarts and expiring keys; each reminder can lose its key once per
\* fault of the instance.
SPECIFICATION EmailSpec
CONSTANTS
  r1 = r1  r2 = r2  r3 = r3  k1 = k1  k2 = k2
  a = a  b = b  c = c
  Requests <- MCRequests
  Keys = {k1, k2}
  KeyOf <- MCKeyOf
  Order <- MCOrder
  Configured = {"smtp"}
  HasSender = {r1, r2}
  Ttl = 2
  CompactFrom = 2
  MaxAttempts = 3
  MaxTime = 2
  MaxFaults = 1
  MaxCrashes = 1
  Reminders = {a, b, c}
  PageSets <- MCPageSets
  Blockers <- AnyBlocker
  MaxExpiries = 2
INVARIANTS
  OneJobPerKeyAndLife
  MemoryIsBounded
  AcceptedIsAccounted
  ScanIsExact
PROPERTIES
  FailureIsFinal
  DeliverySpec
  EveryReminderIsQueued
\* Every job ended and time over: the server waits.
CHECK_DEADLOCK FALSE
