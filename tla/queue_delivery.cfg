\* The queue implements the abstract delivery, liveness included: two emails, one of them
\* without a sender address, and one provider without credentials.
SPECIFICATION FairSpec
CONSTANTS
  r1 = r1  r2 = r2  k1 = k1  k2 = k2
  NoRequest = NoRequest
  Requests <- MCRequests2
  Keys = {k1, k2}
  KeyOf <- OwnKeys
  Strategy <- Mixed2
  Configured = {"smtp"}
  HasSender = {r1}
  MaxAttempts = 3
  MaxCrashes = 1
  MaxFaults = 2
  MaxExpiries = 0
PROPERTIES
  DeliverySpec
  QueueDrains
CHECK_DEADLOCK FALSE
