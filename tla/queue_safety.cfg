\* Two calls with one key and both providers; the second gets a job once the key has expired.
\* Every command may fail, and the process ends twice.
SPECIFICATION Spec
CONSTANTS
  r1 = r1  r2 = r2  k1 = k1  k2 = k2
  NoRequest = NoRequest
  Requests <- MCRequests2
  Keys = {k1}
  KeyOf <- SameKey
  Strategy <- ResendFirst2
  Configured = {"resend", "smtp"}
  HasSender = {r1, r2}
  MaxAttempts = 2
  MaxCrashes = 2
  MaxFaults = 2
  MaxExpiries = 1
INVARIANTS
  TypeOK
  OneJobPerKey
  HeldKeyHasJob
  MailBudget
  Accounted
  ProcessingIsInHand
  RetriesAreCounted
\* All requests answered and the queue empty: the server waits for calls.
CHECK_DEADLOCK FALSE
