\* What is asked of and answered by other services: turns, dashboard, taxes.
SPECIFICATION ServicesSpec
CONSTANTS
  Webhooks <- MCWebhooks
  SecretSet = TRUE
  Bookings = {"b1", "b2"}
  ValidPhone = {"b1"}
  Hooks = {"h1", "h2", "h3", "h4"}
  Edits = {"e1"}
  Retries = {"r1"}
  BookingOf <- MCBookingOf
  StatusOf <- MCStatusOf
  EstadoOf <- MCEstadoOf
  MaxIntentos = 2
  Readers = {"r1", "r2"}
  Figures = {"uniqueUsers", "conversations", "sentMessages", "claimsReceived", "claimsHandled"}
  Queries <- MCQueries
  Days = {1}
  ClaimStates = {"ASIGNADO", "COMPLETADO"}
  OldRows <- MCOldRows
  TTL = 1
  MaxRows = 2
  MaxChanges = 1
  MaxTime = 2
  MaxBreaks = 1
  Callers = {"c1", "c2"}
  Bills = {"luz", "agua"}
  MaxHeads = 5
  MaxRequests = 2
  MaxFaults = 1
  MaxCrashes = 1
INVARIANTS
  WebhookIsRead
  TurnosAreTold
  AnswersWereTrue
PROPERTIES
  EventuallyTold
  EveryRequestIsAnswered
\* All requests answered and the bounds reached: the server waits for calls.
CHECK_DEADLOCK FALSE
