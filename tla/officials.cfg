\* What officials keep and read: kinds, settings, QR codes, duties, lists, periods, the log.
SPECIFICATION OfficialsSpec
CONSTANTS
  o1 = o1  o2 = o2  NoSummary = NoSummary
  Officials = {o1, o2}
  Names = {"bache", "luminaria"}
  MaxIds = 3
  MaxRequests = 5
  Claves = {"saludo", "horario"}
  Values = {"hola", "chau"}
  Dates = {"2026-12-31"}
  MaxSettings = 3
  QrNames = {"Feria", "feria", "feria2", "api", "plan", "signos"}
  Words <- MCWords
  Numeral <- MCNumeral
  Reserved <- MCReserved
  MaxLength = 4
  MaxAttempts = 3
  Scanners = {"v1", "v2"}
  MaxCodes = 4
  MaxTime = 2
  MaxDeletes = 1
  MaxScans = 4
  Codes = {"A", "B"}
  Duties = {"d1", "d2", "d3"}
  Renames = {"n1"}
  Todays = {"t1"}
  Visits = {"v1", "v2"}
  DateOf <- MCDateOf
  CodeOf <- MCCodeOf
  VisitorOf <- MCVisitorOf
  From = 1
  To = 1
  LastDay = 3
  MaxFaults = 1
  MaxRestarts = 1
  Starts <- MCStarts
  RawHours <- MCRawHours
  Behind = 3
  Hours = 96
  Lists = {"reclamos", "encuestas", "conversation", "byPhone", "contactConversations", "events"}
  Estados = {1, 2}
  Sorts = {"id", "estado", "telefono"}
  Filters <- MCFilters
  Limit = 1
  MaxRows = 3
  MaxChanges = 1
  MaxPages = 3
  Units = 3
  RangeDays = 1
  Flows = {"f1", "f2"}
  OtherFlow = "otro"
  LastPeriod = 2
  MaxTalks = 3
  MaxMoves = 2
  Spellings = {"Web", "web", "bot", "all", " "}
  Canonical <- MCCanonical
  Blank = "blank"
  Unknown = "unknown"
  Everything = "everything"
  All = "all"
  Shapes <- MCShapes
  RequestIds = {"q1"}
  NoRequest = "none"
  LogDates = {0, 1}
  Viewed = {1, 2, 3}
  Readers = {"r1"}
  Window = 1
  Ttl = 1
  DefaultTtl = 1
  RecentLimit = 1
  DomainLimit = 1
  TimelineLimit = 2
  MaxEvents = 3
  MaxLogTime = 2
  MaxLogFaults = 1
INVARIANTS
  KindsAreAnswered
  ConfigIsWhatWasSaid
  PrintedCodesWork
  LogExplainsDuty
  WalkMissesNothing
  DaysAddUp
PROPERTIES
  VisitorSeesChanges
  DutyFollowsCalendar
  LogIsReported
SYMMETRY Alike
\* All requests answered and the bounds reached: the server waits for calls.
CHECK_DEADLOCK FALSE
