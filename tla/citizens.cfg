\* What citizens are and say: the register, complaints, survey, waste and conversations.
SPECIFICATION CitizensSpec
CONSTANTS
  o1 = o1  o2 = o2
  Imports = {"a", "b", "c", "none"}
  List <- MCList
  Replaces = {"a", "b", "none"}
  Digits <- MCDigits
  Officials = {o1, o2}
  MaxFaults = 2
  MaxCrashes = 1
  MaxFailures = 1
  Creations = {"c1"}
  ComplaintEdits = {"e1", "e2", "e3"}
  TargetOf <- MCTargetOf
  ComplaintDto <- MCComplaintDto
  Silent = {"e3"}
  Reachable = {"c1"}
  Validations = {"v1", "v2", "v3"}
  Savings = {"g1", "g2", "g3", "g4"}
  Edits = {"e1", "e2"}
  Deletions = {"d1"}
  Reports = {"r1", "r2"}
  RawOf <- MCRawOf
  DigitsOf <- MCDigitsOf
  Plausible = {"12345678", "7654321", "9999999"}
  DtoOf <- MCDtoOf
  IdOf <- MCIdOf
  BarrioOf <- MCBarrioOf
  Options = {"cloacas", "luz", "asfalto", "plaza", "riego", "poda"}
  Top = 2
  MaxHours = 3
  Citizens = {"u1", "u2"}
  WithPhone = {"u1"}
  Updates = {"p1", "p2", "p3", "p4"}
  Sections = {"s1", "s2"}
  Runs = {"n1", "n2"}
  CitizenOf <- MCCitizenOf
  WasteDto <- MCWasteDto
  SeccionOf <- MCSeccionOf
  FirstDow = 1
  FirstDay = 1
  LastDay = 2
  Contacts = {"ana", "sin"}
  NoPhone = {"sin"}
  MaxRequests = 4
INVARIANTS
  PromisedIsFound
  ComplaintsAreExplained
  AnswersAreRecent
  AnswersAreKept
  ReportIsTrue
  WasteIsAnnounced
  HistoryIsTrue
SYMMETRY Alike
\* All requests answered and the bounds reached: the server waits for calls.
CHECK_DEADLOCK FALSE
