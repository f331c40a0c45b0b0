\* Expected to fail: see the comment of GardenWasteIsAnnounced.
SPECIFICATION Spec
CONSTANTS
  Contacts = {"u1"}
  WithPhone = {"u1"}
  Updates = {"p1"}
  Sections = {"s1"}
  Runs = {"n1", "n2"}
  ContactOf <- MCContactOf
  DtoOf <- MCDtoOf
  SeccionOf <- MCSeccionOf
  FirstDow = 1
  FirstDay = 1
  LastDay = 1
  MaxFaults = 0
  MaxCrashes = 0
INVARIANT GardenWasteIsAnnounced
CHECK_DEADLOCK FALSE
