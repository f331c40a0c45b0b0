----------------------- MODULE OpsEmailRemindersProofs -----------------------
(***************************************************************************)
(* The hourly scan makes one job per life of a key and leaves no reminder  *)
(* behind, for any pages, windows, permanent failures and number of faults,*)
(* stops and expiries.                                                     *)
(***************************************************************************)
EXTENDS OpsEmailReminders, TLAPS

\* The reminder whose key the scan reserved and whose job it is about to push.
Reserving(r) == scan.pc \in {"record", "push"} /\ Current = r
One(b) == IF b THEN 1 ELSE 0

\* A scan that does not run is at the first place; one that fetches is at the first item.
ScanShape == /\ scan.pc \in {"idle", "skip"} => scan = [NotRunning EXCEPT !.pc = scan.pc]
             /\ scan.pc = "fetch" => scan.item = 1
             /\ proc = "down" => scan.pc = "idle"

\* Each job, and the one about to be pushed, is paid for by a life of its key.
JobsArePaid ==
  \A r \in Reminders : jobs[r] + One(Reserving(r)) <= expiries[r] + One(r \in held)

\* A key that is or was held has a job, or is about to get it, unless something failed.
Reserved(r)   == r \in held \/ expiries[r] > 0
Provided(r)   == jobs[r] > 0 \/ faults + crashes > 0
KeysMeanJobs  == \A r \in Reminders : Reserved(r) => Provided(r) \/ Reserving(r)

\* After the reservation the key of the current reminder is held, unless it expired.
CurrentIsReserved == scan.pc \in {"duplicate", "record", "push"} => Reserved(Current)

IInv == /\ TypeOK /\ ScanShape
        /\ JobsArePaid /\ KeysMeanJobs /\ CurrentIsReserved
        /\ ScanLeavesNothingBehind

----------------------------------------------------------------------------
(* Places in the pages *)

ItemSteps == {"enqueue", "duplicate", "record", "push"}
Places    == [pc : Steps, set : DOMAIN PageSets, page : Nat, item : Nat]
PlaceOK   == /\ scan \in Places
             /\ scan.page \in DOMAIN PageSets[scan.set]
             /\ scan.pc \in ItemSteps => scan.item \in DOMAIN Page

\* A window has pages, a page has reminders.
LEMMA PagesType ==
  /\ Len(PageSets) \in Nat /\ DOMAIN PageSets = 1..Len(PageSets) /\ 1 \in DOMAIN PageSets
  /\ \A s \in DOMAIN PageSets :
       /\ Len(PageSets[s]) \in Nat /\ DOMAIN PageSets[s] = 1..Len(PageSets[s])
       /\ 1 \in DOMAIN PageSets[s]
       /\ \A p \in DOMAIN PageSets[s] :
            /\ PageSets[s][p] \in Seq(Reminders)
            /\ Len(PageSets[s][p]) \in Nat
            /\ DOMAIN PageSets[s][p] = 1..Len(PageSets[s][p])
            /\ PageSets[s][p] # <<>> => 1 \in DOMAIN PageSets[s][p]
            /\ \A n \in DOMAIN PageSets[s][p] : PageSets[s][p][n] \in Reminders
<1>1. ASSUME NEW S, NEW list \in Seq(S)
      PROVE  /\ Len(list) \in Nat /\ DOMAIN list = 1..Len(list)
             /\ list # <<>> => 1 \in DOMAIN list
             /\ \A i \in DOMAIN list : list[i] \in S
  OBVIOUS
<1>2. /\ PageSets \in Seq(Seq(Seq(Reminders))) /\ PageSets # <<>>
      /\ \A s \in DOMAIN PageSets : PageSets[s] # <<>>
  BY RemindersAssumption
<1>3. \A s \in DOMAIN PageSets : PageSets[s] \in Seq(Seq(Reminders))
  BY <1>1, <1>2
<1>4. \A s \in DOMAIN PageSets : \A p \in DOMAIN PageSets[s] : PageSets[s][p] \in Seq(Reminders)
  BY <1>1, <1>3
<1> QED BY <1>1, <1>2, <1>3, <1>4

LEMMA TypeGives ==
  ASSUME TypeOK
  PROVE  /\ PlaceOK
         /\ scan.pc \in ItemSteps => Current \in Reminders
         /\ \A r \in Reminders : jobs[r] \in Nat /\ expiries[r] \in Nat
         /\ faults \in Nat /\ crashes \in Nat
         /\ NotRunning \in Places
<1>1. PlaceOK
  BY DEF TypeOK, PlaceOK, Places, ItemSteps
<1>2. scan.pc \in ItemSteps => Current \in Reminders
  BY <1>1, PagesType DEF PlaceOK, Places, Current, Page
<1>3. NotRunning \in Places
  BY PagesType DEF NotRunning, Places, Steps
<1> QED BY <1>1, <1>2, <1>3 DEF TypeOK

\* The first place has nothing before it.
LEMMA FirstPlace ==
  ASSUME scan' = NotRunning
  PROVE  /\ PlaceOK'
         /\ \A s \in DOMAIN PageSets : \A p \in DOMAIN PageSets[s] :
              \A n \in DOMAIN PageSets[s][p] : ~Before(s, p, n)'
BY PagesType DEF NotRunning, PlaceOK, Places, Steps, ItemSteps, Before

\* nextCursor and the next window pass the page they leave and nothing else.
LEMMA NextPagePasses ==
  ASSUME PlaceOK, NextPage
  PROVE  /\ PlaceOK' /\ scan'.pc \in {"fetch", "idle"} /\ scan'.item = 1
         /\ scan'.pc = "idle" => scan' = NotRunning
         /\ \A s \in DOMAIN PageSets : \A p \in DOMAIN PageSets[s] :
              \A n \in DOMAIN PageSets[s][p] :
                Before(s, p, n)' => Before(s, p, n) \/ (s = scan.set /\ p = scan.page)
<1>1. CASE scan.page < Len(PageSets[scan.set])
  <2>1. scan' = [pc |-> "fetch", set |-> scan.set, page |-> scan.page + 1, item |-> 1]
    BY <1>1 DEF NextPage
  <2>2. PlaceOK'
    BY <1>1, <2>1, PagesType DEF PlaceOK, Places, Steps, ItemSteps
  <2>3. \A s \in DOMAIN PageSets : \A p \in DOMAIN PageSets[s] :
          \A n \in DOMAIN PageSets[s][p] :
            Before(s, p, n)' => Before(s, p, n) \/ (s = scan.set /\ p = scan.page)
    <3>1. \A p, q \in Nat : p < q + 1 => p < q \/ p = q
      OBVIOUS
    <3>2. /\ scan.set \in Nat /\ scan.page \in Nat
          /\ scan'.set = scan.set /\ scan'.page = scan.page + 1 /\ scan'.item = 1
      BY <2>1, PagesType DEF PlaceOK, Places
    <3> QED BY <3>1, <3>2, PagesType DEF Before
  <2> QED BY <2>1, <2>2, <2>3
<1>2. CASE ~(scan.page < Len(PageSets[scan.set])) /\ scan.set < Len(PageSets)
  <2>1. scan' = [pc |-> "fetch", set |-> scan.set + 1, page |-> 1, item |-> 1]
    BY <1>2 DEF NextPage
  <2>2. PlaceOK'
    BY <1>2, <2>1, PagesType DEF PlaceOK, Places, Steps, ItemSteps
  <2>3. \A s \in DOMAIN PageSets : \A p \in DOMAIN PageSets[s] :
          \A n \in DOMAIN PageSets[s][p] :
            Before(s, p, n)' => Before(s, p, n) \/ (s = scan.set /\ p = scan.page)
    <3>1. \A p, q \in Nat : (p < q + 1 => p < q \/ p = q)
      OBVIOUS
    <3>2. /\ scan.set \in Nat /\ scan.page = Len(PageSets[scan.set])
          /\ scan'.set = scan.set + 1 /\ scan'.page = 1 /\ scan'.item = 1
      BY <1>2, <2>1, PagesType DEF PlaceOK, Places
    <3>3. \A s \in DOMAIN PageSets : \A p \in DOMAIN PageSets[s] :
            p <= Len(PageSets[s]) /\ ~(p < 1)
      BY PagesType
    <3>4. ASSUME NEW s \in DOMAIN PageSets, NEW p \in DOMAIN PageSets[s],
                 NEW n \in DOMAIN PageSets[s][p], Before(s, p, n)'
          PROVE  s < scan.set \/ s = scan.set
      <4>1. s < scan.set + 1 \/ n < 1
        BY <3>2, <3>3, <3>4 DEF Before
      <4> QED BY <3>1, <3>2, <4>1, PagesType
    <3>5. \A s \in DOMAIN PageSets : \A p \in DOMAIN PageSets[s] :
            s = scan.set => p < scan.page \/ p = scan.page
      BY <3>2, PagesType
    <3> QED BY <3>4, <3>5 DEF Before
  <2> QED BY <2>1, <2>2, <2>3
<1>3. CASE ~(scan.page < Len(PageSets[scan.set])) /\ ~(scan.set < Len(PageSets))
  <2>1. scan' = NotRunning
    BY <1>3 DEF NextPage
  <2> QED BY <2>1, FirstPlace DEF NotRunning
<1> QED BY <1>1, <1>2, <1>3

\* The next item passes the current one and nothing else.
LEMMA NextItemPasses ==
  ASSUME PlaceOK, scan.pc \in ItemSteps, NextItem
  PROVE  /\ PlaceOK' /\ scan'.pc \in {"enqueue", "fetch", "idle"}
         /\ scan'.pc = "idle" => scan' = NotRunning
         /\ scan'.pc = "fetch" => scan'.item = 1
         /\ \A s \in DOMAIN PageSets : \A p \in DOMAIN PageSets[s] :
              \A n \in DOMAIN PageSets[s][p] :
                Before(s, p, n)' => Before(s, p, n) \/ PageSets[s][p][n] = Current
<1>0. scan.item \in DOMAIN Page
  BY DEF PlaceOK
<1>1. CASE scan.item < Len(Page)
  <2>1. scan' = [scan EXCEPT !.pc = "enqueue", !.item = @ + 1]
    BY <1>1 DEF NextItem
  <2>2. /\ scan' \in Places /\ scan'.set = scan.set /\ scan'.page = scan.page
        /\ scan'.pc = "enqueue" /\ scan'.item = scan.item + 1
    <3>1. scan \in Places /\ scan.item + 1 \in Nat /\ "enqueue" \in Steps
      BY DEF PlaceOK, Places, Steps
    <3> QED BY <2>1, <3>1 DEF Places
  <2>p. UNCHANGED Page
    BY <2>2 DEF Page
  <2>i. scan.item + 1 \in DOMAIN Page
    BY <1>0, <1>1, PagesType DEF PlaceOK, Places, Page
  <2>3. PlaceOK'
    BY <2>2, <2>p, <2>i DEF PlaceOK
  <2>4. \A s \in DOMAIN PageSets : \A p \in DOMAIN PageSets[s] :
          \A n \in DOMAIN PageSets[s][p] :
            Before(s, p, n)' => Before(s, p, n) \/ (s = scan.set /\ p = scan.page /\ n = scan.item)
    <3>1. \A n, m \in Nat : n < m + 1 => n < m \/ n = m
      OBVIOUS
    <3>2. scan.item \in Nat
      BY DEF PlaceOK, Places
    <3>3. \A s \in DOMAIN PageSets : \A p \in DOMAIN PageSets[s] :
            \A n \in DOMAIN PageSets[s][p] : n \in Nat
      BY PagesType
    <3> QED BY <2>2, <3>1, <3>2, <3>3 DEF Before
  <2> QED BY <2>2, <2>3, <2>4 DEF Current, Page
<1>2. CASE ~(scan.item < Len(Page))
  <2>1. NextPage
    BY <1>2 DEF NextItem
  <2>2. ASSUME NEW s \in DOMAIN PageSets, NEW p \in DOMAIN PageSets[s],
               NEW n \in DOMAIN PageSets[s][p], Before(s, p, n)'
        PROVE  Before(s, p, n) \/ PageSets[s][p][n] = Current
    <3>1. Before(s, p, n) \/ (s = scan.set /\ p = scan.page)
      BY <2>1, <2>2, NextPagePasses
    <3>2. s = scan.set /\ p = scan.page => n < scan.item \/ n = scan.item
      BY <1>0, <1>2, PagesType DEF Page, PlaceOK, Places
    <3> QED BY <3>1, <3>2 DEF Before, Current, Page
  <2> QED BY <2>1, <2>2, NextPagePasses
<1> QED BY <1>1, <1>2

----------------------------------------------------------------------------
(* The parts of the invariant *)

\* The lives of the keys and the jobs say the same, or more, of each reminder, and what the scan
\* passes is reserved and provided for.
LEMMA PassedIsDone ==
  ASSUME ScanLeavesNothingBehind,
         \A r \in Reminders : (Reserved(r) => Reserved(r)') /\ (Provided(r) => Provided(r)'),
         \A s \in DOMAIN PageSets : \A p \in DOMAIN PageSets[s] :
           \A n \in DOMAIN PageSets[s][p] :
             Before(s, p, n)' =>
               \/ Before(s, p, n)
               \/ Reserved(PageSets[s][p][n])' /\ Provided(PageSets[s][p][n])'
  PROVE  ScanLeavesNothingBehind'
<1> SUFFICES ASSUME NEW s \in DOMAIN PageSets, NEW p \in DOMAIN PageSets[s],
                    NEW n \in DOMAIN PageSets[s][p], Before(s, p, n)'
             PROVE  Reserved(PageSets[s][p][n])' /\ Provided(PageSets[s][p][n])'
  BY DEF ScanLeavesNothingBehind, Reserved, Provided
<1>1. CASE Before(s, p, n)
  <2>1. PageSets[s][p][n] \in Reminders
    BY PagesType
  <2>2. Reserved(PageSets[s][p][n]) /\ Provided(PageSets[s][p][n])
    BY <1>1 DEF ScanLeavesNothingBehind, Reserved, Provided
  <2> QED BY <2>1, <2>2
<1> QED BY <1>1

\* The parts that are not about places, when the scan goes on without a new reservation or job.
Books == JobsArePaid /\ KeysMeanJobs

\* A step without a new job keeps the books if only the key it reserves gets a reservation, and
\* if what is reserved is provided for or still in the hands of the scan.
LEMMA BooksWithoutJob ==
  ASSUME TypeOK, Books, held \subseteq held', UNCHANGED <<jobs, expiries>>,
         \A r \in Reminders : Provided(r) => Provided(r)',
         \A r \in Reminders : Reserving(r)' => Reserving(r) \/ (r \in held' /\ r \notin held),
         \A r \in Reminders : Reserving(r) \/ (r \in held' /\ r \notin held)
                                => Reserving(r)' \/ Provided(r)'
  PROVE  Books'
<1>1. JobsArePaid'
  <2> SUFFICES ASSUME NEW r \in Reminders
               PROVE  jobs[r] + One(Reserving(r)') <= expiries[r] + One(r \in held')
    BY DEF JobsArePaid, One
  <2>1. jobs[r] + One(Reserving(r)) <= expiries[r] + One(r \in held)
    BY DEF Books, JobsArePaid
  <2>2. jobs[r] \in Nat /\ expiries[r] \in Nat
    BY TypeGives
  <2>3. CASE r \in held
    BY <2>1, <2>2, <2>3 DEF One
  <2>4. CASE r \notin held /\ r \in held'
    BY <2>1, <2>2, <2>4 DEF One
  <2>5. CASE r \notin held'
    BY <2>1, <2>2, <2>5 DEF One
  <2> QED BY <2>3, <2>4, <2>5
<1>2. KeysMeanJobs'
  BY DEF Books, KeysMeanJobs, Reserved
<1> QED BY <1>1, <1>2 DEF Books

\* A scan that stops is at the first place.
LEMMA AbortKeeps ==
  ASSUME IInv, Abort, held \subseteq held', UNCHANGED <<jobs, expiries>>,
         \A r \in Reminders : Provided(r) => Provided(r)',
         \A r \in Reminders : Reserving(r) \/ (r \in held' /\ r \notin held) => Provided(r)'
  PROVE  PlaceOK' /\ ScanShape' /\ Books' /\ CurrentIsReserved' /\ ScanLeavesNothingBehind'
<1>1. scan' = NotRunning /\ scan'.pc = "idle"
  BY DEF Abort, NotRunning
<1>2. \A r : ~Reserving(r)'
  BY <1>1 DEF Reserving
<1>3. Books'
  BY <1>2, BooksWithoutJob DEF IInv, Books
<1>4. ScanShape' /\ CurrentIsReserved'
  BY <1>1 DEF ScanShape, CurrentIsReserved, NotRunning
<1>5. ScanLeavesNothingBehind'
  BY <1>1, FirstPlace, PassedIsDone DEF IInv, Reserved
<1> QED BY <1>1, <1>3, <1>4, <1>5, FirstPlace

\* A step of the scan that stays at its place.
LEMMA GotoStays ==
  ASSUME PlaceOK, NEW step \in Steps, Goto(step),
         step \in ItemSteps => scan.item \in DOMAIN Page
  PROVE  /\ PlaceOK' /\ scan'.pc = step /\ UNCHANGED <<Page, Current>>
         /\ scan'.set = scan.set /\ scan'.page = scan.page /\ scan'.item = scan.item
         /\ \A s, p, n : Before(s, p, n)' => Before(s, p, n)
<1>1. /\ scan' \in Places /\ scan'.pc = step
      /\ scan'.set = scan.set /\ scan'.page = scan.page /\ scan'.item = scan.item
  BY DEF Goto, PlaceOK, Places
<1>2. UNCHANGED <<Page, Current>>
  BY <1>1 DEF Page, Current
<1>3. PlaceOK'
  BY <1>1, <1>2 DEF PlaceOK
<1>4. \A s, p, n : Before(s, p, n)' => Before(s, p, n)
  BY <1>1 DEF Before
<1> QED BY <1>1, <1>2, <1>3, <1>4

\* What a fault, a crash or a job provides stays provided.
LEMMA ProvidedStays ==
  ASSUME TypeOK, NEW r \in Reminders, jobs'[r] = jobs[r] \/ jobs'[r] = jobs[r] + 1,
         \/ UNCHANGED <<faults, crashes>>
         \/ Fault /\ UNCHANGED crashes
         \/ UNCHANGED faults /\ crashes' = crashes + 1
  PROVE  /\ Provided(r) => Provided(r)'
         /\ Fault \/ crashes' = crashes + 1 \/ jobs'[r] = jobs[r] + 1 => Provided(r)'
<1>1. jobs[r] \in Nat /\ faults \in Nat /\ crashes \in Nat
  BY TypeGives
<1>2. faults' + crashes' = faults + crashes \/ faults' + crashes' = faults + crashes + 1
  BY <1>1 DEF Fault
<1>3. Fault \/ crashes' = crashes + 1 => faults' + crashes' = faults + crashes + 1
  BY <1>1 DEF Fault
<1> QED BY <1>1, <1>2, <1>3 DEF Provided

\* The types, from those of the place.
LEMMA TypeFromPlace ==
  ASSUME TypeOK, PlaceOK', blocker' = blocker, configured' \in BOOLEAN,
         proc' \in {"up", "down"}, held' \subseteq Reminders,
         jobs' \in [Reminders -> Nat], expiries' \in [Reminders -> Nat],
         faults' = faults \/ Fault, crashes' = crashes \/ crashes' = crashes + 1
  PROVE  TypeOK'
<1>1. faults' \in Nat /\ crashes' \in Nat /\ blocker' \in Blockers
  BY DEF TypeOK, Fault
<1> QED BY <1>1 DEF TypeOK, PlaceOK, Places, ItemSteps

LEMMA TypeWithoutJob ==
  ASSUME TypeOK, PlaceOK', UNCHANGED <<blocker, configured, proc, held, jobs, expiries, crashes>>,
         faults' = faults \/ Fault
  PROVE  TypeOK'
<1>1. /\ configured \in BOOLEAN /\ proc \in {"up", "down"} /\ held \subseteq Reminders
      /\ jobs \in [Reminders -> Nat] /\ expiries \in [Reminders -> Nat]
  BY DEF TypeOK
<1> QED BY <1>1, TypeFromPlace

----------------------------------------------------------------------------
(* One lemma per action *)

\* An error that ends the cycle.
LEMMA AbortStep ==
  ASSUME IInv, Abort, UNCHANGED <<blocker, configured, proc, jobs, expiries, crashes>>,
         \/ UNCHANGED <<held, faults>> /\ scan.pc \notin {"record", "push"}
         \/ Fault /\ held \subseteq held' /\ held' \subseteq Reminders
  PROVE  IInv'
<1>0. /\ TypeOK /\ held \subseteq held' /\ held' \subseteq Reminders
      /\ faults' = faults \/ Fault
      /\ configured \in BOOLEAN /\ proc \in {"up", "down"}
      /\ jobs \in [Reminders -> Nat] /\ expiries \in [Reminders -> Nat]
  BY DEF IInv, TypeOK
<1>1. \A r \in Reminders : /\ Provided(r) => Provided(r)'
                           /\ Reserving(r) \/ (r \in held' /\ r \notin held) => Provided(r)'
  BY <1>0, ProvidedStays DEF Reserving
<1>2. PlaceOK' /\ ScanShape' /\ Books' /\ CurrentIsReserved' /\ ScanLeavesNothingBehind'
  BY <1>0, <1>1, AbortKeeps
<1> QED BY <1>0, <1>2, TypeFromPlace DEF IInv, Books

LEMMA BeginStep == ASSUME IInv, Begin PROVE IInv'
<1>0. /\ TypeOK /\ PlaceOK /\ scan = NotRunning /\ proc = "up" /\ scan.pc = "idle"
      /\ UNCHANGED <<blocker, configured, proc, held, jobs, crashes, faults, expiries>>
  BY TypeGives DEF IInv, ScanShape, Begin, At, NotRunning
<1>1. PICK step \in {"fetch", "skip"} : Goto(step)
  BY DEF Begin
<1>2. /\ PlaceOK' /\ scan'.pc = step
      /\ \A s, p, n : Before(s, p, n)' => Before(s, p, n)
  BY <1>0, <1>1, GotoStays DEF Steps, ItemSteps
<1>3. scan' = [NotRunning EXCEPT !.pc = step]
  BY <1>0, <1>1 DEF Goto
<1>4. ScanShape' /\ CurrentIsReserved'
  BY <1>0, <1>2, <1>3 DEF ScanShape, CurrentIsReserved, NotRunning
<1>5. Books'
  <2>1. \A r \in Reminders : ~Reserving(r)' /\ ~Reserving(r) /\ (Provided(r) => Provided(r)')
    BY <1>0, <1>2 DEF Reserving, Provided
  <2> QED BY <1>0, <2>1, BooksWithoutJob DEF IInv, Books
<1>6. ScanLeavesNothingBehind'
  BY <1>0, <1>2, PassedIsDone DEF IInv, Reserved, Provided
<1> QED BY <1>0, <1>2, <1>4, <1>5, <1>6, TypeWithoutJob DEF IInv, Books

LEMMA FetchStep == ASSUME IInv, Fetch PROVE IInv'
<1>0. /\ TypeOK /\ PlaceOK /\ proc = "up" /\ scan.pc = "fetch" /\ scan.item = 1
      /\ UNCHANGED <<blocker, configured, proc, held, jobs, crashes, expiries>>
      /\ faults' = faults \/ Fault
  BY TypeGives DEF IInv, ScanShape, Fetch, At
<1>1. \A r \in Reminders : ~Reserving(r) /\ (Provided(r) => Provided(r)')
  BY <1>0, ProvidedStays DEF Reserving
<1>2. ASSUME PlaceOK', scan'.pc \notin {"duplicate", "record", "push"}, ScanShape',
             \A s \in DOMAIN PageSets : \A p \in DOMAIN PageSets[s] :
               \A n \in DOMAIN PageSets[s][p] : Before(s, p, n)' => Before(s, p, n)
      PROVE  IInv'
  <2>1. \A r \in Reminders : ~Reserving(r)'
    BY <1>2 DEF Reserving
  <2>2. Books'
    BY <1>0, <1>1, <2>1, BooksWithoutJob DEF IInv, Books
  <2>3. ScanLeavesNothingBehind'
    BY <1>0, <1>1, <1>2, PassedIsDone DEF IInv, Reserved
  <2> QED BY <1>0, <1>2, <2>2, <2>3, TypeWithoutJob DEF IInv, Books, CurrentIsReserved
<1>3. CASE Page = <<>> /\ NextPage
  <2>1. /\ PlaceOK' /\ scan'.pc \in {"fetch", "idle"} /\ scan'.item = 1
        /\ scan'.pc = "idle" => scan' = NotRunning
    BY <1>0, <1>3, NextPagePasses
  <2>2. ScanShape'
    BY <1>0, <2>1 DEF ScanShape, NotRunning
  <2>3. ASSUME NEW s \in DOMAIN PageSets, NEW p \in DOMAIN PageSets[s],
               NEW n \in DOMAIN PageSets[s][p], Before(s, p, n)'
        PROVE  Before(s, p, n)
    <3>1. Before(s, p, n) \/ PageSets[s][p] = <<>>
      BY <1>0, <1>3, <2>3, NextPagePasses DEF Page
    <3>2. DOMAIN <<>> = {}
      OBVIOUS
    <3> QED BY <3>1, <3>2
  <2> QED BY <1>2, <2>1, <2>2, <2>3
<1>4. CASE (Page # <<>> /\ Goto("enqueue")) \/ Goto("report")
  <2>1. PICK step \in {"enqueue", "report"} :
          Goto(step) /\ (step \in ItemSteps => Page # <<>>)
    BY <1>4 DEF ItemSteps
  <2>2. Page # <<>> => 1 \in DOMAIN Page
    BY <1>0, PagesType DEF Page, PlaceOK, Places
  <2>3. /\ PlaceOK' /\ scan'.pc = step
        /\ \A s, p, n : Before(s, p, n)' => Before(s, p, n)
    BY <1>0, <2>1, <2>2, GotoStays DEF Steps
  <2>4. ScanShape'
    BY <1>0, <2>3 DEF ScanShape
  <2> QED BY <1>2, <2>3, <2>4
<1> QED BY <1>3, <1>4 DEF Fetch

\* The reservation, or the duplicate, that the answer of SET NX makes.
LEMMA ReserveStep == ASSUME IInv, Reserve PROVE IInv'
<1>0. /\ TypeOK /\ PlaceOK /\ proc = "up" /\ scan.pc = "enqueue" /\ Current \in Reminders
      /\ UNCHANGED <<blocker, configured, proc, jobs, expiries, crashes>>
      /\ held \subseteq Reminders /\ scan.item \in DOMAIN Page
      /\ configured \in BOOLEAN /\ jobs \in [Reminders -> Nat] /\ expiries \in [Reminders -> Nat]
  <2>1. TypeOK /\ scan.pc = "enqueue"
    BY DEF IInv, Reserve, At
  <2> QED BY <2>1, TypeGives DEF Reserve, At, TypeOK, PlaceOK, ItemSteps
<1>1. CASE Abort
  <2>1. \/ UNCHANGED <<held, faults>>
        \/ Fault /\ held \subseteq held' /\ held' \subseteq Reminders
    <3>1. scan'.pc = "idle"
      BY <1>1 DEF Abort, NotRunning
    <3>2. ~Goto("duplicate") /\ ~Goto("record")
      BY <1>0, <3>1 DEF Goto, PlaceOK, Places
    <3> QED BY <1>0, <3>2 DEF Reserve
  <2> QED BY <1>0, <1>1, <2>1, AbortStep
<1>2. CASE ~Abort
  <2> DEFINE step == IF Current \in held THEN "duplicate" ELSE "record"
  <2>1. held' = held \cup {Current} /\ Goto(step) /\ UNCHANGED faults
    BY <1>2 DEF Reserve
  <2>2. step \in Steps
    BY DEF Steps
  <2>3. /\ PlaceOK' /\ scan'.pc = step /\ UNCHANGED <<Page, Current>>
        /\ \A s, p, n : Before(s, p, n)' => Before(s, p, n)
    <3> HIDE DEF step
    <3> QED BY <1>0, <2>1, <2>2, GotoStays
  <2>4. \A r \in Reminders : /\ Provided(r) => Provided(r)'
                             /\ Reserved(r) => Reserved(r)'
                             /\ ~Reserving(r)
    BY <1>0, <2>1 DEF Provided, Reserved, Reserving
  <2>5. \A r \in Reminders : Reserving(r)' <=> (r \in held' /\ r \notin held)
    BY <2>1, <2>3 DEF Reserving
  <2>6. Books'
    BY <1>0, <2>1, <2>4, <2>5, BooksWithoutJob DEF IInv, Books
  <2>7. ScanShape' /\ CurrentIsReserved'
    BY <1>0, <2>1, <2>3 DEF ScanShape, CurrentIsReserved, Reserved
  <2>8. ScanLeavesNothingBehind'
    BY <2>3, <2>4, PassedIsDone DEF IInv
  <2>9. TypeOK'
    BY <1>0, <2>1, <2>3, TypeFromPlace
  <2> QED BY <2>6, <2>7, <2>8, <2>9 DEF IInv, Books
<1> QED BY <1>1, <1>2

\* The scan passes a duplicate: its key is held, or was, and has its job, unless something failed.
LEMMA DuplicateStep == ASSUME IInv, RecordDuplicate PROVE IInv'
<1>0. /\ TypeOK /\ PlaceOK /\ proc = "up" /\ scan.pc = "duplicate" /\ Current \in Reminders
      /\ UNCHANGED <<blocker, configured, proc, held, jobs, expiries, crashes>>
      /\ held \subseteq Reminders
  <2>1. TypeOK /\ scan.pc = "duplicate"
    BY DEF IInv, RecordDuplicate, At
  <2> QED BY <2>1, TypeGives DEF RecordDuplicate, At, TypeOK, ItemSteps
<1>1. CASE Fault /\ Abort
  BY <1>0, <1>1, AbortStep
<1>2. CASE NextItem /\ UNCHANGED faults
  <2>1. /\ PlaceOK' /\ scan'.pc \in {"enqueue", "fetch", "idle"}
        /\ scan'.pc = "idle" => scan' = NotRunning
        /\ scan'.pc = "fetch" => scan'.item = 1
        /\ \A s \in DOMAIN PageSets : \A p \in DOMAIN PageSets[s] :
             \A n \in DOMAIN PageSets[s][p] :
               Before(s, p, n)' => Before(s, p, n) \/ PageSets[s][p][n] = Current
    BY <1>0, <1>2, NextItemPasses DEF ItemSteps
  <2>2. \A r \in Reminders : /\ Provided(r) <=> Provided(r)'
                             /\ Reserved(r) <=> Reserved(r)'
                             /\ ~Reserving(r) /\ ~Reserving(r)'
    BY <1>0, <1>2, <2>1 DEF Provided, Reserved, Reserving
  <2>3. Books'
    BY <1>0, <2>2, BooksWithoutJob DEF IInv, Books
  <2>4. ScanShape' /\ CurrentIsReserved'
    BY <1>0, <2>1 DEF ScanShape, CurrentIsReserved, NotRunning
  <2>5. Reserved(Current) /\ Provided(Current)
    BY <1>0, <2>2 DEF IInv, CurrentIsReserved, KeysMeanJobs
  <2>6. ScanLeavesNothingBehind'
    <3>1. \A r \in Reminders : r = Current => Reserved(r)' /\ Provided(r)'
      BY <2>2, <2>5
    <3> QED BY <2>1, <2>2, <3>1, PagesType, PassedIsDone DEF IInv
  <2> QED BY <1>0, <1>2, <2>1, <2>3, <2>4, <2>6, TypeWithoutJob DEF IInv, Books
<1> QED BY <1>1, <1>2 DEF RecordDuplicate

LEMMA RequestedStep == ASSUME IInv, RecordRequested PROVE IInv'
<1>0. /\ TypeOK /\ PlaceOK /\ proc = "up" /\ scan.pc = "record" /\ Current \in Reminders
      /\ UNCHANGED <<blocker, configured, proc, held, jobs, expiries, crashes>>
      /\ held \subseteq Reminders /\ scan.item \in DOMAIN Page
  <2>1. TypeOK /\ scan.pc = "record"
    BY DEF IInv, RecordRequested, At
  <2> QED BY <2>1, TypeGives DEF RecordRequested, At, TypeOK, PlaceOK, ItemSteps
<1>1. CASE Fault /\ Abort
  BY <1>0, <1>1, AbortStep
<1>2. CASE Goto("push") /\ UNCHANGED faults
  <2>1. /\ PlaceOK' /\ scan'.pc = "push" /\ UNCHANGED <<Page, Current>>
        /\ \A s, p, n : Before(s, p, n)' => Before(s, p, n)
    BY <1>0, <1>2, GotoStays DEF Steps
  <2>2. \A r \in Reminders : /\ Provided(r) <=> Provided(r)'
                             /\ Reserved(r) <=> Reserved(r)'
                             /\ Reserving(r) <=> Reserving(r)'
    BY <1>0, <1>2, <2>1 DEF Provided, Reserved, Reserving
  <2>3. Books'
    BY <1>0, <2>2, BooksWithoutJob DEF IInv, Books
  <2>4. ScanShape' /\ CurrentIsReserved'
    BY <1>0, <2>1 DEF IInv, ScanShape, CurrentIsReserved, Reserved
  <2>5. ScanLeavesNothingBehind'
    BY <2>1, <2>2, PassedIsDone DEF IInv
  <2> QED BY <1>0, <1>2, <2>1, <2>3, <2>4, <2>5, TypeWithoutJob DEF IInv, Books
<1> QED BY <1>1, <1>2 DEF RecordRequested

\* The push of the job that the reservation was for.
LEMMA PushedBooks ==
  ASSUME TypeOK, Books, Current \in Reminders, scan.pc = "push", UNCHANGED <<held, expiries>>,
         jobs' = [jobs EXCEPT ![Current] = @ + 1],
         \A r \in Reminders : /\ Provided(r) => Provided(r)'
                              /\ r = Current => Provided(r)'
                              /\ ~Reserving(r)'
  PROVE  Books'
<1>0. jobs \in [Reminders -> Nat]
  BY DEF TypeOK
<1>1. JobsArePaid'
  <2> SUFFICES ASSUME NEW r \in Reminders
               PROVE  jobs'[r] + One(FALSE) <= expiries[r] + One(r \in held)
    BY DEF JobsArePaid, One
  <2>1. jobs[r] + One(Reserving(r)) <= expiries[r] + One(r \in held)
    BY DEF Books, JobsArePaid
  <2>2. jobs[r] \in Nat /\ expiries[r] \in Nat
    BY TypeGives
  <2>3. Reserving(r) <=> r = Current
    BY DEF Reserving
  <2>4. jobs'[r] + 0 = jobs[r] + One(Reserving(r))
    BY <1>0, <2>2, <2>3 DEF One
  <2> QED BY <2>1, <2>4 DEF One
<1>2. KeysMeanJobs'
  <2>1. \A r \in Reminders : Reserving(r) => r = Current
    BY DEF Reserving
  <2> QED BY <2>1 DEF Books, KeysMeanJobs, Reserved
<1> QED BY <1>1, <1>2 DEF Books

LEMMA PushStep == ASSUME IInv, Push PROVE IInv'
<1> DEFINE pushed == [jobs EXCEPT ![Current] = @ + 1]
<1>0. /\ TypeOK /\ PlaceOK /\ proc = "up" /\ scan.pc = "push" /\ Current \in Reminders
      /\ UNCHANGED <<blocker, configured, proc, held, expiries, crashes>>
      /\ held \subseteq Reminders /\ configured \in BOOLEAN
      /\ jobs \in [Reminders -> Nat] /\ expiries \in [Reminders -> Nat]
      /\ pushed \in [Reminders -> Nat]
  <2>1. TypeOK /\ scan.pc = "push"
    BY DEF IInv, Push, At
  <2>2. jobs \in [Reminders -> Nat] /\ Current \in Reminders
    BY <2>1, TypeGives DEF TypeOK, ItemSteps
  <2>3. pushed \in [Reminders -> Nat]
    BY <2>2
  <2> QED BY <2>1, <2>2, <2>3, TypeGives DEF Push, At, TypeOK
<1>p. \A r \in Reminders : jobs'[r] = jobs[r] \/ jobs'[r] = jobs[r] + 1
  BY <1>0 DEF Push
<1>r. \A r \in Reminders : /\ Reserved(r) <=> Reserved(r)'
                           /\ Reserving(r) <=> r = Current
  BY <1>0 DEF Reserved, Reserving
<1>1. CASE Fault /\ Abort /\ jobs' \in {jobs, pushed}
  <2>1. \A r \in Reminders : Provided(r)'
    BY <1>0, <1>1, <1>p, ProvidedStays
  <2>2. CASE jobs' = jobs
    BY <1>0, <1>1, <2>2, AbortStep
  <2>3. CASE jobs' = pushed
    <3>1. scan' = NotRunning /\ scan'.pc = "idle"
      BY <1>1 DEF Abort, NotRunning
    <3>2. PlaceOK' /\ \A r : ~Reserving(r)'
      BY <3>1, FirstPlace DEF Reserving
    <3>3. Books'
      BY <1>0, <2>1, <2>3, <3>2, PushedBooks DEF IInv, Books
    <3>4. ScanShape' /\ CurrentIsReserved'
      BY <3>1 DEF ScanShape, CurrentIsReserved, NotRunning
    <3>5. ScanLeavesNothingBehind'
      BY <1>r, <2>1, <3>1, FirstPlace, PassedIsDone DEF IInv
    <3> QED BY <1>0, <1>1, <2>3, <3>2, <3>3, <3>4, <3>5, TypeFromPlace DEF IInv, Books
  <2> QED BY <1>1, <2>2, <2>3
<1>2. CASE jobs' = pushed /\ NextItem /\ UNCHANGED faults
  <2>1. /\ PlaceOK' /\ scan'.pc \in {"enqueue", "fetch", "idle"}
        /\ scan'.pc = "idle" => scan' = NotRunning
        /\ scan'.pc = "fetch" => scan'.item = 1
        /\ \A s \in DOMAIN PageSets : \A p \in DOMAIN PageSets[s] :
             \A n \in DOMAIN PageSets[s][p] :
               Before(s, p, n)' => Before(s, p, n) \/ PageSets[s][p][n] = Current
    BY <1>0, <1>2, NextItemPasses DEF ItemSteps
  <2>2. \A r \in Reminders : /\ Provided(r) => Provided(r)'
                             /\ r = Current => Provided(r)'
                             /\ ~Reserving(r)'
    <3>1. ASSUME NEW r \in Reminders, r = Current PROVE jobs'[r] = jobs[r] + 1
      BY <1>0, <1>2, <3>1
    <3> QED BY <1>0, <1>2, <1>p, <2>1, <3>1, ProvidedStays DEF Reserving
  <2>3. Books'
    BY <1>0, <1>2, <2>2, PushedBooks DEF IInv, Books
  <2>4. ScanShape' /\ CurrentIsReserved'
    BY <1>0, <2>1 DEF ScanShape, CurrentIsReserved, NotRunning
  <2>5. ScanLeavesNothingBehind'
    <3>1. Reserved(Current)
      BY <1>0 DEF IInv, CurrentIsReserved
    <3>2. \A r \in Reminders : r = Current => Reserved(r)' /\ Provided(r)'
      BY <1>r, <2>2, <3>1
    <3> QED BY <1>r, <2>1, <2>2, <3>2, PagesType, PassedIsDone DEF IInv
  <2> QED BY <1>0, <1>2, <2>1, <2>3, <2>4, <2>5, TypeFromPlace DEF IInv, Books
<1> QED BY <1>1, <1>2 DEF Push

\* The end of the process ends the scan with it, and is the failure that may leave a key
\* without a job.
LEMMA CrashStep == ASSUME IInv, Crash PROVE IInv'
<1>0. /\ TypeOK /\ UNCHANGED <<blocker, configured, held, jobs, faults, expiries>>
      /\ proc' = "down" /\ Abort /\ crashes' = crashes + 1
      /\ configured \in BOOLEAN /\ held \subseteq Reminders
      /\ jobs \in [Reminders -> Nat] /\ expiries \in [Reminders -> Nat]
  BY DEF IInv, Crash, Abort, TypeOK
<1>1. \A r \in Reminders : Provided(r)'
  BY <1>0, ProvidedStays
<1>2. PlaceOK' /\ ScanShape' /\ Books' /\ CurrentIsReserved' /\ ScanLeavesNothingBehind'
  BY <1>0, <1>1, AbortKeeps
<1> QED BY <1>0, <1>2, TypeFromPlace DEF IInv, Books

\* A key that expires begins a new life, and is remembered.
LEMMA ExpireStep == ASSUME IInv, NEW k \in Reminders, Expire(k) PROVE IInv'
<1>0. /\ TypeOK /\ PlaceOK /\ UNCHANGED <<blocker, configured, proc, scan, jobs, crashes, faults>>
      /\ k \in held /\ held' = held \ {k} /\ expiries' = [expiries EXCEPT ![k] = @ + 1]
      /\ configured \in BOOLEAN /\ proc \in {"up", "down"} /\ held \subseteq Reminders
      /\ jobs \in [Reminders -> Nat] /\ expiries \in [Reminders -> Nat]
  BY TypeGives DEF IInv, Expire, TypeOK
<1>1. /\ UNCHANGED <<Page, Current>> /\ PlaceOK'
      /\ \A s, p, n : Before(s, p, n)' <=> Before(s, p, n)
  BY <1>0 DEF Page, Current, PlaceOK, Before
<1>2. \A r \in Reminders : /\ Provided(r)' <=> Provided(r)
                           /\ Reserving(r)' <=> Reserving(r)
                           /\ Reserved(r)' <=> Reserved(r)
  BY <1>0, <1>1 DEF Provided, Reserving, Reserved
<1>3. JobsArePaid'
  <2> SUFFICES ASSUME NEW r \in Reminders
               PROVE  jobs[r] + One(Reserving(r)) <= expiries'[r] + One(r \in held')
    BY <1>0, <1>2 DEF JobsArePaid, One
  <2>1. jobs[r] + One(Reserving(r)) <= expiries[r] + One(r \in held)
    BY DEF IInv, JobsArePaid
  <2>2. jobs[r] \in Nat /\ expiries[r] \in Nat
    BY <1>0
  <2>3. expiries'[r] + One(r \in held') = expiries[r] + One(r \in held)
    BY <1>0, <2>2 DEF One
  <2> QED BY <2>1, <2>3
<1>4. KeysMeanJobs'
  BY <1>2 DEF IInv, KeysMeanJobs
<1>5. ScanShape' /\ CurrentIsReserved'
  <2>1. ScanShape'
    BY <1>0 DEF IInv, ScanShape
  <2>2. scan.pc \in {"duplicate", "record", "push"} =>
          \A r \in Reminders : r = Current => Reserved(r)'
    BY <1>2 DEF IInv, CurrentIsReserved
  <2>3. scan.pc \in {"duplicate", "record", "push"} => Current \in Reminders
    BY <1>0, TypeGives DEF ItemSteps
  <2>4. CurrentIsReserved'
    BY <1>0, <1>1, <2>2, <2>3 DEF CurrentIsReserved, Reserved
  <2> QED BY <2>1, <2>4
<1>6. ScanLeavesNothingBehind'
  BY <1>1, <1>2, PassedIsDone DEF IInv
<1>7. expiries' \in [Reminders -> Nat]
  BY <1>0
<1> QED BY <1>0, <1>1, <1>3, <1>4, <1>5, <1>6, <1>7, TypeFromPlace DEF IInv

LEMMA RestartStep == ASSUME IInv, Restart PROVE IInv'
<1>0. /\ TypeOK /\ PlaceOK /\ UNCHANGED <<blocker, scan, held, jobs, crashes, faults, expiries>>
      /\ proc' = "up" /\ configured' \in BOOLEAN /\ held \subseteq Reminders
      /\ jobs \in [Reminders -> Nat] /\ expiries \in [Reminders -> Nat]
  BY TypeGives DEF IInv, Restart, TypeOK
<1>1. UNCHANGED <<Page, Current>> /\ PlaceOK' /\ ScanShape'
  BY <1>0 DEF IInv, Page, Current, PlaceOK, ScanShape
<1>2. JobsArePaid' /\ KeysMeanJobs' /\ CurrentIsReserved' /\ ScanLeavesNothingBehind'
  BY <1>0, <1>1 DEF IInv, JobsArePaid, KeysMeanJobs, CurrentIsReserved, Reserved, Provided,
                    Reserving, ScanLeavesNothingBehind, Before
<1> QED BY <1>0, <1>1, <1>2, TypeFromPlace DEF IInv

----------------------------------------------------------------------------
(* The theorems *)

LEMMA InitInv == Init => IInv
<1> SUFFICES ASSUME Init PROVE IInv
  OBVIOUS
<1>1. scan = NotRunning /\ scan.pc = "idle" /\ PlaceOK
  BY PagesType DEF Init, NotRunning, PlaceOK, Places, Steps, ItemSteps
<1>2. TypeOK
  BY <1>1 DEF Init, TypeOK, PlaceOK, Places, ItemSteps
<1>3. \A s \in DOMAIN PageSets : \A p \in DOMAIN PageSets[s] :
        \A n \in DOMAIN PageSets[s][p] : ~Before(s, p, n)
  BY <1>1, PagesType DEF NotRunning, Before
<1>4. ScanShape /\ JobsArePaid /\ KeysMeanJobs /\ CurrentIsReserved /\ ScanLeavesNothingBehind
  BY <1>1, <1>3 DEF Init, ScanShape, JobsArePaid, KeysMeanJobs, CurrentIsReserved,
                    ScanLeavesNothingBehind, Reserved, Provided, Reserving, One, NotRunning
<1> QED BY <1>2, <1>4 DEF IInv

LEMMA StepInv == IInv /\ [Next]_vars => IInv'
<1> SUFFICES ASSUME IInv, [Next]_vars PROVE IInv'
  OBVIOUS
<1>1. CASE Skip \/ Report
  BY <1>1, AbortStep DEF Skip, Report, At
<1>2. CASE UNCHANGED vars
  BY <1>2 DEF vars, IInv, TypeOK, ScanShape, JobsArePaid, KeysMeanJobs, CurrentIsReserved,
              ScanLeavesNothingBehind, Before, Reserved, Provided, Reserving, Current, Page
<1> QED BY <1>1, <1>2, BeginStep, FetchStep, ReserveStep, DuplicateStep, RequestedStep,
           PushStep, CrashStep, RestartStep, ExpireStep DEF Next, Scan

LEMMA Inductive == Spec => []IInv
BY InitInv, StepInv, PTL DEF Spec

\* Variables keep their types, and the scan only looks at pages and items that exist.
THEOREM RemindersTypeCorrect == Spec => []TypeOK
<1>1. IInv => TypeOK
  BY DEF IInv
<1> QED BY <1>1, Inductive, PTL

\* What a scan does to each reminder, once: no second job while the key of the first one lives,
\* and nothing that it passed is without its key, or without its job unless something failed.
THEOREM ScanIsExactHolds == Spec => []ScanIsExact
<1>1. IInv => OneJobPerKeyLife
  <2> SUFFICES ASSUME IInv, NEW r \in Reminders PROVE jobs[r] <= 1 + expiries[r]
    BY DEF OneJobPerKeyLife
  <2>1. jobs[r] + One(Reserving(r)) <= expiries[r] + One(r \in held)
    BY DEF IInv, JobsArePaid
  <2>2. jobs[r] \in Nat /\ expiries[r] \in Nat
    BY TypeGives DEF IInv
  <2> QED BY <2>1, <2>2 DEF One
<1>2. IInv => ScanIsExact
  BY <1>1 DEF IInv, ScanIsExact
<1> QED BY <1>2, Inductive, PTL
=============================================================================
