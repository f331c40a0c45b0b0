------------------------------ MODULE Farmacias ------------------------------
(***************************************************************************)
(* The pharmacies on duty of farmacias.service.ts: officials change the    *)
(* duties and the pharmacies, visitors ask for today's and for the whole   *)
(* page, with If-None-Match.  Requests run concurrently; each await is the *)
(* end of a step.  Dates are numbers; DutyCalendar has their arithmetic.   *)
(***************************************************************************)
EXTENDS Integers, Sequences, SequencesExt, FiniteSets

CONSTANTS
  Codes,       \* codes of the pharmacies of the data base
  Duties,      \* requests PUT farmaciadeturno/:date
  Renames,     \* requests PUT pharmacy/:code; each gives its own name to the pharmacy
  Todays,      \* requests GET farmaciadeturno/today
  Visits,      \* requests GET farmaciadeturno/bootstrap
  DateOf,      \* of each duty request
  CodeOf,      \* of each duty request and rename, trimmed and in upper case
  VisitorOf,   \* of each visit
  From, To,    \* the range of the visits
  LastDay,     \* bound: the duty dates that come
  MaxFaults,   \* bound: failed queries and saves
  MaxRestarts  \* bound: ends of the process

Requests == Duties \cup Renames \cup Todays \cup Visits
Visitors == {VisitorOf[v] : v \in Visits}
None     == "none"
NoRow    == [code |-> None, name |-> None]
Preview  == {"today", "tomorrow", "dayAfterTomorrow"}

FarmaciasAssumption ==
  /\ \A q \in Duties : DateOf[q] \in Nat
  /\ From \in Nat /\ To \in Nat /\ From <= To
  /\ LastDay \in Nat /\ From <= LastDay /\ MaxFaults \in Nat /\ MaxRestarts \in Nat
  /\ None \notin Codes /\ Codes # {}

VARIABLES
  duty,      \* duty_schedule: the code of each date that has a row
  name,      \* pharmacies: the name of each code
  today,     \* getCurrentDutyDateISO
  revision,  \* bootstrapEtagRevision, in memory
  log,       \* activity_log: date, previous and new code of the duties changed
  pc,        \* the step each request waits for
  held,      \* what each request read
  copy,      \* per visitor: the page it has, with the revision of its ETag
  begun,     \* ghost: per visit: the duties, names and requests answered before it began
  answered,  \* ghost: duties and names as the last answered requests left them
  mixed,     \* ghost: dates and codes two requests changed at once
  faults, restarts

ghosts == <<begun, answered, mixed>>
vars == <<duty, name, today, revision, log, pc, held, copy, ghosts, faults, restarts>>

Final == {"new", "ok", "304", "404", "500", "cut"}
Steps == Final \cup {"existing", "save", "log", "rename", "consulted", "reading"}

Goto(q, s) == pc' = [pc EXCEPT ![q] = s]
AtWork(q) == pc[q] \notin Final
Fault == faults < MaxFaults /\ faults' = faults + 1
Row(d) == IF d \in DOMAIN duty THEN [code |-> duty[d], name |-> name[duty[d]]] ELSE NoRow

\* Ghost: q begins to change what another request is changing.
Mix(q, writers, key, x) ==
  mixed' = IF \E p \in writers \ {q} : AtWork(p) /\ key[p] = x THEN mixed \cup {x} ELSE mixed

----------------------------------------------------------------------------
(* updateDutyByDate and updatePharmacy *)

FindPharmacy(q) ==
  /\ q \in Duties /\ pc[q] = "new"
  /\ IF CodeOf[q] \in Codes THEN Goto(q, "existing") /\ Mix(q, Duties, DateOf, DateOf[q])
                            ELSE Goto(q, "404") /\ UNCHANGED mixed
  /\ UNCHANGED <<duty, name, today, revision, log, held, copy, begun, answered, faults, restarts>>

FindExisting(q) ==
  /\ pc[q] = "existing" /\ Goto(q, "save")
  /\ held' = [held EXCEPT ![q] = IF DateOf[q] \in DOMAIN duty THEN duty[DateOf[q]] ELSE None]
  /\ UNCHANGED <<duty, name, today, revision, log, copy, ghosts, faults, restarts>>

\* save inserts the row or changes it, by its date.
SaveDuty(q) ==
  /\ pc[q] = "save" /\ Goto(q, "log")
  /\ duty' = [d \in DOMAIN duty \cup {DateOf[q]} |-> IF d = DateOf[q] THEN CodeOf[q] ELSE duty[d]]
  /\ revision' = revision + 1
  /\ UNCHANGED <<name, today, log, held, copy, ghosts, faults, restarts>>

\* Plausible bug: the old code is taken from the entity, after it was changed.
LogDutyAfterChange(q) ==
  /\ pc[q] = "log" /\ Goto(q, "ok")
  /\ log' = Append(log, <<DateOf[q], CodeOf[q], CodeOf[q]>>)
  /\ answered' = [answered EXCEPT !.duty = [d \in DOMAIN @ \cup {DateOf[q]} |->
                                              IF d = DateOf[q] THEN CodeOf[q] ELSE @[d]]]
  /\ UNCHANGED <<duty, name, today, revision, held, copy, begun, mixed, faults, restarts>>
\* logDutyUpdated, whose failure is caught.
LogDuty(q) ==
  /\ pc[q] = "log" /\ Goto(q, "ok")
  /\ \/ log' = Append(log, <<DateOf[q], held[q], CodeOf[q]>>) /\ UNCHANGED faults
     \/ Fault /\ UNCHANGED log
  /\ answered' = [answered EXCEPT !.duty = [d \in DOMAIN @ \cup {DateOf[q]} |->
                                              IF d = DateOf[q] THEN CodeOf[q] ELSE @[d]]]
  /\ UNCHANGED <<duty, name, today, revision, held, copy, begun, mixed, restarts>>

FindToRename(q) ==
  /\ q \in Renames /\ pc[q] = "new"
  /\ IF CodeOf[q] \in Codes THEN Goto(q, "rename") /\ Mix(q, Renames, CodeOf, CodeOf[q])
                            ELSE Goto(q, "404") /\ UNCHANGED mixed
  /\ UNCHANGED <<duty, name, today, revision, log, held, copy, begun, answered, faults, restarts>>
SavePharmacy(q) ==
  /\ pc[q] = "rename" /\ Goto(q, "ok")
  /\ name' = [name EXCEPT ![CodeOf[q]] = q] /\ revision' = revision + 1
  /\ answered' = [answered EXCEPT !.name[CodeOf[q]] = q]
  /\ UNCHANGED <<duty, today, log, held, copy, begun, mixed, faults, restarts>>

----------------------------------------------------------------------------
(* getDutyToday and getBootstrap *)

GetToday(q) ==
  /\ q \in Todays /\ pc[q] = "new"
  /\ held' = [held EXCEPT ![q] = Row(today)]
  /\ Goto(q, IF Row(today) = NoRow THEN "404" ELSE "consulted")
  /\ UNCHANGED <<duty, name, today, revision, log, copy, ghosts, faults, restarts>>
LogConsulted(q) ==
  /\ pc[q] = "consulted" /\ Goto(q, "ok")
  /\ Fault \/ UNCHANGED faults
  /\ UNCHANGED <<duty, name, today, revision, log, held, copy, ghosts, restarts>>

\* getCalendar takes the duty date at once; its three queries and that of the range run
\* together and end in any order.
BeginVisit(q) ==
  /\ q \in Visits /\ pc[q] = "new" /\ Goto(q, "reading")
  /\ held' = [held EXCEPT ![q] = [from |-> today, parts |-> << >>]]
  /\ begun' = [begun EXCEPT ![q] = [duty |-> answered.duty, name |-> answered.name,
                                    done |-> {p \in Duties \cup Renames : pc[p] = "ok"}]]
  /\ UNCHANGED <<duty, name, today, revision, log, copy, answered, mixed, faults, restarts>>

DateOfPart(q, p) == held[q].from + (CASE p = "today" -> 0 [] p = "tomorrow" -> 1
                                      [] p = "dayAfterTomorrow" -> 2)
Read(q) ==
  /\ pc[q] = "reading"
  /\ \E p \in (Preview \cup {"rows"}) \ DOMAIN held[q].parts :
       LET read == IF p = "rows" THEN [d \in DOMAIN duty \cap From..To |-> Row(d)]
                   ELSE Row(DateOfPart(q, p)) IN
       held' = [held EXCEPT ![q].parts = [x \in DOMAIN @ \cup {p} |-> IF x = p THEN read ELSE @[x]]]
  /\ UNCHANGED <<duty, name, today, revision, log, pc, copy, ghosts, faults, restarts>>

Shown(parts) == [k \in 1..(To - From + 1) |->
                   IF From + k - 1 \in DOMAIN parts.rows THEN parts.rows[From + k - 1] ELSE NoRow]
                \o <<parts.today, parts.tomorrow, parts.dayAfterTomorrow>>
\* collectUniquePharmacies: of each code the one that was added last.
Pharmacies(parts) ==
  LET s == Shown(parts) IN
  {s[i] : i \in {k \in DOMAIN s : /\ s[k] # NoRow
                                  /\ \A j \in DOMAIN s : j > k => s[j].code # s[k].code}}

Page(parts) == [parts |-> parts, pharmacies |-> Pharmacies(parts)]

\* Plausible bug: the ETag is made of the seed alone.
EtagOfSeed(seed, page) == seed
\* applyHttpEtag: the hash of the seed, which is read after the page, and the page.
Etag(seed, page) == <<seed, page>>

Answer(q) ==
  /\ pc[q] = "reading" /\ DOMAIN held[q].parts = Preview \cup {"rows"}
  /\ LET v == VisitorOf[q]
         page == Page(held[q].parts) IN
     IF copy[v] # << >> /\ Etag(copy[v].seed, copy[v].page) = Etag(revision, page)
       THEN Goto(q, "304") /\ UNCHANGED copy
       ELSE Goto(q, "ok") /\ copy' = [copy EXCEPT ![v] = [seed |-> revision, page |-> page]]
  /\ UNCHANGED <<duty, name, today, revision, log, held, ghosts, faults, restarts>>

----------------------------------------------------------------------------
(* Failures and time *)

Fail(q) ==
  /\ pc[q] \in {"existing", "save", "rename"} /\ Fault /\ Goto(q, "500")
  /\ UNCHANGED <<duty, name, today, revision, log, held, copy, ghosts, restarts>>

Restart ==
  /\ restarts < MaxRestarts /\ restarts' = restarts + 1
  /\ revision' = 0 /\ pc' = [q \in Requests |-> IF AtWork(q) THEN "cut" ELSE pc[q]]
  /\ UNCHANGED <<duty, name, today, log, held, copy, ghosts, faults>>

NextDay ==
  /\ today < LastDay /\ today' = today + 1
  /\ UNCHANGED <<duty, name, revision, log, pc, held, copy, ghosts, faults, restarts>>

Init ==
  /\ duty = [d \in {From, From + 1} |-> CHOOSE c \in Codes : TRUE] /\ name = [c \in Codes |-> c]
  /\ today = From /\ revision = 0 /\ log = << >>
  /\ pc = [q \in Requests |-> "new"] /\ held = [q \in Requests |-> None]
  /\ copy = [v \in Visitors |-> << >>]
  /\ answered = [duty |-> duty, name |-> name]
  /\ begun = [q \in Visits |-> [duty |-> duty, name |-> name, done |-> {}]]
  /\ mixed = {} /\ faults = 0 /\ restarts = 0

UpdateDutyByDate(q) == FindPharmacy(q) \/ FindExisting(q) \/ SaveDuty(q) \/ LogDuty(q)
UpdatePharmacy(q)   == FindToRename(q) \/ SavePharmacy(q)
GetDutyToday(q)     == GetToday(q) \/ LogConsulted(q)
GetBootstrap(q)     == BeginVisit(q) \/ Read(q) \/ Answer(q)
Serve(q) == \/ UpdateDutyByDate(q) \/ UpdatePharmacy(q) \/ GetDutyToday(q) \/ GetBootstrap(q)
            \/ Fail(q)
Next == (\E q \in Requests : Serve(q)) \/ Restart \/ NextDay
Spec == Init /\ [][Next]_vars

----------------------------------------------------------------------------
(* Properties *)

\* Types; every duty is of a pharmacy that exists.
TypeOK ==
  /\ \A d \in DOMAIN duty : duty[d] \in Codes
  /\ DOMAIN name = Codes /\ today \in From..LastDay /\ revision \in Nat
  /\ pc \in [Requests -> Steps]
  /\ \A q \in Visits : pc[q] = "reading" => DOMAIN held[q].parts \subseteq Preview \cup {"rows"}
  /\ \A i \in DOMAIN log : log[i][3] \in Codes

\* What a visitor's page says of a date and of the names in it, when its visit is answered,
\* 304 or not, is not older than the visit: it is what the last change answered before the
\* visit left there, or a change that was not answered then; also after a restart that begins
\* the ETags anew, but for a date that two requests changed at once.
VisitIsCurrent ==
  \A q \in Visits : pc[q] = "reading" /\ pc'[q] \in {"ok", "304"} =>
    LET page == copy'[VisitorOf[q]].page IN
    \A d \in DOMAIN begun[q].duty \cap From..To :
      /\ d \in DOMAIN page.parts.rows
      /\ LET r == page.parts.rows[d] IN
         /\ d \notin mixed =>
              r.code = begun[q].duty[d] \/ \E p \in Duties \ begun[q].done :
                DateOf[p] = d /\ CodeOf[p] = r.code /\ pc[p] \in {"log", "ok", "cut"}
         /\ r.name = begun[q].name[r.code] \/ \E p \in Renames \ begun[q].done :
                p = r.name /\ CodeOf[p] = r.code /\ pc[p] = "ok"

\* The page is whole: every duty it shows, in the range or in the preview, has its pharmacy
\* among the pharmacies, and no code is there twice, whatever changed between the queries.
PageIsWhole ==
  \A v \in Visitors : copy[v] # << >> =>
    LET page == copy[v].page IN
    /\ \A r \in Range(Shown(page.parts)) \ {NoRow} : \E f \in page.pharmacies : f.code = r.code
    /\ \A f, g \in page.pharmacies : f.code = g.code => f = g

\* The log explains the duties: of a date that nobody changed at once, and without failures or
\* restarts, each entry begins with the code the one before it left, and the last one left the
\* row's.
LogExplainsDuty ==
  faults + restarts = 0 => \A d \in DOMAIN duty \ mixed :
    LET entries == {i \in DOMAIN log : log[i][1] = d} IN
    /\ \A i, j \in entries :
         i < j /\ (\A k \in entries : k <= i \/ j <= k) => log[i][3] = log[j][2]
    /\ (\A q \in Duties : DateOf[q] = d => ~AtWork(q)) =>
         \A i \in entries : (\A k \in entries : k <= i) => log[i][3] = duty[d]
=============================================================================
