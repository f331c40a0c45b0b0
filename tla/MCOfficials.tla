---------------------------- MODULE MCOfficials -----------------------------
(***************************************************************************)
(* Instances for TLC of the components whose rows officials keep and read: *)
(* kinds of complaint, settings of the bot, QR codes, pharmacies and their *)
(* duties, lists, periods and the central log.  They share no state, so a  *)
(* behaviour is one of one component, which active chooses at the start,   *)
(* while the others stay in their initial state: the states are the sum of *)
(* theirs, and an invariant of a component is one of this module.          *)
(***************************************************************************)
EXTENDS TiposReclamo, Sequences, TLC

VARIABLES active,
  config, configReq, said, together, configRequests,
  codes, creating, scan, now, lastCode, deletes, scans, redirects, printed, refusedCodes,
  duty, name, today, revision, log, dutyPc, held, copy, begun, answered, mixed, faults, restarts,
  start, utc, hour, raw, passed, changed,
  rows, estado, lastRow, changes, walk,
  clock, talks, report, visits, moves,
  events, ingested, cache, reader, served, view, logFaults

configVars == <<config, configReq, said, together, configRequests>>
qrVars == <<codes, creating, scan, now, lastCode, deletes, scans, redirects, printed,
            refusedCodes>>
dutyVars == <<duty, name, today, revision, log, dutyPc, held, copy, begun, answered, mixed,
              faults, restarts>>
calendarVars == <<start, utc, hour, raw, passed, changed>>
listVars == <<rows, estado, lastRow, changes, walk>>
rangeVars == <<clock, talks, report, visits, moves>>
logVars == <<events, ingested, cache, reader, served, view, logFaults>>

CONSTANTS o1, o2, NoSummary
Alike == Permutations({o1, o2})

---------------------------------------------------------------------------
(* BotConfig: two officials, two keys. *)

CONSTANTS Claves, Values, Dates, MaxSettings

Config == INSTANCE BotConfig WITH
  MaxRequests <- MaxSettings,
  rows <- config, req <- configReq, requests <- configRequests

---------------------------------------------------------------------------
(* QrTracking: names with two spellings of one, the name its second attempt takes, a name *)
(* of the site, one of several words, and one that leaves nothing; or visits of the codes *)
(* of that last one. *)

CONSTANTS QrNames, Words, Numeral, Reserved, MaxLength, MaxAttempts, Scanners,
          MaxCodes, MaxTime, MaxDeletes, MaxScans

Qr == INSTANCE QrTracking WITH
  Names <- QrNames, Creators <- Officials, last <- lastCode, refused <- refusedCodes

MCWords == [Feria |-> <<"feria">>, feria |-> <<"feria">>, feria2 |-> <<"feria", "2">>,
            api |-> <<"api">>, plan |-> <<"plan", "de", "obras">>, signos |-> << >>]
MCNumeral == <<"1", "2", "3">>
MCReserved == {<<"api">>, <<"qr">>, <<"robots", "txt">>}

QrScenario == [slugs |-> [names |-> QrNames, codes |-> MaxCodes],
               scans |-> [names |-> QrNames \cap {"signos"}, codes |-> 2]]

---------------------------------------------------------------------------
(* Farmacias: d1 and d2 change the same date, d3 names a pharmacy that does not exist; or *)
(* that duty, the only one in the range of two visits, changes hands, with a new name or a *)
(* restart.  The requests of a behaviour are those of one of the three. *)

CONSTANTS Codes, Duties, Renames, Todays, Visits, DateOf, CodeOf, VisitorOf, From, To,
          LastDay, MaxFaults, MaxRestarts

Duty == INSTANCE Farmacias WITH pc <- dutyPc

MCDateOf == [d1 |-> 1, d2 |-> 1, d3 |-> 2]
MCCodeOf == [d1 |-> "A", d2 |-> "B", d3 |-> "X", n1 |-> "A"]
MCVisitorOf == [v1 |-> "ana", v2 |-> "ana"]

Scenario == [changes |-> {"d1", "d2", "d3", "n1", "t1"}, pages |-> {"d2", "n1", "v1", "v2"},
             restarted |-> {"d2", "v1", "v2"}]

---------------------------------------------------------------------------
(* DutyCalendar: the ends of years and of short months, leap and not. *)

CONSTANTS Starts, RawHours, Behind, Hours

MCStarts == {<<2024, 12, 30>>, <<2024, 2, 27>>, <<2025, 2, 26>>, <<2100, 2, 26>>, <<2000, 2, 27>>,
             <<2025, 4, 28>>, <<2025, 7, 29>>}
MCRawHours == {<< >>, <<-1>>, <<0>>, <<8>>, <<23>>, <<24>>}

Calendar == INSTANCE DutyCalendar

---------------------------------------------------------------------------
(* Listados: every list, of three rows without a filter or of two with any. *)

CONSTANTS Lists, Estados, Sorts, Filters, Limit, MaxRows, MaxChanges, MaxPages

Walks == INSTANCE Listados WITH last <- lastRow

Unfiltered == [estado |-> << >>, from |-> << >>, to |-> << >>]
\* Each filter alone and the three of them.
MCFilters == {Unfiltered, [Unfiltered EXCEPT !.estado = <<1>>],
              [Unfiltered EXCEPT !.from = <<2>>], [Unfiltered EXCEPT !.to = <<1>>],
              [estado |-> <<1>>, from |-> <<1>>, to |-> <<1>>]}

ListScenario == [walks |-> [filters |-> {Unfiltered}, rows |-> MaxRows],
                 filtered |-> [filters |-> Filters, rows |-> 2]]

---------------------------------------------------------------------------
(* DateRanges: the days of a period, of three instants each; or two flows, and conversations *)
(* that change theirs.  The zone of the server is UTC (Offset). *)

CONSTANTS Units, RangeDays, Flows, OtherFlow, LastPeriod, MaxTalks, MaxMoves

Periods == INSTANCE DateRanges WITH
  Offset <- 0, LastDay <- LastPeriod, MaxRows <- MaxTalks, now <- clock, rows <- talks

PeriodScenario == [days |-> [flows |-> {"f1"}, instants |-> 9, talks |-> 1, moves |-> 0],
                   visits |-> [flows |-> Flows, instants |-> 3, talks |-> 3, moves |-> 2]]

---------------------------------------------------------------------------
(* OpsEvents: two summaries of one source while events come and time passes; summaries of *)
(* two sources, one of them named 'all', and of every source; and the timeline of events of *)
(* one request, of two spellings of one source, a second source and a blank text. *)

CONSTANTS Spellings, Canonical, Blank, Unknown, Everything, All, Shapes, RequestIds, NoRequest, LogDates,
          Viewed, Readers, Window, Ttl, DefaultTtl, RecentLimit, DomainLimit, TimelineLimit,
          MaxEvents, MaxLogTime, MaxLogFaults

Log == INSTANCE OpsEvents WITH
  Idle <- NoSummary, Dates <- LogDates, MaxTime <- MaxLogTime, MaxFaults <- MaxLogFaults,
  now <- ingested, faults <- logFaults

MCCanonical == [s \in Spellings |->
                  CASE s = "Web" -> "web" [] s = " " -> Blank [] OTHER -> s]
Shape(kind, actor, domain, event, status) ==
    [kind |-> kind, actor |-> actor, domain |-> domain, name |-> event, status |-> status]
failedRequest == Shape("request", "system", "http", "request.failed", "failure")
mailSent == Shape("email", "system", "email", "email.sent", "success")
MCShapes == {failedRequest, mailSent}

LogScenario ==
  [summary  |-> [spellings |-> {"web"}, shape |-> failedRequest, requests |-> {NoRequest},
                 dates |-> {0}, events |-> 2, time |-> 2, faults |-> 1],
   sources  |-> [spellings |-> {"web", " ", "all"}, shape |-> mailSent, requests |-> {NoRequest},
                 dates |-> {0}, events |-> 2, time |-> 0, faults |-> 0],
   timeline |-> [spellings |-> Spellings \ {"all"}, shape |-> mailSent,
                 requests |-> RequestIds \cup {NoRequest},
                 dates |-> LogDates, events |-> 3, time |-> 1, faults |-> 0]]

---------------------------------------------------------------------------

ASSUME BotConfigHolds == Config!DatesAssumption
ASSUME QrTrackingHolds ==
  /\ Qr!WordsAssumption /\ Qr!LengthAssumption /\ Qr!NumeralAssumption
  /\ Qr!ReservedAssumption /\ Qr!VisitorsAssumption
ASSUME FarmaciasHolds == Duty!FarmaciasAssumption
ASSUME CalendarHolds == Calendar!DutyCalendarAssumption /\ Calendar!StartsAssumption
ASSUME ListadosHolds ==
  Walks!ListsAssumption /\ Walks!LimitAssumption /\ Walks!PagesAssumption
ASSUME DateRangesHolds ==
  Periods!UnitsAssumption /\ Periods!FlowsAssumption /\ Periods!BoundsAssumption
ASSUME OpsEventsHolds == Log!CanonicalAssumption /\ Log!LimitAssumption

\* The calendar starts anywhere, and the lists have any rows, when they are the ones that move.
OfficialsInit ==
  /\ active \in DOMAIN Scenario \cup DOMAIN QrScenario \cup DOMAIN ListScenario
       \cup DOMAIN PeriodScenario \cup DOMAIN LogScenario \cup {"kinds", "config", "calendar"}
  /\ Init /\ Config!Init /\ Qr!Init /\ Duty!Init /\ Calendar!Init /\ Periods!Init
  /\ Walks!Init /\ Log!Init
  /\ active # "calendar" => start = <<2024, 12, 30>> /\ raw = << >>
  /\ lastRow <= IF active \in DOMAIN ListScenario THEN ListScenario[active].rows ELSE 0

KindStep ==
  /\ active = "kinds" /\ Next
  /\ UNCHANGED <<active, configVars, qrVars, dutyVars, calendarVars, listVars, rangeVars, logVars>>
ConfigStep ==
  /\ active = "config" /\ Config!Next
  /\ UNCHANGED <<active, vars, qrVars, dutyVars, calendarVars, listVars, rangeVars, logVars>>
QrStep ==
  /\ active \in DOMAIN QrScenario
  /\ \/ \E o \in Officials : (\E n \in QrScenario[active].names : Qr!Create(o, n)) \/ Qr!Save(o)
     \/ \E i \in 1..MaxCodes : Qr!Delete(i)
     \/ active = "scans" /\ (Qr!Tick \/ \E v \in Scanners : Qr!Visit(v))
  /\ lastCode' <= QrScenario[active].codes
  /\ UNCHANGED <<active, vars, configVars, dutyVars, calendarVars, listVars, rangeVars, logVars>>
DutyStep ==
  /\ active \in DOMAIN Scenario
  /\ \/ \E q \in Scenario[active] \cap Duty!Requests : Duty!Serve(q)
     \/ active = "changes" /\ Duty!NextDay
     \/ active = "restarted" /\ Duty!Restart
  /\ active # "changes" => UNCHANGED faults
  /\ UNCHANGED <<active, vars, configVars, qrVars, calendarVars, listVars, rangeVars, logVars>>
CalendarStep ==
  /\ active = "calendar" /\ Calendar!Next
  /\ UNCHANGED <<active, vars, configVars, qrVars, dutyVars, listVars, rangeVars, logVars>>
ListStep ==
  /\ active \in DOMAIN ListScenario
  /\ \/ \E e \in Estados : \/ Walks!Insert(e)
                           \/ \E i \in 1..MaxRows : Walks!Change(i, e)
     \/ \E i \in 1..MaxRows : Walks!Delete(i)
     \/ \E list \in Lists, sort \in Sorts, dir \in {"ASC", "DESC"},
           f \in Filters \cap ListScenario[active].filters : Walks!Open(list, sort, dir, f)
     \/ Walks!Request \/ Walks!FetchItems \/ Walks!FetchCount
  /\ lastRow' <= ListScenario[active].rows
  /\ UNCHANGED <<active, vars, configVars, qrVars, dutyVars, calendarVars, rangeVars, logVars>>
RangeStep ==
  /\ active \in DOMAIN PeriodScenario /\ Periods!Next
  /\ LET this == PeriodScenario[active] IN
     /\ clock' <= this.instants /\ Cardinality(talks') <= this.talks /\ moves' <= this.moves
     /\ \A x \in talks' : x.flow \in this.flows \cup {OtherFlow}
  /\ UNCHANGED <<active, vars, configVars, qrVars, dutyVars, calendarVars, listVars, logVars>>
LogStep ==
  /\ active \in DOMAIN LogScenario
  /\ LET this == LogScenario[active] IN
     /\ \/ Log!Tick
        \/ \E s \in Spellings \cap this.spellings,
              shape \in Shapes \cap {this.shape},
              q \in this.requests \cap (RequestIds \cup {NoRequest}),
              at \in {<< >>} \cup {<<t>> : t \in LogDates \cap this.dates} :
              Log!CreateEvent(s, shape, q, at)
        \/ \E r \in Readers :
              /\ active # "timeline"
              /\ \/ \E s \in Spellings \cap this.spellings : Log!GetSummary(r, s)
                 \/ Log!RunQuery(r)
                 \/ Log!StoreSummary(r)
        \/ /\ active = "timeline"
           /\ \/ \E i \in Viewed : Log!GetEvent(i)
              \/ Log!GetTimeline
     /\ Len(events') <= this.events /\ ingested' <= this.time /\ logFaults' <= this.faults
  /\ UNCHANGED <<active, vars, configVars, qrVars, dutyVars, calendarVars, listVars, rangeVars>>

OfficialsNext ==
  KindStep \/ ConfigStep \/ QrStep \/ DutyStep \/ CalendarStep \/ ListStep \/ RangeStep \/ LogStep

OfficialsSpec ==
  /\ OfficialsInit
  /\ [][OfficialsNext]_<<active, vars, configVars, qrVars, dutyVars, calendarVars, listVars,
                         rangeVars, logVars>>

---------------------------------------------------------------------------

\* A kind of complaint is refused only for a name that another one has, with a 409 unless both
\* were asked for at once, and a deleted one stays deleted (crear, actualizar and eliminar of
\* tipos-reclamo.service.ts).
KindsAreAnswered == TypeOK /\ RefusedNamesAreTaken /\ DeletedStaysDeleted

\* A setting of the bot has one row with the last value an official gave it, unless two of its
\* requests overlapped (create, update of bot-config.service.ts; the table has no index).
ConfigIsWhatWasSaid == Config!TypeOK /\ Config!OneRowPerKey /\ Config!RowIsWhatWasSaid

\* A QR code that was printed goes on working: its slug leads where it was made to lead and to
\* no page of the site, a name is refused only when its slugs are taken, and no scan is lost
\* when several visitors come at once (qr-tracking.service.ts).
PrintedCodesWork ==
  /\ Qr!TypeOK /\ Qr!EveryScanCounts
  /\ Qr!PrintedCodeKeepsTarget /\ Qr!NoReservedSlug /\ Qr!RefusedOnlyWhenTaken

\* The log of changes explains every duty, unless two changes of a date overlapped or one
\* failed (updateDutyByDate of farmacias.service.ts, which writes row and log apart).
LogExplainsDuty == Duty!TypeOK /\ Duty!LogExplainsDuty

\* A visit of the duties, answered 304 or not, shows every change that was answered before it
\* began, also across a restart that begins the revisions of the ETag anew, and each page is
\* whole (the ETag of farmacias.controller.ts and the revision of farmacias.service.ts).
VisitorSeesChanges == [][Duty!VisitIsCurrent /\ Duty!PageIsWhole']_dutyVars

\* The duty changes once a day, at the hour of change, to the one announced for the day after,
\* over the ends of months and years (getCurrentDutyDateISO and getCalendar).
DutyFollowsCalendar == Calendar!DutyFollowsCalendar /\ Calendar!DutyLastsADay

\* A client that walks the pages of a list misses no row that was there when it began, and
\* sees each once while nothing changes (the six paginated lists).
WalkMissesNothing == Walks!TypeOK /\ Walks!WalkMissesNothing /\ Walks!QuietWalkIsExact

\* The days of a period add up to it, the default period has its last days whole, and each
\* conversation counts for one flow unless it moves meanwhile (counts by dates, visits).
DaysAddUp ==
  /\ Periods!TypeOK /\ Periods!DaysAddUp /\ Periods!DefaultHasTheLastDays
  /\ Periods!VisitsCountOnce

\* The summary of the central log, cached or not, is of the source asked for, though the one of
\* every source and the one of a source named 'all' are answered for one another; its later
\* queries cover its earlier ones and the total of a source never drops from one summary to the
\* next; the timeline of an event is of its request (getSummary, getEventDetail of
\* ops-events.service.ts).
LogIsReported ==
  [][/\ Log!TypeOK' /\ Log!SummaryOfItsSource' /\ Log!TimelineOfTheEvent'
     /\ Log!LaterQueriesCoverEarlier' /\ Log!TotalIsKept]_logVars
=============================================================================
