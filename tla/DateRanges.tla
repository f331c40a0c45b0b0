----------------------------- MODULE DateRanges -----------------------------
(***************************************************************************)
(* Periods asked for by dates, as all the reports of the dashboard take    *)
(* them (users, conversations, visits, contacts, interactions, summary):   *)
(* a date is read as its midnight in UTC, and the last day is taken to its *)
(* end with setHours, in the zone of the server.                           *)
(*                                                                         *)
(* Officials add up days that are over while the bot goes on writing, and  *)
(* ask for the visits of each flow, which are counted flow by flow.        *)
(***************************************************************************)
EXTENDS Integers, FiniteSets, FiniteSetsExt

CONSTANTS Units,       \* instants of a day
          Offset,      \* how far the server's midnight is behind UTC's
          RangeDays,   \* DEFAULT_RANGE_DAYS
          Flows,       \* the flows of the table flujo
          OtherFlow,   \* a flow the table does not have
          LastDay, MaxRows, MaxMoves    \* bounds of a run

UnitsAssumption == Units \in Nat \ {0} /\ Offset \in 0..Units - 1
FlowsAssumption == IsFiniteSet(Flows) /\ OtherFlow \notin Flows
BoundsAssumption ==
    /\ RangeDays \in Nat /\ LastDay \in Nat /\ MaxRows \in Nat /\ MaxMoves \in Nat

VARIABLES now,
          rows,     \* conversacion: [id, at, flow]
          report,   \* the official who adds up days
          visits,   \* the request for visits
          moves
vars == <<now, rows, report, visits, moves>>

Idle == [step |-> "idle"]
Days == 0..LastDay

----------------------------------------------------------------------------
ParseDate(day) == day * Units

LocalDay(t) == (t - Offset) \div Units
StartOfDay(t) == LocalDay(t) * Units + Offset

\* Plausible bug: the end of a day is the first instant of the next.
FirstOfNextDay(t) == StartOfDay(t) + Units
EndOfDay(t) == StartOfDay(t) + Units - 1

Between(from, to) == ParseDate(from)..EndOfDay(ParseDate(to))

\* The period of a summary without dates.
DefaultRange == StartOfDay(EndOfDay(now) - RangeDays * Units)..EndOfDay(now)

Rows(range) == {x \in rows : x.at \in range}

Init == /\ now = 0
        /\ rows = {}
        /\ report = Idle
        /\ visits = Idle
        /\ moves = 0

----------------------------------------------------------------------------
(* The bot *)

Tick == /\ now < ParseDate(LastDay + 1)
        /\ now' = now + 1
        /\ UNCHANGED <<rows, report, visits, moves>>

Talk == /\ Cardinality(rows) < MaxRows
        /\ \E f \in Flows \cup {OtherFlow} :
              rows' = rows \cup {[id |-> Cardinality(rows) + 1, at |-> now, flow |-> f]}
        /\ UNCHANGED <<now, report, visits, moves>>

\* A conversation goes on to another flow, its date as it was.
Move == /\ moves < MaxMoves /\ moves' = moves + 1
        /\ \E x \in rows, f \in Flows :
              /\ f # x.flow
              /\ rows' = (rows \ {x}) \cup {[x EXCEPT !.flow = f]}
              /\ visits' = IF visits = Idle THEN visits
                           ELSE [visits EXCEPT !.moved = @ \cup {x.id}]
        /\ UNCHANGED <<now, report>>

----------------------------------------------------------------------------
(* Reports *)

Over(day) == EndOfDay(ParseDate(day)) < now

BeginReport(from, to) ==
    /\ report = Idle
    /\ from <= to /\ Over(to)
    /\ report' = [step |-> "days", from |-> from, to |-> to, day |-> from, total |-> 0]
    /\ UNCHANGED <<now, rows, visits, moves>>

ReadDay ==
    /\ report.step = "days" /\ report.day <= report.to
    /\ report' = [report EXCEPT !.day = @ + 1,
                                !.total = @ + Cardinality(Rows(Between(report.day, report.day)))]
    /\ UNCHANGED <<now, rows, visits, moves>>

ReadAll ==
    /\ report.step = "days" /\ report.day > report.to
    /\ report' = [step |-> "done", days |-> report.total,
                  whole |-> Cardinality(Rows(Between(report.from, report.to)))]
    /\ UNCHANGED <<now, rows, visits, moves>>

EndReport ==
    /\ report.step = "done"
    /\ report' = Idle
    /\ UNCHANGED <<now, rows, visits, moves>>

----------------------------------------------------------------------------
(* GET /visitas-flujo *)

BeginVisits(from, to) ==
    /\ visits = Idle
    /\ from <= to /\ Over(to)
    /\ visits' = [step |-> "count", from |-> from, to |-> to, counts |-> << >>, moved |-> {}]
    /\ UNCHANGED <<now, rows, report, moves>>

OfFlow(f, in) == {x \in in : x.flow = f}

\* The flows are counted in parallel, and reach the database in any order.
CountFlow(f) ==
    /\ visits.step = "count" /\ f \notin DOMAIN visits.counts
    /\ LET n == Cardinality(OfFlow(f, Rows(Between(visits.from, visits.to))))
       IN  visits' = [visits EXCEPT !.counts = [g \in DOMAIN @ \cup {f} |->
                                                   IF g = f THEN n ELSE @[g]]]
    /\ UNCHANGED <<now, rows, report, moves>>

Total == FoldSet(LAMBDA f, n : n + visits.counts[f], 0, DOMAIN visits.counts)

EndVisits ==
    /\ visits.step = "count" /\ DOMAIN visits.counts = Flows
    /\ visits' = Idle
    /\ UNCHANGED <<now, rows, report, moves>>

Next == \/ Tick \/ Talk \/ Move
        \/ (\E from, to \in Days : BeginReport(from, to) \/ BeginVisits(from, to))
        \/ ReadDay \/ ReadAll \/ EndReport
        \/ (\E f \in Flows : CountFlow(f)) \/ EndVisits
Spec == Init /\ [][Next]_vars

----------------------------------------------------------------------------
\* Counts are of rows, and the flows counted are those of the table.
TypeOK ==
    /\ report.step = "days" => report.total \in 0..MaxRows
    /\ visits.step = "count" => /\ DOMAIN visits.counts \subseteq Flows
                                /\ \A f \in DOMAIN visits.counts : visits.counts[f] \in 0..MaxRows

(* The days of a period that is over add up to the period, whatever is     *)
(* written between the requests: no row falls between two days or in both. *)
DaysAddUp == report.step = "done" => report.days = report.whole

(* The visits of a period count once every conversation of a known flow    *)
(* that did not move while they were counted; one that moved may count for *)
(* each flow it was in, or for none.                                       *)
VisitsCountOnce ==
    visits.step = "count" /\ DOMAIN visits.counts = Flows =>
        LET known == {x \in Rows(Between(visits.from, visits.to)) : x.flow \in Flows}
            still == {x \in known : x.id \notin visits.moved}
        IN  Total - Cardinality(still) \in 0..Cardinality(Flows) * Cardinality(visits.moved)

\* A summary without dates has all of the last RangeDays days.
DefaultHasTheLastDays ==
    \A x \in rows : now - x.at <= RangeDays * Units => x.at \in DefaultRange
=============================================================================
