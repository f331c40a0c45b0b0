----------------------------- MODULE OpsEvents -----------------------------
(***************************************************************************)
(* The central event log (src/modules/observability/ops-events.service.ts):*)
(* events are appended, an event is read with the timeline of its request, *)
(* and a summary of the last 24 hours is built by ten queries, one after   *)
(* another, and kept in Redis for a few seconds.  Nothing locks the log    *)
(* while a reader is between two of its queries.                           *)
(***************************************************************************)
EXTENDS Integers, Sequences, FiniteSets, FiniteSetsExt

CONSTANTS Spellings,       \* sources as clients write them
          Canonical,       \* the token each spelling is stored as, or Blank
          Blank,           \* a text that is empty once it is trimmed
          Unknown,         \* the source 'unknown'
          Everything,      \* the scope of a summary of every source, null in the code
          All,             \* the source 'all', if a client names one so
          Shapes,          \* kind, actor, domain, name and status of an event
          RequestIds, NoRequest,
          Dates,           \* the dates clients give to their events
          Viewed,          \* the events a client looks at
          Readers, Idle,   \* clients of the summary, and the state of none
          Window,          \* 24 hours
          Ttl, DefaultTtl, \* OPS_SUMMARY_CACHE_TTL_SECONDS, 30
          RecentLimit, DomainLimit, TimelineLimit,
          MaxEvents, MaxTime, MaxFaults   \* bounds of a run

\* The scope of every source is null in the code, and a source is a text.
CanonicalAssumption == \A s \in Spellings : Canonical[s] # Everything
LimitAssumption ==
    /\ Dates \subseteq 0..MaxTime
    /\ {Window, RecentLimit, DomainLimit, TimelineLimit} \subseteq Nat \ {0}
    /\ Ttl \in Int /\ DefaultTtl \in Nat
    /\ {MaxTime, MaxFaults} \subseteq Nat

VARIABLES events,    \* the table ops_event_log, in order of ingestion
          now,       \* the clock
          cache,     \* ops:summary:<source or 'all'> in Redis
          reader,    \* the summary each client is waiting for
          served,    \* ghost: the last summary answered
          view,      \* the last event detail answered
          faults
vars == <<events, now, cache, reader, served, view, faults>>

----------------------------------------------------------------------------
Source(s) == IF Canonical[s] = Blank THEN Unknown ELSE Canonical[s]
Scope(s) == IF Canonical[s] = Blank THEN Everything ELSE Canonical[s]
Scopes == {Scope(s) : s \in Spellings}
\* The key of every source is also that of a source named 'all'.
CacheKey(scope) == IF scope = Everything THEN All ELSE scope
Keys == {CacheKey(c) : c \in Scopes}
CacheTtl == IF Ttl >= 0 THEN Ttl ELSE DefaultTtl

InScope(e, scope) == scope = Everything \/ e.source = scope
Scoped(scope) == {i \in DOMAIN events : InScope(events[i], scope)}
\* Plausible bug: the start of the window is taken again by each query.
SlidingSince(scope, since) == {i \in Scoped(scope) : events[i].occurred >= now - Window}
Since(scope, since) == {i \in Scoped(scope) : events[i].occurred >= since}

\* Newest first: by when it happened, then by when it was stored.
Later(i, j) == \/ events[i].occurred > events[j].occurred
               \/ events[i].occurred = events[j].occurred /\ i > j
Newest(rows, n) == {i \in rows : Cardinality({j \in rows : Later(j, i)}) < n}
Oldest(rows, n) == {i \in rows : Cardinality({j \in rows : Later(i, j)}) < n}

(* The queries of a summary in the order they are awaited; each is known   *)
(* by the rows it counts, groups or returns.                               *)
Queries == <<"totalEvents", "events24h", "errorEvents24h", "adminActions24h",
             "emailEvents24h", "requestFailures24h", "slowRequests24h",
             "statusBreakdown", "domainBreakdown", "recentFailures">>

Counts(q, e) ==
    CASE q = "errorEvents24h" -> e.status = "failure"
      [] q = "adminActions24h" -> e.kind = "audit" /\ e.actor = "admin_user"
      [] q = "emailEvents24h" -> e.domain = "email"
      [] q = "requestFailures24h" ->
             e.kind = "request" /\ e.name = "request.failed"
      [] q = "slowRequests24h" -> e.kind = "request" /\ e.name = "request.slow"
      [] q = "recentFailures" -> e.status \in {"failure", "warning"}
      [] OTHER -> TRUE

Matching(q, scope, since) == {i \in Since(scope, since) : Counts(q, events[i])}

\* The groups a GROUP BY domain ... LIMIT may keep: the largest ones.
TopDomains(rows) ==
    LET domains == {events[i].domain : i \in rows}
        size(d) == Cardinality({i \in rows : events[i].domain = d})
        kept == Min({DomainLimit, Cardinality(domains)})
    IN  {D \in kSubset(kept, domains) :
            \A d \in D, o \in domains \ D : size(d) >= size(o)}

Answers(q, scope, since) ==
    LET rows == Matching(q, scope, since)
    IN  CASE q = "totalEvents" -> {Scoped(scope)}
          [] q = "domainBreakdown" ->
                 {{i \in rows : events[i].domain \in D} : D \in TopDomains(rows)}
          [] q = "recentFailures" -> {Newest(rows, RecentLimit)}
          [] OTHER -> {rows}

----------------------------------------------------------------------------
Init == /\ events = << >>
        /\ now = 0
        /\ cache = [k \in Keys |-> Idle]
        /\ reader = [r \in Readers |-> Idle]
        /\ served = Idle
        /\ view = << >>
        /\ faults = 0

Tick == /\ now < MaxTime
        /\ now' = now + 1
        /\ cache' = [k \in Keys |->    \* Redis drops what has expired
              IF cache[k] # Idle /\ cache[k].expires <= now + 1 THEN Idle
              ELSE cache[k]]
        /\ UNCHANGED <<events, reader, served, view, faults>>

(* POST /ops/events and the events of the application itself: the row is   *)
(* built from sanitised fields, and dated now when it brings no date.      *)
CreateEvent(s, shape, req, occurredAt) ==
    /\ Len(events) < MaxEvents
    /\ UNCHANGED <<now, cache, reader, served, view, faults>>
    /\ events' = Append(events,
          [kind |-> shape.kind, actor |-> shape.actor, domain |-> shape.domain,
           name |-> shape.name, status |-> shape.status,
           source |-> Source(s), request |-> req,
           occurred |-> IF occurredAt = << >> THEN now ELSE occurredAt[1]])

\* A summary is first looked up in the cache ...
GetSummary(r, s) ==
    LET scope == Scope(s)
        hit == cache[CacheKey(scope)]
    IN  /\ reader[r] = Idle
        /\ UNCHANGED <<events, now, cache, view, faults>>
        /\ \/ /\ hit # Idle
              /\ served' = [scope |-> scope, payload |-> hit.payload]
              /\ UNCHANGED reader
           \/ /\ hit = Idle
              /\ reader' = [reader EXCEPT ![r] =
                    [scope |-> scope, since |-> now - Window, began |-> now,
                     rows |-> << >>]]
              /\ UNCHANGED served

\* ... then counted query by query ...
RunQuery(r) ==
    /\ reader[r] # Idle
    /\ Len(reader[r].rows) < Len(Queries)
    /\ \E rows \in Answers(Queries[Len(reader[r].rows) + 1],
                           reader[r].scope, reader[r].since) :
          reader' = [reader EXCEPT ![r].rows = Append(@, rows)]
    /\ UNCHANGED <<events, now, cache, served, view, faults>>

(* ... and stored for a few seconds before it is answered.  When Redis     *)
(* refuses it the request fails, though every figure was there.            *)
StoreSummary(r) ==
    LET scope == reader[r].scope
        payload == [of |-> scope, rows |-> reader[r].rows, since |-> reader[r].since,
                    began |-> reader[r].began, ended |-> now]    \* of, began, ended: ghosts
    IN  /\ reader[r] # Idle
        /\ Len(reader[r].rows) = Len(Queries)
        /\ reader' = [reader EXCEPT ![r] = Idle]
        /\ UNCHANGED <<events, now, view>>
        /\ \/ /\ cache' = IF CacheTtl > 0
                          THEN [cache EXCEPT ![CacheKey(scope)] =
                                   [payload |-> payload, expires |-> now + CacheTtl]]
                          ELSE cache
              /\ served' = [scope |-> scope, payload |-> payload]
              /\ UNCHANGED faults
           \/ /\ CacheTtl > 0 /\ faults < MaxFaults
              /\ faults' = faults + 1
              /\ UNCHANGED <<cache, served>>

(* GET /ops/events/:id.  The timeline is a second query, made when the     *)
(* event has a request; between the two the log may have grown.            *)
GetEvent(i) ==
    /\ i \in DOMAIN events
    /\ view' = [id |-> i, rows |-> << >>]
    /\ UNCHANGED <<events, now, cache, reader, served, faults>>

OfRequestOf(i) == {j \in DOMAIN events :
                      /\ events[j].request = events[i].request
                      /\ events[j].source = events[i].source}
GetTimeline ==
    /\ view # << >> /\ view.rows = << >>
    /\ view' = [view EXCEPT !.rows =
          << IF events[view.id].request = NoRequest THEN {view.id}
             ELSE Oldest(OfRequestOf(view.id), TimelineLimit) >>]
    /\ UNCHANGED <<events, now, cache, reader, served, faults>>

Next == \/ Tick
        \/ \E s \in Spellings, shape \in Shapes,
              req \in RequestIds \cup {NoRequest},
              at \in {<< >>} \cup {<<t>> : t \in Dates} :
              CreateEvent(s, shape, req, at)
        \/ \E r \in Readers :
              \/ \E s \in Spellings : GetSummary(r, s)
              \/ RunQuery(r)
              \/ StoreSummary(r)
        \/ \E i \in Viewed : GetEvent(i)
        \/ GetTimeline
Spec == Init /\ [][Next]_vars

----------------------------------------------------------------------------
Answered(payload, q) == payload.rows[CHOOSE k \in DOMAIN Queries : Queries[k] = q]
Count(payload, q) == Cardinality(Answered(payload, q))

\* The log, the cache and the answers hold what the code puts there.
TypeOK ==
    /\ \A i \in DOMAIN events :
          /\ events[i].source \in (Scopes \ {Everything}) \cup {Unknown}
          /\ events[i].occurred \in 0..MaxTime
          /\ events[i].request \in RequestIds \cup {NoRequest}
    /\ \A k \in Keys : cache[k] # Idle => cache[k].expires \in 1..MaxTime + CacheTtl
    /\ \A r \in Readers : reader[r] # Idle => Len(reader[r].rows) <= Len(Queries)
    /\ now \in 0..MaxTime /\ faults \in 0..MaxFaults

(* What a client is told of one source is about that source only, however  *)
(* it spelled it and whichever client's summary was in the cache; but the  *)
(* summary of every source and that of a source named 'all' are answered   *)
(* for one another, for they have one key (getSummary).                    *)
SummaryOfItsSource ==
    served # Idle =>
        LET of == served.payload.of
        IN  /\ of = served.scope \/ {of, served.scope} = {Everything, All}
            /\ \A k \in DOMAIN Queries : served.payload.rows[k] \subseteq Scoped(of)

(* The figures of one summary are taken at ten moments and need not agree, *)
(* but since the window is fixed first and events are only added, a query  *)
(* never counts less than an earlier one it contains: the breakdown by     *)
(* status covers the 24-hour total, and its failures the failure count.    *)
LaterQueriesCoverEarlier ==
    served # Idle =>
        LET p == served.payload
            failed == {i \in Answered(p, "statusBreakdown") :
                          events[i].status = "failure"}
        IN  /\ Count(p, "events24h") <= Count(p, "statusBreakdown")
            /\ Count(p, "errorEvents24h") <= Cardinality(failed)

(* Two summaries of a source, the second begun after the first was stored: *)
(* the count of all its events never goes back, cached answers and late    *)
(* events included.                                                        *)
TotalIsKept ==
    (/\ served # Idle /\ served' # Idle /\ served'.payload.of = served.payload.of
     /\ served.payload.ended < served'.payload.began)
    => Count(served.payload, "totalEvents") <= Count(served'.payload, "totalEvents")

(* The timeline of an event is of its request and its source, and lacks    *)
(* the event only when a full page of older ones comes before it.          *)
TimelineOfTheEvent ==
    view # << >> /\ view.rows # << >> =>
        LET rows == view.rows[1]
        IN  /\ \A j \in rows : /\ events[j].request = events[view.id].request
                               /\ events[j].source = events[view.id].source
            /\ view.id \notin rows =>
                  /\ Cardinality(rows) = TimelineLimit
                  /\ \A j \in rows : Later(view.id, j)
=============================================================================
