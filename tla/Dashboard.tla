------------------------------ MODULE Dashboard ------------------------------
(***************************************************************************)
(* The summary of the Ceresito dashboard                                   *)
(* (src/modules/dashboard-ceresito/dashboard-ceresito.service.ts): five    *)
(* counts made in parallel over tables that change meanwhile, kept for a   *)
(* while in Redis under a key of the period and the state asked for.       *)
(*                                                                         *)
(* Redis is reached through the client of redis.service.ts, which is       *)
(* created with its defaults: a command in flight when the connection      *)
(* breaks is rejected, one issued while it is broken waits for it.         *)
(***************************************************************************)
EXTENDS Integers, Sequences, FiniteSets, SequencesExt, FiniteSetsExt

CONSTANTS Readers,
          Figures,      \* the figures of a summary; the program has AllFigures
          Queries,      \* what a reader asks: [period : a set of days, status]
          Days, Estados,
          OldRows,      \* what the tables hold at first
          TTL,          \* DASHBOARD_CERESITO_CACHE_TTL_SECONDS
          MaxRows, MaxChanges, MaxTime, MaxFaults, MaxBreaks   \* bounds of a run

AllFigures == {"uniqueUsers", "conversations", "sentMessages",
               "claimsReceived", "claimsHandled"}

Tables == {"contact", "conversation", "history", "reclamo"}
Messages == {"sent", "received", "event"}
Row == [id : Nat, table : Tables, day : Days, state : Messages \cup Estados \cup {"none"}]

TTLAssumption == TTL \in Nat \ {0}
FiguresAssumption == Figures \subseteq AllFigures
RowsAssumption == /\ MaxRows \in Nat
                  /\ OldRows \subseteq Row /\ IsFiniteSet(OldRows) /\ Cardinality(OldRows) <= MaxRows

VARIABLES past,     \* the contents the tables had; the last is the present
          cache,    \* dashboard:ceresito:summary:*, one place per query
          connected,
          req,      \* the request of each reader
          answer,   \* ghost: the last answer of each reader
          now, changes, faults, breaks
vars == <<past, cache, connected, req, answer, now, changes, faults, breaks>>
bounds == <<now, changes, faults, breaks>>

Rows == Last(past)
Idle == [step |-> "idle"]
NoEntry == [kind |-> "none"]
\* What an earlier version of the program left under the key.
Foreign == [kind |-> "foreign", figures |-> << >>, since |-> 1, stored |-> 0, until |-> 1]
NoAnswer == [kind |-> "none"]
At(r, step) == req[r].step = step

----------------------------------------------------------------------------
TableOf(f) == CASE f = "uniqueUsers" -> "contact"
                [] f = "conversations" -> "conversation"
                [] f = "sentMessages" -> "history"
                [] f \in {"claimsReceived", "claimsHandled"} -> "reclamo"

\* A message counts as sent if its keyword is one of the bot's and it is no event.
Value(f, q, rows) ==
    Cardinality({x \in rows :
        /\ x.table = TableOf(f)
        /\ x.day \in q.period
        /\ f = "sentMessages" => x.state = "sent"
        /\ f = "claimsHandled" => x.state = q.status})

\* Plausible bug: the state asked for is not part of the key.
KeyOfPeriod(q) == CHOOSE p \in Queries : p.period = q.period
CacheKey(q) == q

Init == /\ past = <<OldRows>>
        /\ cache \in [Queries -> {NoEntry, Foreign}]
        /\ connected = TRUE
        /\ req = [r \in Readers |-> Idle]
        /\ answer = [r \in Readers |-> NoAnswer]
        /\ now = 0 /\ changes = 0 /\ faults = 0 /\ breaks = 0

----------------------------------------------------------------------------
(* The bot and the officials *)

Change == changes < MaxChanges /\ changes' = changes + 1

States(t) == CASE t = "history" -> Messages
               [] t = "reclamo" -> Estados
               [] t \in {"contact", "conversation"} -> {"none"}

Insert ==
    /\ Change /\ Cardinality(Rows) < MaxRows
    /\ \E t \in Tables, d \in Days : \E s \in States(t) :
          past' = Append(past, Rows \cup {[id |-> Cardinality(Rows) + 1, table |-> t,
                                           day |-> d, state |-> s]})
    /\ UNCHANGED <<cache, connected, req, answer, now, faults, breaks>>

ChangeState ==
    /\ Change
    /\ \E x \in Rows, s \in Estados :
          /\ x.table = "reclamo" /\ x.state # s
          /\ past' = Append(past, (Rows \ {x}) \cup {[x EXCEPT !.state = s]})
    /\ UNCHANGED <<cache, connected, req, answer, now, faults, breaks>>

Tick ==
    /\ now < MaxTime
    /\ now' = now + 1
    /\ UNCHANGED <<past, cache, connected, req, answer, changes, faults, breaks>>

----------------------------------------------------------------------------
(* A request *)

\* GET /dashboard/ceresito/summary.
Ask(r, q) ==
    /\ At(r, "idle")
    /\ req' = [req EXCEPT ![r] = [step |-> "get", query |-> q, got |-> << >>,
                                  since |-> Len(past)]]
    /\ answer' = [answer EXCEPT ![r] = NoAnswer]
    /\ UNCHANGED <<past, cache, connected, bounds>>

Answered(r, figures, since, stored) ==
    /\ req' = [req EXCEPT ![r] = Idle]
    /\ answer' = [answer EXCEPT ![r] =
           [kind |-> "summary", query |-> req[r].query, figures |-> figures,
            since |-> since, stored |-> stored, told |-> Len(past), at |-> now]]

Live(q) == cache[CacheKey(q)].kind = "summary" /\ cache[CacheKey(q)].until > now

\* The cache has the summary of the query, and it is answered as it is ...
Hit(r) ==
    /\ At(r, "get") /\ connected
    /\ Live(req[r].query)
    /\ LET e == cache[CacheKey(req[r].query)]
       IN  Answered(r, e.figures, e.since, e.stored)
    /\ UNCHANGED <<past, cache, connected, bounds>>

\* ... or it has none, or one of another shape, and the counts are made.
Miss(r) ==
    /\ At(r, "get") /\ connected
    /\ ~Live(req[r].query)
    /\ req' = [req EXCEPT ![r].step = "count"]
    /\ UNCHANGED <<past, cache, connected, answer, bounds>>

\* Plausible bug: a figure of zero is taken for one that is not counted yet.
CountUntilSome(r, f) ==
    /\ At(r, "count") /\ f \notin DOMAIN req[r].got
    /\ Value(f, req[r].query, Rows) > 0
    /\ LET counted == [g \in DOMAIN req[r].got \cup {f} |->
                          IF g = f THEN Value(f, req[r].query, Rows) ELSE req[r].got[g]]
       IN  req' = [req EXCEPT ![r].got = counted,
                              ![r].step = IF DOMAIN counted = Figures THEN "set" ELSE "count"]
    /\ UNCHANGED <<past, cache, connected, answer, bounds>>
\* The five counts run in parallel, and reach the database in any order.
Count(r, f) ==
    /\ At(r, "count") /\ f \notin DOMAIN req[r].got
    /\ LET counted == [g \in DOMAIN req[r].got \cup {f} |->
                          IF g = f THEN Value(f, req[r].query, Rows) ELSE req[r].got[g]]
       IN  req' = [req EXCEPT ![r].got = counted,
                              ![r].step = IF DOMAIN counted = Figures THEN "set" ELSE "count"]
    /\ UNCHANGED <<past, cache, connected, answer, bounds>>

\* A count that fails ends the request with an error.
CountFails(r) ==
    /\ At(r, "count")
    /\ faults < MaxFaults /\ faults' = faults + 1
    /\ req' = [req EXCEPT ![r] = Idle]
    /\ UNCHANGED <<past, cache, connected, answer, now, changes, breaks>>

Entry(r) == [kind |-> "summary", figures |-> req[r].got, since |-> req[r].since,
             stored |-> now, until |-> now + TTL]

Store(r) ==
    /\ At(r, "set") /\ connected
    /\ cache' = [cache EXCEPT ![CacheKey(req[r].query)] = Entry(r)]
    /\ Answered(r, req[r].got, req[r].since, now)
    /\ UNCHANGED <<past, connected, bounds>>

----------------------------------------------------------------------------
(* Redis *)

\* What is rejected is caught: the counts are made, or the answer given.
OnRejection(r) ==
    IF At(r, "get") THEN [req[r] EXCEPT !.step = "count"]
    ELSE IF At(r, "set") THEN Idle ELSE req[r]

\* The connection breaks: what is in flight is rejected, done by Redis or not.
Break ==
    /\ connected /\ breaks < MaxBreaks
    /\ connected' = FALSE
    /\ breaks' = breaks + 1
    /\ req' = [r \in Readers |-> OnRejection(r)]
    /\ answer' = [r \in Readers |->
           IF At(r, "set")
           THEN [kind |-> "summary", query |-> req[r].query, figures |-> req[r].got,
                 since |-> req[r].since, stored |-> now, told |-> Len(past), at |-> now]
           ELSE answer[r]]
    /\ \E done \in SUBSET {r \in Readers : At(r, "set")} :
          cache' = [q \in Queries |->
              LET of == {r \in done : CacheKey(req[r].query) = q}
              IN  IF of = {} THEN cache[q] ELSE Entry(CHOOSE r \in of : TRUE)]
    /\ UNCHANGED <<past, now, changes, faults>>

\* The client reconnects, to a Redis that kept its keys or one that lost them.
Reconnect ==
    /\ ~connected
    /\ connected' = TRUE
    /\ \/ UNCHANGED cache
       \/ cache' = [q \in Queries |-> NoEntry]
    /\ UNCHANGED <<past, req, answer, bounds>>

Step(r) == Hit(r) \/ Miss(r) \/ (\E f \in Figures : Count(r, f)) \/ Store(r)

Next == \/ Insert \/ ChangeState \/ Tick \/ Break \/ Reconnect
        \/ \E r \in Readers :
              \/ \E q \in Queries : Ask(r, q)
              \/ Step(r) \/ CountFails(r)
Spec == Init /\ [][Next]_vars

\* The program goes on with each request; nothing is assumed of Redis.
Fairness == \A r \in Readers : WF_vars(Step(r))
FairSpec == Spec /\ Fairness

----------------------------------------------------------------------------
\* Every answer has the five figures, as does every entry the program wrote.
TypeOK ==
    /\ \A q \in Queries :
          \/ cache[q] \in {NoEntry, Foreign}
          \/ cache[q].kind = "summary" /\ DOMAIN cache[q].figures = Figures
    /\ \A r \in Readers :
          /\ req[r].step \in {"idle", "get", "count", "set"}
          /\ answer[r] # NoAnswer => /\ DOMAIN answer[r].figures = Figures
                                     /\ \A f \in Figures : answer[r].figures[f] \in 0..MaxRows

(* Each figure of an answer, counted or from the cache, was the right one  *)
(* for the period and the state asked for at some moment since the request *)
(* that counted it began.                                                  *)
FiguresWereTrue ==
    \A r \in Readers : answer[r] # NoAnswer =>
        \A f \in Figures :
            \E i \in answer[r].since..answer[r].told :
                answer[r].figures[f] = Value(f, answer[r].query, past[i])

\* A summary is answered for less than its time to live after it was stored.
AnswersAreFresh ==
    \A r \in Readers : answer[r] # NoAnswer => answer[r].at - answer[r].stored < TTL

\* A request is answered in the end, unless from some time on Redis is away for good: its
\* commands have no time limit, so the request waits with them.
EveryRequestIsAnswered ==
    \A r \in Readers : (~At(r, "idle")) ~> (At(r, "idle") \/ []~connected)


=============================================================================
