----------------------------- MODULE MCServices -----------------------------
(***************************************************************************)
(* Instances for TLC of the components that answer with other services:    *)
(* the webhook of Amelia, the turns it makes and tells by WhatsApp, the    *)
(* dashboard with its cache in Redis, and the taxes of the municipal       *)
(* server.  They share no state, so a behaviour is one of one component,   *)
(* which active chooses at the start, while the others stay in their       *)
(* initial state: the states are the sum of theirs, and an invariant of a  *)
(* component is one of this module.                                        *)
(***************************************************************************)
EXTENDS AmeliaTurnos, TLC

VARIABLES active,
  request, webhookAnswer, turno,
  past, cache, connected, reader, dashboardAnswer, now, changes, dashboardFaults, breaks,
  caller, files, ordered, taxesAnswer, requests

webhookVars == <<request, webhookAnswer, turno>>
dashboardVars == <<past, cache, connected, reader, dashboardAnswer, now, changes,
                   dashboardFaults, breaks>>
taxesVars == <<caller, files, ordered, taxesAnswer, requests>>

---------------------------------------------------------------------------
(* AmeliaWebhook: every way to give the token; every list of bookings, in the appointment *)
(* or beside it; every appointment, in each of its places; every telephone up to 14 digits. *)

None == [none |-> TRUE]
PhoneNumbers == INSTANCE PhoneNormalizer
TokensGiven == {"", "secret", "other"}

Good == [prefix |-> "54", nine |-> TRUE, rest |-> 10, numeric |-> TRUE]
Item(k, id, kind, p) == [key |-> k, id |-> id, kind |-> kind, phone |-> p]
\* Lists of up to two items, with any of these keys and ids; in an array the key is the id.
Lists(Keyed) ==
  {<< >>} \cup {<<Item(x.key, x.id, kind, Good)>> : x \in Keyed, kind \in {"ok", "bad", "scalar"}}
          \cup {<<Item(x.key, x.id, k, Good), Item(y.key, y.id, l, Good)>> :
                  x \in Keyed, y \in Keyed, k \in {"ok", "scalar"}, l \in {"ok", "bad", "scalar"}}
InArray == {[key |-> id, id |-> id] : id \in {-4, 0, 1, 3, 7}}
InObject == [key : {-2, -1, 1, 5}, id : {3, 111}]
BookingValues ==
  {None} \cup [shape : {"array"}, items : Lists(InArray)]
         \cup {bs \in [shape : {"object"}, items : Lists(InObject)] :
                  Len(bs.items) = 2 => bs.items[1].key # bs.items[2].key}

App(f, d, p, l, bs) == [fields |-> f, dates |-> d, provider |-> p, location |-> l, bookings |-> bs]
Fine(bs) == App("ok", "ok", "absent", "ok", bs)
One(p) == [shape |-> "array", items |-> <<Item(3, 3, "ok", p)>>]
WebhookRequest(h, q, t, d, f, o, bs) ==
  [header |-> h, query |-> q, token |-> t, direct |-> d, first |-> f, own |-> o, bookings |-> bs]

CONSTANTS Webhooks, SecretSet

Webhook == INSTANCE AmeliaWebhook WITH Requests <- Webhooks, answer <- webhookAnswer

Payloads ==
  {WebhookRequest(h, q, t, Fine(One(Good)), None, None, None) :
     h \in TokensGiven, q \in TokensGiven, t \in TokensGiven}
  \cup {WebhookRequest("secret", "", "", Fine(bs), None, None, cs) :
          bs \in BookingValues, cs \in {None, One(Good)}}
  \cup {WebhookRequest("", "secret", "", None, None, a, bs) :
          a \in {None} \cup {Fine(cs) : cs \in BookingValues \ {None}}, bs \in {One(Good)}}
  \cup {WebhookRequest("", "", "secret", d, f, None, One(Good)) :
          d \in {None, App("bad", "ok", "ok", "ok", None)},
          f \in {None} \cup {App(g, e, p, l, None) : g \in {"ok", "bad"}, e \in {"ok", "bad"},
                             p \in {"absent", "ok", "bad"}, l \in {"absent", "ok", "bad"}}}
Phones == {WebhookRequest("secret", "", "", Fine(One(p)), None, None, None) :
             p \in {n \in [prefix : {"void", "54", "15", "other"}, nine : BOOLEAN, rest : 0..14,
                         numeric : BOOLEAN] : PhoneNumbers!IsTelephone(n)}}
MCWebhooks == Payloads \cup Phones

---------------------------------------------------------------------------
(* AmeliaTurnos: a booking that is created, cancelled by a webhook (twice: h3) or by an *)
(* official; or two bookings, the second without a usable phone, of which a failed *)
(* confirmation is told again.  The requests of a behaviour are those of one of the three. *)

MCStatusOf == [h1 |-> "pending", h2 |-> "canceled", h3 |-> "rejected", h4 |-> "approved"]
MCBookingOf == [h1 |-> "b1", h2 |-> "b1", h3 |-> "b1", h4 |-> "b2", e1 |-> "b1"]
MCEstadoOf == [e1 |-> "CANCELADO"]

Scenario == [edited |-> {"h1", "h2", "e1", "r1"}, cancelled |-> {"h1", "h2", "h3"},
             retried |-> {"h1", "h4", "r1"}]

---------------------------------------------------------------------------
(* Dashboard: a complaint whose estado changes while a reader asks for two summaries; or two *)
(* readers of one summary, whose counts take turns, and a row that is new. *)

CONSTANTS Readers, Figures, Queries, Days, ClaimStates, OldRows, TTL, MaxRows, MaxChanges, MaxTime,
          MaxBreaks

Dash == INSTANCE Dashboard WITH
  Estados <- ClaimStates,
  req <- reader, answer <- dashboardAnswer, faults <- dashboardFaults

Query(period, status) == [period |-> period, status |-> status]
Assigned == Query({1}, "ASIGNADO")
MCQueries == {Assigned, Query({1}, "COMPLETADO")}
MCOldRows == {[id |-> 1, table |-> "reclamo", day |-> 1, state |-> "ASIGNADO"]}

InOrder == <<"claimsReceived", "claimsHandled", "sentMessages", "conversations", "uniqueUsers">>
InTurn(r, f) ==
  \E i \in 1..5 : InOrder[i] = f /\ \A j \in 1..i - 1 : InOrder[j] \in DOMAIN reader[r].got

DashboardOf ==
  [summaries |-> [readers |-> Readers \cap {"r1"}, queries |-> Queries, rows |-> 1, time |-> 1],
   claims |-> [readers |-> Readers, queries |-> Queries \cap {Assigned}, rows |-> 2, time |-> 2]]

---------------------------------------------------------------------------
(* Impuestos: two callers, two bills. *)

CONSTANTS Callers, Bills, MaxHeads, MaxRequests

Taxes == INSTANCE Impuestos WITH req <- caller, answer <- taxesAnswer

---------------------------------------------------------------------------

ASSUME WebhookHolds == Webhook!RequestsAssumption
ASSUME DashboardHolds ==
  Dash!TTLAssumption /\ Dash!FiguresAssumption /\ Dash!RowsAssumption
ASSUME ImpuestosHolds == Taxes!HeadsAssumption

\* Any request comes to the webhook, and anything is in the cache, when they are the ones
\* that move.
SomeRequest == CHOOSE r \in Webhooks : TRUE
ServicesInit ==
  /\ active \in DOMAIN Scenario \cup DOMAIN DashboardOf \cup {"webhook", "taxes"}
  /\ Init /\ Webhook!Init /\ Dash!Init /\ Taxes!Init
  /\ active # "webhook" => request = SomeRequest
  /\ \A q \in Queries :
       \/ cache[q] = Dash!NoEntry
       \/ active \in DOMAIN DashboardOf /\ q \in DashboardOf[active].queries

WebhookStep ==
  /\ active = "webhook" /\ Webhook!Next
  /\ UNCHANGED <<active, vars, dashboardVars, taxesVars>>
TurnoStep ==
  /\ active \in DOMAIN Scenario
  /\ (\E r \in Requests : r \in Scenario[active] /\ (Serve(r) \/ Fail(r))) \/ Crash
  /\ UNCHANGED <<active, webhookVars, dashboardVars, taxesVars>>
DashboardStep ==
  /\ active \in DOMAIN DashboardOf
  /\ \/ Dash!Insert \/ Dash!ChangeState \/ Dash!Tick
     \/ active = "summaries" /\ (Dash!Break \/ Dash!Reconnect)
     \/ \E r \in DashboardOf[active].readers :
          \/ \E q \in DashboardOf[active].queries : Dash!Ask(r, q)
          \/ Dash!Hit(r) \/ Dash!Miss(r) \/ Dash!Store(r)
          \/ \E f \in Figures : Dash!Count(r, f) /\ (active = "claims" => InTurn(r, f))
          \/ active = "summaries" /\ Dash!CountFails(r)
  /\ now' <= DashboardOf[active].time /\ Cardinality(Dash!Rows') <= DashboardOf[active].rows
  /\ UNCHANGED <<active, webhookVars, vars, taxesVars>>
TaxesStep ==
  /\ active = "taxes" /\ Taxes!Next
  /\ UNCHANGED <<active, webhookVars, vars, dashboardVars>>

ServicesNext == WebhookStep \/ TurnoStep \/ DashboardStep \/ TaxesStep

\* The fairness of each component, while it is the one that moves: that of the turns, of which
\* only the requests of the scenario are ever taken; Dash!Fairness; and Taxes!Fairness.
ServicesFairness ==
  /\ Fairness
  /\ WF_dashboardVars(active = "summaries" /\ Dash!Step("r1"))
  /\ \A c \in Callers :
       /\ WF_taxesVars(active = "taxes" /\ Taxes!Posts(c))
       /\ WF_taxesVars(active = "taxes" /\ Taxes!Rest(c))

ServicesSpec ==
  /\ ServicesInit
  /\ [][ServicesNext]_<<active, webhookVars, vars, dashboardVars, taxesVars>>
  /\ ServicesFairness

---------------------------------------------------------------------------

\* A webhook of Amelia is read whatever its shape: the turn is of the smallest id of an array
\* and of the smallest index of an object, wherever it is listed, a payload that is malformed
\* anywhere makes none, the answer blames who is to blame, and the telephone is stored in a
\* form that finds the turn again (amelia-webhook.parser.ts, amelia.controller.ts,
\* phone-normalizer.ts).
WebhookIsRead ==
  /\ Webhook!SmallestBookingIsTaken /\ Webhook!NothingOfABadPayload
  /\ Webhook!AnswersAreFair /\ Webhook!StoredTelephoneIsFound

\* What is answered was so: each figure of a summary was right at some moment since its count
\* began and is not served past its time to live, from the cache or not, whatever breaks
\* (getSummary of the dashboard); and a bill is given up only after all the attempts
\* (obtenerPdf of impuestos.service.ts).
AnswersWereTrue ==
  /\ Dash!TypeOK /\ Dash!FiguresWereTrue /\ Dash!AnswersAreFresh
  /\ Taxes!TypeOK /\ Taxes!GivenUpAfterAll

\* No request of a summary or of a bill waits for ever, the failures of the counts, the cache
\* and the municipal server included, but where the code sets no time limit: in a command of
\* a Redis that stays away, and in a HEAD that the server never answers.
EveryRequestIsAnswered ==
  /\ (active = "summaries" /\ ~Dash!At("r1", "idle"))
       ~> (Dash!At("r1", "idle") \/ []~connected)
  /\ Taxes!EveryRequestIsAnswered
=============================================================================
