--------------------------- MODULE AmeliaWebhook ---------------------------
(***************************************************************************)
(* What a webhook of the booking system turns into: the token check of     *)
(* amelia.controller.ts, amelia-webhook.parser.ts, and the new turn that   *)
(* amelia-turno.service.ts builds.  A pure function of the request; the    *)
(* behaviour of the turns after it is in AmeliaTurnos.                     *)
(*                                                                         *)
(* A mandatory field is right or wrong ("ok", "bad"); an optional record   *)
(* may be absent.  Bookings come as an array or as an object, of records   *)
(* and of other values ("scalar"), which the parser skips.                 *)
(***************************************************************************)
EXTENDS PhoneNormalizer, Sequences, FiniteSetsExt

CONSTANTS
  Requests,   \* the requests to serve
  SecretSet   \* AMELIA_WEBHOOK_SECRET has a value

\* A request is a record of
\*   header, query, token: "" (absent), "secret" or "other": Authorization, ?token, body.token
\*   direct, first: the appointment of payload.appointment, and of payload.appointments[0]
\*   own:           the payload itself is an appointment (it has an id and bookings)
\*   bookings:      payload.bookings
\* An appointment is None or [fields, dates, provider, location, bookings]; bookings are
\* None or [shape: "array" or "object", items]; an item is [key, id, kind, phone], where
\* kind is "ok", "bad" or "scalar" and the key is the one it has in an object.  A natural key
\* is an index of JavaScript; the negative ones are the others: names, and, of an array, ids
\* that are negative, not whole or too large.
None == [none |-> TRUE]

Items == [key : Int, id : Int, kind : {"ok", "bad", "scalar"}, phone : Telephone]
BookingsRead == {None} \cup [shape : {"array", "object"}, items : Seq(Items)]
AppointmentsRead ==
  {None} \cup [fields : {"ok", "bad"}, dates : {"ok", "bad"}, provider : {"absent", "ok", "bad"},
               location : {"absent", "ok", "bad"}, bookings : BookingsRead]
Tokens == {"", "secret", "other"}

AreBookings(bs) ==
  bs # None =>
    /\ \A i \in DOMAIN bs.items : IsTelephone(bs.items[i].phone)
    /\ bs.shape = "object" => \A i, j \in DOMAIN bs.items : i # j => bs.items[i].key # bs.items[j].key
RequestsAssumption ==
  /\ SecretSet \in BOOLEAN
  /\ Requests \subseteq [header : Tokens, query : Tokens, token : Tokens, direct : AppointmentsRead,
                         first : AppointmentsRead, own : AppointmentsRead, bookings : BookingsRead]
  /\ \A q \in Requests : /\ AreBookings(q.bookings)
                         /\ \A a \in {q.direct, q.first, q.own} : a # None => AreBookings(a.bookings)

VARIABLES request, answer, turno
vars == <<request, answer, turno>>

----------------------------------------------------------------------------
(* The controller *)

\* getWebhookToken: a header hides the query, and the query the body.
ReceivedToken(q) == CASE q.header # "" -> q.header
                      [] q.query # ""  -> q.query
                      [] OTHER         -> q.token
Authorized(q) == SecretSet => ReceivedToken(q) = "secret"

----------------------------------------------------------------------------
(* The parser *)

\* resolveAppointment
Appointment(q) == CASE q.direct # None -> q.direct
                    [] q.first # None  -> q.first
                    [] OTHER           -> q.own

\* resolveBookings
BookingsRaw(q) == LET a == Appointment(q) IN
               IF a.bookings # None THEN a.bookings ELSE q.bookings

\* parseAppointment, parseProvider, parseLocation: an optional record may be missing, but
\* not be half there.
AppointmentOk(a) == a.fields = "ok" /\ "bad" \notin {a.provider, a.location}

\* The items that are records.
Kept(bs) == IF bs = None THEN {} ELSE {i \in DOMAIN bs.items : bs.items[i].kind # "scalar"}
Records(bs) == {bs.items[i] : i \in Kept(bs)}

\* The key of an item among the parsed bookings: its own in an object; its id in an array,
\* or its index when the id is 0.
KeyOf(bs, i) ==
  LET item == bs.items[i] IN
  IF bs.shape = "object" THEN item.key ELSE IF item.id # 0 THEN item.id ELSE i - 1

\* parseBookings: a later item replaces an earlier one with the same key.
Parsed(bs) ==
  LET Latest(k) == Max({i \in Kept(bs) : KeyOf(bs, i) = k}) IN
  [k \in {KeyOf(bs, i) : i \in Kept(bs)} |-> bs.items[Latest(k)]]

\* normalize, then the failures of the date and of the booking.
Outcome(q) ==
  CASE ~Authorized(q) -> 401
    [] Authorized(q) /\ Appointment(q) = None -> 400
    [] OTHER ->
         LET a == Appointment(q) IN
         IF \/ ~AppointmentOk(a)
            \/ \E i \in Records(BookingsRaw(q)) : i.kind = "bad"
            \/ Records(BookingsRaw(q)) = {}
           THEN 400
           ELSE IF a.dates = "bad" THEN 500 ELSE 201

----------------------------------------------------------------------------
(* The new turn *)

\* Object.keys: the keys that are indexes, in ascending order, and then the others, as they came.
FirstKey(bs) ==
  LET indexes == {KeyOf(bs, i) : i \in Kept(bs)} \cap Nat
  IN  IF indexes # {} THEN Min(indexes) ELSE KeyOf(bs, Min(Kept(bs)))

\* Plausible bug: the last booking of the payload.
FirstBookingLast(q) == LET bs == BookingsRaw(q) IN Parsed(bs)[KeyOf(bs, Max(Kept(bs)))]
\* getFirstBooking
FirstBooking(q) == LET bs == BookingsRaw(q) IN Parsed(bs)[FirstKey(bs)]

\* buildTurno: customer.phone is never empty here, so infoArray.phone is not used.
BuildTurno(q) ==
  LET b == FirstBooking(q)
      n == Normalize(b.phone) IN
  [bookingId |-> b.id, telefono |-> n, notified |-> IsValidArgentinePhone(n)]

----------------------------------------------------------------------------
Init == request \in Requests /\ answer = 0 /\ turno = None

\* webhookAmelia for a booking that has no turn yet, where nothing else fails.
WebhookAmelia ==
  /\ answer = 0
  /\ answer' = Outcome(request)
  /\ turno' = IF answer' = 201 THEN BuildTurno(request) ELSE None
  /\ UNCHANGED request

Next == WebhookAmelia
Spec == Init /\ [][Next]_vars

----------------------------------------------------------------------------
(* Properties *)

Served == answer # 0
Sent == LET bs == BookingsRaw(request) IN IF bs = None THEN << >> ELSE bs.items

\* The booking a payload is about does not depend on the order in which the booking system
\* lists them: of an array, it is the one with the smallest id, if they are numbered from 1; of
\* an object, the one with the smallest key that is an index, if there is one, whatever its id.
SmallestBookingIsTaken ==
  turno # None =>
    LET bs == BookingsRaw(request)
        sent == Records(bs)
    IN  /\ \E r \in sent :
             /\ r.id = turno.bookingId
             /\ bs.shape = "object" => \A s \in sent : s.key \in Nat => r.key \in 0..s.key
        /\ bs.shape = "array" /\ (\A r \in sent : r.id > 0) =>
             \A r \in sent : turno.bookingId <= r.id

\* A payload makes a turn wholly or not at all: one malformed booking, also one after the
\* booking that is used, a half-filled provider or location, and missing dates refuse the
\* whole request.
NothingOfABadPayload ==
  turno # None =>
    LET a == Appointment(request) IN
    /\ "bad" \notin {a.fields, a.dates, a.provider, a.location}
    /\ \A i \in DOMAIN Sent : Sent[i].kind # "bad"

\* The caller is blamed for what the caller did wrong: a well-formed request that carries the
\* secret in any one of the three places is served; the server blames itself for dates only.
AnswersAreFair ==
  Served =>
    /\ answer = 500 => Appointment(request).dates = "bad"
    /\ answer = 401 => LET given == {request.header, request.query, request.token} IN
                       SecretSet /\ ("secret" \notin given \/ "other" \in given)
    /\ answer = 400 => ~ (/\ Appointment(request) # None /\ AppointmentOk(Appointment(request))
                          /\ Sent # << >> /\ \A i \in DOMAIN Sent : Sent[i].kind = "ok")

\* A turn is found again by the telephone that is stored in it, whatever the citizen typed.
StoredTelephoneIsFound ==
  turno # None =>
    LookedUp(turno.telefono) = [mobile |-> turno.telefono.mobile, rest |-> turno.telefono.rest]

=============================================================================
