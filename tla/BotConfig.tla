------------------------------ MODULE BotConfig ------------------------------
(***************************************************************************)
(* The settings of the bot (src/modules/bot-config): one row per key, by   *)
(* the check that precedes a creation only, since the column has no unique *)
(* index.  Creations and updates find the row, and then save.              *)
(***************************************************************************)
EXTENDS Integers, FiniteSets

CONSTANTS Officials, Claves, Values,
          Dates,          \* expirations an official may type
          MaxRequests     \* bound of a run

Unset == "undefined"      \* the field is not in the body
Null == "null"
DatesAssumption == {Unset, Null} \cap Dates = {}

VARIABLES rows,      \* bot_config: [id, clave, valor, expira]
          req,       \* the request of each official
          said,      \* ghost: what each key should have, if its requests take turns
          together,  \* ghost: keys two of whose requests overlapped
          requests
vars == <<rows, req, said, together, requests>>

Idle == [step |-> "idle"]
At(o, step) == req[o].step = step
RowsOf(k) == {x \in rows : x.clave = k}

Init == /\ rows = {}
        /\ req = [o \in Officials |-> Idle]
        /\ said = [k \in Claves |-> Idle]
        /\ together = {}
        /\ requests = 0

\* POST or PUT /config/:clave.
Ask(o, method, k, v, e) ==
    /\ At(o, "idle") /\ requests < MaxRequests
    /\ requests' = requests + 1
    /\ req' = [req EXCEPT ![o] = [step |-> "find", method |-> method, clave |-> k,
                                  valor |-> v, expira |-> e, row |-> 0]]
    /\ together' = IF \E p \in Officials : ~At(p, "idle") /\ req[p].clave = k
                   THEN together \cup {k} ELSE together
    /\ UNCHANGED <<rows, said>>

\* POST of a key there is, or PUT of one there is not: 409 and 404.
Refused(o) == (req[o].method = "POST") <=> (RowsOf(req[o].clave) # {})

\* A find without an order: any row of the key, if there are more.
Find(o) ==
    /\ At(o, "find")
    /\ IF Refused(o) THEN req' = [req EXCEPT ![o] = Idle]
       ELSE IF req[o].method = "POST" THEN req' = [req EXCEPT ![o].step = "save"]
       ELSE \E x \in RowsOf(req[o].clave) :
               req' = [req EXCEPT ![o].step = "save", ![o].row = x]
    /\ UNCHANGED <<rows, said, together, requests>>

parseFechaExpiracion(e) == IF e = Unset THEN Null ELSE e

\* Plausible bug: a body without an expiration takes the old one away.
ExpirationOfBody(e, old) == parseFechaExpiracion(e)
\* An update without the field leaves it as it is; null takes it away.
Expiration(e, old) == IF e = Unset THEN old ELSE parseFechaExpiracion(e)

Save(o) ==
    LET r == req[o]  k == r.clave
    IN  /\ At(o, "save")
        /\ rows' = IF r.method = "POST"
                   THEN rows \cup {[id |-> Cardinality(rows) + 1, clave |-> k, valor |-> r.valor,
                                    expira |-> parseFechaExpiracion(r.expira)]}
                   ELSE {x \in rows : x.id # r.row.id} \cup
                        {[r.row EXCEPT !.valor = r.valor,
                                       !.expira = Expiration(r.expira, r.row.expira)]}
        /\ said' = [said EXCEPT ![k] =
               [valor |-> r.valor,
                expira |-> IF r.method = "PUT" /\ r.expira = Unset THEN said[k].expira
                           ELSE IF r.expira = Unset THEN Null ELSE r.expira]]
        /\ req' = [req EXCEPT ![o] = Idle]
        /\ UNCHANGED <<together, requests>>

Next == \E o \in Officials :
            \/ \E method \in {"POST", "PUT"}, k \in Claves, v \in Values,
                  e \in Dates \cup {Unset, Null} : Ask(o, method, k, v, e)
            \/ Find(o) \/ Save(o)
Spec == Init /\ [][Next]_vars

----------------------------------------------------------------------------
\* Rows have values and expirations that officials typed.
TypeOK == \A x \in rows : /\ x.clave \in Claves /\ x.valor \in Values
                          /\ x.expira \in Dates \cup {Null}

(* A key has two rows only if two of its requests overlapped, though no    *)
(* index of the table keeps them apart.                                    *)
OneRowPerKey == \A k \in Claves \ together : Cardinality(RowsOf(k)) <= 1

(* Whatever sequence of creations and updates a key goes through, one      *)
(* after another, its row has the last value, and the last expiration some *)
(* body carried.                                                           *)
RowIsWhatWasSaid ==
    \A k \in Claves \ together : \A x \in RowsOf(k) :
        x.valor = said[k].valor /\ x.expira = said[k].expira
=============================================================================
