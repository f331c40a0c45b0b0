----------------------------- MODULE TiposReclamo -----------------------------
(***************************************************************************)
(* The catalogue of kinds of complaint (src/modules/tipos-reclamo).  A     *)
(* creation or a renaming looks for its name and then saves; the unique    *)
(* index on the name decides between those that look at the same time, and *)
(* answers the one that comes second with a 500.  A save of a row that has *)
(* been deleted inserts it again.                                          *)
(***************************************************************************)
EXTENDS Integers, FiniteSets

CONSTANTS Officials, Names,
          MaxIds, MaxRequests     \* bounds of a run

VARIABLES nombre,    \* tipos_reclamo: the name of each id there is
          req,       \* the request of each official
          last,      \* the last id the sequence gave
          gone,      \* ghost: ids deleted, and not being renamed then
          refused,   \* ghost: each official's last request, if its name was refused
          raced,     \* ghost: who looked for a name that another request saved afterwards
          requests
vars == <<nombre, req, last, gone, refused, raced, requests>>

Idle == [step |-> "idle"]
At(o, step) == req[o].step = step
Ids == DOMAIN nombre
Holders(n) == {id \in Ids : nombre[id] = n}
With(id, n) == [i \in Ids \cup {id} |-> IF i = id THEN n ELSE nombre[i]]
NoId == 0

Init == /\ nombre = << >>
        /\ req = [o \in Officials |-> Idle]
        /\ last = 0
        /\ gone = {}
        /\ refused = {}
        /\ raced = {}
        /\ requests = 0

Request == requests < MaxRequests /\ requests' = requests + 1

End(o) == req' = [req EXCEPT ![o] = Idle]
Goto(o, step) == req' = [req EXCEPT ![o].step = step]

\* POST and PATCH of the catalogue, with NoId for a creation.
Ask(o, id, n) ==
    /\ At(o, "idle") /\ Request
    /\ req' = [req EXCEPT ![o] = [step |-> IF id = NoId THEN "name" ELSE "row",
                                  id |-> id, name |-> n]]
    /\ refused' = {x \in refused : x.by # o}
    /\ UNCHANGED <<nombre, last, gone, raced>>

\* A renaming finds its row first, or answers 404.
FindRow(o) ==
    /\ At(o, "row")
    /\ IF req[o].id \in Ids THEN Goto(o, "name") ELSE End(o)
    /\ UNCHANGED <<nombre, last, gone, refused, raced, requests>>

\* The name is that of another row.
Collision(id, n) == Holders(n) \ {id} # {}

\* The answer that refuses a name, with who has it.
Refuse(o, status) ==
    refused' = refused \cup {[by |-> o, id |-> req[o].id, status |-> status,
                              held |-> Holders(req[o].name), raced |-> o \in raced]}

\* Plausible bug: only a creation looks for its name.
FindNameOfCreation(o) ==
    /\ At(o, "name")
    /\ IF req[o].id = NoId /\ Collision(req[o].id, req[o].name)
       THEN End(o) /\ Refuse(o, 409)
       ELSE Goto(o, "save") /\ UNCHANGED refused
    /\ raced' = raced \ {o}
    /\ UNCHANGED <<nombre, last, gone, requests>>
FindName(o) ==
    /\ At(o, "name")
    /\ IF Collision(req[o].id, req[o].name)
       THEN End(o) /\ Refuse(o, 409)
       ELSE Goto(o, "save") /\ UNCHANGED refused
    /\ raced' = raced \ {o}
    /\ UNCHANGED <<nombre, last, gone, requests>>

SavedAs(id) == IF id = NoId THEN last + 1 ELSE id

\* The save; the unique index rejects it if the name has been taken since.
Save(o) ==
    LET id == SavedAs(req[o].id)
    IN  /\ At(o, "save")
        /\ End(o)
        /\ IF Holders(req[o].name) \ {id} # {}
           THEN Refuse(o, 500) /\ UNCHANGED <<nombre, raced>>
           ELSE /\ nombre' = With(id, req[o].name)
                /\ raced' = raced \cup {q \in Officials : At(q, "save") /\ req[q].name = req[o].name}
                /\ UNCHANGED refused
        /\ last' = IF req[o].id = NoId THEN id ELSE last
        /\ UNCHANGED <<gone, requests>>

\* DELETE /reclamos/admin/tipos/:id, one statement.
Delete(id) ==
    /\ Request
    /\ id \in Ids
    /\ nombre' = [i \in Ids \ {id} |-> nombre[i]]
    /\ gone' = IF \E o \in Officials : ~At(o, "idle") /\ req[o].id = id
               THEN gone ELSE gone \cup {id}
    /\ UNCHANGED <<req, last, refused, raced>>

Next == \/ \E o \in Officials :
              \/ \E id \in 0..MaxIds, n \in Names : Ask(o, id, n)
              \/ FindRow(o) \/ FindName(o) \/ Save(o)
        \/ \E id \in 1..MaxIds : Delete(id)
Spec == Init /\ [][Next]_vars

----------------------------------------------------------------------------
\* Rows have ids of the sequence and names of the catalogue.
TypeOK == /\ Ids \subseteq 1..last
          /\ \A id \in Ids : nombre[id] \in Names

(* A name is refused only where another kind has it; and the 500 of the    *)
(* index, in place of the 409 of the check, is answered only to a request  *)
(* during which another one for the same name was saved, after it had      *)
(* looked (find, then save, of crear and actualizar).                      *)
RefusedNamesAreTaken ==
    \A x \in refused : x.held \ {x.id} # {} /\ (x.status = 500 => x.raced)

(* A deleted kind stays deleted, unless it was being renamed while it was  *)
(* deleted: the save of the renaming then brings it back.                  *)
DeletedStaysDeleted == gone \cap Ids = {}
=============================================================================
