------------------------------ MODULE Handoff ------------------------------
(***************************************************************************)
(* Officials answer a contact of the bot by hand                           *)
(* (src/modules/history/history.service.ts): they take the conversation,   *)
(* which puts its number on the bot's blacklist, write messages, and       *)
(* release it.  Each operation reads the contact, calls the bot and then   *)
(* adds an entry to the history; the three are separate steps, and the     *)
(* entry is the only trace the dashboard keeps.                            *)
(***************************************************************************)
EXTENDS Integers, Sequences, FiniteSets

CONSTANTS Officials,
          Contacts,      \* the contacts officials ask for
          NoPhone,       \* the contacts that have no telephone, or do not exist
          MaxRequests, MaxFaults, MaxCrashes    \* bounds of a run

ContactsAssumption == /\ NoPhone \subseteq Contacts
                      /\ MaxRequests \in Nat /\ MaxFaults \in Nat /\ MaxCrashes \in Nat

Kinds == {"take", "release", "message"}
Handoffs == {"take", "release"}

VARIABLES req,        \* the operation each official is waiting for
          blacklist,  \* external: the contacts the bot leaves to a human
          delivered,  \* external: messages the bot delivered, per contact
          history,    \* entries of the history, per contact
          answered,   \* ghost: operations answered with success, per contact
          mixed,      \* ghost: contacts two of whose handoffs overlapped
          untold,     \* ghost: contacts the bot changed without an entry
          requests, faults, crashes
vars == <<req, blacklist, delivered, history, answered, mixed, untold,
          requests, faults, crashes>>
bounds == <<requests, faults, crashes>>

Idle == [step |-> "idle"]
At(o, step) == req[o].step = step
Goto(o, step) == req' = [req EXCEPT ![o].step = step]
Fault == faults < MaxFaults /\ faults' = faults + 1 /\ UNCHANGED <<requests, crashes>>

Occurrences(k, c) == Cardinality({i \in DOMAIN history[c] : history[c][i] = k})

----------------------------------------------------------------------------
Init == /\ req = [o \in Officials |-> Idle]
        /\ blacklist = {}
        /\ delivered = [c \in Contacts |-> 0]
        /\ history = [c \in Contacts |-> << >>]
        /\ answered = [c \in Contacts |-> [k \in Kinds |-> 0]]
        /\ mixed = {} /\ untold = {}
        /\ requests = 0 /\ faults = 0 /\ crashes = 0

InFlight(c) == {o \in Officials : /\ req[o].step # "idle"
                                  /\ req[o].contact = c
                                  /\ req[o].kind \in Handoffs}

\* POST /history/human-message or /history/human-handoff.
Ask(o, k, c) ==
    /\ At(o, "idle") /\ requests < MaxRequests
    /\ requests' = requests + 1
    /\ req' = [req EXCEPT ![o] = [step |-> "post", kind |-> k, contact |-> c]]
    /\ mixed' = IF k \in Handoffs /\ InFlight(c) # {} THEN mixed \cup {c} ELSE mixed
    /\ UNCHANGED <<blacklist, delivered, history, answered, untold, faults, crashes>>

\* The contact is read: without a telephone there is nobody to write to.
NotFound(o) ==
    /\ At(o, "post") /\ req[o].contact \in NoPhone
    /\ req' = [req EXCEPT ![o] = Idle]
    /\ UNCHANGED <<blacklist, delivered, history, answered, mixed, untold, bounds>>

\* What the bot does with the call.
BotDoes(k, c) ==
    /\ blacklist' = IF k = "take" THEN blacklist \cup {c}
                    ELSE IF k = "release" THEN blacklist \ {c} ELSE blacklist
    /\ delivered' = IF k = "message" THEN [delivered EXCEPT ![c] = @ + 1]
                    ELSE delivered

\* The bot answers, and the operation goes on to its entry ...
Post(o) ==
    /\ At(o, "post") /\ req[o].contact \notin NoPhone
    /\ Goto(o, "persist")
    /\ BotDoes(req[o].kind, req[o].contact)
    /\ UNCHANGED <<history, answered, mixed, untold, bounds>>

(* ... or the call fails, whether the bot did its part or not, and the     *)
(* official is told that it could not be done.                             *)
PostFails(o) ==
    /\ At(o, "post") /\ req[o].contact \notin NoPhone
    /\ Fault
    /\ req' = [req EXCEPT ![o] = Idle]
    /\ \/ /\ BotDoes(req[o].kind, req[o].contact)
          /\ untold' = untold \cup {req[o].contact}
       \/ UNCHANGED <<blacklist, delivered, untold>>
    /\ UNCHANGED <<history, answered, mixed>>

\* The entry is added; the official is told that it is done ...
\* Plausible bug: every entry of a handoff says it was taken.
EntryTake(k) == IF k \in Handoffs THEN "take" ELSE k
Entry(k) == k
Persist(o) ==
    LET k == req[o].kind  c == req[o].contact
    IN  /\ At(o, "persist")
        /\ req' = [req EXCEPT ![o] = Idle]
        /\ history' = [history EXCEPT ![c] = Append(@, Entry(k))]
        /\ answered' = [answered EXCEPT ![c][k] = @ + 1]
        /\ UNCHANGED <<blacklist, delivered, mixed, untold, bounds>>

\* ... and told so too when the entry could not be added: that is only logged.
PersistFails(o) ==
    LET k == req[o].kind  c == req[o].contact
    IN  /\ At(o, "persist")
        /\ Fault
        /\ req' = [req EXCEPT ![o] = Idle]
        /\ answered' = [answered EXCEPT ![c][k] = @ + 1]
        /\ untold' = untold \cup {c}
        /\ UNCHANGED <<blacklist, delivered, history, mixed>>

\* The process stops: what was in flight is never recorded.
Crash ==
    /\ crashes < MaxCrashes
    /\ crashes' = crashes + 1
    /\ untold' = untold \cup {req[o].contact : o \in {p \in Officials : At(p, "persist")}}
    /\ req' = [o \in Officials |-> Idle]
    /\ UNCHANGED <<blacklist, delivered, history, answered, mixed, requests, faults>>

Next == \/ \E o \in Officials :
              \/ \E k \in Kinds, c \in Contacts : Ask(o, k, c)
              \/ NotFound(o) \/ Post(o) \/ PostFails(o)
              \/ Persist(o) \/ PersistFails(o)
        \/ Crash
Spec == Init /\ [][Next]_vars

----------------------------------------------------------------------------
\* Requests, entries and what the bot keeps are of known kinds.
TypeOK ==
    /\ \A o \in Officials : req[o].step \in {"idle", "post", "persist"}
    /\ blacklist \subseteq Contacts
    /\ \A c \in Contacts : /\ delivered[c] \in 0..MaxRequests
                           /\ \A i \in DOMAIN history[c] : history[c][i] \in Kinds
    /\ requests \in 0..MaxRequests

Quiet(c) == \A o \in Officials : At(o, "idle") \/ req[o].contact # c
\* The last handoff of its history is that somebody took it.
ShownTaken(c) ==
    \E i \in DOMAIN history[c] :
        /\ history[c][i] = "take"
        /\ \A j \in DOMAIN history[c] : j > i => history[c][j] # "release"

(* The dashboard shows who has a conversation from the last handoff of its *)
(* history.  When nobody is operating on a contact, that is what the bot   *)
(* does, except for a contact two of whose handoffs overlapped, or whose   *)
(* change was cut off before its entry.                                    *)
HistoryTellsTheMode ==
    \A c \in Contacts : Quiet(c) /\ c \notin mixed /\ c \notin untold =>
        (ShownTaken(c) <=> c \in blacklist)

(* An entry says the bot did something: there are never more entries of    *)
(* messages than messages delivered, whatever fails or stops, and never    *)
(* more than the successes officials were told of.                         *)
EntriesHappened ==
    \A c \in Contacts :
        /\ Occurrences("message", c) <= delivered[c]
        /\ \A k \in Kinds : Occurrences(k, c) <= answered[c][k]

(* An official told that a message was sent can rely on it: no success     *)
(* without a delivery, and a delivery that left no success is one whose    *)
(* answer was lost, whose entry failed, or that a stop cut off.            *)
SuccessIsDelivery ==
    \A c \in Contacts :
        /\ answered[c]["message"] <= delivered[c]
        /\ Quiet(c) /\ c \notin untold => answered[c]["message"] = delivered[c]
=============================================================================
