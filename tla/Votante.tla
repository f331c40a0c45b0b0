------------------------------- MODULE Votante -------------------------------
(***************************************************************************)
(* The electoral register (src/modules/votante): officials import lists of *)
(* voters, adding to the register or replacing it, while the bot looks     *)
(* documents up.  A replacement empties the table and then saves the list: *)
(* two steps, outside of one transaction.                                  *)
(***************************************************************************)
EXTENDS Integers, FiniteSets

CONSTANTS Imports,      \* the imports of a run
          List,         \* the documents of each, as they are typed
          Replaces,     \* the imports with reemplazar
          Digits,       \* what normalizeDocumento leaves of a document
          Officials,
          MaxFaults, MaxCrashes     \* bounds of a run

Documents == UNION {List[i] : i \in Imports}
ASSUME DigitsAssumption == \A d \in Documents : Digits[d] \in Documents

VARIABLES votante,    \* the rows: [document, from]
          doing,      \* the import each official is waiting for
          done,       \* imports begun
          promised,   \* ghost: imports answered with success and not replaced
          emptied,    \* ghost: replacements that emptied the register and did not save
          imported,   \* ghost: a list was saved at some time
          together,   \* ghost: pairs of imports that overlapped
          faults, crashes
vars == <<votante, doing, done, promised, emptied, imported, together,
          faults, crashes>>
ghosts == <<promised, emptied, imported, together>>

Idle == [step |-> "idle"]
At(o, step) == doing[o].step = step

----------------------------------------------------------------------------
\* Plausible bug: documents are kept and looked up as they are typed.
AsTyped(d) == d
normalizeDocumento(d) == Digits[d]

Init == /\ votante = {}
        /\ doing = [o \in Officials |-> Idle]
        /\ done = {} /\ promised = {} /\ emptied = {}
        /\ imported = FALSE /\ together = {}
        /\ faults = 0 /\ crashes = 0

InFlight == {doing[o].import : o \in {p \in Officials : ~At(p, "idle")}}
Until(o, step, i) == doing' = [doing EXCEPT ![o] = [step |-> step, import |-> i]]
End(o) == doing' = [doing EXCEPT ![o] = Idle]

\* POST /votante/importar.
Import(o, i) ==
    /\ At(o, "idle") /\ i \notin done
    /\ i \in Replaces \/ List[i] # {}
    /\ done' = done \cup {i}
    /\ Until(o, IF i \in Replaces THEN "clear" ELSE "save", i)
    /\ together' = together \cup {{i, j} : j \in InFlight}
    /\ UNCHANGED <<votante, promised, emptied, imported, faults, crashes>>

\* A replacement empties the table; without records it is done with that.
Clear(o) ==
    LET i == doing[o].import
    IN  /\ At(o, "clear")
        /\ votante' = {}
        /\ emptied' = {i}
        /\ promised' = {}
        /\ IF List[i] = {} THEN End(o) ELSE Until(o, "save", i)
        /\ UNCHANGED <<done, imported, together, faults, crashes>>

\* What a save leaves: the chunks of a list share one transaction.
Saved(i) == votante \cup {[document |-> normalizeDocumento(d), from |-> i] : d \in List[i]}

Save(o) ==
    LET i == doing[o].import
    IN  /\ At(o, "save")
        /\ votante' = Saved(i)
        /\ promised' = promised \cup {i}
        /\ emptied' = emptied \ {i}
        /\ imported' = TRUE
        /\ End(o)
        /\ UNCHANGED <<done, together, faults, crashes>>

Fault == faults < MaxFaults /\ faults' = faults + 1 /\ UNCHANGED <<done, crashes>>

\* A step that fails ends the import with an error; what was done stays done.
ClearFails(o) ==
    /\ At(o, "clear") /\ Fault
    /\ End(o)
    /\ UNCHANGED <<votante, ghosts>>
SaveFails(o) ==
    /\ At(o, "save") /\ Fault
    /\ End(o)
    /\ votante' \in {votante, Saved(doing[o].import)}
    /\ UNCHANGED ghosts

Crash ==
    /\ crashes < MaxCrashes /\ crashes' = crashes + 1
    /\ doing' = [o \in Officials |-> Idle]
    /\ UNCHANGED <<votante, done, ghosts, faults>>

Next == \/ Crash
        \/ \E o \in Officials :
              \/ \E i \in Imports : Import(o, i)
              \/ Clear(o) \/ Save(o) \/ ClearFails(o) \/ SaveFails(o)
Spec == Init /\ [][Next]_vars

----------------------------------------------------------------------------
\* GET /votante/:documento: any row of the document, or none.
obtenerPorDocumento(d) == {x \in votante : x.document = normalizeDocumento(d)}

\* The register has rows of known imports, under their normalised documents.
TypeOK ==
    /\ \A x \in votante : /\ x.from \in done
                          /\ x.document \in {Digits[d] : d \in List[x.from]}
    /\ \A o \in Officials : ~At(o, "idle") => doing[o].import \in done

(* An import answered with success is found, document by document and in   *)
(* any spelling, until a replacement empties the register.                 *)
PromisedIsFound ==
    \A i \in promised : \A d \in Documents :
        Digits[d] \in {Digits[e] : e \in List[i]} => obtenerPorDocumento(d) # {}

(* A list is in the register as a whole or not at all, whatever failed or  *)
(* stopped half way.                                                       *)
ListsAreWhole ==
    \A i \in Imports :
        LET of == {x.document : x \in {y \in votante : y.from = i}}
        IN  of = {} \/ of = {Digits[d] : d \in List[i]}

(* A document every list has is not found, once a list was imported, only  *)
(* because a replacement emptied the register and did not save its list:   *)
(* while it is going on, or for good if it failed or was stopped.          *)
GapOnlyByReplacement ==
    \A d \in Documents :
        /\ imported
        /\ \A i \in Imports : List[i] # {} => Digits[d] \in {Digits[e] : e \in List[i]}
        /\ obtenerPorDocumento(d) = {}
        => emptied # {}

(* The register has rows of two replacements, and so two rows of one voter,*)
(* only if they overlapped.                                                *)
TwoRegistersOnlyByOverlap ==
    \A x, y \in votante :
        x.from \in Replaces /\ y.from \in Replaces /\ x.from # y.from =>
            {x.from, y.from} \in together
=============================================================================
