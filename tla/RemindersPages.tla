--------------------------- MODULE RemindersPages ---------------------------
(***************************************************************************)
(* What the services platform lists as pending when OpsEmailReminders      *)
(* scans it.                                                               *)
(***************************************************************************)
EXTENDS Naturals, Sequences

CONSTANTS
  Reminders,    \* the pending reminders; each has its own idempotencyKey
  PageSets,     \* per type and window, in the order of the loops, its pages
  Blockers      \* permanent failures to consider: the page sets that the platform answers
                \* with an error, the reminders whose payload prepareEmailTemplate rejects

ASSUME RemindersAssumption ==
  /\ PageSets \in Seq(Seq(Seq(Reminders))) /\ PageSets # <<>>
  /\ \A s \in DOMAIN PageSets : PageSets[s] # <<>>
  /\ Blockers \subseteq [sets : SUBSET DOMAIN PageSets, rejected : SUBSET Reminders]
=============================================================================
