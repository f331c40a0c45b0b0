--------------------------- MODULE EmailDelivery ---------------------------
(***************************************************************************)
(* What the email queue promises to the services that use it.  An accepted *)
(* email is owed until it has one final verdict; mails leave only while it *)
(* is owed; a verdict `sent` means that a mail left; no verdict is revised *)
(* and an email that was given a verdict is never owed again.              *)
(***************************************************************************)
EXTENDS Naturals

CONSTANT Requests

VARIABLES state, mails

vars == <<state, mails>>

Verdicts == {"sent", "skipped", "dead", "lost"}

Init == state = [r \in Requests |-> "new"] /\ mails = [r \in Requests |-> 0]

Accept(r) == /\ state[r] = "new"
             /\ state' = [state EXCEPT ![r] = "owed"]
             /\ UNCHANGED mails

Mail(r) == /\ state[r] = "owed"
           /\ mails' = [mails EXCEPT ![r] = @ + 1]
           /\ UNCHANGED state

\* A process that stops settles at once all it had in hand.
Settle(R) == /\ R # {} /\ \A r \in R : state[r] = "owed"
             /\ \E v \in [R -> Verdicts] :
                   /\ \A r \in R : v[r] = "sent" => mails[r] > 0
                   /\ state' = [r \in Requests |-> IF r \in R THEN v[r] ELSE state[r]]
             /\ UNCHANGED mails

Next == \/ \E r \in Requests : Accept(r) \/ Mail(r)
        \/ \E R \in SUBSET Requests : Settle(R)

\* The promise that nothing else happens, and that every accepted email gets its verdict.
SafeSpec == Init /\ [][Next]_vars
Spec == SafeSpec /\ \A r \in Requests : WF_vars(Settle({r}))
=============================================================================
