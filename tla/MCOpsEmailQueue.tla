-------------------------- MODULE MCOpsEmailQueue --------------------------
(***************************************************************************)
(* Instances of OpsEmailQueue for TLC.                                     *)
(***************************************************************************)
EXTENDS OpsEmailQueue, TLC

CONSTANTS r1, r2, k1, k2

\* r1 and r2 are two calls for the same email, or for two of them.
MCRequests2 == {r1, r2}
SameKey     == [r \in {r1, r2} |-> k1]
OwnKeys     == (r1 :> k1) @@ (r2 :> k2)

OneRequest  == {r1}
KeyOfOne    == [r \in {r1} |-> k1]

ResendFirst2 == [r \in {r1, r2} |-> "resend-first"]
ResendFirst1 == [r \in {r1} |-> "resend-first"]
\* With SMTP alone, r1 has a fallback and r2 is skipped when SMTP fails.
Mixed2       == (r1 :> "resend-first") @@ (r2 :> "smtp-first")
=============================================================================
