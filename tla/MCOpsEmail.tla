----------------------------- MODULE MCOpsEmail -----------------------------
(***************************************************************************)
(* Instances for TLC of what surrounds the queue: the same service without *)
(* Redis, and the scan of the reminders.  They share no state, so a        *)
(* behaviour is one of one of them, which active chooses at the start,     *)
(* while the other stays in its initial state.                             *)
(***************************************************************************)
EXTENDS OpsEmailMemory, RemindersPages, TLC

CONSTANTS r1, r2, r3, k1, k2, a, b, c,
          MaxExpiries   \* bound: expiries of the key of each reminder

VARIABLES active, blocker, configured, proc, scan, held, jobs, expiries,
          scanCrashes, scanFaults

scanVars == <<blocker, configured, proc, scan, held, jobs, scanCrashes, scanFaults, expiries>>

\* Without Redis: r1 and r2 are two calls for one email, r3 is another one.
MCRequests == {r1, r2, r3}
MCKeyOf == (r1 :> k1) @@ (r2 :> k1) @@ (r3 :> k2)
\* r1 has a fallback, r2 ends with SMTP, r3 tries SMTP first.
MCOrder == (r1 :> <<"resend", "smtp">>) @@ (r2 :> <<"smtp">>)
           @@ (r3 :> <<"smtp", "resend">>)

\* The scan: two pages in the first window, the second one empty, and a page of two reminders
\* in the second window.
MCPageSets == << << <<a>>, <<>> >>, << <<b, c>> >> >>

\* Any windows that always fail, any reminders that are always rejected.
AnyBlocker == [sets : SUBSET (1..2), rejected : SUBSET {a, b, c}]

Hourly == INSTANCE OpsEmailReminders WITH crashes <- scanCrashes, faults <- scanFaults

---------------------------------------------------------------------------

\* The scan has its choices only when it is the one that moves.
EmailInit ==
  /\ active \in {"memory", "scan"}
  /\ Init /\ Hourly!Init
  /\ active = "memory" => configured /\ blocker = [sets |-> {}, rejected |-> {}]
EmailNext ==
  \/ active = "memory" /\ Next /\ UNCHANGED <<active, scanVars>>
  \/ active = "scan" /\ Hourly!Next /\ UNCHANGED <<active, vars>>

\* The fairness of each, while it is the one that moves.
EmailFairness ==
  /\ \A r \in Requests : WF_vars(active = "memory" /\ Job(r))
  /\ WF_scanVars(active = "scan" /\ Hourly!Scan)
  /\ WF_scanVars(active = "scan" /\ Hourly!Restart)
  /\ \A r \in Reminders : WF_scanVars(active = "scan" /\ Hourly!Expire(r))

EmailSpec == EmailInit /\ [][EmailNext]_<<active, vars, scanVars>> /\ EmailFairness

---------------------------------------------------------------------------

\* What a scan does to each reminder, once: see OpsEmailReminders.
ScanIsExact == Hourly!ScanIsExact

\* Every reminder in front of the first permanent failure gets its job in the end: see
\* OpsEmailReminders.
EveryReminderIsQueued == active = "scan" => Hourly!EveryReminderIsQueued
=============================================================================
