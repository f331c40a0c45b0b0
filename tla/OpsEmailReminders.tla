------------------------- MODULE OpsEmailReminders -------------------------
(***************************************************************************)
(* The hourly scan of ops-email-reminders.service.ts: for each type and    *)
(* window it reads the pages of pending reminders of the services platform *)
(* and enqueues an email for each of them.                                 *)
(*                                                                         *)
(* enqueue is the one of OpsEmailQueue, seen from its only caller here:    *)
(* reservation of the key, event, LPUSH, with the same failures.  The      *)
(* platform keeps listing a reminder in the same page.                     *)
(***************************************************************************)
EXTENDS RemindersPages, SequencesExt

CONSTANTS
  MaxCrashes,   \* bound: ends of the process
  MaxFaults,    \* bound: failed requests, commands and inserts
  MaxExpiries   \* bound: expiries of each key

VARIABLES
  blocker,    \* what always fails in this behaviour
  configured, \* SERVICES_PLATFORM_BASE_URL and OPS_API_KEY are set in this process
  proc,       \* the process: up or down
  scan,       \* runScanCycle: its next step and its place in PageSets
  held,       \* the reminders whose idempotency key is in Redis
  jobs,       \* the number of jobs pushed for each reminder
  crashes, faults, expiries

vars == <<blocker, configured, proc, scan, held, jobs, crashes, faults, expiries>>

----------------------------------------------------------------------------

\* `idle` is running = false.
Steps == {"idle", "skip", "fetch", "report", "enqueue", "duplicate", "record", "push"}
NotRunning == [pc |-> "idle", set |-> 1, page |-> 1, item |-> 1]

Page    == PageSets[scan.set][scan.page]
Current == Page[scan.item]

At(step)   == proc = "up" /\ scan.pc = step
Goto(step) == scan' = [scan EXCEPT !.pc = step]

Fault == faults < MaxFaults /\ faults' = faults + 1

\* Plausible bug: an error leaves running = true.
AbortWithoutFinally == Goto("stuck")
\* The catch and the finally of runScanCycle.
Abort == scan' = NotRunning

\* nextCursor, then the next window, then the end of the cycle.
NextPage ==
  IF scan.page < Len(PageSets[scan.set])
    THEN scan' = [pc |-> "fetch", set |-> scan.set, page |-> scan.page + 1, item |-> 1]
    ELSE IF scan.set < Len(PageSets)
           THEN scan' = [pc |-> "fetch", set |-> scan.set + 1, page |-> 1, item |-> 1]
           ELSE scan' = NotRunning

NextItem ==
  IF scan.item < Len(Page) THEN scan' = [scan EXCEPT !.pc = "enqueue", !.item = @ + 1]
                           ELSE NextPage

----------------------------------------------------------------------------
(* runScanCycle *)

\* onModuleInit or the timer; a cycle that is running makes this one return.
Begin ==
  /\ At("idle")
  /\ Goto(IF configured THEN "fetch" ELSE "skip")
  /\ UNCHANGED <<blocker, configured, proc, held, jobs, crashes, faults, expiries>>

\* The event of an incomplete configuration; its failure is caught.
Skip ==
  /\ At("skip") /\ Abort
  /\ UNCHANGED <<blocker, configured, proc, held, jobs, crashes, faults, expiries>>

\* fetchPendingReminders.
Fetch ==
  /\ At("fetch")
  /\ \/ /\ scan.set \notin blocker.sets
        /\ IF Page = <<>> THEN NextPage ELSE Goto("enqueue")
        /\ UNCHANGED faults
     \/ scan.set \in blocker.sets /\ Goto("report") /\ UNCHANGED faults
     \/ Fault /\ Goto("report")
  /\ UNCHANGED <<blocker, configured, proc, held, jobs, crashes, expiries>>

\* The event of a failed request; whether it is written or not, an error ends the cycle.
Report ==
  /\ At("report") /\ Abort
  /\ UNCHANGED <<blocker, configured, proc, held, jobs, crashes, faults, expiries>>

\* Plausible bug: a key that is already held makes a job all the same.
ReserveWithoutNX ==
  /\ At("enqueue")
  /\ \/ Current \in blocker.rejected /\ Abort /\ UNCHANGED <<held, faults>>
     \/ /\ Current \notin blocker.rejected
        /\ held' = held \cup {Current}
        /\ Goto("record") /\ UNCHANGED faults
     \/ /\ Current \notin blocker.rejected
        /\ Fault /\ Abort
        /\ held' \in {held, held \cup {Current}}
  /\ UNCHANGED <<blocker, configured, proc, jobs, crashes, expiries>>
\* enqueue, up to the answer of SET NX EX.
Reserve ==
  /\ At("enqueue")
  /\ \/ Current \in blocker.rejected /\ Abort /\ UNCHANGED <<held, faults>>
     \/ /\ Current \notin blocker.rejected
        /\ held' = held \cup {Current}
        /\ Goto(IF Current \in held THEN "duplicate" ELSE "record")
        /\ UNCHANGED faults
     \/ /\ Current \notin blocker.rejected
        /\ Fault /\ Abort
        /\ held' \in {held, held \cup {Current}}
  /\ UNCHANGED <<blocker, configured, proc, jobs, crashes, expiries>>

\* enqueue: the event of a duplicate.
RecordDuplicate ==
  /\ At("duplicate")
  /\ \/ NextItem /\ UNCHANGED faults
     \/ Fault /\ Abort
  /\ UNCHANGED <<blocker, configured, proc, held, jobs, crashes, expiries>>

\* enqueue: the event `requested`.
RecordRequested ==
  /\ At("record")
  /\ \/ Goto("push") /\ UNCHANGED faults
     \/ Fault /\ Abort
  /\ UNCHANGED <<blocker, configured, proc, held, jobs, crashes, expiries>>

\* enqueue: LPUSH on the pending list.
Push ==
  /\ At("push")
  /\ LET pushed == [jobs EXCEPT ![Current] = @ + 1] IN
     \/ jobs' = pushed /\ NextItem /\ UNCHANGED faults
     \/ Fault /\ Abort /\ jobs' \in {jobs, pushed}
  /\ UNCHANGED <<blocker, configured, proc, held, crashes, expiries>>

----------------------------------------------------------------------------
(* The environment *)

\* The process ends; a scan in progress ends with it.  A shutdown is no different: the timer
\* is cleared, and what the scan still tries once Redis is closed fails.
Crash ==
  /\ proc = "up" /\ crashes < MaxCrashes
  /\ proc' = "down" /\ scan' = NotRunning
  /\ crashes' = crashes + 1
  /\ UNCHANGED <<blocker, configured, held, jobs, faults, expiries>>

\* The container starts again, perhaps with another environment.
Restart ==
  /\ proc = "down"
  /\ proc' = "up" /\ configured' \in BOOLEAN
  /\ UNCHANGED <<blocker, scan, held, jobs, crashes, faults, expiries>>

\* The TTL of a key is over.
Expire(r) ==
  /\ r \in held /\ expiries[r] < MaxExpiries
  /\ held' = held \ {r}
  /\ expiries' = [expiries EXCEPT ![r] = @ + 1]
  /\ UNCHANGED <<blocker, configured, proc, scan, jobs, crashes, faults>>

----------------------------------------------------------------------------
(* The specification *)

Init ==
  /\ blocker \in Blockers
  /\ configured \in BOOLEAN
  /\ proc = "up" /\ scan = NotRunning
  /\ held = {} /\ jobs = [r \in Reminders |-> 0]
  /\ crashes = 0 /\ faults = 0 /\ expiries = [r \in Reminders |-> 0]

Scan == \/ Begin \/ Skip \/ Fetch \/ Report
        \/ Reserve \/ RecordDuplicate \/ RecordRequested \/ Push

Next == Scan \/ Crash \/ Restart \/ \E r \in Reminders : Expire(r)

\* The timer fires, requests and commands are answered or time out, keys expire and the
\* supervisor restarts the container.
Fairness == /\ WF_vars(Scan) /\ WF_vars(Restart)
            /\ \A r \in Reminders : WF_vars(Expire(r))

Spec == Init /\ [][Next]_vars
FairSpec == Spec /\ Fairness

----------------------------------------------------------------------------
(* Properties *)

\* Types, and a place in the pages that exists: the items of a page are only looked at
\* where the page has them.
TypeOK ==
  /\ blocker \in Blockers
  /\ configured \in BOOLEAN /\ proc \in {"up", "down"}
  /\ scan \in [pc : Steps, set : DOMAIN PageSets, page : Nat, item : Nat]
  /\ scan.page \in DOMAIN PageSets[scan.set]
  /\ scan.pc \in {"enqueue", "duplicate", "record", "push"} => scan.item \in DOMAIN Page
  /\ held \subseteq Reminders
  /\ jobs \in [Reminders -> Nat]
  /\ crashes \in Nat /\ faults \in Nat /\ expiries \in [Reminders -> Nat]

\* docs/migracion/30, E: neither the scans that repeat, nor restarts, nor retries after an
\* error make a second job for a reminder while its key lives.
OneJobPerKeyLife == \A r \in Reminders : jobs[r] <= 1 + expiries[r]

\* The places that come before the one of the scan.
Before(s, p, n) ==
  \/ s < scan.set
  \/ s = scan.set /\ p < scan.page
  \/ s = scan.set /\ p = scan.page /\ n < scan.item

\* A scan leaves nothing behind: every reminder of the pages and windows that it has
\* passed is reserved (or was, until its key expired), and has its job unless
\* something failed since the process was first started.
ScanLeavesNothingBehind ==
  \A s \in DOMAIN PageSets : \A p \in DOMAIN PageSets[s] : \A n \in DOMAIN PageSets[s][p] :
    LET r == PageSets[s][p][n] IN
    Before(s, p, n) => /\ r \in held \/ expiries[r] > 0
                       /\ jobs[r] > 0 \/ faults + crashes > 0

\* docs/migracion/30, E: what a scan does to each reminder, once.  Neither the scans that
\* repeat, nor restarts, nor the retries after an error of enqueue make a second job while
\* the key of the first one lives; and no reminder that the scan has passed is left without
\* its key, or without its job unless something failed.
ScanIsExact == OneJobPerKeyLife /\ ScanLeavesNothingBehind

\* What the scan can reach: it stops at the first window that always fails and at the
\* first reminder that enqueue rejects.
Reachable(s, p, n) ==
  /\ \A t \in 1..s : t \notin blocker.sets
  /\ \A t \in 1..s : \A q \in DOMAIN PageSets[t] : \A m \in DOMAIN PageSets[t][q] :
       PageSets[t][q][m] \in blocker.rejected =>
         t = s /\ (q > p \/ (q = p /\ m > n))

\* Every reminder in front of the first permanent failure gets its job in the end, though
\* a failed or interrupted enqueue keeps its key reserved without one, and though each
\* error ends a whole cycle.
EveryReminderIsQueued ==
  <>[]configured =>
    \A s \in DOMAIN PageSets : \A p \in DOMAIN PageSets[s] : \A n \in DOMAIN PageSets[s][p] :
      Reachable(s, p, n) => <>(jobs[PageSets[s][p][n]] > 0)
=============================================================================
