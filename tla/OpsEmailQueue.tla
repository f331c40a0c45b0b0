--------------------------- MODULE OpsEmailQueue ---------------------------
(***************************************************************************)
(* The email queue of ceres-api with its Redis back end                    *)
(* (ops-email-queue.service.ts, ops-email.service.ts, redis.service.ts).   *)
(*                                                                         *)
(* Actors: any number of concurrent enqueue calls, one drain loop, the     *)
(* process that hosts them, and the environment that kills the process,    *)
(* fails a Redis command or an event insert, loses the answer of a mail    *)
(* provider and lets an idempotency key expire.                            *)
(*                                                                         *)
(* Every await of the code ends a step, so that anything can happen        *)
(* between two of them.  A failed Redis command or insert may have taken   *)
(* effect before its answer was lost.                                      *)
(***************************************************************************)
EXTENDS Naturals, Sequences, SequencesExt

CONSTANTS
  Requests,         \* calls of enqueue; each makes at most one job, with its own id
  Keys,             \* idempotency keys
  NoRequest,        \* no request: the value of a key that is not reserved
  KeyOf,            \* the idempotencyKey of each request
  Strategy,         \* the providerStrategy of each request
  Configured,       \* the providers that have credentials
  HasSender,        \* the requests whose template resolveFromAddress finds an address for
  MaxAttempts,      \* OPS_EMAIL_MAX_ATTEMPTS
  MaxCrashes,       \* bound: kills and shutdowns of the process
  MaxFaults,        \* bound: failed commands and inserts, lost provider answers
  MaxExpiries       \* bound: expiries of each key

Providers  == {"resend", "smtp"}
Strategies == {"resend-first", "smtp-first", "resend-only", "smtp-only"}

ASSUME ConstantsAssumption ==
  /\ NoRequest \notin Requests
  /\ KeyOf \in [Requests -> Keys]
  /\ Strategy \in [Requests -> Strategies]
  /\ Configured \subseteq Providers
  /\ HasSender \subseteq Requests
  /\ MaxAttempts \in Nat \ {0}
  /\ MaxCrashes \in Nat /\ MaxFaults \in Nat /\ MaxExpiries \in Nat

VARIABLES
  idem,       \* ops:email:idempotency:*, the request that reserved each key
  pending,    \* ops:email:pending, head first: LPUSH adds at 1, RPOP takes the last
  processing, \* ops:email:processing
  dead,       \* ops:email:dead_letter
  events,     \* the rows the queue wrote to ops_event_log
  req,        \* where each enqueue call stands
  proc,       \* the process: down, restoring ("range", "push", "del"), up or stopping
  backlog,    \* restoreInFlightJobs: what is left of the list it read
  w,          \* the drain loop: the job in hand and the next step of processJob
  mails,      \* ghost: mails the providers accepted for each request
  lost,       \* ghost: jobs in hand, and in no list, when the process died
  crashes, faults, expiries \* how much of each bound is used

redis  == <<pending, processing, dead>>
bounds == <<crashes, faults, expiries>>
vars   == <<idem, pending, processing, dead, events, req, proc, backlog, w,
            mails, lost, crashes, faults, expiries>>

----------------------------------------------------------------------------
(* Data *)

Jobs  == [id : Requests, attempts : Nat]
NoJob == [id |-> NoRequest, attempts |-> 0]

\* A worker starts on the first provider; send keeps the error of the last one.
WorkerSteps == {"idle", "send", "sentEvent", "sentRem", "skipEvent", "skipRem",
                "failEvent", "failRem", "push"}
IdleWorker == [pc |-> "idle", job |-> NoJob, next |-> 1]
Busy       == w.pc # "idle"

RequestSteps == {"new", "requested", "push", "queued", "unanswered",
                 "dup", "duplicate", "failed"}
InProgress   == {"requested", "push", "dup"}

Statuses == {"requested", "duplicate", "sent", "skipped", "failed"}
Event(r, status, n) == [id |-> r, status |-> status, attempts |-> n]

ProviderOrder(strategy) ==
  CASE strategy = "resend-first" -> <<"resend", "smtp">>
    [] strategy = "smtp-first"   -> <<"smtp", "resend">>
    [] strategy = "resend-only"  -> <<"resend">>
    [] strategy = "smtp-only"    -> <<"smtp">>

LPush(list, job) == <<job>> \o list

\* The variants below a comment "Plausible bug" are not part of the specification:
\* each is a wrong version of the definition after it, for mutation of the model.

\* Plausible bug: the entry stays in the list.
LRemNothing(list, job) == list
LRem(list, job) == RemoveFirst(list, job)

----------------------------------------------------------------------------
(* Outcomes of a Redis command and of an insert in ops_event_log *)

Fault == faults < MaxFaults /\ faults' = faults + 1

\* onModuleDestroy of RedisService closes the client: every later command is rejected.
RedisOk == proc # "stopping" /\ UNCHANGED faults
RedisFails(done) == IF proc = "stopping" THEN ~done /\ UNCHANGED faults
                                         ELSE Fault

\* The shutdown also destroys the data source, at some point the model leaves open.
EventOk(e)    == events' = events \cup {e} /\ UNCHANGED faults
EventFails(e) == /\ Fault \/ (proc = "stopping" /\ UNCHANGED faults)
                 /\ events' \in {events, events \cup {e}}

----------------------------------------------------------------------------
(* enqueue *)

\* Plausible bug: no NX, every call is told that it made the reservation.
KeyIsAlwaysFree(r) == TRUE
KeyIsFree(r) == idem[KeyOf[r]] = NoRequest

\* Plausible bug: SET without NX, the reservation of another call is overwritten.
ReservedWithoutNX(r) == [idem EXCEPT ![KeyOf[r]] = r]
\* What SET NX EX leaves.
Reserved(r) == IF KeyIsFree(r) THEN [idem EXCEPT ![KeyOf[r]] = r] ELSE idem

\* reserveIdempotency and the branch on its result.
Reserve(r) ==
  /\ req[r] = "new" /\ proc # "down"
  /\ \/ /\ RedisOk
        /\ idem' = Reserved(r)
        /\ req'  = [req EXCEPT ![r] = IF KeyIsFree(r) THEN "requested" ELSE "dup"]
     \/ \E done \in BOOLEAN :
        /\ RedisFails(done)
        /\ idem' = IF done THEN Reserved(r) ELSE idem
        /\ req'  = [req EXCEPT ![r] = "failed"]
  /\ UNCHANGED <<redis, events, proc, backlog, w, mails, lost, crashes, expiries>>

\* The createEvent of a duplicate, and the answer {accepted, duplicate}.
RejectDuplicate(r) ==
  /\ req[r] = "dup"
  /\ LET e == Event(r, "duplicate", 0) IN
     \/ EventOk(e)    /\ req' = [req EXCEPT ![r] = "duplicate"]
     \/ EventFails(e) /\ req' = [req EXCEPT ![r] = "failed"]
  /\ UNCHANGED <<idem, redis, proc, backlog, w, mails, lost, crashes, expiries>>

\* The createEvent `requested`; when it throws the key stays reserved.
RecordRequested(r) ==
  /\ req[r] = "requested"
  /\ LET e == Event(r, "requested", 0) IN
     \/ EventOk(e)    /\ req' = [req EXCEPT ![r] = "push"]
     \/ EventFails(e) /\ req' = [req EXCEPT ![r] = "failed"]
  /\ UNCHANGED <<idem, redis, proc, backlog, w, mails, lost, crashes, expiries>>

\* LPUSH on the pending list and the answer {accepted, queued}.
PushPending(r) ==
  /\ req[r] = "push"
  /\ LET pushed == LPush(pending, [id |-> r, attempts |-> 0]) IN
     \/ RedisOk /\ pending' = pushed /\ req' = [req EXCEPT ![r] = "queued"]
     \/ \E done \in BOOLEAN :
        /\ RedisFails(done)
        /\ pending' = IF done THEN pushed ELSE pending
        /\ req' = [req EXCEPT ![r] = IF done THEN "unanswered" ELSE "failed"]
  /\ UNCHANGED <<idem, processing, dead, events, proc, backlog, w, mails, lost,
                 crashes, expiries>>

----------------------------------------------------------------------------
(* The process *)

\* The process ends.  Calls in progress get no answer; the lists, the keys and the
\* events survive.  A job in hand that is in no list is gone.
Die(gone) ==
  /\ proc' = "down"
  /\ w' = IdleWorker
  /\ backlog' = <<>>
  /\ req' = [r \in Requests |-> IF req[r] \in InProgress THEN "failed" ELSE req[r]]
  /\ lost' = lost \cup gone

\* Between the LREM and the LPUSH of a retry the job is only in memory.
InWindow == IF w.pc = "push" THEN {w.job.id} ELSE {}

\* The process is killed.
Crash ==
  /\ proc \notin {"down", "stopping"} /\ crashes < MaxCrashes
  /\ Die(InWindow)
  /\ crashes' = crashes + 1
  /\ UNCHANGED <<idem, redis, events, mails, faults, expiries>>

\* SIGTERM: onModuleDestroy clears the timer and closes Redis; processJob is not awaited.
Shutdown ==
  /\ proc = "up" /\ crashes < MaxCrashes
  /\ proc' = "stopping"
  /\ crashes' = crashes + 1
  /\ UNCHANGED <<idem, redis, events, req, backlog, w, mails, lost, faults, expiries>>

\* The process exits at whatever step processJob is.
Exit ==
  /\ proc = "stopping"
  /\ Die(InWindow)
  /\ UNCHANGED <<idem, redis, events, mails, bounds>>

\* Plausible bug: the timer is started without a restoration.
RestartWithoutRestore ==
  /\ proc = "down"
  /\ proc' = "up"
  /\ UNCHANGED <<idem, redis, events, req, backlog, w, mails, lost, bounds>>
\* restart: unless-stopped; onModuleInit awaits restoreInFlightJobs.
Restart ==
  /\ proc = "down"
  /\ proc' = "range"
  /\ UNCHANGED <<idem, redis, events, req, backlog, w, mails, lost, bounds>>

\* LRANGE 0 -1 of the processing list; an error ends the bootstrap.
RestoreRange ==
  /\ proc = "range"
  /\ \/ /\ RedisOk
        /\ backlog' = Reverse(processing)
        /\ proc' = IF processing = <<>> THEN "up" ELSE "push"
        /\ UNCHANGED <<req, w, lost>>
     \/ Fault /\ Die({})
  /\ UNCHANGED <<idem, redis, events, mails, crashes, expiries>>

\* One turn of the loop over the reversed list.
RestorePush ==
  /\ proc = "push"
  /\ LET pushed == LPush(pending, Head(backlog)) IN
     \/ /\ RedisOk
        /\ pending' = pushed
        /\ backlog' = Tail(backlog)
        /\ proc' = IF Len(backlog) = 1 THEN "del" ELSE "push"
        /\ UNCHANGED <<req, w, lost>>
     \/ Fault /\ Die({}) /\ pending' \in {pending, pushed}
  /\ UNCHANGED <<idem, processing, dead, events, mails, crashes, expiries>>

\* DEL of the processing list; then onModuleInit starts the timer.
RestoreDel ==
  /\ proc = "del"
  /\ \/ RedisOk /\ processing' = <<>> /\ proc' = "up" /\ UNCHANGED <<req, backlog, w, lost>>
     \/ Fault /\ Die({}) /\ processing' \in {processing, <<>>}
  /\ UNCHANGED <<idem, pending, dead, events, mails, crashes, expiries>>

\* Redis drops a key when its TTL is over.
Expire(k) ==
  /\ idem[k] # NoRequest /\ expiries[k] < MaxExpiries
  /\ idem' = [idem EXCEPT ![k] = NoRequest]
  /\ expiries' = [expiries EXCEPT ![k] = @ + 1]
  /\ UNCHANGED <<redis, events, req, proc, backlog, w, mails, lost, crashes, faults>>

----------------------------------------------------------------------------
(* The drain loop: drainOnce and processJob.  An error that leaves drainOnce is an *)
(* unhandled rejection, which ends the process.                                    *)

\* Plausible bug: the stored job has lost its count of attempts.
StartJobWithoutAttempts(job) == [pc |-> "send", job |-> [id |-> job.id], next |-> 1]
StartJob(job) == [pc   |-> IF job.id \in HasSender THEN "send" ELSE "skipEvent",
                  job  |-> job,
                  next |-> 1]

At(step) == w.pc = step
Goto(step) == w' = [w EXCEPT !.pc = step]
Finish == w' = IdleWorker
Survive == UNCHANGED <<proc, req, backlog, lost>>

\* The timer fires while no job is in hand (draining) and RPOPLPUSH finds an entry.
Poll ==
  /\ proc = "up" /\ ~Busy
  /\ \/ /\ pending # <<>> /\ UNCHANGED faults
        /\ processing' = LPush(processing, Last(pending))
        /\ pending' = Front(pending)
        /\ w' = StartJob(Last(pending))
        /\ Survive
     \/ /\ Fault /\ Die({})
        /\ \/ UNCHANGED <<pending, processing>>
           \/ /\ pending # <<>>
              /\ processing' = LPush(processing, Last(pending))
              /\ pending' = Front(pending)
  /\ UNCHANGED <<idem, dead, events, mails, crashes, expiries>>

\* The loop of send goes on to the next provider; after the last one its error is thrown.
NextProvider(step) ==
  IF w.next < Len(ProviderOrder(Strategy[w.job.id]))
    THEN w' = [w EXCEPT !.next = @ + 1]
    ELSE Goto(step)

\* Plausible bug: the error in the answer of the provider is not looked at.
TryProviderUnchecked ==
  /\ At("send") /\ Goto("sentEvent") /\ Survive
  /\ \/ mails' = [mails EXCEPT ![w.job.id] = @ + 1]
     \/ UNCHANGED mails
  /\ UNCHANGED <<idem, redis, events, crashes, faults, expiries>>
\* One turn of the loop of send.
TryProvider ==
  /\ At("send")
  /\ IF ProviderOrder(Strategy[w.job.id])[w.next] \in Configured
       THEN \/ /\ Goto("sentEvent")
               /\ mails' = [mails EXCEPT ![w.job.id] = @ + 1]
               /\ UNCHANGED faults
            \/ /\ NextProvider("failEvent")
               /\ UNCHANGED <<mails, faults>>
            \/ /\ Fault                       \* accepted, but the answer is lost
               /\ NextProvider("failEvent")
               /\ mails' = [mails EXCEPT ![w.job.id] = @ + 1]
       ELSE /\ NextProvider("skipEvent")      \* EmailSkipError
            /\ UNCHANGED <<mails, faults>>
  /\ Survive
  /\ UNCHANGED <<idem, redis, events, crashes, expiries>>

\* Plausible bug: the attempt that succeeded is treated as one that failed.
RecordSentThenFail ==
  /\ At("sentEvent")
  /\ EventOk(Event(w.job.id, "sent", w.job.attempts + 1)) /\ Goto("failEvent")
  /\ Survive
  /\ UNCHANGED <<idem, redis, mails, crashes, expiries>>
\* The createEvent `sent` is inside the try: when it throws, the catch handles it as a
\* failed send.
RecordSent ==
  /\ At("sentEvent")
  /\ LET e == Event(w.job.id, "sent", w.job.attempts + 1) IN
     \/ EventOk(e)    /\ Goto("sentRem")
     \/ EventFails(e) /\ Goto("failEvent")
  /\ Survive
  /\ UNCHANGED <<idem, redis, mails, crashes, expiries>>

\* So is the LREM.
RemoveSent ==
  /\ At("sentRem")
  /\ \/ RedisOk /\ processing' = LRem(processing, w.job) /\ Finish
     \/ \E done \in BOOLEAN :
        /\ RedisFails(done) /\ Goto("failEvent")
        /\ processing' = IF done THEN LRem(processing, w.job) ELSE processing
  /\ Survive
  /\ UNCHANGED <<idem, pending, dead, events, mails, crashes, expiries>>

\* The catch of EmailSkipError.
RecordSkipped ==
  /\ At("skipEvent")
  /\ LET e == Event(w.job.id, "skipped", w.job.attempts + 1) IN
     \/ EventOk(e)    /\ Goto("skipRem") /\ Survive
     \/ EventFails(e) /\ Die({})
  /\ UNCHANGED <<idem, redis, mails, crashes, expiries>>

RemoveSkipped ==
  /\ At("skipRem")
  /\ \/ RedisOk /\ processing' = LRem(processing, w.job) /\ Finish /\ Survive
     \/ \E done \in BOOLEAN :
        /\ RedisFails(done) /\ Die({})
        /\ processing' = IF done THEN LRem(processing, w.job) ELSE processing
  /\ UNCHANGED <<idem, pending, dead, events, mails, crashes, expiries>>

\* The catch of any other error: createEvent `failed`, LREM, LPUSH.
RecordFailed ==
  /\ At("failEvent")
  /\ LET e == Event(w.job.id, "failed", w.job.attempts + 1) IN
     \/ EventOk(e)    /\ Goto("failRem") /\ Survive
     \/ EventFails(e) /\ Die({})
  /\ UNCHANGED <<idem, redis, mails, crashes, expiries>>

RemoveFailed ==
  /\ At("failRem")
  /\ \/ RedisOk /\ processing' = LRem(processing, w.job) /\ Goto("push") /\ Survive
     \/ \E done \in BOOLEAN :
        /\ RedisFails(done)
        /\ Die(IF done THEN {w.job.id} ELSE {})
        /\ processing' = IF done THEN LRem(processing, w.job) ELSE processing
  /\ UNCHANGED <<idem, pending, dead, events, mails, crashes, expiries>>

\* Plausible bug: the attempt just made is not counted.
WillRetryLate(attempts) == attempts <= MaxAttempts
WillRetry(attempts) == attempts < MaxAttempts

\* Plausible bug: a job without attempts left is dropped.
RequeueOrDrop(job) ==
  /\ pending' = IF WillRetry(job.attempts) THEN LPush(pending, job) ELSE pending
  /\ UNCHANGED dead
\* The LPUSH of the retry, or to the dead letter list.
Requeue(job) ==
  IF WillRetry(job.attempts)
    THEN pending' = LPush(pending, job) /\ UNCHANGED dead
    ELSE dead' = LPush(dead, job) /\ UNCHANGED pending

PushFailed ==
  /\ At("push")
  /\ LET job == [w.job EXCEPT !.attempts = @ + 1] IN
     \/ RedisOk /\ Requeue(job) /\ Finish /\ Survive
     \/ RedisFails(TRUE) /\ Requeue(job) /\ Die({})
     \/ RedisFails(FALSE) /\ UNCHANGED <<pending, dead>> /\ Die({w.job.id})
  /\ UNCHANGED <<idem, processing, events, mails, crashes, expiries>>

----------------------------------------------------------------------------
(* The specification *)

Init ==
  /\ idem = [k \in Keys |-> NoRequest]
  /\ pending = <<>> /\ processing = <<>> /\ dead = <<>>
  /\ events = {}
  /\ req = [r \in Requests |-> "new"]
  /\ proc = "range" /\ backlog = <<>>
  /\ w = IdleWorker
  /\ mails = [r \in Requests |-> 0] /\ lost = {}
  /\ crashes = 0 /\ faults = 0 /\ expiries = [k \in Keys |-> 0]

Enqueue(r) == Reserve(r) \/ RejectDuplicate(r) \/ RecordRequested(r) \/ PushPending(r)

Restore == RestoreRange \/ RestorePush \/ RestoreDel

ProcessJob == \/ TryProvider
              \/ RecordSent    \/ RemoveSent
              \/ RecordSkipped \/ RemoveSkipped
              \/ RecordFailed  \/ RemoveFailed \/ PushFailed

Next == \/ \E r \in Requests : Enqueue(r)
        \/ \E k \in Keys : Expire(k)
        \/ Crash \/ Shutdown \/ Exit \/ Restart
        \/ Restore \/ Poll \/ ProcessJob

\* The container is restarted, the timer keeps finding what is pending, and providers, Redis and
\* PostgreSQL answer or time out.  Nobody has to call enqueue.
Fairness == /\ WF_vars(Exit) /\ WF_vars(Restart) /\ WF_vars(Restore)
            /\ WF_vars(pending # <<>> /\ Poll) /\ WF_vars(ProcessJob)

Spec == Init /\ [][Next]_vars
FairSpec == Spec /\ Fairness

----------------------------------------------------------------------------
(* Type correctness *)

TypeOK ==
  /\ idem \in [Keys -> Requests \cup {NoRequest}]
  /\ pending \in Seq(Jobs) /\ processing \in Seq(Jobs) /\ dead \in Seq(Jobs)
  /\ events \subseteq [id : Requests, status : Statuses, attempts : Nat]
  /\ req \in [Requests -> RequestSteps]
  /\ proc \in {"down", "range", "push", "del", "up", "stopping"}
  /\ backlog \in Seq(Jobs)
  /\ w \in [pc : WorkerSteps, job : Jobs \cup {NoJob}, next : Nat]
  /\ Busy => w.job \in Jobs
  /\ mails \in [Requests -> Nat]
  /\ lost \subseteq Requests
  /\ crashes \in Nat /\ faults \in Nat /\ expiries \in [Keys -> Nat]

----------------------------------------------------------------------------
(* Safety *)

Enqueued(r) == req[r] \in {"queued", "unanswered"}
In(list, r) == \E job \in ToSet(list) : job.id = r
Owed(r) == In(pending, r) \/ In(processing, r) \/ (Busy /\ w.job.id = r)
Recorded(r, status) == \E e \in events : e.id = r /\ e.status = status

\* No email disappears: a job that entered the pending list is still owed, or was
\* sent, skipped or dead-lettered, or was in hand between the LREM and the LPUSH of
\* its retry when the process died.
Accounted ==
  \A r \in Requests : Enqueued(r) =>
    Owed(r) \/ In(dead, r) \/ Recorded(r, "sent") \/ Recorded(r, "skipped") \/ r \in lost

\* Two calls with one idempotency key make two jobs only after the key expired,
\* whatever fails or restarts in between.
OneJobPerKey ==
  \A r, s \in Requests :
    Enqueued(r) /\ Enqueued(s) /\ KeyOf[r] = KeyOf[s] /\ expiries[KeyOf[r]] = 0 => r = s

\* A reserved key, which turns every later call into an accepted duplicate, stands
\* for a job made or being made, unless something failed while it was made.
HeldKeyHasJob ==
  \A k \in Keys : idem[k] # NoRequest =>
    \/ req[idem[k]] \in {"requested", "push"} \/ Enqueued(idem[k])
    \/ req[idem[k]] = "failed" /\ faults + crashes > 0

\* Outside a restoration the processing list is the job in hand or nothing, so that
\* the LREM of one entry and the DEL of the whole list never drop another job.
ProcessingIsInHand ==
  proc \in {"up", "stopping"} =>
    processing = <<>> \/ (Busy /\ processing = <<w.job>>)

\* A job is tried at most MaxAttempts times per copy: what waits has an attempt left,
\* what is dead-lettered has none, and every attempt it counts left its `failed` event.
AttemptsLeft(job) == job.attempts < MaxAttempts
AttemptsRecorded(job) == \A n \in 1..job.attempts : Event(job.id, "failed", n) \in events
RetriesAreCounted ==
  /\ \A job \in ToSet(pending) \cup ToSet(processing) : AttemptsLeft(job)
  /\ \A job \in ToSet(dead) : job.attempts = MaxAttempts
  /\ \A job \in ToSet(pending) \cup ToSet(processing) \cup ToSet(dead) : AttemptsRecorded(job)

\* Mails are bounded from above: each further copy of a mail is paid for by one failed
\* command, lost answer, kill or shutdown, and one of them never multiplies mails.  That no
\* job is recorded as sent without a mail is for DeliverySpec.
MailBudget == \A r \in Requests : mails[r] <= 1 + faults + crashes

----------------------------------------------------------------------------
(* Liveness *)

\* Every job leaves the queue, however often the process dies on the way.
QueueDrains == \A r \in Requests : Owed(r) ~> ~Owed(r)

----------------------------------------------------------------------------
(* Implementation of the abstract delivery *)

Verdict(r) ==
  IF ~Enqueued(r)                THEN "new"
  ELSE IF Owed(r)                THEN "owed"
  ELSE IF Recorded(r, "sent")    THEN "sent"
  ELSE IF Recorded(r, "skipped") THEN "skipped"
  ELSE IF In(dead, r)            THEN "dead"
  ELSE "lost"

\* The abstract delivery, in terms of the state of the queue.
Delivery == INSTANCE EmailDelivery WITH state <- [r \in Requests |-> Verdict(r)]
DeliverySpec == Delivery!Spec

----------------------------------------------------------------------------
(* Claims of the documentation that the code does not keep *)

\* docs/migracion/30: no duplicates per window, restarts included.
NoDuplicateMail == \A r \in Requests : mails[r] <= 1

\* docs/migracion/29: SMTP is the fallback only if it is configured, so that a job is
\* given up as skipped only when it has no usable provider at all.
SkippedOnlyUnconfigured ==
  \A r \in Requests : Recorded(r, "skipped") =>
    \/ r \notin HasSender
    \/ \A i \in DOMAIN ProviderOrder(Strategy[r]) : ProviderOrder(Strategy[r])[i] \notin Configured
=============================================================================
