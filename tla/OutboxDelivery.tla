---------------------------- MODULE OutboxDelivery ----------------------------
(***************************************************************************)
(* The transactional outbox: a change commits together with its domain     *)
(* event, a poller of every API replica moves committed events to queues   *)
(* in Redis, and the workers turn a job into a notification or run the     *)
(* automation rules of the office on it.                                   *)
(*                                                                         *)
(* Delivery is at least once: a batch may be rolled back after its jobs    *)
(* were queued, Redis forgets completed jobs, and a stalled job is given   *)
(* to a second worker.  The job ids and the table automation_runs are what *)
(* keeps an automation from running twice.                                 *)
(*                                                                         *)
(* Two kinds of job stand for all: a notification, whose processing is one *)
(* transaction, and custom-automations, one transaction for each rule.     *)
(***************************************************************************)
EXTENDS Naturals, FiniteSets, FiniteSetsExt

CONSTANTS
  Events,          \* events as numbers, in the order of occurred_at
  Trigger,         \* the event the office's rules are about
  TaskEvent,       \* the task.created event a rule that makes a task writes
  Malformed,       \* events whose payload the schema rejects
  Rules,           \* the office's rules on Trigger
  TaskRule,        \* the one whose action is a task
  Dispatchers,     \* API replicas
  Workers,         \* concurrent processors of jobs
  BatchSize,       \* BATCH
  MaxAttempts,     \* MAX_ATTEMPTS
  MaxTries,        \* attempts of a job
  MaxRedisErrors,  \* bounds the commands Redis answers with an error
  MaxFaults,       \* bounds crashes, stalls, timeouts and failed transactions
  None

Kinds == {"notify", "automations"}
Jobs  == Events \X Kinds

ASSUME OutboxAssumption ==
  /\ Events \subseteq Nat
  /\ Trigger \in Events /\ TaskEvent \in Events /\ Trigger # TaskEvent
  /\ Malformed \subseteq Events \ {Trigger, TaskEvent}
  /\ TaskRule \in Rules
  /\ BatchSize \in Nat \ {0} /\ MaxAttempts \in Nat \ {0} /\ MaxTries \in Nat \ {0}
  /\ MaxRedisErrors \in Nat /\ MaxFaults \in Nat
  /\ None \notin Workers /\ None \notin Jobs

VARIABLES
  outbox,      \* table outbox_events
  dispatcher,  \* where each replica's poller stands
  job,         \* the queues in Redis, by job id
  queued,      \* history: jobs that were ever accepted by Redis
  worker,      \* what each worker is doing
  runs,        \* table automation_runs
  acted,       \* history: how often a rule acted on an event
  noticed,     \* events with a row in table notifications
  redisErrors, faults

vars == <<outbox, dispatcher, job, queued, worker, runs, acted, noticed, redisErrors, faults>>

NoJob         == [state |-> "none", owner |-> None, tries |-> 0, stalled |-> FALSE]
IdlePoller    == [pc |-> "idle", live |-> FALSE, todo |-> {}, done |-> {}, failed |-> {}]
IdleWorker    == [pc |-> "idle", job |-> None, todo |-> {}]

Init ==
  /\ outbox = [e \in Events |-> [status |-> "absent", attempts |-> 0]]
  /\ dispatcher = [d \in Dispatchers |-> IdlePoller]
  /\ job = [j \in Jobs |-> NoJob]
  /\ queued = {}
  /\ worker = [w \in Workers |-> IdleWorker]
  /\ runs = {}
  /\ acted = [x \in Rules \X Events |-> 0]
  /\ noticed = {}
  /\ redisErrors = 0
  /\ faults = 0

\* A request commits its change, and the event with it.
Emit(e) ==
  /\ e # TaskEvent
  /\ outbox[e].status = "absent"
  /\ outbox' = [outbox EXCEPT ![e].status = "new"]
  /\ UNCHANGED <<dispatcher, job, queued, worker, runs, acted, noticed, redisErrors, faults>>

-----------------------------------------------------------------------------
(***************************************************************************)
(* dispatchBatch.                                                          *)
(***************************************************************************)
Batch(d) == dispatcher[d].todo \cup dispatcher[d].done \cup dispatcher[d].failed

\* FOR UPDATE: rows of a transaction that is still open.
Held == UNION {Batch(d) : d \in {d \in Dispatchers : dispatcher[d].live}}

Eligible ==
  {e \in Events : outbox[e].status = "new" /\ outbox[e].attempts < MaxAttempts /\ e \notin Held}

Oldest(S, n) == {e \in S : Cardinality({f \in S : f < e}) < n}

\* Mutant of ClaimBatch: rows whose attempts are used up are tried again.
ClaimExhausted(d) ==
  LET rows == {e \in Events : outbox[e].status = "new" /\ e \notin Held} IN
  /\ dispatcher[d].pc = "idle"
  /\ rows # {}
  /\ dispatcher' = [dispatcher EXCEPT ![d] = [pc |-> "route", live |-> TRUE, done |-> {}, failed |-> {},
                                              todo |-> Oldest(rows, BatchSize)]]
  /\ UNCHANGED <<outbox, job, queued, worker, runs, acted, noticed, redisErrors, faults>>

ClaimBatch(d) ==
  /\ dispatcher[d].pc = "idle"
  /\ Eligible # {}
  /\ dispatcher' = [dispatcher EXCEPT ![d] = [pc |-> "route", live |-> TRUE, done |-> {}, failed |-> {},
                                              todo |-> Oldest(Eligible, BatchSize)]]
  /\ UNCHANGED <<outbox, job, queued, worker, runs, acted, noticed, redisErrors, faults>>

\* The event d routes now.
Current(d) == Min(dispatcher[d].todo)

RoutesEvent(d, pc) == dispatcher[d].pc = pc /\ dispatcher[d].todo # {}

\* Current(d) is behind us, routed or not.
Routed(d, result) ==
  [dispatcher[d] EXCEPT !.pc = "route", !.todo = @ \ {Current(d)}, ![result] = @ \cup {Current(d)}]

\* queue.add with a job id: a job that Redis still knows is not added again.
Add(j) ==
  /\ job' = IF job[j].state = "none" THEN [job EXCEPT ![j].state = "waiting"] ELSE job
  /\ queued' = queued \cup {j}

RejectMalformed(d) ==
  /\ RoutesEvent(d, "route")
  /\ Current(d) \in Malformed
  /\ dispatcher' = [dispatcher EXCEPT ![d] = Routed(d, "failed")]
  /\ UNCHANGED <<outbox, job, queued, worker, runs, acted, noticed, redisErrors, faults>>

AddNotify(d) ==
  /\ RoutesEvent(d, "route")
  /\ Current(d) \notin Malformed
  /\ Add(<<Current(d), "notify">>)
  /\ dispatcher' = [dispatcher EXCEPT ![d] = IF Current(d) = Trigger
                                               THEN [dispatcher[d] EXCEPT !.pc = "automations"]
                                               ELSE Routed(d, "done")]
  /\ UNCHANGED <<outbox, worker, runs, acted, noticed, redisErrors, faults>>

AddAutomations(d) ==
  /\ RoutesEvent(d, "automations")
  /\ Add(<<Current(d), "automations">>)
  /\ dispatcher' = [dispatcher EXCEPT ![d] = Routed(d, "done")]
  /\ UNCHANGED <<outbox, worker, runs, acted, noticed, redisErrors, faults>>

\* Mutant of AddRejected: an event some of whose jobs were queued is done.
RejectedIsDone(d) ==
  /\ redisErrors < MaxRedisErrors
  /\ redisErrors' = redisErrors + 1
  /\ dispatcher[d].todo # {}
  /\ dispatcher' = [dispatcher EXCEPT ![d] = Routed(d, "done")]
  /\ UNCHANGED <<outbox, job, queued, worker, runs, acted, noticed, faults>>

\* Redis is there but refuses the command.  While it is not there, add waits:
\* the client has no limit of retries.
AddRejected(d) ==
  /\ redisErrors < MaxRedisErrors
  /\ redisErrors' = redisErrors + 1
  /\ dispatcher[d].todo # {}
  /\ Current(d) \notin Malformed
  /\ dispatcher' = [dispatcher EXCEPT ![d] = Routed(d, "failed")]
  /\ UNCHANGED <<outbox, job, queued, worker, runs, acted, noticed, faults>>

\* Mutant of Marked: the failed attempt is not counted.
MarkedUncounted(d, e) ==
  IF e \in dispatcher[d].done THEN [outbox[e] EXCEPT !.status = "published"] ELSE outbox[e]

\* The two updates at the end of the batch.
Marked(d, e) ==
  IF e \in dispatcher[d].done THEN [outbox[e] EXCEPT !.status = "published"]
  ELSE IF e \in dispatcher[d].failed THEN [outbox[e] EXCEPT !.attempts = @ + 1]
  ELSE outbox[e]

\* They fail, with nothing written, in a transaction that has timed out.
Mark(d) ==
  /\ dispatcher[d].pc = "route" /\ dispatcher[d].todo = {}
  /\ outbox' = IF dispatcher[d].live THEN [e \in Events |-> Marked(d, e)] ELSE outbox
  /\ dispatcher' = [dispatcher EXCEPT ![d] = IdlePoller]
  /\ UNCHANGED <<job, queued, worker, runs, acted, noticed, redisErrors, faults>>

\* The transaction outlives its timeout: the database rolls it back and the
\* rows are free, while the loop goes on.
Expire(d) ==
  /\ faults < MaxFaults
  /\ faults' = faults + 1
  /\ dispatcher[d].live
  /\ dispatcher' = [dispatcher EXCEPT ![d].live = FALSE]
  /\ UNCHANGED <<outbox, job, queued, worker, runs, acted, noticed, redisErrors>>

CrashDispatcher(d) ==
  /\ faults < MaxFaults
  /\ faults' = faults + 1
  /\ dispatcher[d].pc # "idle"
  /\ dispatcher' = [dispatcher EXCEPT ![d] = IdlePoller]
  /\ UNCHANGED <<outbox, job, queued, worker, runs, acted, noticed, redisErrors>>

-----------------------------------------------------------------------------
(***************************************************************************)
(* The queue: BullMQ keeps a job until it is completed and then evicted.   *)
(***************************************************************************)
Take(w, j) ==
  /\ worker[w].pc = "idle"
  /\ job[j].state = "waiting"
  /\ job' = [job EXCEPT ![j].state = "active", ![j].owner = w]
  /\ worker' = [worker EXCEPT ![w] = [pc |-> j[2], job |-> j,
                                      todo |-> IF j[2] = "automations" THEN Rules ELSE {}]]
  /\ UNCHANGED <<outbox, dispatcher, queued, runs, acted, noticed, redisErrors, faults>>

\* The lock of the job expires, because its worker died or hangs: it is given
\* out again, and a second time it fails.
Released(j) ==
  [job EXCEPT ![j].owner = None, ![j].stalled = TRUE,
              ![j].state = IF job[j].stalled THEN "failed" ELSE "waiting"]

RecoverStalled(j) ==
  /\ job[j].state = "active"
  /\ worker[job[j].owner].job # j
  /\ job' = Released(j)
  /\ UNCHANGED <<outbox, dispatcher, queued, worker, runs, acted, noticed, redisErrors, faults>>

Stall(j) ==
  /\ faults < MaxFaults
  /\ faults' = faults + 1
  /\ job[j].state = "active"
  /\ worker[job[j].owner].job = j
  /\ job' = Released(j)
  /\ UNCHANGED <<outbox, dispatcher, queued, worker, runs, acted, noticed, redisErrors>>

\* A completed job is forgotten, and its id can be used again.
Evict(j) ==
  /\ faults < MaxFaults
  /\ faults' = faults + 1
  /\ job[j].state = "done"
  /\ job' = [job EXCEPT ![j] = NoJob]
  /\ UNCHANGED <<outbox, dispatcher, queued, worker, runs, acted, noticed, redisErrors>>

-----------------------------------------------------------------------------
(***************************************************************************)
(* The workers.                                                            *)
(***************************************************************************)

\* processNotification.
Notify(w) ==
  /\ worker[w].pc = "notify"
  /\ noticed' = noticed \cup {worker[w].job[1]}
  /\ worker' = [worker EXCEPT ![w].pc = "finish"]
  /\ UNCHANGED <<outbox, dispatcher, job, queued, runs, acted, redisErrors, faults>>

\* Mutant of RunRule: the job id alone is trusted to prevent a second run.
RunRuleUnclaimed(w, r) ==
  LET e == worker[w].job[1] IN
  /\ worker[w].pc = "automations"
  /\ r \in worker[w].todo
  /\ runs' = runs \cup {<<r, e>>}
  /\ acted' = [acted EXCEPT ![<<r, e>>] = @ + 1]
  /\ outbox' = IF r = TaskRule THEN [outbox EXCEPT ![TaskEvent].status = "new"] ELSE outbox
  /\ worker' = [worker EXCEPT ![w].todo = @ \ {r}]
  /\ UNCHANGED <<dispatcher, job, queued, noticed, redisErrors, faults>>

\* processCustomAutomations, one rule: the run is claimed and the action taken
\* in one transaction; a task leaves its own event in the outbox.
RunRule(w, r) ==
  LET e == worker[w].job[1] IN
  /\ worker[w].pc = "automations"
  /\ r \in worker[w].todo
  /\ IF <<r, e>> \in runs
       THEN UNCHANGED <<runs, acted, outbox>>
       ELSE /\ runs' = runs \cup {<<r, e>>}
            /\ acted' = [acted EXCEPT ![<<r, e>>] = @ + 1]
            /\ outbox' = IF r = TaskRule THEN [outbox EXCEPT ![TaskEvent].status = "new"] ELSE outbox
  /\ worker' = [worker EXCEPT ![w].todo = @ \ {r}]
  /\ UNCHANGED <<dispatcher, job, queued, noticed, redisErrors, faults>>

\* Its transaction fails: a warning, and the next rule.
SkipRule(w, r) ==
  /\ faults < MaxFaults
  /\ faults' = faults + 1
  /\ worker[w].pc = "automations"
  /\ r \in worker[w].todo
  /\ worker' = [worker EXCEPT ![w].todo = @ \ {r}]
  /\ UNCHANGED <<outbox, dispatcher, job, queued, runs, acted, noticed, redisErrors>>

\* The result of the processor reaches Redis, if the job is still this worker's.
Finish(w) ==
  LET j == worker[w].job IN
  /\ worker[w].pc = "finish" \/ (worker[w].pc = "automations" /\ worker[w].todo = {})
  /\ job' = IF job[j].owner = w THEN [job EXCEPT ![j].state = "done", ![j].owner = None] ELSE job
  /\ worker' = [worker EXCEPT ![w] = IdleWorker]
  /\ UNCHANGED <<outbox, dispatcher, queued, runs, acted, noticed, redisErrors, faults>>

\* The processor throws before it did anything: the job is tried again.
Throw(w) ==
  LET j == worker[w].job IN
  /\ faults < MaxFaults
  /\ faults' = faults + 1
  /\ worker[w].pc = "notify" \/ (worker[w].pc = "automations" /\ worker[w].todo = Rules)
  /\ job' = IF job[j].owner = w
              THEN [job EXCEPT ![j].state = IF job[j].tries + 1 < MaxTries THEN "waiting" ELSE "failed",
                               ![j].owner = None, ![j].tries = @ + 1]
              ELSE job
  /\ worker' = [worker EXCEPT ![w] = IdleWorker]
  /\ UNCHANGED <<outbox, dispatcher, queued, runs, acted, noticed, redisErrors>>

CrashWorker(w) ==
  /\ faults < MaxFaults
  /\ faults' = faults + 1
  /\ worker[w].pc # "idle"
  /\ worker' = [worker EXCEPT ![w] = IdleWorker]
  /\ UNCHANGED <<outbox, dispatcher, job, queued, runs, acted, noticed, redisErrors>>

-----------------------------------------------------------------------------
DispatchStep(d) ==
  ClaimBatch(d) \/ RejectMalformed(d) \/ AddNotify(d) \/ AddAutomations(d) \/ Mark(d)

WorkStep(w) ==
  \/ \E j \in Jobs : Take(w, j)
  \/ Notify(w)
  \/ \E r \in Rules : RunRule(w, r)
  \/ Finish(w)

Next ==
  \/ \E e \in Events : Emit(e)
  \/ \E d \in Dispatchers : DispatchStep(d) \/ AddRejected(d) \/ Expire(d) \/ CrashDispatcher(d)
  \/ \E j \in Jobs : RecoverStalled(j) \/ Stall(j) \/ Evict(j)
  \/ \E w \in Workers : WorkStep(w) \/ Throw(w) \/ CrashWorker(w) \/ \E r \in Rules : SkipRule(w, r)

Spec == Init /\ [][Next]_vars

\* The pollers are timers, the workers take what waits, and the queue looks for
\* stalled jobs.
FairSpec ==
  /\ Spec
  /\ \A d \in Dispatchers : WF_vars(DispatchStep(d))
  /\ \A w \in Workers : WF_vars(WorkStep(w))
  /\ \A j \in Jobs : WF_vars(RecoverStalled(j))

-----------------------------------------------------------------------------
\* Every variable keeps to its type.
TypeOK ==
  /\ outbox \in [Events -> [status : {"absent", "new", "published"}, attempts : 0 .. MaxAttempts]]
  /\ dispatcher \in [Dispatchers -> [pc : {"idle", "route", "automations"}, live : BOOLEAN,
                                     todo : SUBSET Events, done : SUBSET Events, failed : SUBSET Events]]
  /\ job \in [Jobs -> [state : {"none", "waiting", "active", "done", "failed"},
                       owner : Workers \cup {None}, tries : Nat, stalled : BOOLEAN]]
  /\ queued \in SUBSET Jobs
  /\ worker \in [Workers -> [pc : {"idle", "notify", "automations", "finish"},
                             job : Jobs \cup {None}, todo : SUBSET Rules]]
  /\ runs \in SUBSET (Rules \X Events)
  /\ acted \in [Rules \X Events -> Nat]
  /\ noticed \in SUBSET Events
  /\ redisErrors \in Nat
  /\ faults \in Nat

\* A rule acts at most once on an event, though batches are rolled back after
\* their jobs were queued, ids are forgotten and stalled jobs are run by two
\* workers at once (automation_runs).
RuleActsOnce == \A x \in Rules \X Events : acted[x] <= 1

\* An event is marked published only when all of its jobs were accepted: a job
\* refused after another one was queued must bring the event back.
PublishedWasQueued ==
  \A e \in Events : outbox[e].status = "published" =>
    /\ <<e, "notify">> \in queued
    /\ e = Trigger => <<e, "automations">> \in queued

\* An event that committed reaches its recipient, or its job failed for good; an
\* event no schema accepts does not keep the younger ones waiting for ever.
EventuallyDelivered ==
  \A e \in Events \ Malformed :
    (outbox[e].status = "new") ~> (e \in noticed \/ job[<<e, "notify">>].state = "failed")

\* "A failure of Redis loses no event": an event with a valid payload is never
\* left in the outbox out of everybody's sight.
NoEventAbandoned ==
  \A e \in Events \ Malformed : outbox[e].status = "new" => outbox[e].attempts < MaxAttempts
===============================================================================
