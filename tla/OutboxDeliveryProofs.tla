------------------------- MODULE OutboxDeliveryProofs -------------------------
(***************************************************************************)
(* For any number of replicas, workers, events, rules and faults: no rule  *)
(* acts twice on an event, and what is published was queued.               *)
(***************************************************************************)
EXTENDS OutboxDelivery, WellFoundedInduction, TLAPS

\* A worker that is not idle has a job.
WorkerHasJob == \A w \in Workers : worker[w].pc # "idle" => worker[w].job \in Jobs

\* The action of a rule and its row in automation_runs go together.
ActedAsRecorded == \A x \in Rules \X Events : acted[x] = IF x \in runs THEN 1 ELSE 0

\* FOR UPDATE SKIP LOCKED: an open batch has its rows for itself, as it read them.
BatchIsHeld ==
  \A d \in Dispatchers : dispatcher[d].live =>
    /\ \A e \in Batch(d) : outbox[e].attempts < MaxAttempts
    /\ \A c \in Dispatchers : dispatcher[c].live /\ c # d => Batch(c) \cap Batch(d) = {}

Queued(e) == <<e, "notify">> \in queued /\ (e = Trigger => <<e, "automations">> \in queued)

\* What a batch, rolled back or not, counts as done has all of its jobs in Redis.
DoneWasQueued == \A d \in Dispatchers : \A e \in dispatcher[d].done : Queued(e)

\* Between the two jobs of an event, the first one is in Redis.
HalfRouted ==
  \A d \in Dispatchers : dispatcher[d].pc = "automations" =>
    dispatcher[d].todo # {} /\ <<Current(d), "notify">> \in queued

IInv ==
  /\ TypeOK
  /\ WorkerHasJob
  /\ ActedAsRecorded
  /\ BatchIsHeld
  /\ DoneWasQueued
  /\ HalfRouted
  /\ PublishedWasQueued

\* A set of numbers that is not empty has a least one.
LEMMA MinIsMember ==
  ASSUME NEW S \in SUBSET Nat, S # {}
  PROVE  Min(S) \in S
<1> DEFINE Less == {pair \in Nat \X Nat : pair[1] < pair[2]}
<1>1. IsWellFoundedOn(Less, Nat)
  BY NatLessThanWellFounded DEF OpToRel
<1>2. \A x, y \in Nat : <<y, x>> \in Less <=> y < x
  OBVIOUS
<1> HIDE DEF Less
<1>3. PICK x \in S : \A y \in S : ~(<<y, x>> \in Less)
  BY <1>1, WFMin
<1>4. \A y \in S : ~(y < x)
  BY <1>2, <1>3
<1>5. \A y \in S : x <= y
  BY <1>4
<1> QED
  BY <1>5 DEF Min

RowType    == [status : {"absent", "new", "published"}, attempts : 0 .. MaxAttempts]
PollerType == [pc : {"idle", "route", "automations"}, live : BOOLEAN,
               todo : SUBSET Events, done : SUBSET Events, failed : SUBSET Events]
JobType    == [state : {"none", "waiting", "active", "done", "failed"},
               owner : Workers \cup {None}, tries : Nat, stalled : BOOLEAN]
WorkerType == [pc : {"idle", "notify", "automations", "finish"},
               job : Jobs \cup {None}, todo : SUBSET Rules]

\* No event, no job.
LEMMA InitIInv == Init => IInv
<1> SUFFICES ASSUME Init PROVE IInv
  OBVIOUS
<1> USE OutboxAssumption DEF Init, IdlePoller, IdleWorker, NoJob
<1>1. TypeOK
  BY DEF TypeOK
<1>2. WorkerHasJob /\ ActedAsRecorded
  BY DEF WorkerHasJob, ActedAsRecorded
<1>3. BatchIsHeld /\ DoneWasQueued /\ HalfRouted
  BY DEF BatchIsHeld, DoneWasQueued, HalfRouted
<1>4. PublishedWasQueued
  BY DEF PublishedWasQueued
<1> QED
  BY <1>1, <1>2, <1>3, <1>4 DEF IInv

\* What the batches know stays true while no replica moves and no attempt is counted.
LEMMA PollersUndisturbed ==
  ASSUME IInv, UNCHANGED <<dispatcher, queued>>,
         \A e \in Events : /\ outbox'[e].attempts = outbox[e].attempts
                           /\ outbox'[e].status = "published" => outbox[e].status = "published"
  PROVE  BatchIsHeld' /\ DoneWasQueued' /\ HalfRouted' /\ PublishedWasQueued'
<1> USE DEF IInv
<1>1. BatchIsHeld'
  <2>1. \A d \in Dispatchers : Batch(d)' = Batch(d) /\ Batch(d) \subseteq Events
    BY DEF Batch, TypeOK
  <2> QED
    BY <2>1 DEF BatchIsHeld
<1>2. DoneWasQueued' /\ HalfRouted'
  BY DEF DoneWasQueued, HalfRouted, Queued, Current
<1>3. PublishedWasQueued'
  BY DEF PublishedWasQueued
<1> QED
  BY <1>1, <1>2, <1>3

\* A replica goes on with its batch, or gives it up, and writes nothing.
LEMMA PollerMoves ==
  ASSUME IInv, NEW d \in Dispatchers, NEW p \in PollerType,
         dispatcher' = [dispatcher EXCEPT ![d] = p],
         outbox' = outbox, queued \subseteq queued',
         p.live => dispatcher[d].live /\ p.todo \cup p.done \cup p.failed \subseteq Batch(d),
         \A e \in p.done : Queued(e)',
         p.pc = "automations" => p.todo # {} /\ <<Min(p.todo), "notify">> \in queued'
  PROVE  /\ dispatcher' \in [Dispatchers -> PollerType]
         /\ BatchIsHeld' /\ DoneWasQueued' /\ HalfRouted' /\ PublishedWasQueued'
<1> USE DEF IInv
<1>1. dispatcher \in [Dispatchers -> PollerType]
  BY DEF TypeOK, PollerType
<1>2. dispatcher'[d] = p /\ \A c \in Dispatchers : c # d => dispatcher'[c] = dispatcher[c]
  BY <1>1
<1>3. BatchIsHeld'
  <2>1. \A c \in Dispatchers : dispatcher'[c].live =>
          dispatcher[c].live /\ Batch(c)' \subseteq Batch(c)
    BY <1>2 DEF Batch
  <2> QED
    BY <2>1 DEF BatchIsHeld
<1>4. DoneWasQueued'
  BY <1>2 DEF DoneWasQueued, Queued
<1>5. HalfRouted'
  BY <1>2 DEF HalfRouted, Current
<1>6. PublishedWasQueued'
  BY DEF PublishedWasQueued
<1> QED
  BY <1>1, <1>3, <1>4, <1>5, <1>6

\* The event a replica is at belongs to its batch.
LEMMA CurrentInTodo ==
  ASSUME IInv, NEW d \in Dispatchers, dispatcher[d].todo # {}
  PROVE  Current(d) \in dispatcher[d].todo /\ Current(d) \in Events
<1>1. dispatcher[d].todo \subseteq Events
  BY DEF IInv, TypeOK
<1>2. dispatcher[d].todo \in SUBSET Nat
  BY <1>1, OutboxAssumption
<1> QED
  BY <1>1, <1>2, MinIsMember DEF Current

\* The poller once Current(d) is behind it.
LEMMA RoutedPoller ==
  ASSUME IInv, NEW d \in Dispatchers, dispatcher[d].todo # {}, NEW result \in {"done", "failed"}
  PROVE  /\ Routed(d, result) \in PollerType
         /\ Routed(d, result).pc = "route"
         /\ Routed(d, result).live = dispatcher[d].live
         /\ Routed(d, result).todo \cup Routed(d, result).done \cup Routed(d, result).failed
              \subseteq Batch(d)
         /\ Routed(d, result).done =
              IF result = "done" THEN dispatcher[d].done \cup {Current(d)} ELSE dispatcher[d].done
<1>1. dispatcher[d] \in PollerType
  BY DEF IInv, TypeOK, PollerType
<1>2. Current(d) \in dispatcher[d].todo /\ Current(d) \in Events
  BY CurrentInTodo
<1>3. CASE result = "done"
  BY <1>1, <1>2, <1>3 DEF Routed, PollerType, Batch
<1>4. CASE result = "failed"
  BY <1>1, <1>2, <1>4 DEF Routed, PollerType, Batch
<1> QED
  BY <1>3, <1>4

LEMMA AddQueues ==
  ASSUME IInv, NEW j \in Jobs, Add(j)
  PROVE  /\ job' \in [Jobs -> JobType]
         /\ queued' \in SUBSET Jobs
         /\ queued' = queued \cup {j}
<1>1. job \in [Jobs -> JobType] /\ queued \in SUBSET Jobs
  BY DEF IInv, TypeOK, JobType
<1>2. [job[j] EXCEPT !.state = "waiting"] \in JobType
  BY <1>1 DEF JobType
<1> QED
  BY <1>1, <1>2 DEF Add

\* What a replica leaves to the workers is left as it was.
LEMMA WorkersUndisturbed ==
  ASSUME IInv, UNCHANGED <<worker, runs, acted>>
  PROVE  WorkerHasJob' /\ ActedAsRecorded'
BY DEF IInv, WorkerHasJob, ActedAsRecorded

\* An event enters the outbox.
LEMMA EmitStep ==
  ASSUME IInv, NEW e \in Events, Emit(e)
  PROVE  IInv'
<1> USE DEF Emit
<1>1. outbox \in [Events -> RowType]
  BY DEF IInv, TypeOK, RowType
<1>2. [outbox[e] EXCEPT !.status = "new"] \in RowType
  BY <1>1 DEF RowType
<1>3. outbox' \in [Events -> RowType]
  BY <1>1, <1>2
<1>4. TypeOK'
  BY <1>3 DEF IInv, TypeOK, RowType
<1>5. BatchIsHeld' /\ DoneWasQueued' /\ HalfRouted' /\ PublishedWasQueued'
  BY <1>1, PollersUndisturbed DEF RowType
<1>6. WorkerHasJob' /\ ActedAsRecorded'
  BY WorkersUndisturbed
<1> QED
  BY <1>4, <1>5, <1>6 DEF IInv

\* SKIP LOCKED gives a replica rows that nobody else has, with attempts left.
LEMMA ClaimBatchStep ==
  ASSUME IInv, NEW d \in Dispatchers, ClaimBatch(d)
  PROVE  IInv'
<1> DEFINE p == [pc |-> "route", live |-> TRUE, done |-> {}, failed |-> {},
                 todo |-> Oldest(Eligible, BatchSize)]
<1>1. dispatcher \in [Dispatchers -> PollerType] /\ dispatcher' = [dispatcher EXCEPT ![d] = p]
  BY DEF IInv, TypeOK, PollerType, ClaimBatch
<1>2. p.todo \subseteq Eligible /\ p \in PollerType
  BY DEF Oldest, Eligible, PollerType
<1> HIDE DEF p
<1>3. dispatcher'[d] = p /\ \A c \in Dispatchers : c # d => dispatcher'[c] = dispatcher[c]
  BY <1>1
<1>4. Batch(d)' \subseteq Eligible /\ \A c \in Dispatchers : c # d => Batch(c)' = Batch(c)
  BY <1>2, <1>3 DEF Batch, p
<1>5. UNCHANGED <<outbox, job, queued, worker, runs, acted, noticed, redisErrors, faults>>
  BY DEF ClaimBatch
<1>6. TypeOK'
  <2>1. dispatcher' \in [Dispatchers -> PollerType]
    BY <1>1, <1>2
  <2> QED
    BY <2>1, <1>5 DEF IInv, TypeOK, PollerType
<1>7. BatchIsHeld'
  <2>1. \A e \in Batch(d)' : outbox[e].attempts < MaxAttempts /\ e \notin Held
    BY <1>4 DEF Eligible
  <2>2. \A c \in Dispatchers : dispatcher[c].live => Batch(c) \subseteq Held
    BY DEF Held
  <2>3. \A c \in Dispatchers : c # d /\ dispatcher'[c].live => Batch(c)' \cap Batch(d)' = {}
    BY <1>3, <1>4, <2>1, <2>2
  <2>4. \A c \in Dispatchers : c # d => dispatcher'[c].live = dispatcher[c].live /\ Batch(c)' = Batch(c)
    BY <1>3, <1>4
  <2> QED
    BY <1>5, <2>1, <2>3, <2>4 DEF IInv, BatchIsHeld
<1>8. DoneWasQueued' /\ HalfRouted'
  BY <1>3, <1>5 DEF IInv, DoneWasQueued, HalfRouted, Queued, Current, p
<1>9. PublishedWasQueued'
  BY <1>5 DEF IInv, PublishedWasQueued
<1>10. WorkerHasJob' /\ ActedAsRecorded'
  BY <1>5, WorkersUndisturbed
<1> QED
  BY <1>6, <1>7, <1>8, <1>9, <1>10 DEF IInv

\* An event counts as failed: nobody's payload fits it, or Redis refused a job.
LEMMA FailStep ==
  ASSUME IInv, NEW d \in Dispatchers, dispatcher[d].todo # {},
         dispatcher' = [dispatcher EXCEPT ![d] = Routed(d, "failed")], redisErrors' \in Nat,
         UNCHANGED <<outbox, job, queued, worker, runs, acted, noticed, faults>>
  PROVE  IInv'
<1>1. \A e \in Routed(d, "failed").done : Queued(e)'
  BY RoutedPoller DEF IInv, DoneWasQueued, Queued
<1>2. /\ dispatcher' \in [Dispatchers -> PollerType]
      /\ BatchIsHeld' /\ DoneWasQueued' /\ HalfRouted' /\ PublishedWasQueued'
  BY <1>1, RoutedPoller, PollerMoves
<1>3. TypeOK'
  BY <1>2 DEF IInv, TypeOK, PollerType
<1>4. WorkerHasJob' /\ ActedAsRecorded'
  BY WorkersUndisturbed
<1> QED
  BY <1>2, <1>3, <1>4 DEF IInv

\* The first job of an event; one without rules is done with it.
LEMMA AddNotifyStep ==
  ASSUME IInv, NEW d \in Dispatchers, AddNotify(d)
  PROVE  IInv'
<1> DEFINE half == [dispatcher[d] EXCEPT !.pc = "automations"]
<1>1. /\ dispatcher[d].todo # {}
      /\ Add(<<Current(d), "notify">>)
      /\ UNCHANGED <<outbox, worker, runs, acted, noticed, redisErrors, faults>>
  BY DEF AddNotify, RoutesEvent
<1>2. PICK e \in Events : e = Current(d) /\ <<e, "notify">> \in Jobs
  BY <1>1, CurrentInTodo DEF Jobs, Kinds
<1>3. /\ job' \in [Jobs -> JobType] /\ queued' \in SUBSET Jobs
      /\ queued' = queued \cup {<<e, "notify">>}
  BY <1>1, <1>2, AddQueues
<1>4. \A f \in dispatcher[d].done : Queued(f)'
  BY <1>3 DEF IInv, DoneWasQueued, Queued
<1>5. /\ dispatcher' \in [Dispatchers -> PollerType]
      /\ BatchIsHeld' /\ DoneWasQueued' /\ HalfRouted' /\ PublishedWasQueued'
  <2>1. CASE e = Trigger
    <3>1. dispatcher' = [dispatcher EXCEPT ![d] = half]
      BY <1>2, <2>1 DEF AddNotify
    <3>0. dispatcher[d] \in PollerType
      BY DEF IInv, TypeOK, PollerType
    <3>2. half \in PollerType /\ half.live = dispatcher[d].live /\ half.pc = "automations"
      BY <3>0 DEF PollerType
    <3>3. half.todo = dispatcher[d].todo /\ half.done = dispatcher[d].done
            /\ half.failed = dispatcher[d].failed
      BY DEF IInv, TypeOK
    <3>4. half.todo \cup half.done \cup half.failed \subseteq Batch(d)
      BY <3>3 DEF Batch
    <3>5. half.todo # {} /\ <<Min(half.todo), "notify">> \in queued'
      BY <1>1, <1>2, <1>3, <3>3 DEF Current
    <3> HIDE DEF half
    <3> QED
      BY <1>1, <1>3, <1>4, <3>1, <3>2, <3>3, <3>4, <3>5, PollerMoves
  <2>2. CASE e # Trigger
    <3>1. dispatcher' = [dispatcher EXCEPT ![d] = Routed(d, "done")]
      BY <1>2, <2>2 DEF AddNotify
    <3>2. Routed(d, "done").done = dispatcher[d].done \cup {e}
      BY <1>1, <1>2, RoutedPoller
    <3>3. Queued(e)'
      BY <1>3, <2>2 DEF Queued
    <3>4. \A f \in Routed(d, "done").done : Queued(f)'
      BY <1>4, <3>2, <3>3
    <3> QED
      BY <1>1, <1>3, <3>1, <3>4, RoutedPoller, PollerMoves
  <2> QED
    BY <2>1, <2>2
<1>6. TypeOK'
  BY <1>1, <1>3, <1>5 DEF IInv, TypeOK, PollerType, JobType
<1>7. WorkerHasJob' /\ ActedAsRecorded'
  BY <1>1, WorkersUndisturbed
<1> QED
  BY <1>5, <1>6, <1>7 DEF IInv

\* The second job: the first one is in Redis by now.
LEMMA AddAutomationsStep ==
  ASSUME IInv, NEW d \in Dispatchers, AddAutomations(d)
  PROVE  IInv'
<1>1. /\ dispatcher[d].pc = "automations" /\ dispatcher[d].todo # {}
      /\ Add(<<Current(d), "automations">>)
      /\ dispatcher' = [dispatcher EXCEPT ![d] = Routed(d, "done")]
      /\ UNCHANGED <<outbox, worker, runs, acted, noticed, redisErrors, faults>>
  BY DEF AddAutomations, RoutesEvent
<1>2. PICK e \in Events : e = Current(d) /\ <<e, "automations">> \in Jobs
  BY <1>1, CurrentInTodo DEF Jobs, Kinds
<1>3. /\ job' \in [Jobs -> JobType] /\ queued' \in SUBSET Jobs
      /\ queued' = queued \cup {<<e, "automations">>}
  BY <1>1, <1>2, AddQueues
<1>4. Queued(e)'
  BY <1>1, <1>2, <1>3 DEF IInv, HalfRouted, Queued
<1>5. Routed(d, "done").done = dispatcher[d].done \cup {e}
  BY <1>1, <1>2, RoutedPoller
<1>6. \A f \in Routed(d, "done").done : Queued(f)'
  BY <1>3, <1>4, <1>5 DEF IInv, DoneWasQueued, Queued
<1>7. /\ dispatcher' \in [Dispatchers -> PollerType]
      /\ BatchIsHeld' /\ DoneWasQueued' /\ HalfRouted' /\ PublishedWasQueued'
  BY <1>1, <1>3, <1>6, RoutedPoller, PollerMoves
<1>8. TypeOK'
  BY <1>1, <1>3, <1>7 DEF IInv, TypeOK, PollerType, JobType
<1>9. WorkerHasJob' /\ ActedAsRecorded'
  BY <1>1, WorkersUndisturbed
<1> QED
  BY <1>7, <1>8, <1>9 DEF IInv

\* A batch is lost, or goes on without its transaction.
LEMMA LoseBatchStep ==
  ASSUME IInv, NEW d \in Dispatchers, Expire(d) \/ CrashDispatcher(d)
  PROVE  IInv'
<1>1. UNCHANGED <<outbox, job, queued, worker, runs, acted, noticed, redisErrors>> /\ faults' \in Nat
  BY DEF Expire, CrashDispatcher, IInv, TypeOK
<1>2. /\ dispatcher' \in [Dispatchers -> PollerType]
      /\ BatchIsHeld' /\ DoneWasQueued' /\ HalfRouted' /\ PublishedWasQueued'
  <2>1. CASE Expire(d)
    <3> DEFINE p == [dispatcher[d] EXCEPT !.live = FALSE]
    <3>1. dispatcher' = [dispatcher EXCEPT ![d] = p]
      BY <2>1 DEF Expire
    <3>0. dispatcher[d] \in PollerType
      BY DEF IInv, TypeOK, PollerType
    <3>2. /\ p \in PollerType /\ p.live = FALSE /\ p.done = dispatcher[d].done
          /\ p.pc = dispatcher[d].pc /\ p.todo = dispatcher[d].todo
      BY <3>0 DEF PollerType
    <3> HIDE DEF p
    <3>3. \A e \in p.done : Queued(e)'
      BY <1>1, <3>2 DEF IInv, DoneWasQueued, Queued
    <3>4. p.pc = "automations" => p.todo # {} /\ <<Min(p.todo), "notify">> \in queued'
      BY <1>1, <3>2 DEF IInv, HalfRouted, Current
    <3> QED
      BY <1>1, <3>1, <3>2, <3>3, <3>4, PollerMoves
  <2>2. CASE CrashDispatcher(d)
    <3>1. dispatcher' = [dispatcher EXCEPT ![d] = IdlePoller]
      BY <2>2 DEF CrashDispatcher
    <3>2. /\ IdlePoller \in PollerType /\ IdlePoller.live = FALSE
          /\ IdlePoller.done = {} /\ IdlePoller.pc = "idle"
      BY DEF IdlePoller, PollerType
    <3> QED
      BY <1>1, <3>1, <3>2, PollerMoves
  <2> QED
    BY <2>1, <2>2
<1>3. TypeOK'
  BY <1>1, <1>2 DEF IInv, TypeOK, PollerType
<1>4. WorkerHasJob' /\ ActedAsRecorded'
  BY <1>1, WorkersUndisturbed
<1> QED
  BY <1>2, <1>3, <1>4 DEF IInv

\* The end of a batch: the rows it held are written, and nobody else's.
LEMMA MarkStep ==
  ASSUME IInv, NEW d \in Dispatchers, Mark(d)
  PROVE  IInv'
<1>1. /\ dispatcher' = [dispatcher EXCEPT ![d] = IdlePoller]
      /\ UNCHANGED <<job, queued, worker, runs, acted, noticed, redisErrors, faults>>
      /\ outbox' = IF dispatcher[d].live THEN [e \in Events |-> Marked(d, e)] ELSE outbox
  BY DEF Mark
<1>2. /\ IdlePoller \in PollerType /\ IdlePoller.live = FALSE
      /\ IdlePoller.done = {} /\ IdlePoller.pc = "idle"
  BY DEF IdlePoller, PollerType
<1>3. outbox \in [Events -> RowType] /\ dispatcher \in [Dispatchers -> PollerType]
  BY DEF IInv, TypeOK, RowType, PollerType
<1>4. CASE ~dispatcher[d].live
  <2>1. outbox' = outbox
    BY <1>1, <1>4
  <2>2. /\ dispatcher' \in [Dispatchers -> PollerType]
        /\ BatchIsHeld' /\ DoneWasQueued' /\ HalfRouted' /\ PublishedWasQueued'
    BY <1>1, <1>2, <2>1, PollerMoves
  <2>3. TypeOK'
    BY <1>1, <2>1, <2>2 DEF IInv, TypeOK, PollerType
  <2>4. WorkerHasJob' /\ ActedAsRecorded'
    BY <1>1, WorkersUndisturbed
  <2> QED
    BY <2>2, <2>3, <2>4 DEF IInv
<1>5. CASE dispatcher[d].live
  <2>1. outbox' = [e \in Events |-> Marked(d, e)]
    BY <1>1, <1>5
  <2>2. ASSUME NEW e \in Events, e \in dispatcher[d].failed
        PROVE  outbox[e].attempts + 1 \in 0 .. MaxAttempts
    <3>1. outbox[e].attempts < MaxAttempts
      BY <1>5, <2>2 DEF IInv, BatchIsHeld, Batch
    <3>2. outbox[e].attempts \in 0 .. MaxAttempts
      BY <1>3 DEF RowType
    <3> QED
      BY <3>1, <3>2, OutboxAssumption
  <2>3. \A e \in Events : Marked(d, e) \in RowType
    <3> SUFFICES ASSUME NEW e \in Events PROVE Marked(d, e) \in RowType
      OBVIOUS
    <3>1. outbox[e] \in RowType
      BY <1>3
    <3>2. [outbox[e] EXCEPT !.status = "published"] \in RowType
      BY <3>1 DEF RowType
    <3>3. e \in dispatcher[d].failed => [outbox[e] EXCEPT !.attempts = @ + 1] \in RowType
      BY <2>2, <3>1 DEF RowType
    <3> QED
      BY <3>1, <3>2, <3>3 DEF Marked
  <2>4. dispatcher' \in [Dispatchers -> PollerType]
    BY <1>1, <1>2, <1>3
  <2>5. TypeOK'
    BY <1>1, <2>1, <2>3, <2>4 DEF IInv, TypeOK, RowType, PollerType
  <2>6. dispatcher'[d] = IdlePoller /\ \A c \in Dispatchers : c # d => dispatcher'[c] = dispatcher[c]
    BY <1>1, <1>3
  <2>7. BatchIsHeld'
    <3>1. \A c \in Dispatchers : dispatcher'[c].live =>
            c # d /\ dispatcher[c].live /\ Batch(c)' = Batch(c)
      BY <1>2, <2>6 DEF Batch
    <3>2. \A e \in Events : e \notin Batch(d) => outbox'[e] = outbox[e]
      BY <2>1 DEF Marked, Batch
    <3>3. \A c \in Dispatchers : Batch(c) \subseteq Events
      BY <1>3 DEF Batch, PollerType
    <3>4. \A c \in Dispatchers : dispatcher'[c].live =>
            \A e \in Batch(c)' : outbox'[e].attempts < MaxAttempts
      BY <1>5, <3>1, <3>2, <3>3 DEF IInv, BatchIsHeld
    <3> QED
      BY <3>1, <3>4 DEF IInv, BatchIsHeld
  <2>8. DoneWasQueued' /\ HalfRouted'
    BY <1>1, <1>2, <2>6 DEF IInv, DoneWasQueued, HalfRouted, Queued, Current
  <2>9. PublishedWasQueued'
    <3>1. ASSUME NEW e \in Events, e \notin dispatcher[d].done
          PROVE  outbox'[e].status = outbox[e].status
      <4>1. outbox[e] \in RowType /\ outbox'[e] = Marked(d, e)
        BY <1>3, <2>1
      <4>2. [outbox[e] EXCEPT !.attempts = @ + 1].status = outbox[e].status
        BY <4>1 DEF RowType
      <4> QED
        BY <3>1, <4>1, <4>2 DEF Marked
    <3> QED
      BY <1>1, <3>1 DEF IInv, PublishedWasQueued, DoneWasQueued, Queued
  <2>10. WorkerHasJob' /\ ActedAsRecorded'
    BY <1>1, WorkersUndisturbed
  <2> QED
    BY <2>5, <2>7, <2>8, <2>9, <2>10 DEF IInv
<1> QED
  BY <1>4, <1>5

\* A job changes hands; the tables are not touched.
LEMMA QueueStep ==
  ASSUME IInv, job' \in [Jobs -> JobType], worker' \in [Workers -> WorkerType], WorkerHasJob', faults' \in Nat,
         UNCHANGED <<outbox, dispatcher, queued, runs, acted, redisErrors>>, noticed' \in SUBSET Events
  PROVE  IInv'
<1>1. TypeOK'
  BY DEF IInv, TypeOK, JobType, WorkerType
<1>2. BatchIsHeld' /\ DoneWasQueued' /\ HalfRouted' /\ PublishedWasQueued'
  BY PollersUndisturbed
<1>3. ActedAsRecorded'
  BY DEF IInv, ActedAsRecorded
<1> QED
  BY <1>1, <1>2, <1>3 DEF IInv

\* An update of some columns keeps a job to its type.
LEMMA JobReleased ==
  ASSUME NEW q \in [Jobs -> JobType], NEW j \in Jobs, NEW state \in {"waiting", "failed"},
         NEW stalled \in BOOLEAN
  PROVE  [q EXCEPT ![j].owner = None, ![j].stalled = stalled, ![j].state = state] \in [Jobs -> JobType]
<1>1. [[[q[j] EXCEPT !.owner = None] EXCEPT !.stalled = stalled] EXCEPT !.state = state] \in JobType
  BY DEF JobType
<1> QED
  BY <1>1

LEMMA JobThrown ==
  ASSUME NEW q \in [Jobs -> JobType], NEW j \in Jobs, NEW state \in {"waiting", "failed"}, NEW tries \in Nat
  PROVE  [q EXCEPT ![j].state = state, ![j].owner = None, ![j].tries = tries] \in [Jobs -> JobType]
<1>1. [[[q[j] EXCEPT !.state = state] EXCEPT !.owner = None] EXCEPT !.tries = tries] \in JobType
  BY DEF JobType
<1> QED
  BY <1>1

\* A worker is given a job that waits.
LEMMA TakeStep ==
  ASSUME IInv, NEW w \in Workers, NEW j \in Jobs, Take(w, j)
  PROVE  IInv'
<1> DEFINE busy == [pc |-> j[2], job |-> j, todo |-> IF j[2] = "automations" THEN Rules ELSE {}]
<1>1. /\ job \in [Jobs -> JobType] /\ worker \in [Workers -> WorkerType]
      /\ faults \in Nat /\ noticed \in SUBSET Events
  BY DEF IInv, TypeOK, JobType, WorkerType
<1>2. /\ job' = [job EXCEPT ![j].state = "active", ![j].owner = w]
      /\ worker' = [worker EXCEPT ![w] = busy]
      /\ UNCHANGED <<outbox, dispatcher, queued, runs, acted, noticed, redisErrors, faults>>
  BY DEF Take
<1>3. busy \in WorkerType /\ busy.job = j
  BY DEF WorkerType, Jobs, Kinds
<1> HIDE DEF busy
<1>4. job' \in [Jobs -> JobType]
  <2>1. [[job[j] EXCEPT !.state = "active"] EXCEPT !.owner = w] \in JobType
    BY <1>1 DEF JobType
  <2> QED
    BY <1>1, <1>2, <2>1
<1>5. worker' \in [Workers -> WorkerType]
  BY <1>1, <1>2, <1>3
<1>6. WorkerHasJob'
  BY <1>1, <1>2, <1>3 DEF IInv, WorkerHasJob
<1> QED
  BY <1>1, <1>2, <1>4, <1>5, <1>6, QueueStep

\* A job is taken from its worker, or forgotten once it is done.
LEMMA JobStep ==
  ASSUME IInv, NEW j \in Jobs, RecoverStalled(j) \/ Stall(j) \/ Evict(j)
  PROVE  IInv'
<1>1. /\ job \in [Jobs -> JobType] /\ worker \in [Workers -> WorkerType]
      /\ faults \in Nat /\ noticed \in SUBSET Events
  BY DEF IInv, TypeOK, JobType, WorkerType
<1>2. /\ UNCHANGED <<outbox, dispatcher, queued, worker, runs, acted, noticed, redisErrors>>
      /\ faults' \in Nat
  BY <1>1 DEF RecoverStalled, Stall, Evict
<1>3. job' \in [Jobs -> JobType]
  <2>1. CASE RecoverStalled(j) \/ Stall(j)
    <3>1. job' = Released(j)
      BY <2>1 DEF RecoverStalled, Stall
    <3>2. (IF job[j].stalled THEN "failed" ELSE "waiting") \in {"waiting", "failed"}
      OBVIOUS
    <3> QED
      BY <1>1, <3>1, <3>2, JobReleased DEF Released
  <2>2. CASE Evict(j)
    <3>1. job' = [job EXCEPT ![j] = NoJob] /\ NoJob \in JobType
      BY <2>2 DEF Evict, NoJob, JobType
    <3> QED
      BY <1>1, <3>1
  <2> QED
    BY <2>1, <2>2
<1>4. WorkerHasJob'
  BY <1>2 DEF IInv, WorkerHasJob
<1> QED
  BY <1>1, <1>2, <1>3, <1>4, QueueStep

\* A worker lets go of its job: done with it, unable to do it, or dead.
LEMMA ReleaseStep ==
  ASSUME IInv, NEW w \in Workers, Finish(w) \/ Throw(w) \/ CrashWorker(w)
  PROVE  IInv'
<1> DEFINE j == worker[w].job
<1>1. /\ job \in [Jobs -> JobType] /\ worker \in [Workers -> WorkerType]
      /\ faults \in Nat /\ noticed \in SUBSET Events
  BY DEF IInv, TypeOK, JobType, WorkerType
<1>2. /\ worker' = [worker EXCEPT ![w] = IdleWorker]
      /\ UNCHANGED <<outbox, dispatcher, queued, runs, acted, noticed, redisErrors>>
      /\ faults' \in Nat
  BY <1>1 DEF Finish, Throw, CrashWorker
<1>3. j \in Jobs
  BY DEF IInv, WorkerHasJob, Finish, Throw, CrashWorker
<1>4. job' \in [Jobs -> JobType]
  <2>1. job[j] \in JobType
    BY <1>1, <1>3
  <2>2. CASE Finish(w)
    <3>1. job' = job \/ job' = [job EXCEPT ![j].state = "done", ![j].owner = None]
      BY <2>2 DEF Finish
    <3>2. [[job[j] EXCEPT !.state = "done"] EXCEPT !.owner = None] \in JobType
      BY <2>1 DEF JobType
    <3> HIDE DEF j
    <3> QED
      BY <1>1, <1>3, <3>1, <3>2
  <2>3. CASE Throw(w)
    <3> DEFINE state == IF job[j].tries + 1 < MaxTries THEN "waiting" ELSE "failed"
               tries == job[j].tries + 1
    <3>1. job' = job \/ job' = [job EXCEPT ![j].state = state, ![j].owner = None, ![j].tries = tries]
      BY <1>1, <1>3, <2>3 DEF Throw
    <3>2. state \in {"waiting", "failed"} /\ tries \in Nat
      BY <2>1 DEF JobType
    <3> HIDE DEF state, tries, j
    <3>3. [job EXCEPT ![j].state = state, ![j].owner = None, ![j].tries = tries] \in [Jobs -> JobType]
      BY <1>1, <1>3, <3>2, JobThrown
    <3> QED
      BY <1>1, <3>1, <3>3
  <2>4. CASE CrashWorker(w)
    BY <1>1, <2>4 DEF CrashWorker
  <2> QED
    BY <2>2, <2>3, <2>4
<1>5. IdleWorker \in WorkerType /\ IdleWorker.pc = "idle"
  BY DEF IdleWorker, WorkerType
<1>6. worker' \in [Workers -> WorkerType] /\ WorkerHasJob'
  BY <1>1, <1>2, <1>5 DEF IInv, WorkerHasJob
<1> QED
  BY <1>1, <1>2, <1>4, <1>6, QueueStep

\* A notification, and a rule whose transaction fails: the worker goes on.
LEMMA ProgressStep ==
  ASSUME IInv, NEW w \in Workers, NEW p \in WorkerType, worker' = [worker EXCEPT ![w] = p],
         worker[w].pc # "idle", p.job = worker[w].job,
         UNCHANGED <<outbox, dispatcher, job, queued, runs, acted, redisErrors>>,
         noticed' \in SUBSET Events, faults' \in Nat
  PROVE  IInv'
<1>1. job' \in [Jobs -> JobType] /\ worker \in [Workers -> WorkerType]
  BY DEF IInv, TypeOK, JobType, WorkerType
<1>2. worker' \in [Workers -> WorkerType] /\ WorkerHasJob'
  BY <1>1 DEF IInv, WorkerHasJob
<1> QED
  BY <1>1, <1>2, QueueStep

LEMMA NotifyStep ==
  ASSUME IInv, NEW w \in Workers, Notify(w)
  PROVE  IInv'
<1> DEFINE p == [worker[w] EXCEPT !.pc = "finish"]
<1>1. worker[w] \in WorkerType /\ worker[w].job \in Jobs /\ faults \in Nat /\ noticed \in SUBSET Events
  BY DEF IInv, TypeOK, WorkerType, WorkerHasJob, Notify
<1>2. p \in WorkerType /\ p.job = worker[w].job
  BY <1>1 DEF WorkerType
<1>3. worker' = [worker EXCEPT ![w] = p]
  BY DEF Notify
<1>4. worker[w].job[1] \in Events
  BY <1>1 DEF Jobs
<1>5. /\ noticed' \in SUBSET Events /\ faults' \in Nat /\ worker[w].pc # "idle"
      /\ UNCHANGED <<outbox, dispatcher, job, queued, runs, acted, redisErrors>>
  BY <1>1, <1>4 DEF Notify
<1> HIDE DEF p
<1> QED
  BY <1>1, <1>2, <1>3, <1>5, ProgressStep

LEMMA SkipRuleStep ==
  ASSUME IInv, NEW w \in Workers, NEW r \in Rules, SkipRule(w, r)
  PROVE  IInv'
<1> DEFINE p == [worker[w] EXCEPT !.todo = worker[w].todo \ {r}]
<1>1. worker[w] \in WorkerType /\ faults \in Nat /\ noticed \in SUBSET Events
  BY DEF IInv, TypeOK, WorkerType
<1>2. p \in WorkerType /\ p.job = worker[w].job
  BY <1>1 DEF WorkerType
<1>3. worker' = [worker EXCEPT ![w] = p]
  BY DEF SkipRule
<1>4. /\ noticed' \in SUBSET Events /\ faults' \in Nat /\ worker[w].pc # "idle"
      /\ UNCHANGED <<outbox, dispatcher, job, queued, runs, acted, redisErrors>>
  BY <1>1 DEF SkipRule
<1> HIDE DEF p
<1> QED
  BY <1>1, <1>2, <1>3, <1>4, ProgressStep

\* A rule claims its run and acts, or finds that the run is there.
LEMMA RunRuleStep ==
  ASSUME IInv, NEW w \in Workers, NEW r \in Rules, RunRule(w, r)
  PROVE  IInv'
<1> DEFINE p == [worker[w] EXCEPT !.todo = worker[w].todo \ {r}]
<1>1. worker[w] \in WorkerType /\ worker[w].job \in Jobs /\ worker \in [Workers -> WorkerType]
  BY DEF IInv, TypeOK, WorkerType, WorkerHasJob, RunRule
<1>2. p \in WorkerType /\ p.job = worker[w].job /\ worker' = [worker EXCEPT ![w] = p]
  BY <1>1 DEF WorkerType, RunRule
<1>3. PICK e \in Events : e = worker[w].job[1]
  BY <1>1 DEF Jobs
<1> HIDE DEF p
<1>4. /\ IF <<r, e>> \in runs
           THEN UNCHANGED <<runs, acted, outbox>>
           ELSE /\ runs' = runs \cup {<<r, e>>}
                /\ acted' = [acted EXCEPT ![<<r, e>>] = @ + 1]
                /\ outbox' = IF r = TaskRule THEN [outbox EXCEPT ![TaskEvent].status = "new"] ELSE outbox
      /\ UNCHANGED <<dispatcher, job, queued, noticed, redisErrors, faults>>
  BY <1>3 DEF RunRule
<1>5. worker' \in [Workers -> WorkerType] /\ WorkerHasJob'
  BY <1>1, <1>2 DEF IInv, WorkerHasJob
<1>6. outbox \in [Events -> RowType] /\ TaskEvent \in Events
  BY OutboxAssumption DEF IInv, TypeOK, RowType
<1>7. /\ outbox' \in [Events -> RowType]
      /\ \A f \in Events : /\ outbox'[f].attempts = outbox[f].attempts
                           /\ outbox'[f].status = "published" => outbox[f].status = "published"
  <2>1. CASE outbox' = outbox
    BY <1>6, <2>1
  <2>2. CASE outbox' = [outbox EXCEPT ![TaskEvent].status = "new"]
    <3>1. [outbox[TaskEvent] EXCEPT !.status = "new"] \in RowType
      BY <1>6 DEF RowType
    <3> QED
      BY <1>6, <2>2, <3>1 DEF RowType
  <2> QED
    BY <1>4, <2>1, <2>2
<1>8. /\ acted \in [Rules \X Events -> Nat] /\ runs \in SUBSET (Rules \X Events)
      /\ <<r, e>> \in Rules \X Events
  BY DEF IInv, TypeOK
<1>9. acted' \in [Rules \X Events -> Nat] /\ runs' \in SUBSET (Rules \X Events)
  BY <1>4, <1>8
<1>10. ActedAsRecorded'
  <2>1. CASE <<r, e>> \in runs
    BY <1>4, <2>1 DEF IInv, ActedAsRecorded
  <2>2. CASE <<r, e>> \notin runs
    <3>1. acted[<<r, e>>] = 0
      BY <1>8, <2>2 DEF IInv, ActedAsRecorded
    <3>2. acted'[<<r, e>>] = 1 /\ <<r, e>> \in runs'
      BY <1>4, <1>8, <2>2, <3>1
    <3>3. \A x \in Rules \X Events : x # <<r, e>> => acted'[x] = acted[x] /\ (x \in runs' <=> x \in runs)
      BY <1>4, <1>8, <2>2
    <3> QED
      BY <3>2, <3>3 DEF IInv, ActedAsRecorded
  <2> QED
    BY <2>1, <2>2
<1>11. TypeOK'
  BY <1>4, <1>5, <1>7, <1>9 DEF IInv, TypeOK, RowType, WorkerType
<1>12. BatchIsHeld' /\ DoneWasQueued' /\ HalfRouted' /\ PublishedWasQueued'
  BY <1>4, <1>7, PollersUndisturbed
<1> QED
  BY <1>5, <1>10, <1>11, <1>12 DEF IInv

LEMMA StutterStep == IInv /\ UNCHANGED vars => IInv'
<1> SUFFICES ASSUME IInv, UNCHANGED vars PROVE IInv'
  OBVIOUS
<1>1. TypeOK' /\ WorkerHasJob' /\ ActedAsRecorded'
  BY DEF vars, IInv, TypeOK, WorkerHasJob, ActedAsRecorded
<1>2. BatchIsHeld' /\ DoneWasQueued' /\ HalfRouted' /\ PublishedWasQueued'
  BY PollersUndisturbed DEF vars
<1> QED
  BY <1>1, <1>2 DEF IInv

LEMMA NextIInv == IInv /\ [Next]_vars => IInv'
<1> SUFFICES ASSUME IInv, [Next]_vars PROVE IInv'
  OBVIOUS
<1>1. ASSUME NEW e \in Events, Emit(e) PROVE IInv'
  BY <1>1, EmitStep
<1>2. ASSUME NEW d \in Dispatchers, DispatchStep(d) PROVE IInv'
  <2>1. ASSUME RejectMalformed(d) PROVE IInv'
    BY <2>1, FailStep DEF RejectMalformed, RoutesEvent, IInv, TypeOK
  <2> QED
    BY <1>2, <2>1, ClaimBatchStep, AddNotifyStep, AddAutomationsStep, MarkStep DEF DispatchStep
<1>3. ASSUME NEW d \in Dispatchers, AddRejected(d) PROVE IInv'
  <2>1. redisErrors' \in Nat
    BY <1>3 DEF AddRejected, IInv, TypeOK
  <2> QED
    BY <1>3, <2>1, FailStep DEF AddRejected
<1>4. ASSUME NEW d \in Dispatchers, Expire(d) \/ CrashDispatcher(d) PROVE IInv'
  BY <1>4, LoseBatchStep
<1>5. ASSUME NEW j \in Jobs, RecoverStalled(j) \/ Stall(j) \/ Evict(j) PROVE IInv'
  BY <1>5, JobStep
<1>6. ASSUME NEW w \in Workers, WorkStep(w) \/ Throw(w) \/ CrashWorker(w) PROVE IInv'
  BY <1>6, TakeStep, NotifyStep, RunRuleStep, ReleaseStep DEF WorkStep
<1>7. ASSUME NEW w \in Workers, NEW r \in Rules, SkipRule(w, r) PROVE IInv'
  BY <1>7, SkipRuleStep
<1>8. CASE UNCHANGED vars
  BY <1>8, StutterStep
<1> QED
  BY <1>1, <1>2, <1>3, <1>4, <1>5, <1>6, <1>7, <1>8 DEF Next

\* What ties the tables, the batches and the queues together holds in every state.
THEOREM InductiveInvariant == Spec => []IInv
  BY InitIInv, NextIInv, PTL DEF Spec

\* The type invariant; above all, a row's attempts never pass MAX_ATTEMPTS.
THEOREM TypeCorrect == Spec => []TypeOK
<1>1. IInv => TypeOK
  BY DEF IInv
<1> QED
  BY <1>1, InductiveInvariant, PTL

\* No automation acts twice on one event, however often its job is run.
THEOREM NoSecondAction == Spec => []RuleActsOnce
<1>1. IInv => RuleActsOnce
  BY DEF IInv, ActedAsRecorded, RuleActsOnce
<1> QED
  BY <1>1, InductiveInvariant, PTL

\* No event is marked published before all of its jobs were queued.
THEOREM NoEarlyPublication == Spec => []PublishedWasQueued
<1>1. IInv => PublishedWasQueued
  BY DEF IInv
<1> QED
  BY <1>1, InductiveInvariant, PTL
===============================================================================
