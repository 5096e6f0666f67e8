-------------------------------- MODULE Outbox --------------------------------
(***************************************************************************)
(* The transactional outbox of backend/app_platform/outbox: use cases      *)
(* record events in the collection outbox_events, and the OutboxDispatcher *)
(* of each application process polls the collection, takes a short lease   *)
(* on an event (locked_until), publishes it to the subscribers of the      *)
(* in-process EventBus one after the other, and marks it SENT or FAILED.   *)
(*                                                                         *)
(* Every database call of the dispatcher is a step of its own, because     *)
(* another dispatcher, a crash or the passing of time may come between any *)
(* two of them.  Wall-clock time is abstracted to the comparisons the      *)
(* queries make: a lease is absent, still running or past, a retry time    *)
(* is absent, still ahead or reached.                                      *)
(***************************************************************************)
EXTENDS Naturals, FiniteSets

CONSTANTS
  Events,        \* events, each a number: its occurred_at
  Dispatchers,   \* the OutboxDispatcher of each application process
  Subscribers,   \* how many handlers are subscribed to an event's name
  MaxAttempts,   \* OutboxDispatcher max_attempts
  BatchSize,     \* OutboxDispatcher batch_size
  KeyOf,         \* (name, event_version, idempotency_key) of an event, or NoKey
  NoKey,         \* the event carries no idempotency key
  NoEvent,       \* a dispatcher works on no event
  MayOverrun,    \* TRUE: publishing one event may outlast the lease
  FaultKinds,    \* which faults occur: "stop", "dberror"
  MaxFaults      \* bound on the number of faults in a behaviour

ASSUME EventsAssumption == Events \subseteq Nat /\ IsFiniteSet(Events)
ASSUME DispatchersAssumption == IsFiniteSet(Dispatchers)
ASSUME BoundsAssumption ==
  /\ Subscribers \in Nat
  /\ MaxAttempts \in Nat \ {0}
  /\ BatchSize \in Nat \ {0}
  /\ MaxFaults \in Nat
ASSUME NoEventAssumption == NoEvent \notin Events
ASSUME MayOverrunAssumption == MayOverrun \in BOOLEAN

VARIABLES
  emitted,     \* events whose use case has called add_event
  status,      \* outbox_events.status, "ABSENT" when there is no document
  attempts,    \* outbox_events.attempts
  lease,       \* outbox_events.locked_until, seen from now
  retry,       \* outbox_events.next_attempt_at, seen from now
  delivered,   \* pairs <<event, handler>> whose handler has taken effect
  pc,          \* what each dispatcher does
  batch,       \* the rest of the pending list a dispatcher has fetched
  job,         \* the event a dispatcher publishes or marks
  handler,     \* the handler of the job it calls next
  seen,        \* the attempts mark_failed has read
  faults,      \* faults so far
  exposed      \* history: events that were worked on without their lease

dbVars == <<emitted, status, attempts, lease, retry>>
taskVars == <<pc, batch, job, handler, seen>>
vars == <<dbVars, delivered, taskVars, faults, exposed>>

OutboxStatus == {"PENDING", "SENT", "FAILED", "DEAD_LETTER"}
Recorded == {e \in Events : status[e] # "ABSENT"}

Init ==
  /\ emitted = {}
  /\ status = [e \in Events |-> "ABSENT"]
  /\ attempts = [e \in Events |-> 0]
  /\ lease = [e \in Events |-> "none"]
  /\ retry = [e \in Events |-> "none"]
  /\ delivered = {}
  /\ pc = [d \in Dispatchers |-> "drain"]
  /\ batch = [d \in Dispatchers |-> {}]
  /\ job = [d \in Dispatchers |-> NoEvent]
  /\ handler = [d \in Dispatchers |-> 1]
  /\ seen = [d \in Dispatchers |-> 0]
  /\ faults = 0
  /\ exposed = {}

-------------------------------------------------------------------------------
(* The use cases and the passing of time. *)

\* The document the upsert of add_event would match: one with the same
\* name, version and idempotency key.
SameKey(e, f) == KeyOf[e] # NoKey /\ KeyOf[f] = KeyOf[e]

\* OutboxRepository.add_event: $setOnInsert, so an event whose key is
\* already recorded leaves the collection as it is.
AddEvent(e) ==
  /\ e \notin emitted
  /\ emitted' = emitted \cup {e}
  /\ status' = IF \E f \in Recorded : SameKey(e, f)
                 THEN status ELSE [status EXCEPT ![e] = "PENDING"]
  /\ UNCHANGED <<attempts, lease, retry, delivered, taskVars, faults, exposed>>

Working(d) == pc[d] \in {"publish", "failed", "failing"}

\* The lease of 30 seconds runs out: at any time when a publication may
\* overrun it, otherwise only once nobody works on the event any more.
LeaseExpires(e) ==
  /\ lease[e] = "running"
  /\ MayOverrun \/ \A d \in Dispatchers : Working(d) => job[d] # e
  /\ lease' = [lease EXCEPT ![e] = "past"]
  /\ exposed' = IF \E d \in Dispatchers : Working(d) /\ job[d] = e
                  THEN exposed \cup {e} ELSE exposed
  /\ UNCHANGED <<emitted, status, attempts, retry, delivered, taskVars, faults>>

\* next_attempt_at is reached.
RetryDue(e) ==
  /\ retry[e] = "ahead"
  /\ retry' = [retry EXCEPT ![e] = "due"]
  /\ UNCHANGED <<emitted, status, attempts, lease, delivered, taskVars, faults, exposed>>

-------------------------------------------------------------------------------
(* The dispatcher. *)

\* Mutant: lock_for_processing filters on the _id alone.
FreeUnchecked(e) == e \in Events

Free(e) == lease[e] # "running"

\* Mutant: the filter names the one status to leave out.
PendingUnlessSent == {e \in Recorded :
                        status[e] # "SENT" /\ retry[e] # "ahead" /\ Free(e)}

\* Mutant: the filter forgets what failed before.
PendingNew == {e \in Recorded : status[e] = "PENDING" /\ Free(e)}

\* The filter of OutboxRepository.get_pending.
Pending == {e \in Recorded :
              /\ status[e] \in {"PENDING", "FAILED"}
              /\ attempts[e] < MaxAttempts
              /\ retry[e] # "ahead"
              /\ Free(e)}

\* Its sort on occurred_at and its limit.
Oldest(S) == {e \in S : Cardinality({f \in S : f < e}) < BatchSize}

\* The iteration of _drain_once that starts with get_pending.
GetPending(d) ==
  /\ pc[d] = "drain" /\ batch[d] = {}
  /\ Pending # {}
  /\ batch' = [batch EXCEPT ![d] = Oldest(Pending)]
  /\ UNCHANGED <<dbVars, delivered, pc, job, handler, seen, faults, exposed>>

NextInBatch(d, e) == e \in batch[d] /\ \A f \in batch[d] : e <= f

\* lock_for_processing succeeds.  Its filter asks for the lease only: what
\* get_pending has checked may no longer hold.
LockForProcessing(d, e) ==
  /\ pc[d] = "drain"
  /\ NextInBatch(d, e)
  /\ Free(e)
  /\ lease' = [lease EXCEPT ![e] = "running"]
  /\ pc' = [pc EXCEPT ![d] = "publish"]
  /\ batch' = [batch EXCEPT ![d] = @ \ {e}]
  /\ job' = [job EXCEPT ![d] = e]
  /\ UNCHANGED <<emitted, status, attempts, retry, delivered, handler, seen, faults, exposed>>

\* lock_for_processing finds a running lease: the event is skipped.
SkipLocked(d, e) ==
  /\ pc[d] = "drain"
  /\ NextInBatch(d, e)
  /\ ~Free(e)
  /\ batch' = [batch EXCEPT ![d] = @ \ {e}]
  /\ UNCHANGED <<dbVars, delivered, pc, job, handler, seen, faults, exposed>>

\* Mutant: the loop over the handlers runs past its end.
HandlerReturnsPastEnd(d) ==
  /\ pc[d] = "publish"
  /\ handler' = [handler EXCEPT ![d] = @ + 1]
  /\ UNCHANGED <<dbVars, delivered, pc, batch, job, seen, faults, exposed>>

\* EventBus.publish awaits the next handler and it returns.
HandlerReturns(d) ==
  /\ pc[d] = "publish" /\ handler[d] <= Subscribers
  /\ delivered' = delivered \cup {<<job[d], handler[d]>>}
  /\ handler' = [handler EXCEPT ![d] = @ + 1]
  /\ UNCHANGED <<dbVars, pc, batch, job, seen, faults, exposed>>

\* Mutant: publish swallows the exception and calls the next handler.
HandlerRaisesSwallowed(d) ==
  /\ pc[d] = "publish" /\ handler[d] <= Subscribers
  /\ handler' = [handler EXCEPT ![d] = @ + 1]
  /\ UNCHANGED <<dbVars, delivered, pc, batch, job, seen, faults, exposed>>

\* The next handler raises, before or after its writes took effect; the
\* handlers behind it are not called.
HandlerRaises(d) ==
  /\ pc[d] = "publish" /\ handler[d] <= Subscribers
  /\ delivered' \in {delivered, delivered \cup {<<job[d], handler[d]>>}}
  /\ pc' = [pc EXCEPT ![d] = "failed"]
  /\ UNCHANGED <<dbVars, batch, job, handler, seen, faults, exposed>>

\* The dispatcher is done with its job and goes on with the batch.
JobDone(d) ==
  /\ pc' = [pc EXCEPT ![d] = "drain"]
  /\ job' = [job EXCEPT ![d] = NoEvent]
  /\ handler' = [handler EXCEPT ![d] = 1]
  /\ seen' = [seen EXCEPT ![d] = 0]

\* mark_sent: the filter is the _id alone.
MarkSent(d) ==
  /\ pc[d] = "publish" /\ handler[d] > Subscribers
  /\ status' = [status EXCEPT ![job[d]] = "SENT"]
  /\ lease' = [lease EXCEPT ![job[d]] = "none"]
  /\ JobDone(d)
  /\ UNCHANGED <<emitted, attempts, retry, delivered, batch, faults, exposed>>

\* The find_one of mark_failed.
ReadAttempts(d) ==
  /\ pc[d] = "failed"
  /\ seen' = [seen EXCEPT ![d] = attempts[job[d]]]
  /\ pc' = [pc EXCEPT ![d] = "failing"]
  /\ UNCHANGED <<dbVars, delivered, batch, job, handler, faults, exposed>>

\* Mutant: one failure too many before the event is dead-lettered.
ExhaustedLate(n) == n + 1 > MaxAttempts

\* attempts >= max_attempts in mark_failed, after n failures and this one.
Exhausted(n) == n + 1 >= MaxAttempts

\* The update_one of mark_failed: the status is decided by the attempts
\* read before, the counter is incremented where it is.
MarkFailed(d) ==
  LET dead == Exhausted(seen[d]) IN
  /\ pc[d] = "failing"
  /\ status' = [status EXCEPT ![job[d]] = IF dead THEN "DEAD_LETTER" ELSE "FAILED"]
  /\ lease' = [lease EXCEPT ![job[d]] = "none"]
  /\ retry' = [retry EXCEPT ![job[d]] = IF dead THEN "none" ELSE "ahead"]
  /\ attempts' = [attempts EXCEPT ![job[d]] = @ + 1]
  /\ JobDone(d)
  /\ UNCHANGED <<emitted, delivered, batch, faults, exposed>>

-------------------------------------------------------------------------------
(* Faults. *)

Fault(kind) ==
  /\ kind \in FaultKinds
  /\ faults < MaxFaults
  /\ faults' = faults + 1

\* mark_sent raises; its write may have reached the database.  The except
\* clause treats the publication as failed.
MarkSentRaises(d) ==
  /\ Fault("dberror")
  /\ pc[d] = "publish" /\ handler[d] > Subscribers
  /\ \/ UNCHANGED <<status, lease, exposed>>
     \/ /\ status' = [status EXCEPT ![job[d]] = "SENT"]
        /\ lease' = [lease EXCEPT ![job[d]] = "none"]
        /\ exposed' = exposed \cup {job[d]}
  /\ pc' = [pc EXCEPT ![d] = "failed"]
  /\ UNCHANGED <<emitted, attempts, retry, delivered, batch, job, handler, seen>>

\* The task of the dispatcher ends: everything it holds in memory is lost.
TaskEnds(d, how) ==
  /\ pc' = [pc EXCEPT ![d] = how]
  /\ batch' = [batch EXCEPT ![d] = {}]
  /\ job' = [job EXCEPT ![d] = NoEvent]
  /\ handler' = [handler EXCEPT ![d] = 1]
  /\ seen' = [seen EXCEPT ![d] = 0]
  /\ UNCHANGED <<dbVars, delivered, exposed>>

\* get_pending, lock_for_processing or mark_failed raises: nothing in
\* _drain_once or run_forever catches it, and the task is over while the
\* process lives on.
DrainRaises(d) ==
  /\ Fault("dberror")
  /\ pc[d] \in {"drain", "failed", "failing"}
  /\ TaskEnds(d, "dead")

\* stop() cancels the task at whatever it awaits, or the process crashes.
Stop(d) ==
  /\ Fault("stop")
  /\ pc[d] # "down"
  /\ TaskEnds(d, "down")

\* The process is started again, and start() creates the task.
Start(d) ==
  /\ pc[d] = "down"
  /\ pc' = [pc EXCEPT ![d] = "drain"]
  /\ UNCHANGED <<dbVars, delivered, batch, job, handler, seen, faults, exposed>>

-------------------------------------------------------------------------------
\* What the dispatcher's own task does next.
TaskStep(d) ==
  \/ GetPending(d)
  \/ \E e \in Events : LockForProcessing(d, e) \/ SkipLocked(d, e)
  \/ HandlerReturns(d) \/ HandlerRaises(d)
  \/ MarkSent(d) \/ ReadAttempts(d) \/ MarkFailed(d)

FaultStep(d) == MarkSentRaises(d) \/ DrainRaises(d) \/ Stop(d)

Next ==
  \/ \E e \in Events : AddEvent(e) \/ LeaseExpires(e) \/ RetryDue(e)
  \/ \E d \in Dispatchers : TaskStep(d) \/ FaultStep(d) \/ Start(d)

Spec == Init /\ [][Next]_vars

\* A running task is scheduled and every awaited handler or database call
\* comes back; time passes; the container restarts a process that is down.
\* Nothing restarts a task that died in a living process.
Fairness ==
  /\ \A d \in Dispatchers : WF_vars(TaskStep(d)) /\ WF_vars(Start(d))
  /\ \A e \in Events : WF_vars(LeaseExpires(e)) /\ WF_vars(RetryDue(e))

FairSpec == Spec /\ Fairness

-------------------------------------------------------------------------------
(* Properties. *)

\* Type invariant.
TypeOK ==
  /\ emitted \subseteq Events
  /\ status \in [Events -> OutboxStatus \cup {"ABSENT"}]
  /\ attempts \in [Events -> Nat]
  /\ lease \in [Events -> {"none", "running", "past"}]
  /\ retry \in [Events -> {"none", "ahead", "due"}]
  /\ delivered \subseteq Events \X (1..Subscribers)
  /\ pc \in [Dispatchers -> {"drain", "publish", "failed", "failing", "down", "dead"}]
  /\ batch \in [Dispatchers -> SUBSET Events]
  /\ job \in [Dispatchers -> Events \cup {NoEvent}]
  /\ handler \in [Dispatchers -> 1..(Subscribers + 1)]
  /\ seen \in [Dispatchers -> Nat]
  /\ faults \in 0..MaxFaults
  /\ exposed \subseteq Events

\* At-least-once: an event is marked SENT only after every subscriber has
\* handled it, whatever was retried, taken over or interrupted before.
SentMeansDelivered ==
  \A e \in Events : status[e] = "SENT" =>
    \A k \in 1..Subscribers : <<e, k>> \in delivered

\* The lease excludes: two dispatchers never publish one event at the same
\* time, unless a publication of it outlasts its lease or a mark_sent that
\* took effect is taken for a failure.
ExclusivePublication ==
  \A c, d \in Dispatchers :
    Working(c) /\ Working(d) /\ job[c] = job[d] /\ job[c] \notin exposed => c = d

\* An event that failed is either still retried or dead-lettered: FAILED
\* with the attempts used up would be neither, for good.  It takes two
\* failures marked at once to break that, and so an event worked on without
\* its lease.
RetryBudgetAgrees ==
  \A e \in Events \ exposed :
    /\ status[e] = "FAILED" => attempts[e] < MaxAttempts
    /\ status[e] = "DEAD_LETTER" => attempts[e] >= MaxAttempts

\* max_attempts can be exceeded by dispatchers that fetched the event while
\* it was still pending, and by no more than those.
AttemptsBounded ==
  \A e \in Events : attempts[e] <= MaxAttempts + Cardinality(Dispatchers) - 1

\* Every event a use case emitted is eventually settled, itself or through
\* the recorded event with its idempotency key.
EmittedSettles ==
  \A e \in Events :
    e \in emitted ~> \E f \in Events : /\ f = e \/ SameKey(e, f)
                                       /\ status[f] \in {"SENT", "DEAD_LETTER"}

\* The single dispatcher of one application process implements EventDelivery:
\* retries, leases and restarts never hand out an event that is settled, never
\* skip a subscriber, and never settle an event that was not handed to all.
Outcome ==
  [e \in Events |-> CASE status[e] = "ABSENT" -> "unrecorded"
                      [] status[e] = "SENT" -> "done"
                      [] status[e] = "DEAD_LETTER" -> "dead"
                      [] OTHER -> "open"]

Delivery == INSTANCE EventDelivery WITH outcome <- Outcome

ImplementsDelivery == Delivery!Spec

===============================================================================
