----------------------------- MODULE OutboxProofs -----------------------------
(* What holds of Outbox for any number of events, dispatchers, subscribers *)
(* and faults: its types, at-least-once delivery, the bound on attempts,   *)
(* and, for the events nobody worked on without their lease, exclusive     *)
(* publication and the retry budget.                                       *)
EXTENDS Outbox, FiniteSetTheorems, TLAPS

-------------------------------------------------------------------------------
(* The inductive invariant behind at-least-once delivery. *)

\* A dispatcher has a job exactly while it works, and starts a job with the
\* first handler.
JobOK ==
  \A d \in Dispatchers :
    /\ Working(d) => job[d] \in Events
    /\ ~Working(d) => job[d] = NoEvent /\ handler[d] = 1

\* The handlers in front of the next one have handled the job.
HandledSoFar ==
  \A d \in Dispatchers : pc[d] = "publish" =>
    \A k \in 1..Subscribers : k < handler[d] => <<job[d], k>> \in delivered

IInv == TypeOK /\ JobOK /\ HandledSoFar /\ SentMeansDelivered

LEMMA InitIInv == Init => IInv
BY BoundsAssumption
   DEF Init, IInv, TypeOK, OutboxStatus, JobOK, Working, HandledSoFar, SentMeansDelivered

\* One step per action: the types and the job of the dispatcher that moves,
\* then what was delivered.
LEMMA StepIInv == IInv /\ [Next]_vars => IInv'
<1> SUFFICES ASSUME IInv, [Next]_vars PROVE IInv'
  OBVIOUS
<1> USE BoundsAssumption, NoEventAssumption
    DEF IInv, TypeOK, OutboxStatus, JobOK, Working, HandledSoFar, SentMeansDelivered
<1>1. ASSUME NEW e \in Events, AddEvent(e) PROVE IInv'
  <2>1. e \in emitted' /\ emitted' \subseteq Events
    BY <1>1 DEF AddEvent
  <2>2. status' = status \/ status' = [status EXCEPT ![e] = "PENDING"]
    BY <1>1 DEF AddEvent
  <2> QED
    BY <1>1, <2>1, <2>2 DEF AddEvent, taskVars
<1>2. ASSUME NEW e \in Events, LeaseExpires(e) PROVE IInv'
  BY <1>2 DEF LeaseExpires, taskVars
<1>3. ASSUME NEW e \in Events, RetryDue(e) PROVE IInv'
  BY <1>3 DEF RetryDue, taskVars
<1>4. ASSUME NEW d \in Dispatchers, GetPending(d) PROVE IInv'
  <2>1. Oldest(Pending) \in SUBSET Events
    BY DEF Oldest, Pending, Recorded
  <2> QED
    BY <1>4, <2>1 DEF GetPending, dbVars
<1>5. ASSUME NEW d \in Dispatchers, NEW e \in Events, LockForProcessing(d, e)
      PROVE  IInv'
  BY <1>5 DEF LockForProcessing
<1>6. ASSUME NEW d \in Dispatchers, NEW e \in Events, SkipLocked(d, e)
      PROVE  IInv'
  BY <1>6 DEF SkipLocked, dbVars
<1>7. ASSUME NEW d \in Dispatchers, HandlerReturns(d) PROVE IInv'
  <2>1. job[d] \in Events /\ handler[d] \in 1..Subscribers
    BY <1>7 DEF HandlerReturns
  <2>2. TypeOK' /\ JobOK' /\ SentMeansDelivered'
    BY <1>7, <2>1 DEF HandlerReturns, dbVars
  <2>3. HandledSoFar'
    <3>1. /\ pc' = pc /\ job' = job /\ handler' = [handler EXCEPT ![d] = @ + 1]
          /\ delivered' = delivered \cup {<<job[d], handler[d]>>}
      BY <1>7 DEF HandlerReturns
    <3>2. ASSUME NEW c \in Dispatchers, pc[c] = "publish",
                 NEW k \in 1..Subscribers, k < handler'[c]
          PROVE  <<job[c], k>> \in delivered'
      <4>1. CASE c = d
        <5>1. handler'[d] = handler[d] + 1
          BY <3>1
        <5>2. k < handler[d] \/ k = handler[d]
          BY <2>1, <3>2, <4>1, <5>1
        <5> QED
          BY <3>1, <3>2, <4>1, <5>2
      <4>2. CASE c # d
        <5>1. handler'[c] = handler[c]
          BY <3>1, <4>2
        <5> QED
          BY <3>1, <3>2, <5>1
      <4> QED
        BY <4>1, <4>2
    <3> QED
      BY <3>1, <3>2
  <2> QED
    BY <2>2, <2>3
<1>8. ASSUME NEW d \in Dispatchers, HandlerRaises(d) PROVE IInv'
  <2>1. job[d] \in Events /\ handler[d] \in 1..Subscribers
    BY <1>8 DEF HandlerRaises
  <2>2. delivered \subseteq delivered' /\ delivered' \subseteq Events \X (1..Subscribers)
    BY <1>8, <2>1 DEF HandlerRaises
  <2> QED
    BY <1>8, <2>2 DEF HandlerRaises, dbVars
<1>9. ASSUME NEW d \in Dispatchers, MarkSent(d) PROVE IInv'
  <2>1. \A k \in 1..Subscribers : <<job[d], k>> \in delivered
    BY <1>9 DEF MarkSent
  <2> QED
    BY <1>9, <2>1 DEF MarkSent, JobDone
<1>10. ASSUME NEW d \in Dispatchers, ReadAttempts(d) PROVE IInv'
  BY <1>10 DEF ReadAttempts, dbVars
<1>11. ASSUME NEW d \in Dispatchers, MarkFailed(d) PROVE IInv'
  BY <1>11 DEF MarkFailed, JobDone
<1>12. ASSUME NEW d \in Dispatchers, MarkSentRaises(d) PROVE IInv'
  <2>1. \A k \in 1..Subscribers : <<job[d], k>> \in delivered
    BY <1>12 DEF MarkSentRaises
  <2> QED
    BY <1>12, <2>1 DEF MarkSentRaises, Fault
<1>13. ASSUME NEW d \in Dispatchers, NEW how \in {"dead", "down"}, TaskEnds(d, how),
              faults' \in 0..MaxFaults
       PROVE  IInv'
  BY <1>13 DEF TaskEnds, dbVars
<1>14. ASSUME NEW d \in Dispatchers, DrainRaises(d) \/ Stop(d) PROVE IInv'
  BY <1>13, <1>14 DEF DrainRaises, Stop, Fault
<1>15. ASSUME NEW d \in Dispatchers, Start(d) PROVE IInv'
  BY <1>15 DEF Start, dbVars
<1>16. CASE UNCHANGED vars
  BY <1>16 DEF vars, dbVars, taskVars
<1> QED
  BY <1>1, <1>2, <1>3, <1>4, <1>5, <1>6, <1>7, <1>8, <1>9, <1>10, <1>11,
     <1>12, <1>14, <1>15, <1>16 DEF Next, TaskStep, FaultStep

\* The outbox documents and the dispatchers' local state stay in their
\* ranges: statuses of OutboxStatus, handler indices, counters.
THEOREM TypeCorrect == Spec => []TypeOK
<1>1. IInv => TypeOK
  BY DEF IInv
<1> QED
  BY <1>1, InitIInv, StepIInv, PTL DEF Spec

\* At-least-once delivery, for any number of dispatchers, overrun leases,
\* crashes and failing database calls: mark_sent never runs before every
\* subscriber has handled the event.
THEOREM AtLeastOnce == Spec => []SentMeansDelivered
<1>1. IInv => SentMeansDelivered
  BY DEF IInv
<1> QED
  BY <1>1, InitIInv, StepIInv, PTL DEF Spec

-------------------------------------------------------------------------------
(* Unless it is lost while somebody works on its event, the lease is a     *)
(* lock: it is running while somebody works on the event.                  *)

LeaseHeld ==
  \A d \in Dispatchers : Working(d) /\ job[d] \notin exposed => lease[job[d]] = "running"

\* What mark_failed has read is still in the document when it writes.
SeenIsCurrent ==
  \A d \in Dispatchers :
    pc[d] = "failing" /\ job[d] \notin exposed => seen[d] = attempts[job[d]]

LInv == LeaseHeld /\ ExclusivePublication /\ SeenIsCurrent /\ RetryBudgetAgrees

LEMMA InitLInv == Init => LInv
BY BoundsAssumption
   DEF Init, LInv, LeaseHeld, ExclusivePublication, SeenIsCurrent, RetryBudgetAgrees, Working

LEMMA StepLInv == IInv /\ LInv /\ [Next]_vars => LInv'
<1> SUFFICES ASSUME IInv, LInv, [Next]_vars PROVE LInv'
  OBVIOUS
<1> USE BoundsAssumption, NoEventAssumption
    DEF IInv, TypeOK, OutboxStatus, JobOK, Working,
        LInv, LeaseHeld, ExclusivePublication, SeenIsCurrent, RetryBudgetAgrees
<1>1. ASSUME NEW e \in Events, AddEvent(e) PROVE LInv'
  <2>1. status' = status \/ status' = [status EXCEPT ![e] = "PENDING"]
    BY <1>1 DEF AddEvent
  <2> QED
    BY <1>1, <2>1 DEF AddEvent, taskVars
<1>2. ASSUME NEW e \in Events, LeaseExpires(e) PROVE LInv'
  <2>1. /\ exposed \subseteq exposed'
        /\ e \in exposed' \/ \A d \in Dispatchers : Working(d) => job[d] # e
    BY <1>2 DEF LeaseExpires
  <2> QED
    BY <1>2, <2>1 DEF LeaseExpires, taskVars
<1>3. ASSUME NEW e \in Events, RetryDue(e) PROVE LInv'
  BY <1>3 DEF RetryDue, taskVars
<1>4. ASSUME NEW d \in Dispatchers, GetPending(d) PROVE LInv'
  BY <1>4 DEF GetPending, dbVars
<1>5. ASSUME NEW d \in Dispatchers, NEW e \in Events, LockForProcessing(d, e)
      PROVE  LInv'
  <2>1. \A c \in Dispatchers : Working(c) /\ job[c] = e => e \in exposed
    BY <1>5 DEF LockForProcessing, Free
  <2> QED
    BY <1>5, <2>1 DEF LockForProcessing
<1>6. ASSUME NEW d \in Dispatchers, NEW e \in Events, SkipLocked(d, e)
      PROVE  LInv'
  BY <1>6 DEF SkipLocked, dbVars
<1>7. ASSUME NEW d \in Dispatchers, HandlerReturns(d) PROVE LInv'
  BY <1>7 DEF HandlerReturns, dbVars
<1>8. ASSUME NEW d \in Dispatchers, HandlerRaises(d) PROVE LInv'
  BY <1>8 DEF HandlerRaises, dbVars
<1>9. ASSUME NEW d \in Dispatchers, MarkSent(d) PROVE LInv'
  BY <1>9 DEF MarkSent, JobDone
<1>10. ASSUME NEW d \in Dispatchers, ReadAttempts(d) PROVE LInv'
  BY <1>10 DEF ReadAttempts, dbVars
<1>11. ASSUME NEW d \in Dispatchers, MarkFailed(d) PROVE LInv'
  <2>1. job[d] \in Events /\ (job[d] \in exposed \/ seen[d] = attempts[job[d]])
    BY <1>11 DEF MarkFailed
  <2>2. LeaseHeld' /\ ExclusivePublication' /\ SeenIsCurrent'
    BY <1>11, <2>1 DEF MarkFailed, JobDone
  <2>3. RetryBudgetAgrees'
    BY <1>11, <2>1 DEF MarkFailed, Exhausted
  <2> QED
    BY <2>2, <2>3
<1>12. ASSUME NEW d \in Dispatchers, MarkSentRaises(d) PROVE LInv'
  BY <1>12 DEF MarkSentRaises
<1>13. ASSUME NEW d \in Dispatchers, DrainRaises(d) \/ Stop(d) PROVE LInv'
  <2>1. \E how \in {"dead", "down"} : TaskEnds(d, how)
    BY <1>13 DEF DrainRaises, Stop
  <2>2. /\ UNCHANGED <<status, attempts, lease, exposed>>
        /\ ~Working(d)'
        /\ \A c \in Dispatchers \ {d} : pc'[c] = pc[c] /\ job'[c] = job[c] /\ seen'[c] = seen[c]
    BY <2>1 DEF TaskEnds, dbVars
  <2>3. RetryBudgetAgrees'
    BY <2>2
  <2>4. LeaseHeld' /\ ExclusivePublication'
    BY <2>2
  <2>5. SeenIsCurrent'
    BY <2>2
  <2> QED
    BY <2>3, <2>4, <2>5
<1>14. ASSUME NEW d \in Dispatchers, Start(d) PROVE LInv'
  BY <1>14 DEF Start, dbVars
<1>15. CASE UNCHANGED vars
  BY <1>15 DEF vars, dbVars, taskVars
<1> QED
  BY <1>1, <1>2, <1>3, <1>4, <1>5, <1>6, <1>7, <1>8, <1>9, <1>10, <1>11,
     <1>12, <1>13, <1>14, <1>15 DEF Next, TaskStep, FaultStep

\* The conditional update of lock_for_processing excludes: no two
\* dispatchers, of any number, publish the same event at the same time,
\* unless one outlasts its lease on it or loses the answer of mark_sent.
THEOREM LeaseExcludes == Spec => []ExclusivePublication
<1>1. LInv => ExclusivePublication
  BY DEF LInv
<1>2. IInv /\ LInv /\ [Next]_vars => LInv'
  BY StepLInv
<1> QED
  BY <1>1, <1>2, InitIInv, StepIInv, InitLInv, PTL DEF Spec

\* Under the same lease, the status and the counter that mark_failed writes
\* agree: an event is FAILED only while get_pending still returns it some
\* day, and dead-lettered only with its attempts used up.
THEOREM RetryBudget == Spec => []RetryBudgetAgrees
<1>1. LInv => RetryBudgetAgrees
  BY DEF LInv
<1>2. IInv /\ LInv /\ [Next]_vars => LInv'
  BY StepLInv
<1> QED
  BY <1>1, <1>2, InitIInv, StepIInv, InitLInv, PTL DEF Spec

-------------------------------------------------------------------------------
(* The bound on attempts.  A dispatcher that has fetched an event may fail *)
(* it once more, so the failures so far and those still possible together  *)
(* never exceed the bound: an event is fetched only while its attempts are *)
(* below max_attempts.                                                     *)

\* The dispatchers that hold the event in memory.
Holders(e) == {d \in Dispatchers : e \in batch[d] \/ job[d] = e}

\* The event a dispatcher works on has left its batch.
JobLeftBatch == \A d \in Dispatchers : job[d] \notin batch[d]

FailuresBounded ==
  \A e \in Events :
    attempts[e] + Cardinality(Holders(e)) <= MaxAttempts + Cardinality(Dispatchers) - 1

AInv == JobLeftBatch /\ FailuresBounded

LEMMA HoldersType ==
  /\ Cardinality(Dispatchers) \in Nat
  /\ \A e : /\ IsFiniteSet(Holders(e))
            /\ Cardinality(Holders(e)) \in Nat
            /\ Cardinality(Holders(e)) <= Cardinality(Dispatchers)
<1>1. \A e : Holders(e) \subseteq Dispatchers
  BY DEF Holders
<1> QED
  BY <1>1, DispatchersAssumption, FS_Subset, FS_CardinalityType

LEMMA InitAInv == Init => AInv
<1> SUFFICES ASSUME Init PROVE AInv
  OBVIOUS
<1>1. JobLeftBatch
  BY DEF Init, JobLeftBatch
<1>2. \A e \in Events : Holders(e) = {}
  BY NoEventAssumption DEF Init, Holders
<1>3. FailuresBounded
  BY <1>2, HoldersType, FS_EmptySet, BoundsAssumption DEF Init, FailuresBounded
<1> QED
  BY <1>1, <1>3 DEF AInv

\* A step that hands the event to no further dispatcher and counts no
\* failure keeps the bound.
LEMMA QuietStep ==
  ASSUME TypeOK, FailuresBounded, NEW e \in Events,
         attempts'[e] = attempts[e],
         \A d \in Dispatchers : e \in batch'[d] \/ job'[d] = e => e \in batch[d] \/ job[d] = e
  PROVE  attempts'[e] + Cardinality(Holders(e)')
           <= MaxAttempts + Cardinality(Dispatchers) - 1
<1>1. Holders(e)' \subseteq Holders(e)
  BY DEF Holders
<1>2. /\ Cardinality(Holders(e)') \in Nat
      /\ Cardinality(Holders(e)') <= Cardinality(Holders(e))
  BY <1>1, HoldersType, FS_Subset, FS_CardinalityType
<1> QED
  BY <1>2, HoldersType, BoundsAssumption DEF TypeOK, FailuresBounded

\* Fetching: a new holder has seen attempts below max_attempts.
LEMMA FetchStep ==
  ASSUME TypeOK, FailuresBounded, NEW e \in Events, NEW d \in Dispatchers, GetPending(d)
  PROVE  attempts'[e] + Cardinality(Holders(e)')
           <= MaxAttempts + Cardinality(Dispatchers) - 1
<1>1. CASE e \in Oldest(Pending)
  <2>1. attempts[e] < MaxAttempts /\ attempts' = attempts
    BY <1>1 DEF Oldest, Pending, GetPending, dbVars
  <2>2. Holders(e)' \subseteq Dispatchers
    BY DEF Holders
  <2>3. /\ Cardinality(Holders(e)') \in Nat
        /\ Cardinality(Holders(e)') <= Cardinality(Dispatchers)
    BY <2>2, DispatchersAssumption, FS_Subset, FS_CardinalityType
  <2> QED
    BY <2>1, <2>3, HoldersType, BoundsAssumption DEF TypeOK
<1>2. CASE e \notin Oldest(Pending)
  <2>1. attempts'[e] = attempts[e]
    BY DEF GetPending, dbVars
  <2>2. \A c \in Dispatchers : e \in batch'[c] \/ job'[c] = e => e \in batch[c] \/ job[c] = e
    BY <1>2 DEF GetPending, TypeOK
  <2> QED
    BY <2>1, <2>2, QuietStep
<1> QED
  BY <1>1, <1>2

\* Failing: the counter grows and the dispatcher lets go of the event.
LEMMA FailStep ==
  ASSUME TypeOK, JobOK, JobLeftBatch, FailuresBounded,
         NEW e \in Events, NEW d \in Dispatchers, MarkFailed(d)
  PROVE  attempts'[e] + Cardinality(Holders(e)')
           <= MaxAttempts + Cardinality(Dispatchers) - 1
<1>1. CASE e = job[d]
  <2>1. Holders(e)' \subseteq Holders(e) \ {d}
    BY <1>1, NoEventAssumption DEF MarkFailed, JobDone, Holders, TypeOK, JobLeftBatch
  <2>2. d \in Holders(e)
    BY <1>1 DEF Holders
  <2>3. /\ IsFiniteSet(Holders(e) \ {d})
        /\ Cardinality(Holders(e) \ {d}) = Cardinality(Holders(e)) - 1
    BY <2>2, HoldersType, FS_RemoveElement
  <2>4. /\ Cardinality(Holders(e)') \in Nat
        /\ Cardinality(Holders(e)') <= Cardinality(Holders(e)) - 1
    BY <2>1, <2>3, FS_Subset, FS_CardinalityType
  <2>5. attempts'[e] = attempts[e] + 1 /\ attempts[e] \in Nat
    BY <1>1 DEF MarkFailed, TypeOK
  <2> QED
    BY <2>4, <2>5, HoldersType, BoundsAssumption DEF FailuresBounded
<1>2. CASE e # job[d]
  <2>1. attempts'[e] = attempts[e]
    BY <1>2 DEF MarkFailed, TypeOK
  <2>2. \A c \in Dispatchers : e \in batch'[c] \/ job'[c] = e => e \in batch[c] \/ job[c] = e
    BY NoEventAssumption DEF MarkFailed, JobDone, TypeOK
  <2> QED
    BY <2>1, <2>2, QuietStep
<1> QED
  BY <1>1, <1>2

LEMMA StepAInv == IInv /\ AInv /\ [Next]_vars => AInv'
<1> SUFFICES ASSUME IInv, AInv, [Next]_vars PROVE AInv'
  OBVIOUS
<1>1. TypeOK /\ JobOK /\ JobLeftBatch /\ FailuresBounded
  BY DEF IInv, AInv
<1> DEFINE Bounded == \A e \in Events :
                        attempts'[e] + Cardinality(Holders(e)')
                          <= MaxAttempts + Cardinality(Dispatchers) - 1
           Quiet == /\ attempts' = attempts
                    /\ \A e \in Events, d \in Dispatchers :
                         e \in batch'[d] \/ job'[d] = e => e \in batch[d] \/ job[d] = e
<1>2. Quiet => Bounded
  BY <1>1, QuietStep
<1>3. SUFFICES JobLeftBatch' /\ Bounded
  BY DEF AInv, FailuresBounded
<1> HIDE DEF Bounded
<1> USE <1>1, NoEventAssumption DEF TypeOK, JobOK, Working, JobLeftBatch
<1>4. ASSUME NEW e \in Events, AddEvent(e) \/ LeaseExpires(e) \/ RetryDue(e)
      PROVE  JobLeftBatch' /\ Quiet
  BY <1>4 DEF AddEvent, LeaseExpires, RetryDue, taskVars
<1>5. ASSUME NEW d \in Dispatchers, GetPending(d) PROVE JobLeftBatch' /\ Bounded
  <2>1. Oldest(Pending) \subseteq Events
    BY DEF Oldest, Pending, Recorded
  <2>2. JobLeftBatch'
    BY <1>5, <2>1 DEF GetPending
  <2> QED
    BY <1>5, <2>2, FetchStep DEF Bounded
<1>6. ASSUME NEW d \in Dispatchers, NEW f \in Events,
             LockForProcessing(d, f) \/ SkipLocked(d, f)
      PROVE  JobLeftBatch' /\ Quiet
  BY <1>6 DEF LockForProcessing, SkipLocked, NextInBatch, dbVars
<1>7. ASSUME NEW d \in Dispatchers,
             HandlerReturns(d) \/ HandlerRaises(d) \/ ReadAttempts(d)
               \/ MarkSentRaises(d) \/ Start(d)
      PROVE  JobLeftBatch' /\ Quiet
  BY <1>7 DEF HandlerReturns, HandlerRaises, ReadAttempts, MarkSentRaises, Start, dbVars
<1>8. ASSUME NEW d \in Dispatchers, MarkSent(d) PROVE JobLeftBatch' /\ Quiet
  BY <1>8 DEF MarkSent, JobDone
<1>9. ASSUME NEW d \in Dispatchers, MarkFailed(d) PROVE JobLeftBatch' /\ Bounded
  <2>1. JobLeftBatch'
    BY <1>9 DEF MarkFailed, JobDone
  <2> QED
    BY <1>9, <2>1, FailStep DEF Bounded
<1>10. ASSUME NEW d \in Dispatchers, DrainRaises(d) \/ Stop(d)
       PROVE  JobLeftBatch' /\ Quiet
  BY <1>10 DEF DrainRaises, Stop, TaskEnds, dbVars
<1>11. CASE UNCHANGED vars
  <2>1. JobLeftBatch' /\ Quiet
    BY <1>11 DEF vars, dbVars, taskVars
  <2> QED
    BY <2>1, <1>2
<1> HIDE DEF Quiet
<1> QED
  BY <1>2, <1>4, <1>5, <1>6, <1>7, <1>8, <1>9, <1>10, <1>11
     DEF Next, TaskStep, FaultStep

\* Whatever is retried, taken over or interrupted, an event fails at most
\* max_attempts times plus once for every further dispatcher that had
\* fetched it before.
THEOREM AttemptsNeverExceed == Spec => []AttemptsBounded
<1>1. IInv /\ AInv => AttemptsBounded
  BY HoldersType, BoundsAssumption DEF IInv, AInv, TypeOK, FailuresBounded, AttemptsBounded
<1> QED
  BY <1>1, InitIInv, StepIInv, InitAInv, StepAInv, PTL DEF Spec
-------------------------------------------------------------------------------
(* The dispatcher of a single process implements EventDelivery, as long as *)
(* its database calls do not raise.                                        *)

SingleProcess == (\E d : Dispatchers = {d}) /\ "dberror" \notin FaultKinds

Open(e) == status[e] \in {"PENDING", "FAILED"}

\* What the dispatcher has fetched or works on is not settled, and only what
\* was emitted is recorded.
RInv ==
  /\ \A d \in Dispatchers :
       /\ \A e \in batch[d] : Open(e)
       /\ Working(d) => Open(job[d])
       /\ pc[d] = "drain" \/ batch[d] = {} \/ Working(d)
  /\ Recorded \subseteq emitted

LEMMA InitRInv == Init => RInv
BY DEF Init, RInv, Working, Recorded

\* A step that changes no document's status and hands out nothing new.
LEMMA QuietRInv ==
  ASSUME IInv, RInv, UNCHANGED <<status, emitted>>,
         \A d \in Dispatchers :
           /\ batch'[d] \subseteq batch[d]
           /\ job'[d] = job[d] \/ job'[d] = NoEvent
           /\ Working(d)' => Working(d) /\ job'[d] = job[d]
           /\ batch'[d] = {} \/ pc'[d] = "drain" \/ Working(d)'
  PROVE  RInv'
BY DEF RInv, Open, Recorded, Working

LEMMA StepRInv ==
  ASSUME SingleProcess, IInv, AInv, RInv, [Next]_vars
  PROVE  RInv'
<1> USE DEF IInv, TypeOK, JobOK
<1>1. ASSUME NEW e \in Events, AddEvent(e) PROVE RInv'
  <2>1. status[e] = "ABSENT"
    BY <1>1 DEF AddEvent, RInv, Recorded
  <2>2. \A f \in Events : f # e => status'[f] = status[f]
    BY <1>1 DEF AddEvent
  <2>3. \A f \in Events : Open(f) => Open(f)'
    BY <2>1, <2>2 DEF Open
  <2>4. Recorded' \subseteq emitted'
    BY <1>1, <2>2 DEF AddEvent, RInv, Recorded
  <2>5. UNCHANGED taskVars
    BY <1>1 DEF AddEvent
  <2> QED
    BY <2>3, <2>4, <2>5 DEF RInv, Working, taskVars
<1>2. ASSUME NEW e \in Events, LeaseExpires(e) \/ RetryDue(e) PROVE RInv'
  <2>1. UNCHANGED <<status, emitted, taskVars>>
    BY <1>2 DEF LeaseExpires, RetryDue
  <2> QED
    BY <2>1 DEF RInv, Open, Recorded, Working, taskVars
<1>3. ASSUME NEW d \in Dispatchers, GetPending(d) PROVE RInv'
  <2>1. \A e \in Oldest(Pending) : Open(e)
    BY DEF Oldest, Pending, Open
  <2>2. batch' = [batch EXCEPT ![d] = Oldest(Pending)] /\ pc[d] = "drain"
        /\ UNCHANGED <<status, emitted, pc, job>>
    BY <1>3 DEF GetPending, dbVars
  <2> QED
    BY <2>1, <2>2 DEF RInv, Open, Recorded, Working
<1>4. ASSUME NEW d \in Dispatchers, NEW e \in Events, LockForProcessing(d, e) PROVE RInv'
  <2>1. e \in batch[d] /\ pc[d] = "drain" /\ UNCHANGED <<status, emitted>>
        /\ pc' = [pc EXCEPT ![d] = "publish"] /\ batch' = [batch EXCEPT ![d] = @ \ {e}]
        /\ job' = [job EXCEPT ![d] = e]
    BY <1>4 DEF LockForProcessing, NextInBatch
  <2> QED
    BY <2>1 DEF RInv, Open, Recorded, Working
<1>5. ASSUME NEW d \in Dispatchers, NEW e \in Events, SkipLocked(d, e) PROVE RInv'
  <2>1. pc[d] = "drain" /\ UNCHANGED <<status, emitted, pc, job>>
        /\ batch' = [batch EXCEPT ![d] = @ \ {e}]
    BY <1>5 DEF SkipLocked, dbVars
  <2> QED
    BY <2>1 DEF RInv, Open, Recorded, Working
<1>6. ASSUME NEW d \in Dispatchers, HandlerReturns(d) \/ HandlerRaises(d) \/ ReadAttempts(d)
      PROVE  RInv'
  <2>1. Working(d) /\ Working(d)' /\ UNCHANGED <<status, emitted, batch, job>>
        /\ \A c \in Dispatchers \ {d} : pc'[c] = pc[c]
    BY <1>6 DEF HandlerReturns, HandlerRaises, ReadAttempts, Working, dbVars
  <2> QED
    BY <2>1 DEF RInv, Open, Recorded, Working
<1>7. ASSUME NEW d \in Dispatchers, MarkSent(d) \/ MarkFailed(d) PROVE RInv'
  <2>1. /\ JobDone(d) /\ UNCHANGED <<batch, emitted>> /\ job[d] \in Events /\ Open(job[d])
        /\ \A e \in Events \ {job[d]} : status'[e] = status[e]
    BY <1>7 DEF MarkSent, MarkFailed, RInv, Working
  <2>2. \A c \in Dispatchers : c = d
    BY DEF SingleProcess
  <2>3. job[d] \notin batch[d]
    BY DEF AInv, JobLeftBatch
  <2>4. \A e \in batch[d] : Open(e)'
    BY <2>1, <2>3 DEF RInv, Open
  <2>5. pc'[d] = "drain" /\ ~Working(d)'
    BY <2>1 DEF JobDone, Working
  <2>6. job[d] \in emitted
    BY <2>1 DEF RInv, Recorded, Open
  <2>7. Recorded' \subseteq emitted'
    BY <2>1, <2>6 DEF RInv, Recorded
  <2> QED
    BY <2>1, <2>2, <2>4, <2>5, <2>7 DEF RInv
<1>8. ASSUME NEW d \in Dispatchers, MarkSentRaises(d) \/ DrainRaises(d) PROVE RInv'
  BY <1>8 DEF SingleProcess, MarkSentRaises, DrainRaises, Fault
<1>9. ASSUME NEW d \in Dispatchers, Stop(d) PROVE RInv'
  <2>1. UNCHANGED <<status, emitted>> /\ pc' = [pc EXCEPT ![d] = "down"]
        /\ batch' = [batch EXCEPT ![d] = {}] /\ job' = [job EXCEPT ![d] = NoEvent]
    BY <1>9 DEF Stop, TaskEnds, dbVars
  <2> QED
    BY <2>1 DEF RInv, Open, Recorded, Working
<1>10. ASSUME NEW d \in Dispatchers, Start(d) PROVE RInv'
  <2>1. UNCHANGED <<status, emitted, batch, job>> /\ pc' = [pc EXCEPT ![d] = "drain"]
    BY <1>10 DEF Start, dbVars
  <2> QED
    BY <2>1 DEF RInv, Open, Recorded, Working
<1>11. CASE UNCHANGED vars
  BY <1>11 DEF vars, dbVars, taskVars, RInv, Open, Recorded, Working
<1> QED
  BY <1>1, <1>2, <1>3, <1>4, <1>5, <1>6, <1>7, <1>8, <1>9, <1>10, <1>11
     DEF Next, TaskStep, FaultStep

LEMMA InitDelivers == Init => Delivery!Init
BY DEF Init, Delivery!Init, Outcome

\* What became of an event is a function of its status.
LEMMA OutcomeKept ==
  ASSUME UNCHANGED <<status, delivered>>
  PROVE  UNCHANGED Delivery!vars
BY DEF Delivery!vars, Outcome

LEMMA OutcomeSet ==
  ASSUME TypeOK, NEW e \in Events, NEW s \in OutboxStatus, status' = [status EXCEPT ![e] = s]
  PROVE  Outcome' = [Outcome EXCEPT ![e] = CASE s = "SENT" -> "done"
                                             [] s = "DEAD_LETTER" -> "dead"
                                             [] OTHER -> "open"]
BY DEF TypeOK, OutboxStatus, Outcome

LEMMA StepDelivers ==
  ASSUME SingleProcess, IInv, RInv, [Next]_vars
  PROVE  [Delivery!Next]_(Delivery!vars)
<1> USE DEF IInv, TypeOK, JobOK
<1>1. ASSUME NEW e \in Events, AddEvent(e) PROVE Delivery!Record(e) \/ UNCHANGED Delivery!vars
  <2>1. status[e] = "ABSENT" /\ UNCHANGED delivered
    BY <1>1 DEF AddEvent, RInv, Recorded
  <2>2. CASE status' = status
    BY <2>1, <2>2, OutcomeKept
  <2>3. CASE status' = [status EXCEPT ![e] = "PENDING"]
    <3>1. Outcome' = [Outcome EXCEPT ![e] = "open"]
      BY <2>3, OutcomeSet DEF OutboxStatus
    <3>2. Outcome[e] = "unrecorded"
      BY <2>1 DEF Outcome
    <3> QED
      BY <2>1, <3>1, <3>2 DEF Delivery!Record
  <2> QED
    BY <1>1, <2>2, <2>3 DEF AddEvent
<1>2. ASSUME NEW d \in Dispatchers,
             \/ \E e \in Events : LeaseExpires(e) \/ RetryDue(e)
             \/ GetPending(d) \/ \E e \in Events : LockForProcessing(d, e) \/ SkipLocked(d, e)
             \/ ReadAttempts(d) \/ Stop(d) \/ Start(d)
      PROVE  UNCHANGED Delivery!vars
  <2>1. UNCHANGED <<status, delivered>>
    BY <1>2 DEF LeaseExpires, RetryDue, GetPending, LockForProcessing, SkipLocked, ReadAttempts,
                Stop, TaskEnds, Start, dbVars
  <2> QED
    BY <2>1, OutcomeKept
<1>3. ASSUME NEW d \in Dispatchers, HandlerReturns(d) \/ HandlerRaises(d)
      PROVE  (\E k \in 1..Subscribers : Delivery!Deliver(job[d], k)) \/ UNCHANGED Delivery!vars
  <2>1. pc[d] = "publish" /\ job[d] \in Events /\ handler[d] \in 1..Subscribers
        /\ UNCHANGED status
    BY <1>3, BoundsAssumption DEF HandlerReturns, HandlerRaises, Working, dbVars
  <2>2. CASE UNCHANGED delivered
    BY <2>1, <2>2, OutcomeKept
  <2>3. CASE delivered' = delivered \cup {<<job[d], handler[d]>>}
    <3>1. Outcome' = Outcome /\ Outcome[job[d]] = "open"
      BY <2>1 DEF Outcome, RInv, Open, Working
    <3>2. \A j \in 1..(handler[d] - 1) : <<job[d], j>> \in delivered
      BY <2>1, BoundsAssumption DEF HandledSoFar
    <3> QED
      BY <2>1, <2>3, <3>1, <3>2 DEF Delivery!Deliver
  <2> QED
    BY <1>3, <2>2, <2>3 DEF HandlerReturns, HandlerRaises
<1>4. ASSUME NEW d \in Dispatchers, MarkSent(d) PROVE Delivery!Complete(job[d])
  <2>1. job[d] \in Events /\ Outcome[job[d]] = "open"
    BY <1>4 DEF MarkSent, RInv, Open, Working, Outcome
  <2>2. \A k \in 1..Subscribers : <<job[d], k>> \in delivered
    BY <1>4, BoundsAssumption DEF MarkSent, HandledSoFar
  <2>3. Outcome' = [Outcome EXCEPT ![job[d]] = "done"] /\ UNCHANGED delivered
    BY <1>4, <2>1, OutcomeSet DEF MarkSent, OutboxStatus
  <2> QED
    BY <2>1, <2>2, <2>3 DEF Delivery!Complete
<1>5. ASSUME NEW d \in Dispatchers, MarkFailed(d)
      PROVE  Delivery!GiveUp(job[d]) \/ UNCHANGED Delivery!vars
  <2>1. job[d] \in Events /\ Outcome[job[d]] = "open" /\ UNCHANGED delivered
    BY <1>5 DEF MarkFailed, RInv, Open, Working, Outcome
  <2>2. CASE Exhausted(seen[d])
    <3>1. Outcome' = [Outcome EXCEPT ![job[d]] = "dead"]
      BY <1>5, <2>1, <2>2, OutcomeSet DEF MarkFailed, OutboxStatus
    <3> QED
      BY <2>1, <3>1 DEF Delivery!GiveUp
  <2>3. CASE ~Exhausted(seen[d])
    <3>1. Outcome' = [Outcome EXCEPT ![job[d]] = "open"]
      BY <1>5, <2>1, <2>3, OutcomeSet DEF MarkFailed, OutboxStatus
    <3>2. Outcome' = Outcome
      BY <2>1, <3>1 DEF Outcome
    <3> QED
      BY <2>1, <3>2 DEF Delivery!vars
  <2> QED
    BY <2>2, <2>3
<1>6. ASSUME NEW d \in Dispatchers, MarkSentRaises(d) \/ DrainRaises(d) PROVE FALSE
  BY <1>6 DEF SingleProcess, MarkSentRaises, DrainRaises, Fault
<1>7. CASE UNCHANGED vars
  BY <1>7, OutcomeKept DEF vars, dbVars
<1>8. ASSUME NEW d \in Dispatchers, TaskStep(d) \/ FaultStep(d) \/ Start(d)
      PROVE  [Delivery!Next]_(Delivery!vars)
  <2>1. Working(d) => job[d] \in Events
    OBVIOUS
  <2>2. HandlerReturns(d) \/ HandlerRaises(d) \/ MarkSent(d) \/ MarkFailed(d) => job[d] \in Events
    BY <2>1 DEF HandlerReturns, HandlerRaises, MarkSent, MarkFailed, Working
  <2> QED
    BY <1>2, <1>3, <1>4, <1>5, <1>6, <1>8, <2>2 DEF TaskStep, FaultStep, Delivery!Next
<1>9. PICK d : Dispatchers = {d}
  BY DEF SingleProcess
<1>10. ASSUME NEW e \in Events, AddEvent(e) \/ LeaseExpires(e) \/ RetryDue(e)
       PROVE  [Delivery!Next]_(Delivery!vars)
  BY <1>1, <1>2, <1>9, <1>10 DEF Delivery!Next
<1> QED
  BY <1>7, <1>8, <1>10 DEF Next

\* The single dispatcher of one process, stopped and started at any moment,
\* with leases that run out and handlers that raise, hands events out as
\* EventDelivery promises: in the subscribers' order, never once settled, and
\* settled only when every subscriber has handled it or it is given up.
THEOREM SingleProcessDelivers ==
  ASSUME SingleProcess
  PROVE  Spec => ImplementsDelivery
<1>1. IInv /\ AInv /\ RInv /\ [Next]_vars => RInv'
  BY StepRInv
<1>2. IInv /\ RInv /\ [Next]_vars => [Delivery!Next]_(Delivery!vars)
  BY StepDelivers
<1> QED
  BY <1>1, <1>2, InitIInv, StepIInv, InitAInv, StepAInv, InitRInv, InitDelivers, PTL
     DEF Spec, ImplementsDelivery, Delivery!Spec


===============================================================================
