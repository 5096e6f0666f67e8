----------------------------- MODULE EmployeeProofs -----------------------------
(* Profiles, change requests and accounts: each as it runs beside the       *)
(* others, for any number of requests at a time.                            *)
EXTENDS Services, SequenceTheorems, TLAPS

LEMMA EmployeeBounds ==
  /\ Bounds.workflow \in Nat /\ Bounds.seniority \in Nat /\ Bounds.profile \in Nat
  /\ Bounds.change \in Nat /\ Bounds.opening \in Nat /\ Bounds.signatures \in Nat
  /\ Bounds.accounts \in Nat /\ Bounds.masters \in Nat /\ Bounds.departments \in Nat
BY BoundsAssumption

-------------------------------------------------------------------------------
(* The composition takes the steps of one component and stutters in the *)
(* others, so it implements each. *)

LEMMA SimulatesProfile == Spec => Profile!Spec
<1>1. Init => Profile!Init
  BY DEF Init
<1>2. [Next]_vars => [Profile!Next]_(Profile!vars)
  BY DEF Next, vars, ProfileVars, Profile!vars
<1> QED
  BY <1>1, <1>2, PTL DEF Spec, Profile!Spec

LEMMA SimulatesChange == Spec => Change!Spec
<1>1. Init => Change!Init
  BY DEF Init
<1>2. [Next]_vars => [Change!Next]_(Change!vars)
  BY DEF Next, vars, RequestVars, Change!vars
<1> QED
  BY <1>1, <1>2, PTL DEF Spec, Change!Spec

LEMMA SimulatesAccount == Spec => Account!Spec
<1>1. Init => Account!Init
  BY DEF Init
<1>2. [Next]_vars => [Account!Next]_(Account!vars)
  BY DEF Next, vars, AccountVars, Account!vars
<1> QED
  BY <1>1, <1>2, PTL DEF Spec, Account!Spec


-------------------------------------------------------------------------------
(* The employee's profile. *)

\* An identity was verified by another than its creator, and activated by a
\* third.
ProfDutyInv ==
  identity # Absent =>
    /\ identity.status \in {"VERIFIED", "ACTIVE"} =>
         identity.verified_by \in Officers \ {identity.created_by}
    /\ identity.status = "ACTIVE" =>
         identity.activated_by \in Officers \ {identity.created_by, identity.verified_by}

\* Nothing is known of an employee without an identity, and nothing says that
\* it is active before it is.
ProfKnownInv ==
  /\ emitted # {} \/ extension # Absent \/ readModel # Absent \/ profileJob # Profile!Idle =>
       identity # Absent
  /\ Profile!CreatedEvent("CREATED", "ACTIVE") \in emitted => identity.status = "ACTIVE"
  /\ readModel # Absent =>
       /\ readModel.identity_status = "ACTIVE" => identity.status = "ACTIVE"
       /\ readModel.identity_status = None => readModel.completed = None

\* Which sections are completed the read model has from the extension, until
\* this is deleted or written again.
ProfCompletedInv ==
  ~profileCut /\ profileJob.step # "forget" /\ readModel # Absent /\ readModel.completed # None =>
    /\ extension # Absent /\ extension.completed # None
    /\ profileJob.step # "project" => readModel.completed = extension.completed

\* A row is a draft, or it says what the extension says: nobody else writes
\* this between the refresh and the decision.
ProfFindInv ==
  profileJob.step = "find" /\ readModel # Absent /\ readModel.status \notin {None, "DRAFT"} =>
    /\ readModel.status = Profile!ProfileStatus
    /\ readModel.created_by = Profile!CreatedBy
    /\ extension.verified_by # None => readModel.verified_by = extension.verified_by

\* The statuses a command is decided in.
ProfFrom ==
  [UPDATE |-> {"DRAFT", "REJECTED", "APPROVED"}, SUBMIT |-> {"DRAFT", "REJECTED"},
   VERIFY |-> {"SUBMITTED"}, APPROVE |-> {"VERIFIED"}, LOCK |-> {"APPROVED"},
   REJECT |-> {"SUBMITTED", "VERIFIED"}, DELETE |-> {"DRAFT"}]

ProfWriteInv ==
  profileJob.step = "write" =>
    /\ profileJob.status \in ProfFrom[profileJob.command]
    /\ profileJob.status # "DRAFT" \/ ~misread => profileJob.status = Profile!ProfileStatus
    /\ profileJob.command = "VERIFY" => profileJob.actor # Profile!CreatedBy
    /\ profileJob.command = "APPROVE" =>
         profileJob.actor \notin {Profile!CreatedBy, extension.verified_by}
    /\ profileJob.command = "SUBMIT" /\ ~profileCut /\ ~misread =>
         identity.status = "ACTIVE" /\ extension # Absent /\ extension.completed = TRUE

ProfThirdInv ==
  /\ Profile!ProfileStatus \in {"VERIFIED", "APPROVED", "LOCKED"} =>
       extension.verified_by \in Officers \ {Profile!CreatedBy}
  /\ Profile!ProfileStatus \in {"APPROVED", "LOCKED"} =>
       extension.approved_by \in Officers \ {Profile!CreatedBy, extension.verified_by}

\* How far the status that was reached is known.
ProfToldInv ==
  ~profileCut /\ ~misread =>
    /\ profileJob.step \in {"idle", "find", "write"} \/ profileJob.command \in {"UPDATE", "DELETE"} =>
         Profile!ProfileStatus = "DRAFT" \/ (audited = Profile!ProfileStatus /\ announced = Profile!ProfileStatus)
    /\ profileJob.step \in {"project", "audit", "publish"} /\ profileJob.command \in DOMAIN Profile!Workflow =>
         Profile!ProfileStatus = Profile!Workflow[profileJob.command]
    /\ profileJob.step = "forget" => profileJob.command = "DELETE"
    /\ profileJob.step = "publish" =>
         profileJob.command \in DOMAIN Profile!Workflow /\ audited = Profile!ProfileStatus
    /\ profileJob.step \in {"project", "audit"} /\ profileJob.command = "UPDATE" =>
         profileJob.status = Profile!ProfileStatus

ProfFind == [step |-> "find", command |-> None, actor |-> None, completed |-> None, status |-> None]

ProfTInv ==
  /\ identity \in Profile!Identity \cup {Absent}
  /\ extension \in Profile!Extension \cup {Absent}
  /\ readModel \in Profile!ReadModel \cup {Absent}
  /\ emitted \subseteq {Profile!CreatedEvent("IDENTITY_CREATED", "DRAFT"), Profile!CreatedEvent("CREATED", "DRAFT"),
                        Profile!CreatedEvent("CREATED", "ACTIVE"),
                        Profile!CreatedEvent("UPDATED", None)}
  /\ audited \in Profile!Statuses /\ announced \in Profile!Statuses
  /\ profileJob \in Profile!Job \cup {Profile!Idle, ProfFind}
  /\ profileHandled \in 0..Bounds.profile
  /\ profileCut \in BOOLEAN /\ misread \in BOOLEAN

ProfIInv ==
  /\ ProfTInv
  /\ ProfDutyInv /\ ProfKnownInv /\ ProfCompletedInv
  /\ ProfFindInv /\ ProfWriteInv
  /\ ProfThirdInv /\ Profile!ReviewedIsReady /\ ProfToldInv

LEMMA ProfValuesAre ==
  /\ None \notin Officers /\ None # TRUE /\ None # FALSE /\ None \notin Profile!Statuses
  /\ None \notin Profile!IdentityStatuses
  /\ Profile!Idle.step = "idle" /\ Profile!Idle.command = None /\ Profile!Idle \notin Profile!Job
  /\ ProfFind.step = "find" /\ ProfFind # Profile!Idle /\ ProfFind \notin Profile!Job
  /\ DOMAIN Profile!Workflow = {"SUBMIT", "VERIFY", "APPROVE", "LOCK", "REJECT"}
  /\ Absent \notin Profile!Identity
  /\ Absent \notin Profile!Extension
  /\ Absent \notin Profile!ReadModel
<1>1. DOMAIN Profile!Workflow = {"SUBMIT", "VERIFY", "APPROVE", "LOCK", "REJECT"}
  BY DEF Profile!Workflow
<1>2. None # TRUE /\ None # FALSE
  BY ProfileAssumption
<1> QED
  BY <1>1, <1>2, ProfileAssumption DEF Profile!Idle, ProfFind, Profile!Job, Profile!Steps

LEMMA ProfStatusIs ==
  ASSUME ProfTInv
  PROVE  /\ Profile!ProfileStatus \in Profile!Statuses
         /\ extension = Absent => Profile!ProfileStatus = "DRAFT"
         /\ extension # Absent => /\ extension \in Profile!Extension
                                  /\ Profile!ProfileStatus = IF extension.status = None THEN "DRAFT"
                                       ELSE extension.status
BY DEF ProfTInv, Profile!ProfileStatus, Profile!Extension, Profile!Statuses

LEMMA ProfRefreshedIs ==
  ASSUME ProfTInv, identity # Absent
  PROVE  /\ Profile!CreatedBy \in Profile!Somebody
         /\ Profile!Row \in Profile!ReadModel
         /\ Profile!Refreshed \in Profile!ReadModel
         /\ Profile!Refreshed.status = Profile!ProfileStatus
         /\ Profile!Refreshed.identity_status = identity.status
         /\ Profile!Refreshed.created_by = Profile!CreatedBy
         /\ extension # Absent /\ extension.verified_by # None =>
              Profile!Refreshed.verified_by = extension.verified_by
         /\ Profile!Refreshed.completed = IF extension = Absent \/ extension.completed = None
                                    THEN Profile!Row.completed ELSE extension.completed
<1>1. Profile!Row \in Profile!ReadModel
  BY DEF ProfTInv, Profile!Row, Profile!NoFields, Profile!ReadModel, Profile!Somebody,
     Profile!Completed
<1>2. Profile!CreatedBy \in Profile!Somebody
  BY DEF ProfTInv, Profile!CreatedBy, Profile!Identity, Profile!Extension, Profile!Somebody
<1>3. identity.status \in Profile!IdentityStatuses
  BY DEF ProfTInv, Profile!Identity
<1>4. /\ (IF Profile!VerifiedBy = None THEN Profile!Row.verified_by ELSE Profile!VerifiedBy) \in Profile!Somebody
      /\ extension # Absent /\ extension.verified_by # None => Profile!VerifiedBy = extension.verified_by
  BY <1>1 DEF ProfTInv, Profile!VerifiedBy, Profile!Identity, Profile!Extension, Profile!ReadModel
<1>5. (IF extension = Absent \/ extension.completed = None THEN Profile!Row.completed ELSE extension.completed)
        \in Profile!Completed
  BY <1>1 DEF ProfTInv, Profile!Extension, Profile!ReadModel
<1>6. Profile!ProfileStatus \in Profile!Statuses
  BY ProfStatusIs
<1>7. Profile!Refreshed \in Profile!ReadModel
  BY <1>2, <1>3, <1>4, <1>5, <1>6 DEF Profile!Refreshed, Profile!ReadModel
<1> QED
  BY <1>1, <1>2, <1>4, <1>7 DEF Profile!Refreshed

LEMMA ProfInvInit == Profile!Init => ProfIInv
<1> SUFFICES ASSUME Profile!Init PROVE ProfIInv
  OBVIOUS
<1> USE ProfValuesAre
<1>0. /\ readModel = Absent /\ audited = Profile!ProfileStatus /\ announced = Profile!ProfileStatus
      /\ profileJob = Profile!Idle /\ profileHandled = 0 /\ profileCut = FALSE /\ misread = FALSE
      /\ profileCut \in BOOLEAN /\ misread \in BOOLEAN
  BY DEF Profile!Init
<1>1. CASE identity = Absent /\ emitted = {} /\ extension = Absent
  <2>1. Profile!ProfileStatus = "DRAFT"
    BY <1>1 DEF Profile!ProfileStatus
  <2>2. ProfTInv
    <3>1. profileHandled \in 0..Bounds.profile
      <4>1. profileHandled = 0
        BY <1>0
      <4> HIDE ProfValuesAre
      <4> QED
        BY <4>1, EmployeeBounds
    <3>2. audited \in Profile!Statuses /\ announced \in Profile!Statuses
      BY <1>0, <2>1 DEF Profile!Statuses
    <3> QED
      BY <1>0, <1>1, <3>1, <3>2 DEF ProfTInv
  <2> QED
    BY <1>0, <1>1, <2>1, <2>2
    DEF ProfIInv, ProfDutyInv, ProfKnownInv, ProfCompletedInv, ProfFindInv, ProfWriteInv,
    ProfThirdInv, Profile!ReviewedIsReady, ProfToldInv
<1>2. ASSUME NEW u \in Officers, NEW v \in Officers, NEW w \in Officers, v # u, w \notin {u, v},
             identity = [status |-> "ACTIVE", created_by |-> u, verified_by |-> v, activated_by |-> w],
             emitted = {Profile!CreatedEvent("IDENTITY_CREATED", "DRAFT"), Profile!CreatedEvent("CREATED", "DRAFT"),
                        Profile!CreatedEvent("CREATED", "ACTIVE")},
             extension \in {Absent, Profile!Reviewed("REJECTED", v, None), Profile!Reviewed("REJECTED", w, None),
                            Profile!Reviewed("APPROVED", v, w)}
      PROVE  ProfIInv
  <2>1. identity \in Profile!Identity /\ identity # Absent
    BY <1>2 DEF Profile!Identity, Profile!IdentityStatuses, Profile!Somebody
  <2>2. extension \in Profile!Extension \cup {Absent}
    <3>1. \A status \in Profile!Statuses, x, y \in Profile!Somebody :
            Profile!Reviewed(status, x, y) \in Profile!Extension
      <4>1. TRUE \in Profile!Completed /\ None \in Profile!Somebody
        BY DEF Profile!Completed, Profile!Somebody
      <4> QED
        BY <4>1 DEF Profile!Extension, Profile!Reviewed
    <3>2. v \in Profile!Somebody /\ w \in Profile!Somebody /\ None \in Profile!Somebody
      BY DEF Profile!Somebody
    <3>3. "REJECTED" \in Profile!Statuses /\ "APPROVED" \in Profile!Statuses
      BY DEF Profile!Statuses
    <3> QED
      BY <1>2, <3>1, <3>2, <3>3
  <2>3. Profile!ProfileStatus \in {"DRAFT", "REJECTED", "APPROVED"}
    BY <1>2 DEF Profile!ProfileStatus, Profile!Reviewed
  <2>4. ProfTInv
    <3>1. Profile!ProfileStatus \in Profile!Statuses
      BY <2>3 DEF Profile!Statuses
    <3> QED
      <4>1. profileHandled \in 0..Bounds.profile
        <5>1. profileHandled = 0
          BY <1>0
        <5> HIDE ProfValuesAre
        <5> QED
          BY <5>1, EmployeeBounds
      <4>2. audited \in Profile!Statuses /\ announced \in Profile!Statuses
        BY <1>0, <3>1
      <4> QED
        BY <1>0, <1>2, <2>1, <2>2, <4>1, <4>2 DEF ProfTInv
  <2>5. ProfDutyInv /\ ProfKnownInv
    BY <1>0, <1>2, <2>1 DEF ProfDutyInv, ProfKnownInv
  <2>6. ProfThirdInv
    <3> SUFFICES ASSUME Profile!ProfileStatus \in {"VERIFIED", "APPROVED", "LOCKED"}
                 PROVE ProfThirdInv
      BY DEF ProfThirdInv
    <3>1. extension = Profile!Reviewed("APPROVED", v, w)
      BY <1>2 DEF Profile!ProfileStatus, Profile!Reviewed
    <3>2. Profile!CreatedBy = u
      BY <1>2, <3>1 DEF Profile!CreatedBy, Profile!Reviewed
    <3> QED
      BY <1>2, <3>1, <3>2 DEF ProfThirdInv, Profile!Reviewed
  <2> QED
    BY <1>0, <2>3, <2>4, <2>5, <2>6
    DEF ProfIInv, ProfCompletedInv, ProfFindInv, ProfWriteInv, Profile!ReviewedIsReady, ProfToldInv
<1> QED
  BY <1>1, <1>2 DEF Profile!Init

-------------------------------------------------------------------------------
\* What stays as it was where the profile does.
LEMMA ProfProfileStays ==
  ASSUME ProfIInv, extension' = extension,
         identity # Absent => identity' # Absent /\ identity'.created_by = identity.created_by
  PROVE  /\ Profile!ProfileStatus' = Profile!ProfileStatus
         /\ extension # Absent => Profile!CreatedBy' = Profile!CreatedBy
         /\ identity # Absent => Profile!CreatedBy' = Profile!CreatedBy
         /\ ProfThirdInv'
<1>1. Profile!ProfileStatus' = Profile!ProfileStatus
  BY DEF Profile!ProfileStatus
<1>2. extension # Absent => identity # Absent
  BY DEF ProfIInv, ProfKnownInv
<1>3. identity # Absent => Profile!CreatedBy' = Profile!CreatedBy
  BY DEF Profile!CreatedBy
<1>4. extension = Absent => Profile!ProfileStatus = "DRAFT"
  BY DEF Profile!ProfileStatus
<1> QED
  BY <1>1, <1>2, <1>3, <1>4 DEF ProfIInv, ProfThirdInv

\* The steps of the identity and of the read model while no request writes.
LEMMA ProfRecordStays ==
  ASSUME ProfIInv, UNCHANGED <<extension, audited, announced, profileJob, profileCut, misread>>,
         identity # Absent => /\ identity' # Absent /\ identity'.created_by = identity.created_by
                              /\ identity.status = "ACTIVE" => identity'.status = "ACTIVE",
         identity = Absent => identity' = Absent \/ profileJob = Profile!Idle
  PROVE  ProfThirdInv' /\ ProfWriteInv' /\ Profile!ReviewedIsReady' /\ ProfToldInv'
<1>1. /\ Profile!ProfileStatus' = Profile!ProfileStatus /\ ProfThirdInv'
      /\ identity # Absent => Profile!CreatedBy' = Profile!CreatedBy
  BY ProfProfileStays
<1>2. profileJob # Profile!Idle => identity # Absent
  BY DEF ProfIInv, ProfKnownInv
<1>3. ProfWriteInv'
  <2> SUFFICES ASSUME profileJob.step = "write" PROVE ProfWriteInv'
    BY DEF ProfWriteInv
  <2>1. identity # Absent
    BY <1>2, ProfValuesAre
  <2> QED
    BY <1>1, <2>1 DEF ProfIInv, ProfWriteInv
<1>4. Profile!ReviewedIsReady'
  <2>1. extension # Absent => identity # Absent
    BY DEF ProfIInv, ProfKnownInv
  <2>2. extension = Absent => Profile!ProfileStatus = "DRAFT"
    BY DEF Profile!ProfileStatus
  <2> QED
    BY <1>1, <2>1, <2>2 DEF ProfIInv, Profile!ReviewedIsReady
<1>5. ProfToldInv'
  BY <1>1 DEF ProfIInv, ProfToldInv
<1> QED
  BY <1>1, <1>3, <1>4, <1>5

LEMMA ProfCreateKeeps ==
  ASSUME ProfIInv, NEW u \in Officers, Profile!CreateIdentity(u)
  PROVE  ProfIInv'
<1>1. /\ profileJob = Profile!Idle
      /\ profileHandled < Bounds.profile
      /\ profileHandled' = profileHandled + 1
      /\ identity = Absent
      /\ identity' = [status |-> "DRAFT", created_by |-> u, verified_by |-> None, activated_by |-> None]
      /\ emitted' = emitted \cup {Profile!CreatedEvent("IDENTITY_CREATED", "DRAFT"), Profile!CreatedEvent("CREATED", "DRAFT")}
      /\ UNCHANGED <<extension, readModel, audited, announced, profileJob, profileCut, misread>>
  BY DEF Profile!CreateIdentity, Profile!Accept, Profile!HistoryVars
<1>2. /\ ProfTInv /\ emitted = {} /\ extension = Absent /\ readModel = Absent
  BY <1>1 DEF ProfIInv, ProfKnownInv
<1>3. identity' \in Profile!Identity /\ identity' # Absent
  <2>1. identity' \in Profile!Identity
    BY <1>1 DEF Profile!Identity, Profile!IdentityStatuses, Profile!Somebody
  <2> QED
    BY <2>1, ProfValuesAre
<1>4. profileHandled' \in 0..Bounds.profile
  BY <1>1, <1>2, EmployeeBounds DEF ProfTInv
<1>5. ProfTInv'
  BY <1>1, <1>2, <1>3, <1>4 DEF ProfTInv
<1>6. ProfDutyInv' /\ ProfCompletedInv' /\ ProfFindInv'
  BY <1>1, <1>2, ProfValuesAre DEF ProfDutyInv, ProfCompletedInv, ProfFindInv
<1>7. ProfKnownInv'
  BY <1>1, <1>2, <1>3 DEF ProfKnownInv, Profile!CreatedEvent
<1> QED
  BY <1>1, <1>5, <1>6, <1>7, ProfRecordStays DEF ProfIInv

LEMMA ProfTransitionIdentityKeeps ==
  ASSUME ProfIInv, NEW u \in Officers, NEW command \in {"SUBMIT", "VERIFY", "ACTIVATE", "REJECT"},
         Profile!TransitionIdentity(command, u)
  PROVE  ProfIInv'
<1> DEFINE move == Profile!IdentityMove(command, u)
<1>1. /\ profileJob = Profile!Idle
      /\ profileHandled < Bounds.profile
      /\ profileHandled' = profileHandled + 1
      /\ identity # Absent
      /\ identity.status \in move.from /\ u \notin move.not
      /\ identity' = [identity EXCEPT !.status = move.to,
                       !.verified_by = IF move.to = "VERIFIED" THEN u ELSE @,
                       !.activated_by = IF move.to = "ACTIVE" THEN u ELSE @]
      /\ emitted' = IF move.to = "ACTIVE"
           THEN emitted \cup {Profile!CreatedEvent("CREATED", "ACTIVE")} ELSE emitted
      /\ UNCHANGED <<extension, readModel, audited, announced, profileJob, profileCut, misread>>
  BY DEF Profile!TransitionIdentity, Profile!Accept, Profile!HistoryVars
<1>2. ProfTInv /\ ProfDutyInv /\ ProfKnownInv /\ ProfCompletedInv /\ identity \in Profile!Identity
  BY <1>1 DEF ProfIInv, ProfTInv
<1>3. /\ move.to \in {"SUBMITTED", "VERIFIED", "ACTIVE", "REJECTED"}
      /\ identity.status # "ACTIVE"
      /\ move.to = "VERIFIED" => identity.created_by \in move.not
      /\ move.to = "ACTIVE" =>
           identity.status = "VERIFIED" /\ move.not = {identity.created_by, identity.verified_by}
  BY <1>1 DEF Profile!IdentityMove
<1> HIDE DEF move
<1>4. /\ identity' \in Profile!Identity /\ identity'.status = move.to
      /\ identity'.created_by = identity.created_by
      /\ identity'.verified_by = IF move.to = "VERIFIED" THEN u ELSE identity.verified_by
      /\ identity'.activated_by = IF move.to = "ACTIVE" THEN u ELSE identity.activated_by
  BY <1>1, <1>2, <1>3 DEF Profile!Identity, Profile!IdentityStatuses, Profile!Somebody
<1>5. identity' # Absent
  BY <1>4, ProfValuesAre
<1>6. profileHandled' \in 0..Bounds.profile
  BY <1>1, <1>2, EmployeeBounds DEF ProfTInv
<1>7. ProfTInv'
  BY <1>1, <1>2, <1>4, <1>6 DEF ProfTInv
<1>8. ProfDutyInv'
  BY <1>1, <1>2, <1>3, <1>4 DEF ProfDutyInv
<1>9. ProfCompletedInv' /\ ProfFindInv'
  BY <1>1, <1>2, ProfValuesAre DEF ProfCompletedInv, ProfFindInv
<1>10. ProfKnownInv'
  BY <1>1, <1>2, <1>3, <1>4, <1>5 DEF ProfKnownInv
<1>11. ProfThirdInv' /\ ProfWriteInv' /\ Profile!ReviewedIsReady' /\ ProfToldInv'
  BY <1>1, <1>3, <1>4, <1>5, ProfRecordStays
<1> QED
  BY <1>7, <1>8, <1>9, <1>10, <1>11 DEF ProfIInv

LEMMA ProfUpdateIdentityKeeps ==
  ASSUME ProfIInv, Profile!UpdateIdentity
  PROVE  ProfIInv'
<1>1. /\ profileJob = Profile!Idle
      /\ profileHandled < Bounds.profile
      /\ profileHandled' = profileHandled + 1
      /\ identity # Absent
      /\ emitted' = emitted \cup {Profile!CreatedEvent("UPDATED", None)}
      /\ UNCHANGED <<identity, extension, readModel, audited, announced, profileJob, profileCut,
                     misread>>
  BY DEF Profile!UpdateIdentity, Profile!Accept, Profile!HistoryVars
<1>2. ProfTInv /\ ProfDutyInv /\ ProfKnownInv /\ ProfCompletedInv
  BY DEF ProfIInv
<1>3. profileHandled' \in 0..Bounds.profile
  BY <1>1, <1>2, EmployeeBounds DEF ProfTInv
<1>4. ProfTInv'
  BY <1>1, <1>2, <1>3 DEF ProfTInv
<1>5. ProfDutyInv' /\ ProfCompletedInv' /\ ProfFindInv'
  BY <1>1, <1>2, ProfValuesAre DEF ProfDutyInv, ProfCompletedInv, ProfFindInv
<1>6. ProfKnownInv'
  BY <1>1, <1>2 DEF ProfKnownInv, Profile!CreatedEvent
<1> QED
  BY <1>1, <1>4, <1>5, <1>6, ProfRecordStays DEF ProfIInv

\* The fields of what is found.
LEMMA ProfFoundIs ==
  ASSUME ProfTInv, identity # Absent
  PROVE  /\ Profile!Found.status \in Profile!Statuses
         /\ readModel = Absent =>
              /\ Profile!Found.status = Profile!ProfileStatus
              /\ Profile!Found.identity_status = identity.status
              /\ Profile!Found.created_by = Profile!CreatedBy
              /\ extension # Absent /\ extension.verified_by # None =>
                   Profile!Found.verified_by = extension.verified_by
              /\ Profile!Found.completed = IF extension = Absent THEN None ELSE extension.completed
         /\ readModel # Absent =>
              /\ Profile!Found.status = IF readModel.status = None THEN "DRAFT" ELSE readModel.status
              /\ Profile!Found.identity_status = readModel.identity_status
              /\ Profile!Found.created_by = readModel.created_by
              /\ Profile!Found.verified_by = readModel.verified_by
              /\ Profile!Found.completed = readModel.completed
<1>1. PICK r : r = IF readModel = Absent THEN Profile!Refreshed ELSE readModel
  OBVIOUS
<1>2. r \in Profile!ReadModel
  BY <1>1, ProfRefreshedIs DEF ProfTInv
<1>3. /\ Profile!Found.status = IF r.status = None THEN "DRAFT" ELSE r.status
      /\ Profile!Found.identity_status = r.identity_status /\ Profile!Found.created_by = r.created_by
      /\ Profile!Found.verified_by = r.verified_by /\ Profile!Found.completed = r.completed
  BY <1>1, <1>2 DEF Profile!Found, Profile!ReadModel
<1>4. Profile!Found.status \in Profile!Statuses
  BY <1>2, <1>3 DEF Profile!ReadModel, Profile!Statuses
<1>5. CASE readModel = Absent
  <2>1. Profile!Row.completed = None
    BY <1>5 DEF Profile!Row, Profile!NoFields
  <2>2. Profile!ProfileStatus # None
    BY ProfStatusIs, ProfValuesAre
  <2> QED
    BY <1>1, <1>3, <1>4, <1>5, <2>1, <2>2, ProfRefreshedIs
<1>6. CASE readModel # Absent
  BY <1>1, <1>3, <1>4, <1>6
<1> QED
  BY <1>5, <1>6

LEMMA ProfDeliverKeeps ==
  ASSUME ProfIInv, NEW e \in emitted, Profile!Deliver(e)
  PROVE  ProfIInv'
<1>1. /\ UNCHANGED <<identity, extension, emitted, audited, announced, profileJob, profileHandled,
                     profileCut, misread>>
      /\ readModel' = IF e.name = "UPDATED" THEN Profile!Row
                      ELSE [Profile!Row EXCEPT !.status = "DRAFT", !.identity_status = e.identity_status,
                                       !.created_by = identity.created_by]
  BY DEF Profile!Deliver, Profile!HistoryVars
<1>2. /\ ProfTInv
      /\ ProfDutyInv
      /\ ProfKnownInv
      /\ ProfCompletedInv
      /\ ProfFindInv
      /\ identity # Absent
      /\ identity \in Profile!Identity
  BY DEF ProfIInv, ProfTInv, ProfKnownInv
<1>3. /\ Profile!Row \in Profile!ReadModel
      /\ Profile!Row = IF readModel = Absent THEN Profile!NoFields ELSE readModel
  BY <1>2, ProfRefreshedIs DEF Profile!Row
<1>4. CASE e.name = "UPDATED"
  <2>1. readModel' = Profile!Row /\ readModel' # Absent
    BY <1>1, <1>3, <1>4, ProfValuesAre
  <2>2. ProfTInv'
    BY <1>1, <1>2, <1>3, <2>1 DEF ProfTInv
  <2>3. ProfKnownInv'
    <3>1. CASE readModel = Absent
      <4>1. readModel'.identity_status = None /\ readModel'.completed = None /\ None # "ACTIVE"
        BY <1>3, <2>1, <3>1, ProfValuesAre DEF Profile!NoFields, Profile!IdentityStatuses
      <4> QED
        BY <1>1, <1>2, <4>1 DEF ProfKnownInv
    <3>2. CASE readModel # Absent
      BY <1>1, <1>2, <1>3, <2>1, <3>2 DEF ProfKnownInv
    <3> QED
      BY <3>1, <3>2
  <2>4. ProfCompletedInv'
    BY <1>1, <1>2, <1>3, <2>1 DEF ProfCompletedInv, Profile!NoFields
  <2>5. ProfFindInv'
    BY <1>1, <1>2, <1>3, <2>1 DEF ProfFindInv, Profile!NoFields, Profile!ProfileStatus,
       Profile!CreatedBy
  <2>6. ProfDutyInv'
    BY <1>1, <1>2 DEF ProfDutyInv
  <2> QED
    BY <1>1, <1>2, <2>2, <2>3, <2>4, <2>5, <2>6, ProfRecordStays DEF ProfIInv
<1>5. CASE e.name # "UPDATED"
  <2>1. /\ e.identity_status \in {"DRAFT", "ACTIVE"}
        /\ e.identity_status = "ACTIVE" => identity.status = "ACTIVE"
    BY <1>2, <1>5 DEF ProfTInv, ProfKnownInv, Profile!CreatedEvent
  <2>2. /\ readModel' \in Profile!ReadModel /\ readModel'.status = "DRAFT"
        /\ readModel'.identity_status = e.identity_status
        /\ readModel'.completed = Profile!Row.completed
    BY <1>1, <1>2, <1>3, <1>5, <2>1 DEF Profile!ReadModel, Profile!Statuses,
       Profile!IdentityStatuses, Profile!Somebody, Profile!Identity
  <2>3. ProfTInv'
    BY <1>1, <1>2, <2>2 DEF ProfTInv
  <2>4. ProfKnownInv'
    BY <1>1, <1>2, <2>1, <2>2, ProfValuesAre DEF ProfKnownInv, Profile!IdentityStatuses
  <2>5. ProfCompletedInv'
    BY <1>1, <1>2, <1>3, <2>2 DEF ProfCompletedInv, Profile!NoFields
  <2>6. ProfFindInv'
    BY <2>2 DEF ProfFindInv
  <2>7. ProfDutyInv'
    BY <1>1, <1>2 DEF ProfDutyInv
  <2> QED
    BY <1>1, <1>2, <2>3, <2>4, <2>5, <2>6, <2>7, ProfRecordStays DEF ProfIInv
<1> QED
  BY <1>4, <1>5

\* The read model after a refresh.
LEMMA ProfRefreshKeeps ==
  ASSUME ProfIInv, identity # Absent, readModel' = Profile!Refreshed,
         UNCHANGED <<identity, extension, emitted, profileCut>>,
         profileJob' = profileJob \/ profileJob.step = "project" \/ profileJob = Profile!Idle,
         profileJob'.step # "forget" => profileJob.step # "forget"
  PROVE  readModel' \in Profile!ReadModel /\ ProfKnownInv' /\ ProfCompletedInv' /\ ProfFindInv'
<1>1. ProfTInv /\ ProfKnownInv /\ ProfCompletedInv
  BY DEF ProfIInv
<1>2. PICK r : r = Profile!Refreshed
  OBVIOUS
<1>3. /\ r \in Profile!ReadModel
      /\ r.status = Profile!ProfileStatus
      /\ r.identity_status = identity.status
      /\ r.created_by = Profile!CreatedBy
      /\ extension # Absent /\ extension.verified_by # None => r.verified_by = extension.verified_by
      /\ r.completed = IF extension = Absent \/ extension.completed = None
                         THEN Profile!Row.completed ELSE extension.completed
  BY <1>1, <1>2, ProfRefreshedIs
<1>4. readModel' = r /\ r # Absent
  BY <1>2, <1>3, ProfValuesAre
<1>5. Profile!ProfileStatus' = Profile!ProfileStatus /\ Profile!CreatedBy' = Profile!CreatedBy
  BY DEF Profile!ProfileStatus, Profile!CreatedBy
<1>6. ProfKnownInv'
  <2>1. identity.status # None
    BY <1>1, ProfValuesAre DEF ProfTInv, Profile!Identity
  <2> QED
    BY <1>1, <1>3, <1>4, <2>1 DEF ProfKnownInv
<1>7. ProfCompletedInv'
  <2> SUFFICES ASSUME ~profileCut, profileJob'.step # "forget", r.completed # None
               PROVE  /\ extension # Absent
                      /\ extension.completed # None
                      /\ r.completed = extension.completed
    BY <1>4 DEF ProfCompletedInv
  <2>1. Profile!Row.completed # None => extension # Absent /\ extension.completed # None
    BY <1>1 DEF ProfCompletedInv, Profile!Row, Profile!NoFields
  <2> QED
    BY <1>3, <2>1
<1>8. ProfFindInv'
  <2>1. Profile!ProfileStatus # "DRAFT" => extension # Absent
    BY ProfStatusIs, <1>1
  <2> QED
    BY <1>3, <1>4, <1>5, <2>1 DEF ProfFindInv
<1> QED
  BY <1>3, <1>4, <1>6, <1>7, <1>8

LEMMA ProfReadKeeps ==
  ASSUME ProfIInv, Profile!ReadProfile
  PROVE  ProfIInv'
<1>1. /\ UNCHANGED <<identity, extension, emitted, audited, announced, profileJob, profileHandled,
                     profileCut, misread>>
      /\ identity # Absent /\ readModel' = IF identity.status = "REJECTED" THEN Absent
           ELSE Profile!Refreshed
  BY DEF Profile!ReadProfile, Profile!HistoryVars
<1>2. ProfTInv /\ ProfDutyInv /\ ProfKnownInv /\ ProfCompletedInv
  BY DEF ProfIInv
<1>3. /\ readModel' \in Profile!ReadModel \cup {Absent}
      /\ ProfKnownInv'
      /\ ProfCompletedInv'
      /\ ProfFindInv'
  <2>1. CASE readModel' = Absent
    BY <1>1, <1>2, <2>1 DEF ProfKnownInv, ProfCompletedInv, ProfFindInv
  <2>2. CASE readModel' = Profile!Refreshed
    BY <1>1, <2>2, ProfRefreshKeeps
  <2> QED
    BY <1>1, <2>1, <2>2
<1>4. ProfTInv'
  BY <1>1, <1>2, <1>3 DEF ProfTInv
<1>5. ProfDutyInv'
  BY <1>1, <1>2 DEF ProfDutyInv
<1> QED
  BY <1>1, <1>3, <1>4, <1>5, ProfRecordStays DEF ProfIInv

LEMMA ProfBeginKeeps ==
  ASSUME ProfIInv, Profile!Begin
  PROVE  ProfIInv'
<1>1. /\ profileJob = Profile!Idle
      /\ identity # Absent
      /\ readModel' = Profile!Refreshed
      /\ profileJob' = [Profile!Idle EXCEPT !.step = "find"]
      /\ UNCHANGED <<identity, emitted, extension, audited, announced, profileHandled, profileCut,
                     misread>>
  BY DEF Profile!Begin, Profile!HistoryVars, Profile!IdentityVars
<1>2. ProfTInv /\ ProfDutyInv /\ ProfToldInv /\ Profile!ReviewedIsReady
  BY DEF ProfIInv
<1>3. profileJob' = ProfFind
  BY <1>1 DEF ProfFind, Profile!Idle
<1>4. readModel' \in Profile!ReadModel /\ ProfKnownInv' /\ ProfCompletedInv' /\ ProfFindInv'
  BY <1>1, <1>3, ProfValuesAre, ProfRefreshKeeps
<1>5. ProfTInv'
  BY <1>1, <1>2, <1>3, <1>4 DEF ProfTInv
<1>6. ProfDutyInv'
  BY <1>1, <1>2 DEF ProfDutyInv
<1>7. ProfThirdInv' /\ Profile!ProfileStatus' = Profile!ProfileStatus
  BY <1>1, ProfProfileStays
<1>8. ProfWriteInv'
  BY <1>3, ProfValuesAre DEF ProfWriteInv
<1>9. Profile!ReviewedIsReady'
  BY <1>1, <1>2, <1>7 DEF Profile!ReviewedIsReady
<1>10. ProfToldInv'
  BY <1>1, <1>2, <1>3, <1>7, ProfValuesAre DEF ProfToldInv, ProfFind
<1> QED
  BY <1>4, <1>5, <1>6, <1>7, <1>8, <1>9, <1>10 DEF ProfIInv

\* The allowed commands, one by one.
LEMMA ProfAllowedIs ==
  ASSUME NEW p, NEW u, NEW command \in Profile!ProfileCommands, Profile!Allowed(p, u)[command]
  PROVE  /\ p.status \in ProfFrom[command]
         /\ command = "VERIFY" => u # p.created_by
         /\ command = "APPROVE" => u \notin {p.created_by, p.verified_by}
         /\ command = "SUBMIT" => p.completed = TRUE /\ p.identity_status \in {None, "ACTIVE"}
<1>1. CASE command = "UPDATE"
  BY <1>1 DEF Profile!Allowed, ProfFrom
<1>2. CASE command = "SUBMIT"
  BY <1>2 DEF Profile!Allowed, ProfFrom
<1>3. CASE command = "VERIFY"
  BY <1>3 DEF Profile!Allowed, ProfFrom
<1>4. CASE command = "APPROVE"
  BY <1>4 DEF Profile!Allowed, ProfFrom
<1>5. CASE command = "LOCK"
  BY <1>5 DEF Profile!Allowed, ProfFrom
<1>6. CASE command = "REJECT"
  BY <1>6 DEF Profile!Allowed, ProfFrom
<1>7. CASE command = "DELETE"
  BY <1>7 DEF Profile!Allowed, ProfFrom
<1> QED
  BY <1>1, <1>2, <1>3, <1>4, <1>5, <1>6, <1>7 DEF Profile!ProfileCommands

LEMMA ProfDecideKeeps ==
  ASSUME ProfIInv, NEW u \in Officers, NEW command \in Profile!ProfileCommands,
         NEW completed \in BOOLEAN,
         Profile!Decide(command, u, completed)
  PROVE  ProfIInv'
<1>1. /\ profileJob.step = "find"
      /\ profileHandled < Bounds.profile
      /\ profileHandled' = profileHandled + 1
      /\ Profile!Allowed(Profile!Found, u)[command]
      /\ misread' = (misread \/ Profile!Found.status # Profile!ProfileStatus)
      /\ profileJob' = [step |-> "write", command |-> command, actor |-> u, completed |-> completed,
                 status |-> Profile!Found.status]
      /\ UNCHANGED <<identity, emitted, extension, readModel, audited, announced, profileCut>>
  BY DEF Profile!Decide, Profile!At, Profile!IdentityVars
<1>2. /\ ProfTInv
      /\ ProfDutyInv
      /\ ProfKnownInv
      /\ ProfCompletedInv
      /\ ProfFindInv
      /\ ProfThirdInv
      /\ ProfToldInv
      /\ Profile!ReviewedIsReady
  BY DEF ProfIInv
<1>3. profileJob = ProfFind /\ identity # Absent
  BY <1>1, <1>2, ProfValuesAre DEF ProfTInv, ProfKnownInv, Profile!Job, Profile!Steps
<1>4. PICK p : p = Profile!Found
  OBVIOUS
<1>5. /\ p.status \in Profile!Statuses
      /\ readModel = Absent =>
           /\ p.status = Profile!ProfileStatus /\ p.identity_status = identity.status
           /\ p.created_by = Profile!CreatedBy
           /\ extension # Absent /\ extension.verified_by # None =>
                p.verified_by = extension.verified_by
           /\ p.completed = IF extension = Absent THEN None ELSE extension.completed
      /\ readModel # Absent =>
           /\ p.status = IF readModel.status = None THEN "DRAFT" ELSE readModel.status
           /\ p.identity_status = readModel.identity_status
           /\ p.created_by = readModel.created_by
           /\ p.verified_by = readModel.verified_by
           /\ p.completed = readModel.completed
  BY <1>2, <1>3, <1>4, ProfFoundIs
<1>6. /\ p.status \in ProfFrom[command]
      /\ command = "VERIFY" => u # p.created_by
      /\ command = "APPROVE" => u \notin {p.created_by, p.verified_by}
      /\ command = "SUBMIT" => p.completed = TRUE /\ p.identity_status \in {None, "ACTIVE"}
  BY <1>1, <1>4, ProfAllowedIs
<1>7. p.status # "DRAFT" =>
        /\ p.status = Profile!ProfileStatus /\ p.created_by = Profile!CreatedBy /\ extension # Absent
        /\ extension.verified_by # None => p.verified_by = extension.verified_by
  <2>1. Profile!ProfileStatus # "DRAFT" => extension # Absent
    BY <1>2, ProfStatusIs
  <2> QED
    BY <1>1, <1>2, <1>5, <2>1 DEF ProfFindInv
<1>8. /\ profileJob' = [step |-> "write", command |-> command, actor |-> u, completed |-> completed,
                 status |-> p.status]
      /\ misread' = (misread \/ p.status # Profile!ProfileStatus)
  BY <1>1, <1>4
<1>9. /\ profileJob' \in Profile!Job
      /\ profileJob'.step = "write"
      /\ profileJob'.command = command
      /\ profileJob'.actor = u
      /\ profileJob'.status = p.status
  BY <1>5, <1>8 DEF Profile!Job, Profile!Steps
<1>10. profileHandled' \in 0..Bounds.profile
  BY <1>1, <1>2, EmployeeBounds DEF ProfTInv
<1>11. ProfTInv'
  BY <1>1, <1>2, <1>9, <1>10 DEF ProfTInv
<1>12. /\ ProfThirdInv'
       /\ Profile!ProfileStatus' = Profile!ProfileStatus
       /\ Profile!CreatedBy' = Profile!CreatedBy
  BY <1>1, <1>3, ProfProfileStays
<1>13. ProfWriteInv'
  <2>1. p.status # "DRAFT" \/ ~misread' => p.status = Profile!ProfileStatus
    BY <1>7, <1>8
  <2>2. command = "VERIFY" => u # Profile!CreatedBy
    BY <1>6, <1>7 DEF ProfFrom
  <2>3. command = "APPROVE" => u \notin {Profile!CreatedBy, extension.verified_by}
    <3> SUFFICES ASSUME command = "APPROVE" PROVE u \notin {Profile!CreatedBy, extension.verified_by}
      OBVIOUS
    <3>1. p.status = "VERIFIED"
      BY <1>6 DEF ProfFrom
    <3>2. extension.verified_by # None
      BY <1>2, <1>7, <3>1, ProfValuesAre DEF ProfThirdInv
    <3> QED
      BY <1>6, <1>7, <3>1, <3>2
  <2>4. ASSUME command = "SUBMIT", ~profileCut, ~misread'
        PROVE  identity.status = "ACTIVE" /\ extension # Absent /\ extension.completed = TRUE
    <3>1. p.completed = TRUE /\ p.identity_status \in {None, "ACTIVE"} /\ None # TRUE
      BY <1>6, <2>4, ProfValuesAre
    <3>2. CASE readModel = Absent
      <4>1. identity.status # None
        BY <1>2, <1>3, ProfValuesAre DEF ProfTInv, Profile!Identity
      <4> QED
        BY <1>5, <3>1, <3>2, <4>1
    <3>3. CASE readModel # Absent
      <4>1. readModel.completed # None /\ readModel.completed = TRUE
        BY <1>5, <3>1, <3>3
      <4>2. extension # Absent /\ extension.completed = TRUE
        BY <1>1, <1>2, <2>4, <3>3, <4>1 DEF ProfCompletedInv
      <4>3. identity.status = "ACTIVE"
        BY <1>2, <1>5, <3>1, <3>3, <4>1 DEF ProfKnownInv
      <4> QED
        BY <4>2, <4>3
    <3> QED
      BY <3>2, <3>3
  <2> QED
    BY <1>1, <1>6, <1>9, <1>12, <2>1, <2>2, <2>3, <2>4 DEF ProfWriteInv
<1>14. ProfDutyInv' /\ ProfKnownInv'
  BY <1>1, <1>2, <1>3 DEF ProfDutyInv, ProfKnownInv
<1>15. ProfCompletedInv' /\ ProfFindInv'
  BY <1>1, <1>2, <1>9 DEF ProfCompletedInv, ProfFindInv
<1>16. Profile!ReviewedIsReady' /\ ProfToldInv'
  BY <1>1, <1>2, <1>8, <1>9, <1>12 DEF Profile!ReviewedIsReady, ProfToldInv
<1> QED
  BY <1>11, <1>12, <1>13, <1>14, <1>15, <1>16 DEF ProfIInv

LEMMA ProfRefuseKeeps ==
  ASSUME ProfIInv, Profile!Refuse
  PROVE  ProfIInv'
<1>1. /\ profileJob.step = "find" /\ profileJob' = Profile!Idle
      /\ UNCHANGED <<identity, emitted, extension, readModel, audited, announced, profileHandled,
                     profileCut, misread>>
  BY DEF Profile!Refuse, Profile!At, Profile!IdentityVars, Profile!HistoryVars
<1>2. /\ ProfTInv
      /\ ProfDutyInv
      /\ ProfKnownInv
      /\ ProfCompletedInv
      /\ ProfToldInv
      /\ Profile!ReviewedIsReady
  BY DEF ProfIInv
<1>3. ProfThirdInv' /\ Profile!ProfileStatus' = Profile!ProfileStatus
  BY <1>1, ProfProfileStays
<1>4. ProfTInv'
  BY <1>1, <1>2 DEF ProfTInv
<1>5. ProfDutyInv' /\ ProfKnownInv' /\ ProfCompletedInv' /\ ProfFindInv' /\ ProfWriteInv'
  BY <1>1, <1>2, ProfValuesAre DEF ProfDutyInv, ProfKnownInv, ProfCompletedInv, ProfFindInv,
     ProfWriteInv
<1>6. Profile!ReviewedIsReady' /\ ProfToldInv'
  BY <1>1, <1>2, <1>3, ProfValuesAre DEF Profile!ReviewedIsReady, ProfToldInv
<1> QED
  BY <1>3, <1>4, <1>5, <1>6 DEF ProfIInv

-------------------------------------------------------------------------------
\* A request that has decided.
LEMMA ProfAtWorkIs ==
  ASSUME ProfIInv, profileJob.step \in Profile!Steps
  PROVE  /\ ProfTInv
         /\ ProfDutyInv
         /\ ProfKnownInv
         /\ ProfCompletedInv
         /\ ProfWriteInv
         /\ ProfThirdInv
         /\ Profile!ReviewedIsReady
         /\ ProfToldInv
         /\ profileJob \in Profile!Job /\ identity # Absent /\ profileJob # Profile!Idle
         /\ Profile!ProfileStatus \in Profile!Statuses
         /\ (extension = Absent => Profile!ProfileStatus = "DRAFT")
         /\ \A step \in Profile!Steps : LET j == [profileJob EXCEPT !.step = step] IN
              /\ j \in Profile!Job
              /\ j.step = step
              /\ j.command = profileJob.command
              /\ j.status = profileJob.status
              /\ j # Profile!Idle
<1>1. /\ ProfTInv
      /\ ProfDutyInv
      /\ ProfKnownInv
      /\ ProfCompletedInv
      /\ ProfWriteInv
      /\ ProfThirdInv
      /\ Profile!ReviewedIsReady
      /\ ProfToldInv
  BY DEF ProfIInv
<1>2. profileJob \in Profile!Job
  BY <1>1, ProfValuesAre DEF ProfTInv, Profile!Steps
<1>3. profileJob # Profile!Idle
  BY <1>2, ProfValuesAre
<1>4. identity # Absent
  BY <1>1, <1>3 DEF ProfKnownInv
<1>5. ASSUME NEW step \in Profile!Steps, NEW j, j = [profileJob EXCEPT !.step = step]
      PROVE  /\ j \in Profile!Job
             /\ j.step = step
             /\ j.command = profileJob.command
             /\ j.status = profileJob.status
             /\ j # Profile!Idle
  <2>1. /\ j \in Profile!Job
        /\ j.step = step
        /\ j.command = profileJob.command
        /\ j.status = profileJob.status
    BY <1>2, <1>5 DEF Profile!Job
  <2> QED
    BY <2>1, ProfValuesAre
<1> QED
  BY <1>1, <1>2, <1>3, <1>4, <1>5, ProfStatusIs

LEMMA ProfWriteUpdateKeeps ==
  ASSUME ProfIInv, Profile!WriteUpdate
  PROVE  ProfIInv'
<1>1. PICK e : e = IF extension = Absent THEN Profile!NewExtension(None) ELSE extension
  OBVIOUS
<1>2. /\ profileJob.step = "write"
      /\ profileJob.command = "UPDATE"
      /\ profileJob' = [profileJob EXCEPT !.step = "project"]
      /\ extension' = [e EXCEPT !.completed = profileJob.completed]
      /\ UNCHANGED <<identity, emitted, readModel, audited, announced, profileHandled, profileCut,
                     misread>>
  BY <1>1 DEF Profile!WriteUpdate, Profile!At, Profile!Go, Profile!IdentityVars, Profile!HistoryVars
<1>3. /\ ProfTInv
      /\ ProfDutyInv
      /\ ProfKnownInv
      /\ ProfCompletedInv
      /\ ProfWriteInv
      /\ ProfThirdInv
      /\ Profile!ReviewedIsReady
      /\ ProfToldInv
      /\ profileJob \in Profile!Job /\ identity # Absent /\ Profile!ProfileStatus \in Profile!Statuses
      /\ extension = Absent => Profile!ProfileStatus = "DRAFT"
  BY <1>2, ProfAtWorkIs DEF Profile!Steps
<1>4. /\ profileJob' \in Profile!Job
      /\ profileJob'.step = "project"
      /\ profileJob'.command = "UPDATE"
      /\ profileJob'.status = profileJob.status
      /\ profileJob' # Profile!Idle
  BY <1>2, ProfAtWorkIs DEF Profile!Steps
<1>5. e \in Profile!Extension
  <2>1. Profile!NewExtension(None) \in Profile!Extension
    BY DEF Profile!NewExtension, Profile!Extension, Profile!Somebody, Profile!Completed
  <2> QED
    BY <1>1, <1>3, <2>1 DEF ProfTInv
<1>6. profileJob.completed \in BOOLEAN /\ profileJob.completed # None
  BY <1>3, ProfValuesAre DEF Profile!Job
<1>7. /\ extension' \in Profile!Extension
      /\ extension' # Absent
      /\ extension'.completed = profileJob.completed
      /\ extension'.status = e.status /\ extension'.created_by = e.created_by
      /\ extension'.verified_by = e.verified_by /\ extension'.approved_by = e.approved_by
  <2>1. profileJob.completed \in Profile!Completed
    BY <1>6 DEF Profile!Completed
  <2>2. extension' \in Profile!Extension
    BY <1>2, <1>5, <2>1 DEF Profile!Extension
  <2> QED
    BY <1>2, <1>5, <2>2, ProfValuesAre DEF Profile!Extension
<1>8. Profile!ProfileStatus' = Profile!ProfileStatus /\ Profile!CreatedBy' = Profile!CreatedBy
  BY <1>1, <1>2, <1>7 DEF Profile!ProfileStatus, Profile!CreatedBy, Profile!NewExtension
<1>9. ProfTInv'
  BY <1>2, <1>3, <1>4, <1>7 DEF ProfTInv
<1>10. ProfDutyInv' /\ ProfKnownInv' /\ ProfFindInv' /\ ProfWriteInv'
  BY <1>2, <1>3, <1>4 DEF ProfDutyInv, ProfKnownInv, ProfFindInv, ProfWriteInv
<1>11. ProfCompletedInv'
  BY <1>2, <1>4, <1>6, <1>7 DEF ProfCompletedInv
<1>12. ProfThirdInv'
  <2> SUFFICES ASSUME Profile!ProfileStatus \in {"VERIFIED", "APPROVED", "LOCKED"} PROVE ProfThirdInv'
    BY <1>8 DEF ProfThirdInv
  <2>1. e = extension
    BY <1>1, <1>3
  <2> QED
    BY <1>3, <1>7, <1>8, <2>1 DEF ProfThirdInv
<1>13. ~misread => profileJob.status = Profile!ProfileStatus /\ Profile!ProfileStatus \in {"DRAFT", "REJECTED", "APPROVED"}
  BY <1>2, <1>3 DEF ProfWriteInv, ProfFrom
<1>14. Profile!ReviewedIsReady' /\ ProfToldInv'
  BY <1>2, <1>3, <1>4, <1>8, <1>13, ProfValuesAre DEF Profile!ReviewedIsReady, ProfToldInv
<1> QED
  BY <1>9, <1>10, <1>11, <1>12, <1>14 DEF ProfIInv

LEMMA ProfWriteTransitionKeeps ==
  ASSUME ProfIInv, Profile!WriteTransition
  PROVE  ProfIInv'
<1>1. PICK e : e = IF extension = Absent THEN Profile!NewExtension(profileJob.actor) ELSE extension
  OBVIOUS
<1>2. PICK command : command = profileJob.command
  OBVIOUS
<1>3. /\ profileJob.step = "write"
      /\ command \in DOMAIN Profile!Workflow
      /\ profileJob' = [profileJob EXCEPT !.step = "project"]
      /\ extension' = [e EXCEPT !.status = Profile!Workflow[command],
                                !.verified_by = IF command = "VERIFY" THEN profileJob.actor ELSE @,
                                !.approved_by = IF command = "APPROVE" THEN profileJob.actor ELSE @]
      /\ UNCHANGED <<identity, emitted, readModel, audited, announced, profileHandled, profileCut,
                     misread>>
  BY <1>1, <1>2 DEF Profile!WriteTransition, Profile!At, Profile!Go, Profile!IdentityVars,
     Profile!HistoryVars
<1>4. /\ ProfTInv
      /\ ProfDutyInv
      /\ ProfKnownInv
      /\ ProfCompletedInv
      /\ ProfWriteInv
      /\ ProfThirdInv
      /\ Profile!ReviewedIsReady
      /\ ProfToldInv
      /\ profileJob \in Profile!Job /\ identity # Absent /\ Profile!ProfileStatus \in Profile!Statuses
      /\ extension = Absent => Profile!ProfileStatus = "DRAFT"
  BY <1>3, ProfAtWorkIs DEF Profile!Steps
<1>5. /\ profileJob' \in Profile!Job
      /\ profileJob'.step = "project"
      /\ profileJob'.command = command
      /\ profileJob' # Profile!Idle
  BY <1>2, <1>3, ProfAtWorkIs DEF Profile!Steps
<1>6. profileJob.actor \in Officers
  BY <1>4 DEF Profile!Job
<1>7. e \in Profile!Extension
  <2>1. Profile!NewExtension(profileJob.actor) \in Profile!Extension
    BY <1>6 DEF Profile!NewExtension, Profile!Extension, Profile!Somebody, Profile!Completed
  <2> QED
    BY <1>1, <1>4, <2>1 DEF ProfTInv
<1>8. PICK status : status = Profile!Workflow[command]
  OBVIOUS
<1>9. /\ status \in {"SUBMITTED", "VERIFIED", "APPROVED", "LOCKED", "REJECTED"}
      /\ status = "SUBMITTED" => command = "SUBMIT"
      /\ status = "VERIFIED" => command = "VERIFY"
      /\ status = "APPROVED" => command = "APPROVE"
      /\ status = "LOCKED" => command = "LOCK"
  BY <1>3, <1>8 DEF Profile!Workflow
<1>10. /\ extension' \in Profile!Extension /\ extension' # Absent /\ extension'.status = status
       /\ extension'.created_by = e.created_by /\ extension'.completed = e.completed
       /\ extension'.verified_by = IF command = "VERIFY" THEN profileJob.actor ELSE e.verified_by
       /\ extension'.approved_by = IF command = "APPROVE" THEN profileJob.actor ELSE e.approved_by
  <2>1. status \in Profile!Statuses
    BY <1>9 DEF Profile!Statuses
  <2>2. extension' = [e EXCEPT !.status = status,
                                !.verified_by = IF command = "VERIFY" THEN profileJob.actor ELSE @,
                                !.approved_by = IF command = "APPROVE" THEN profileJob.actor ELSE @]
    BY <1>3, <1>8
  <2>3. extension' \in Profile!Extension
    BY <1>6, <1>7, <2>1, <2>2 DEF Profile!Extension, Profile!Somebody
  <2> QED
    BY <1>7, <2>2, <2>3, ProfValuesAre DEF Profile!Extension
<1>11. Profile!ProfileStatus' = status
  <2>1. status # None
    BY <1>9, ProfValuesAre DEF Profile!Statuses
  <2> QED
    BY <1>10, <2>1 DEF Profile!ProfileStatus
<1>12. ProfTInv'
  BY <1>3, <1>4, <1>5, <1>10 DEF ProfTInv
<1>13. ProfDutyInv' /\ ProfKnownInv' /\ ProfFindInv' /\ ProfWriteInv'
  BY <1>3, <1>4, <1>5 DEF ProfDutyInv, ProfKnownInv, ProfFindInv, ProfWriteInv
<1>14. ProfCompletedInv'
  BY <1>1, <1>3, <1>4, <1>5, <1>10 DEF ProfCompletedInv
<1>15. command # "SUBMIT" /\ status # "REJECTED" =>
         /\ profileJob.status = Profile!ProfileStatus /\ extension # Absent /\ e = extension
         /\ Profile!ProfileStatus = [VERIFY |-> "SUBMITTED", APPROVE |-> "VERIFIED", LOCK |-> "APPROVED"][command]
         /\ Profile!CreatedBy' = Profile!CreatedBy
  <2> SUFFICES ASSUME command # "SUBMIT", status # "REJECTED"
               PROVE  /\ profileJob.status = Profile!ProfileStatus
                      /\ extension # Absent
                      /\ e = extension
                      /\ Profile!ProfileStatus = [VERIFY |-> "SUBMITTED", APPROVE |-> "VERIFIED",
                                          LOCK |-> "APPROVED"][command]
                      /\ Profile!CreatedBy' = Profile!CreatedBy
    OBVIOUS
  <2>1. profileJob.status = [VERIFY |-> "SUBMITTED", APPROVE |-> "VERIFIED", LOCK |-> "APPROVED"][command]
    BY <1>2, <1>3, <1>4, <1>9 DEF ProfWriteInv, ProfFrom
  <2>2. profileJob.status = Profile!ProfileStatus /\ extension # Absent /\ e = extension
    BY <1>1, <1>3, <1>4, <1>9, <2>1 DEF ProfWriteInv
  <2> QED
    BY <1>3, <1>10, <2>1, <2>2 DEF Profile!CreatedBy
<1>16. ProfThirdInv'
  <2>1. CASE status = "VERIFIED"
    BY <1>2, <1>3, <1>4, <1>6, <1>9, <1>10, <1>11, <1>15, <2>1 DEF ProfThirdInv, ProfWriteInv
  <2>2. CASE status = "APPROVED"
    BY <1>2, <1>3, <1>4, <1>6, <1>9, <1>10, <1>11, <1>15, <2>2 DEF ProfThirdInv, ProfWriteInv
  <2>3. CASE status = "LOCKED"
    BY <1>4, <1>9, <1>10, <1>11, <1>15, <2>3 DEF ProfThirdInv
  <2> QED
    BY <1>11, <2>1, <2>2, <2>3 DEF ProfThirdInv
<1>17. Profile!ReviewedIsReady'
  <2>1. ASSUME ~profileCut, ~misread, status = "SUBMITTED"
        PROVE  identity.status = "ACTIVE" /\ extension'.completed = TRUE
    BY <1>1, <1>2, <1>3, <1>4, <1>9, <1>10, <2>1 DEF ProfWriteInv
  <2>2. ASSUME ~profileCut, ~misread, status = "VERIFIED"
        PROVE  identity.status = "ACTIVE" /\ extension'.completed = TRUE
    BY <1>4, <1>9, <1>10, <1>15, <2>2 DEF Profile!ReviewedIsReady
  <2> QED
    BY <1>3, <1>11, <2>1, <2>2 DEF Profile!ReviewedIsReady
<1>18. ProfToldInv'
  BY <1>3, <1>5, <1>8, <1>11, ProfValuesAre DEF ProfToldInv
<1> QED
  BY <1>12, <1>13, <1>14, <1>16, <1>17, <1>18 DEF ProfIInv

LEMMA ProfDeleteExtensionKeeps ==
  ASSUME ProfIInv, Profile!DeleteExtension
  PROVE  ProfIInv'
<1>1. /\ profileJob.step = "write"
      /\ profileJob.command = "DELETE"
      /\ profileJob' = [profileJob EXCEPT !.step = "forget"]
      /\ extension' = Absent
      /\ UNCHANGED <<identity, emitted, readModel, audited, announced, profileHandled, profileCut,
                     misread>>
  BY DEF Profile!DeleteExtension, Profile!At, Profile!Go, Profile!IdentityVars, Profile!HistoryVars
<1>2. ProfTInv /\ ProfDutyInv /\ ProfKnownInv
  BY DEF ProfIInv
<1>3. /\ profileJob' \in Profile!Job
      /\ profileJob'.step = "forget"
      /\ profileJob'.command = "DELETE"
      /\ profileJob' # Profile!Idle
      /\ identity # Absent
  BY <1>1, ProfAtWorkIs DEF Profile!Steps
<1>4. Profile!ProfileStatus' = "DRAFT"
  BY <1>1 DEF Profile!ProfileStatus
<1>5. ProfTInv'
  BY <1>1, <1>2, <1>3 DEF ProfTInv
<1>6. ProfDutyInv' /\ ProfKnownInv' /\ ProfFindInv' /\ ProfWriteInv' /\ ProfCompletedInv'
  BY <1>1, <1>2, <1>3 DEF ProfDutyInv, ProfKnownInv, ProfFindInv, ProfWriteInv, ProfCompletedInv
<1>7. ProfThirdInv' /\ Profile!ReviewedIsReady' /\ ProfToldInv'
  BY <1>1, <1>3, <1>4 DEF ProfThirdInv, Profile!ReviewedIsReady, ProfToldInv
<1> QED
  BY <1>5, <1>6, <1>7 DEF ProfIInv

LEMMA ProfProjectKeeps ==
  ASSUME ProfIInv, Profile!Project
  PROVE  ProfIInv'
<1>1. /\ profileJob.step = "project"
      /\ readModel' = Profile!Refreshed
      /\ profileJob' = [profileJob EXCEPT !.step = "audit"]
      /\ UNCHANGED <<identity, emitted, extension, audited, announced, profileHandled, profileCut,
                     misread>>
  BY DEF Profile!Project, Profile!At, Profile!Go, Profile!IdentityVars, Profile!HistoryVars
<1>2. ProfTInv /\ ProfDutyInv /\ Profile!ReviewedIsReady /\ ProfToldInv /\ identity # Absent
  BY <1>1, ProfAtWorkIs DEF Profile!Steps
<1>3. /\ profileJob' \in Profile!Job
      /\ profileJob'.step = "audit"
      /\ profileJob'.command = profileJob.command
      /\ profileJob' # Profile!Idle
      /\ profileJob'.status = profileJob.status
  BY <1>1, ProfAtWorkIs DEF Profile!Steps
<1>4. readModel' \in Profile!ReadModel /\ ProfKnownInv' /\ ProfCompletedInv' /\ ProfFindInv'
  BY <1>1, <1>2, <1>3, ProfRefreshKeeps
<1>5. ProfThirdInv' /\ Profile!ProfileStatus' = Profile!ProfileStatus
  BY <1>1, ProfProfileStays
<1>6. ProfTInv'
  BY <1>1, <1>2, <1>3, <1>4 DEF ProfTInv
<1>7. ProfDutyInv' /\ ProfWriteInv' /\ Profile!ReviewedIsReady'
  BY <1>1, <1>2, <1>3, <1>5 DEF ProfDutyInv, ProfWriteInv, Profile!ReviewedIsReady
<1>8. ProfToldInv'
  BY <1>1, <1>2, <1>3, <1>5 DEF ProfToldInv
<1> QED
  BY <1>4, <1>5, <1>6, <1>7, <1>8 DEF ProfIInv

LEMMA ProfDeleteReadModelKeeps ==
  ASSUME ProfIInv, Profile!DeleteReadModel
  PROVE  ProfIInv'
<1>1. /\ profileJob.step = "forget"
      /\ readModel' = Absent
      /\ profileJob' = [profileJob EXCEPT !.step = "audit"]
      /\ UNCHANGED <<identity, emitted, extension, audited, announced, profileHandled, profileCut,
                     misread>>
  BY DEF Profile!DeleteReadModel, Profile!At, Profile!Go, Profile!IdentityVars, Profile!HistoryVars
<1>2. /\ ProfTInv
      /\ ProfDutyInv
      /\ ProfKnownInv
      /\ Profile!ReviewedIsReady
      /\ ProfToldInv
      /\ identity # Absent
  BY <1>1, ProfAtWorkIs DEF Profile!Steps
<1>3. /\ profileJob' \in Profile!Job
      /\ profileJob'.step = "audit"
      /\ profileJob'.command = profileJob.command
      /\ profileJob' # Profile!Idle
  BY <1>1, ProfAtWorkIs DEF Profile!Steps
<1>5. ProfThirdInv' /\ Profile!ProfileStatus' = Profile!ProfileStatus
  BY <1>1, ProfProfileStays
<1>6. ProfTInv'
  BY <1>1, <1>2, <1>3 DEF ProfTInv
<1>7. /\ ProfDutyInv'
      /\ ProfKnownInv'
      /\ ProfCompletedInv'
      /\ ProfFindInv'
      /\ ProfWriteInv'
      /\ Profile!ReviewedIsReady'
  BY <1>1, <1>2, <1>3, <1>5 DEF ProfDutyInv, ProfKnownInv, ProfCompletedInv, ProfFindInv,
     ProfWriteInv, Profile!ReviewedIsReady
<1>8. ASSUME ~profileCut, ~misread
      PROVE  /\ profileJob.command = "DELETE"
             /\ (Profile!ProfileStatus = "DRAFT" \/ (audited = Profile!ProfileStatus /\ announced = Profile!ProfileStatus))
  BY <1>1, <1>2, <1>8 DEF ProfToldInv
<1>9. ProfToldInv'
  BY <1>1, <1>3, <1>5, <1>8, ProfValuesAre DEF ProfToldInv
<1> QED
  BY <1>5, <1>6, <1>7, <1>9 DEF ProfIInv

LEMMA ProfReachedIs ==
  ASSUME ProfTInv, profileJob \in Profile!Job
  PROVE  /\ Profile!Reached \in Profile!Statuses
         /\ profileJob.command \in DOMAIN Profile!Workflow =>
              Profile!Reached = Profile!Workflow[profileJob.command]
         /\ profileJob.command = "UPDATE" => Profile!Reached = profileJob.status
         /\ profileJob.command = "DELETE" => Profile!Reached = audited
         /\ profileJob.command \in DOMAIN Profile!Workflow \cup {"UPDATE", "DELETE"}
<1>1. /\ profileJob.command \in Profile!ProfileCommands
      /\ profileJob.status \in Profile!Statuses
      /\ audited \in Profile!Statuses
  BY DEF ProfTInv, Profile!Job
<1>2. CASE profileJob.command \in DOMAIN Profile!Workflow
  BY <1>2 DEF Profile!Reached, Profile!Workflow, Profile!Statuses
<1>3. CASE profileJob.command = "UPDATE"
  BY <1>1, <1>3 DEF Profile!Reached, Profile!Workflow
<1>4. CASE profileJob.command = "DELETE"
  BY <1>1, <1>4 DEF Profile!Reached, Profile!Workflow
<1>5. profileJob.command \in DOMAIN Profile!Workflow \cup {"UPDATE", "DELETE"}
  BY <1>1, ProfValuesAre DEF Profile!ProfileCommands
<1>6. "UPDATE" \notin DOMAIN Profile!Workflow /\ "DELETE" \notin DOMAIN Profile!Workflow
  BY ProfValuesAre
<1> QED
  BY <1>2, <1>3, <1>4, <1>5, <1>6

LEMMA ProfAuditKeeps ==
  ASSUME ProfIInv, Profile!Audit
  PROVE  ProfIInv'
<1>1. /\ profileJob.step = "audit" /\ audited' = Profile!Reached
      /\ IF profileJob.command \in DOMAIN Profile!Workflow
           THEN profileJob' = [profileJob EXCEPT !.step = "publish"] ELSE profileJob' = Profile!Idle
      /\ UNCHANGED <<identity, emitted, extension, readModel, announced, profileHandled, profileCut,
                     misread>>
  BY DEF Profile!Audit, Profile!At, Profile!Go, Profile!IdentityVars, Profile!HistoryVars
<1>2. /\ ProfTInv
      /\ ProfDutyInv
      /\ ProfKnownInv
      /\ ProfCompletedInv
      /\ Profile!ReviewedIsReady
      /\ ProfToldInv
      /\ identity # Absent
      /\ profileJob \in Profile!Job
  BY <1>1, ProfAtWorkIs DEF Profile!Steps
<1>3. /\ Profile!Reached \in Profile!Statuses
      /\ profileJob.command \in DOMAIN Profile!Workflow =>
           Profile!Reached = Profile!Workflow[profileJob.command]
      /\ profileJob.command = "UPDATE" => Profile!Reached = profileJob.status
      /\ profileJob.command = "DELETE" => Profile!Reached = audited
      /\ profileJob.command \in DOMAIN Profile!Workflow \cup {"UPDATE", "DELETE"}
  BY <1>2, ProfReachedIs
<1>4. IF profileJob.command \in DOMAIN Profile!Workflow
        THEN profileJob' \in Profile!Job /\ profileJob'.step = "publish" /\ profileJob'.command = profileJob.command
        ELSE profileJob' = Profile!Idle
  BY <1>1, ProfAtWorkIs DEF Profile!Steps
<1>5. profileJob'.step \in {"publish", "idle"}
  BY <1>4, ProfValuesAre
<1>6. ProfThirdInv' /\ Profile!ProfileStatus' = Profile!ProfileStatus
  BY <1>1, ProfProfileStays
<1>7. ProfTInv'
  BY <1>1, <1>2, <1>3, <1>4 DEF ProfTInv
<1>8. /\ ProfDutyInv'
      /\ ProfKnownInv'
      /\ ProfCompletedInv'
      /\ ProfFindInv'
      /\ ProfWriteInv'
      /\ Profile!ReviewedIsReady'
  BY <1>1, <1>2, <1>5, <1>6 DEF ProfDutyInv, ProfKnownInv, ProfCompletedInv, ProfFindInv,
     ProfWriteInv, Profile!ReviewedIsReady
<1>9. CASE profileJob.command \in DOMAIN Profile!Workflow
  <2>1. "UPDATE" \notin DOMAIN Profile!Workflow /\ "DELETE" \notin DOMAIN Profile!Workflow
    BY ProfValuesAre
  <2>2. ProfToldInv'
    BY <1>1, <1>2, <1>3, <1>4, <1>6, <1>9, <2>1 DEF ProfToldInv
  <2> QED
    BY <1>6, <1>7, <1>8, <2>2 DEF ProfIInv
<1>10. CASE profileJob.command \notin DOMAIN Profile!Workflow
  <2>1. profileJob' = Profile!Idle /\ profileJob'.step = "idle"
    BY <1>4, <1>10, ProfValuesAre
  <2>2. ASSUME ~profileCut, ~misread
        PROVE  Profile!ProfileStatus = "DRAFT" \/ (audited' = Profile!ProfileStatus /\ announced' = Profile!ProfileStatus)
    BY <1>1, <1>2, <1>3, <1>10, <2>2 DEF ProfToldInv
  <2>3. ProfToldInv'
    BY <1>1, <1>6, <2>1, <2>2, ProfValuesAre DEF ProfToldInv
  <2> QED
    BY <1>6, <1>7, <1>8, <2>3 DEF ProfIInv
<1> QED
  BY <1>9, <1>10

LEMMA ProfPublishKeeps ==
  ASSUME ProfIInv, Profile!Publish
  PROVE  ProfIInv'
<1>1. /\ profileJob.step = "publish" /\ announced' = Profile!Reached /\ profileJob' = Profile!Idle
      /\ UNCHANGED <<identity, emitted, extension, readModel, audited, profileHandled, profileCut,
                     misread>>
  BY DEF Profile!Publish, Profile!At, Profile!IdentityVars, Profile!HistoryVars
<1>2. /\ ProfTInv
      /\ ProfDutyInv
      /\ ProfKnownInv
      /\ ProfCompletedInv
      /\ Profile!ReviewedIsReady
      /\ ProfToldInv
      /\ identity # Absent
      /\ profileJob \in Profile!Job
  BY <1>1, ProfAtWorkIs DEF Profile!Steps
<1>3. /\ Profile!Reached \in Profile!Statuses
      /\ profileJob.command \in DOMAIN Profile!Workflow =>
           Profile!Reached = Profile!Workflow[profileJob.command]
  BY <1>2, ProfReachedIs
<1>4. ProfThirdInv' /\ Profile!ProfileStatus' = Profile!ProfileStatus
  BY <1>1, ProfProfileStays
<1>5. ProfTInv'
  BY <1>1, <1>2, <1>3 DEF ProfTInv
<1>6. /\ ProfDutyInv'
      /\ ProfKnownInv'
      /\ ProfCompletedInv'
      /\ ProfFindInv'
      /\ ProfWriteInv'
      /\ Profile!ReviewedIsReady'
  BY <1>1, <1>2, <1>4, ProfValuesAre DEF ProfDutyInv, ProfKnownInv, ProfCompletedInv, ProfFindInv,
     ProfWriteInv, Profile!ReviewedIsReady
<1>7. ASSUME ~profileCut, ~misread
      PROVE  audited' = Profile!ProfileStatus /\ announced' = Profile!ProfileStatus
  BY <1>1, <1>2, <1>3, <1>7 DEF ProfToldInv
<1>8. ProfToldInv'
  BY <1>1, <1>4, <1>7, ProfValuesAre DEF ProfToldInv
<1> QED
  BY <1>4, <1>5, <1>6, <1>8 DEF ProfIInv

LEMMA ProfCutOffKeeps ==
  ASSUME ProfIInv, Profile!CutOff
  PROVE  ProfIInv'
<1>1. /\ profileJob.step \in {"project", "forget", "audit", "publish"}
      /\ profileJob' = Profile!Idle
      /\ profileCut' = TRUE
      /\ UNCHANGED <<identity, emitted, extension, readModel, audited, announced, profileHandled,
                     misread>>
  BY DEF Profile!CutOff, Profile!IdentityVars
<1>2. ProfTInv /\ ProfDutyInv /\ ProfKnownInv /\ identity # Absent
  BY <1>1, ProfAtWorkIs DEF Profile!Steps
<1>3. ProfThirdInv' /\ Profile!ProfileStatus' = Profile!ProfileStatus
  BY <1>1, ProfProfileStays
<1>4. ProfTInv'
  BY <1>1, <1>2 DEF ProfTInv
<1>5. /\ ProfDutyInv'
      /\ ProfKnownInv'
      /\ ProfCompletedInv'
      /\ ProfFindInv'
      /\ ProfWriteInv'
      /\ Profile!ReviewedIsReady'
      /\ ProfToldInv'
  BY <1>1, <1>2, ProfValuesAre
  DEF ProfDutyInv, ProfKnownInv, ProfCompletedInv, ProfFindInv, ProfWriteInv,
  Profile!ReviewedIsReady, ProfToldInv
<1> QED
  BY <1>3, <1>4, <1>5 DEF ProfIInv

LEMMA ProfInvNext == ProfIInv /\ [Profile!Next]_(Profile!vars) => ProfIInv'
<1> SUFFICES ASSUME ProfIInv, [Profile!Next]_(Profile!vars) PROVE ProfIInv'
  OBVIOUS
<1>1. CASE UNCHANGED Profile!vars
  <2>1. UNCHANGED <<identity, extension, readModel, emitted, audited, announced, profileJob,
                    profileHandled, profileCut, misread>>
    BY <1>1 DEF Profile!vars
  <2>2. ProfTInv' /\ ProfDutyInv' /\ ProfKnownInv' /\ ProfCompletedInv'
    BY <2>1 DEF ProfIInv, ProfTInv, ProfDutyInv, ProfKnownInv, ProfCompletedInv
  <2>3. ProfFindInv'
    BY <2>1 DEF ProfIInv, ProfFindInv, Profile!ProfileStatus, Profile!CreatedBy
  <2>4. ProfThirdInv' /\ ProfWriteInv' /\ Profile!ReviewedIsReady' /\ ProfToldInv'
    BY <2>1 DEF ProfIInv, ProfThirdInv, ProfWriteInv, Profile!ReviewedIsReady, ProfToldInv,
       Profile!ProfileStatus, Profile!CreatedBy
  <2> QED
    BY <2>2, <2>3, <2>4 DEF ProfIInv
<1>2. CASE \E u \in Officers : Profile!CreateIdentity(u)
  BY <1>2, ProfCreateKeeps
<1>3. CASE \E u \in Officers, command \in {"SUBMIT", "VERIFY", "ACTIVATE", "REJECT"} :
             Profile!TransitionIdentity(command, u)
  BY <1>3, ProfTransitionIdentityKeeps
<1>4. CASE Profile!UpdateIdentity \/ Profile!ReadProfile \/ Profile!Begin \/ Profile!Refuse
  BY <1>4, ProfUpdateIdentityKeeps, ProfReadKeeps, ProfBeginKeeps, ProfRefuseKeeps
<1>5. CASE \E e \in emitted : Profile!Deliver(e)
  BY <1>5, ProfDeliverKeeps
<1>6. CASE \E command \in Profile!ProfileCommands, u \in Officers, completed \in BOOLEAN :
             (command # "UPDATE" => ~completed) /\ Profile!Decide(command, u, completed)
  BY <1>6, ProfDecideKeeps
<1>7. CASE Profile!WriteUpdate \/ Profile!WriteTransition \/ Profile!DeleteExtension \/ Profile!DeleteReadModel
  BY <1>7, ProfWriteUpdateKeeps, ProfWriteTransitionKeeps, ProfDeleteExtensionKeeps,
     ProfDeleteReadModelKeeps
<1>8. CASE Profile!Project \/ Profile!Audit \/ Profile!Publish \/ Profile!CutOff
  BY <1>8, ProfProjectKeeps, ProfAuditKeeps, ProfPublishKeeps, ProfCutOffKeeps
<1> QED
  BY <1>1, <1>2, <1>3, <1>4, <1>5, <1>6, <1>7, <1>8 DEF Profile!Next

LEMMA ProfInvariance == Profile!Spec => []ProfIInv
BY ProfInvInit, ProfInvNext, PTL DEF Profile!Spec

LEMMA ProfTypes == ProfIInv => Profile!TypeOK
<1>1. ProfFind = [Profile!Idle EXCEPT !.step = "find"]
  BY DEF ProfFind, Profile!Idle
<1> QED
  BY <1>1 DEF ProfIInv, ProfTInv, Profile!TypeOK

LEMMA ProfSeparated == ProfIInv => Profile!ApprovedByThird
BY DEF ProfIInv, ProfThirdInv, ProfDutyInv, Profile!ApprovedByThird

LEMMA ProfDecisions == ProfIInv => Profile!ReviewedIsReady /\ Profile!DecisionsKnown
BY ProfValuesAre DEF ProfIInv, ProfToldInv, Profile!DecisionsKnown

-------------------------------------------------------------------------------
(* Change requests. *)

ChgDoc == [status : Change!RequestStatuses, field : Fields]

ChgSteps ==
  {"check", "write", "lock", "notify", "commit", "compose", "project", "mark", "announce", "publish"}

ChgCommands == {"CREATE", "CANCEL", "APPROVE", "REJECT"}

ChgStageNames == {"DRAFT", "SUBMITTED", "VERIFIED", "APPROVED", "LOCKED", "REJECTED"}

ChgJob ==
  [step : ChgSteps, request : Requests, command : ChgCommands,
   view : {None} \cup Change!Values]

ChgTInv ==
  /\ transactions \in BOOLEAN
  /\ requests \in [Requests -> ChgDoc \cup {Absent}]
  /\ stage \in ChgStageNames
  /\ values \in Change!Values /\ projected \in Change!Values /\ views \subseteq Change!Values
  /\ locked \subseteq Requests
  /\ notices \in [Requests -> SUBSET {"APPLIED", "REJECTED"}]
  /\ requestEvents \subseteq Requests \X Change!RequestStatuses
  /\ pending \in Seq(Requests)
  /\ requestJob \in [Callers -> ChgJob \cup {Change!Idle}]
  /\ requestHandled \in 0..Bounds.change
  /\ written \cup requestDisturbed \subseteq Requests
  /\ reordered \in BOOLEAN /\ overtaken \in BOOLEAN

\* Which command takes which step.
ChgKind(j) ==
  /\ j.step \in {"check", "lock", "compose", "project", "mark", "publish"} => j.command = "APPROVE"
  /\ j.step = "notify" => j.command \in {"APPROVE", "REJECT"}
  /\ j.step = "commit" => transactions
  /\ j.step \in {"compose", "project", "mark", "announce", "publish"} => ~transactions
  /\ j.step = "project" => j.view \in Change!Values

ChgKInv ==
  \A c \in Callers : requestJob[c].step # "idle" =>
    /\ ChgKind(requestJob[c])
    /\ requestJob[c].command # "CREATE" \/ requestJob[c].step = "announce" =>
         requests[requestJob[c].request] # Absent

\* A request that does not exist is worked on by the one who creates it.
ChgBInv ==
  \A c \in Callers : requestJob[c].command = "CREATE" /\ requestJob[c].step # "announce" =>
    /\ requests[requestJob[c].request] = Absent
    /\ \A d \in Callers \ {c} : requestJob[d].request # requestJob[c].request

\* An applied request was written, and so was one that is about to be marked.
ChgWInv ==
  /\ \A r \in Requests : Change!StatusOf(r) = "APPLIED" => r \in written
  /\ \A c \in Callers : requestJob[c].step \in {"compose", "project", "mark"} =>
       requestJob[c].request \in written

ChgTold(s) == {s} \cap {"APPLIED", "REJECTED"}

ChgHeard(r) == {s \in Change!RequestStatuses : <<r, s>> \in requestEvents}

ChgDue(s) == IF s = Absent THEN {} ELSE {"PENDING", s}

\* Nobody works on the request, or its one caller has written nothing yet.
ChgSettled(r) ==
  /\ r \in written <=> Change!StatusOf(r) = "APPLIED"
  /\ notices[r] = ChgTold(Change!StatusOf(r))
  /\ r \in locked => Change!StatusOf(r) = "APPLIED"
  /\ ChgHeard(r) = ChgDue(Change!StatusOf(r))

ChgBegun(j) == IF j.command = "CREATE" THEN Absent ELSE "PENDING"

ChgEnd(j) == CASE j.command = "CREATE" -> "PENDING" [] j.command = "CANCEL" -> "CANCELLED"
            [] j.command = "APPROVE" -> "APPLIED" [] OTHER -> "REJECTED"

\* How far the one caller of the request has come.
ChgFar(j) ==
  LET r == j.request
      marked == ~transactions /\ j.step \in {"lock", "notify", "announce", "publish"} IN
  /\ Change!StatusOf(r) = IF marked THEN ChgEnd(j) ELSE ChgBegun(j)
  /\ r \in written <=> ~transactions /\ j.command = "APPROVE" /\ j.step \notin {"check", "write"}
  /\ notices[r] = IF j.step \in {"commit", "announce", "publish"} THEN ChgTold(ChgEnd(j)) ELSE {}
  /\ r \in locked => j.command = "APPROVE" /\ j.step \in {"notify", "commit", "announce", "publish"}
  /\ ChgHeard(r) = ChgDue(IF j.step = "publish" THEN ChgEnd(j) ELSE ChgBegun(j))

ChgRInv ==
  \A r \in Requests \ requestDisturbed :
    /\ \A c, d \in Callers : requestJob[c].request = r /\ requestJob[d].request = r => c = d
    /\ \A c \in Callers : requestJob[c].request = r => ChgFar(requestJob[c])
    /\ Change!AtRest(r) => ChgSettled(r)

\* The read model shows the profile once what is pending has been delivered.
ChgFieldAt(i) == requests[pending[i]].field

ChgCInv ==
  /\ \A i \in 1..Len(pending) : requests[pending[i]] # Absent
  /\ transactions /\ ~reordered /\ ~overtaken =>
       /\ \A i \in 1..Len(pending) :
            (\A k \in (i + 1)..Len(pending) : ChgFieldAt(k) # ChgFieldAt(i)) =>
              values[ChgFieldAt(i)] = pending[i]
       /\ \A f \in Fields :
            (\A i \in 1..Len(pending) : ChgFieldAt(i) # f) =>
              projected[f] = values[f] /\ \A view \in views : view[f] = values[f]

ChgIInv == ChgTInv /\ ChgKInv /\ ChgBInv /\ ChgWInv /\ ChgRInv /\ ChgCInv

-------------------------------------------------------------------------------
LEMMA ChgIdleIs ==
  Change!Idle.step = "idle" /\ Change!Idle.request = None /\ Change!Idle.command = None
BY DEF Change!Idle

LEMMA ChgNamesDiffer ==
  /\ None \notin Requests /\ None \notin {"CREATE", "CANCEL", "APPROVE", "REJECT"}
  /\ Absent \notin {"PENDING", "CANCELLED", "APPLIED", "REJECTED"}
  /\ Absent \notin ChgDoc
BY ChangeAssumption DEF Change!Outcome, Change!RequestStatuses, ChgDoc

LEMMA ChgJobIs ==
  ASSUME ChgTInv, NEW c \in Callers
  PROVE  /\ requestJob[c] \in ChgJob \/ requestJob[c] = Change!Idle
         /\ requestJob[c].step # "idle" => requestJob[c] \in ChgJob
         /\ requestJob[c] \in ChgJob => requestJob[c].step # "idle"
         /\ requestJob[c].command \in ChgCommands => requestJob[c] \in ChgJob
         /\ requestJob[c].request \in Requests => requestJob[c] \in ChgJob
<1>1. requestJob[c] \in ChgJob \/ requestJob[c] = Change!Idle
  BY DEF ChgTInv
<1>2. \A k \in ChgJob : k.step # "idle"
  BY DEF ChgJob, ChgSteps
<1>3. None \notin ChgCommands /\ None \notin Requests
  BY ChgNamesDiffer DEF ChgCommands
<1> QED
  BY <1>1, <1>2, <1>3, ChgIdleIs

LEMMA ChgTypeIs == ChgTInv /\ ChgKInv => Change!TypeOK
<1>1. DOMAIN Change!Stages = ChgStageNames
  BY DEF Change!Stages, ChgStageNames
<1>2. ChgTInv => \A c \in Callers : requestJob[c] = Change!Idle \/ requestJob[c].request \in Requests
  BY ChgJobIs DEF ChgJob
<1>3. ChgTInv /\ ChgKInv =>
        \A c \in Callers : Change!At(c, "project") => requestJob[c].view \in Change!Values
  BY DEF ChgKInv, ChgKind, Change!At
<1> QED
  BY <1>1, <1>2, <1>3 DEF ChgTInv, Change!TypeOK, ChgDoc

LEMMA ChgOutcomeIs ==
  /\ DOMAIN Change!Outcome = ChgCommands
  /\ Change!Outcome["CREATE"] = "PENDING" /\ Change!Outcome["CANCEL"] = "CANCELLED"
  /\ Change!Outcome["APPROVE"] = "APPLIED" /\ Change!Outcome["REJECT"] = "REJECTED"
BY DEF Change!Outcome, ChgCommands

LEMMA ChgEndIs ==
  ASSUME NEW j \in ChgJob
  PROVE  Change!Outcome[j.command] = ChgEnd(j) /\ ChgEnd(j) \in Change!RequestStatuses
<1>1. j.command \in ChgCommands
  BY DEF ChgJob
<1> QED
  BY <1>1, ChgOutcomeIs DEF ChgEnd, ChgCommands, Change!RequestStatuses

LEMMA ChgAtIs ==
  ASSUME ChgIInv, NEW c \in Callers, requestJob[c].step # "idle"
  PROVE  /\ requestJob[c] \in ChgJob /\ ChgKind(requestJob[c]) /\ requestJob[c].request \in Requests
         /\ requestJob[c].command # "CREATE" \/ requestJob[c].step = "announce" =>
              requests[requestJob[c].request] \in ChgDoc
         /\ requestJob[c].command = "CREATE" /\ requestJob[c].step # "announce" =>
              requests[requestJob[c].request] = Absent
         /\ \A d \in Callers \ {c} : requestJob[d].request = requestJob[c].request =>
              ~(requestJob[d].command = "CREATE" /\ requestJob[d].step # "announce")
         /\ requestJob[c].request \notin requestDisturbed =>
              ChgFar(requestJob[c]) /\ \A d \in Callers \ {c} :
                requestJob[d].request # requestJob[c].request
<1>1. requestJob[c] \in ChgJob
  BY ChgJobIs DEF ChgIInv
<1>2. requestJob[c].request \in Requests
  BY <1>1 DEF ChgJob
<1>3. ChgKind(requestJob[c]) /\ (requestJob[c].command # "CREATE" \/ requestJob[c].step = "announce" =>
              requests[requestJob[c].request] \in ChgDoc)
  BY <1>2 DEF ChgIInv, ChgKInv, ChgTInv
<1>4. requestJob[c].command = "CREATE" /\ requestJob[c].step # "announce" =>
        requests[requestJob[c].request] = Absent
  BY DEF ChgIInv, ChgBInv
<1>5. \A d \in Callers \ {c} : requestJob[d].request = requestJob[c].request =>
              ~(requestJob[d].command = "CREATE" /\ requestJob[d].step # "announce")
  BY DEF ChgIInv, ChgBInv
<1>6. requestJob[c].request \notin requestDisturbed =>
              ChgFar(requestJob[c]) /\ \A d \in Callers \ {c} :
                requestJob[d].request # requestJob[c].request
  BY <1>2 DEF ChgIInv, ChgRInv
<1> QED
  BY <1>1, <1>2, <1>3, <1>4, <1>5, <1>6

LEMMA ChgInvInit == Change!Init => ChgIInv
<1> SUFFICES ASSUME Change!Init PROVE ChgIInv
  OBVIOUS
<1>1. \A c \in Callers : requestJob[c] = Change!Idle
  BY DEF Change!Init
<1>2. requests \in [Requests -> ChgDoc \cup {Absent}]
      /\ \A r \in Requests : requests[r] = Absent \/ requests[r].status = "PENDING"
  BY DEF Change!Init, Change!NewRequest, ChgDoc, Change!RequestStatuses
<1>3. ChgTInv
  <2>1. requestJob \in [Callers -> ChgJob \cup {Change!Idle}]
    BY DEF Change!Init
  <2>2. stage \in ChgStageNames
    BY ChangeAssumption DEF Change!Init, Change!Stages, ChgStageNames
  <2>3. values \in Change!Values
    BY DEF Change!Init, Change!Values
  <2>4. requestHandled \in 0..Bounds.change
    BY EmployeeBounds DEF Change!Init
  <2>5. requestEvents \subseteq Requests \X Change!RequestStatuses
    BY DEF Change!Init, Change!RequestStatuses
  <2>6. notices \in [Requests -> SUBSET {"APPLIED", "REJECTED"}]
    BY DEF Change!Init
  <2>8. transactions \in BOOLEAN /\ reordered \in BOOLEAN /\ overtaken \in BOOLEAN
    BY Zenon DEF Change!Init
  <2>7. /\ projected \in Change!Values /\ views \subseteq Change!Values
        /\ locked \subseteq Requests
        /\ written \cup requestDisturbed \subseteq Requests
        /\ pending \in Seq(Requests)
    BY <2>3 DEF Change!Init
  <2> QED
    BY <1>2, <2>1, <2>2, <2>3, <2>4, <2>5, <2>6, <2>7, <2>8 DEF ChgTInv
<1>4. ChgKInv
  BY <1>1, ChgIdleIs DEF ChgKInv
<1>5. ChgBInv
  BY <1>1, ChgIdleIs, ChgJobIs, <1>3 DEF ChgBInv, ChgCommands, ChgJob, ChgSteps
<1>7. ChgWInv
  <2>1. \A r \in Requests : Change!StatusOf(r) # "APPLIED"
    BY <1>2, ChgNamesDiffer DEF Change!StatusOf
  <2> QED
    BY <1>1, <2>1, ChgIdleIs DEF ChgWInv
<1>8. ChgRInv
  <2> SUFFICES ASSUME NEW r \in Requests
               PROVE ChgSettled(r) /\ \A c \in Callers : requestJob[c].request # r
    BY DEF ChgRInv
  <2>1. \A c \in Callers : requestJob[c].request # r
    BY <1>1, ChgIdleIs, ChgNamesDiffer
  <2>2. /\ Change!StatusOf(r) \in {Absent, "PENDING"}
        /\ (Change!StatusOf(r) = Absent <=> requests[r] = Absent)
    BY <1>2, ChgNamesDiffer DEF Change!StatusOf
  <2>3. ChgHeard(r) = ChgDue(Change!StatusOf(r))
    BY <2>2, ChgNamesDiffer DEF ChgHeard, ChgDue, Change!Init, Change!RequestStatuses
  <2>4. notices[r] = {} /\ r \notin written /\ r \notin locked
    BY DEF Change!Init
  <2>5. ChgTold(Change!StatusOf(r)) = {} /\ Change!StatusOf(r) # "APPLIED"
    BY <2>2, ChgNamesDiffer DEF ChgTold
  <2> QED
    BY <2>1, <2>3, <2>4, <2>5 DEF ChgSettled
<1>9. ChgCInv
  BY DEF ChgCInv, Change!Init
<1> QED
  BY <1>3, <1>4, <1>5, <1>7, <1>8, <1>9 DEF ChgIInv

-------------------------------------------------------------------------------
\* What a request is to those who do not work on it.
LEMMA ChgFarStays ==
  ASSUME NEW j, ChgFar(j), transactions' = transactions, requests'[j.request] = requests[j.request],
         j.request \in written' <=> j.request \in written,
         notices'[j.request] = notices[j.request],
         j.request \in locked' <=> j.request \in locked,
         ChgHeard(j.request)' = ChgHeard(j.request)
  PROVE  ChgFar(j)'
<1> USE DEF ChgFar, Change!StatusOf
<1> HIDE DEF ChgHeard
<1> QED
  BY DEF ChgFar, Change!StatusOf

LEMMA ChgSettledStays ==
  ASSUME NEW r, ChgSettled(r), requests'[r] = requests[r],
         r \in written' <=> r \in written, notices'[r] = notices[r],
         r \in locked' <=> r \in locked, ChgHeard(r)' = ChgHeard(r)
  PROVE  ChgSettled(r)'
BY DEF ChgSettled, Change!StatusOf

\* A step of one caller, to the job j, with the document of r as it is then.
ChgTakes(c, j, r, doc) ==
  /\ r \in Requests /\ j \in ChgJob \cup {Change!Idle} /\ doc \in ChgDoc \cup {Absent}
  /\ requestJob' = [requestJob EXCEPT ![c] = j]
  /\ requests' \in [Requests -> ChgDoc \cup {Absent}] /\ requests'[r] = doc
  /\ \A q \in Requests \ {r} : requests'[q] = requests[q]
  /\ requests[r] # Absent => doc # Absent /\ doc.field = requests[r].field
  /\ requestJob[c] # Change!Idle \/ j # Change!Idle
  /\ requestJob[c] # Change!Idle => requestJob[c].request = r
  /\ j # Change!Idle => j.request = r

\* What it writes is about r alone.
ChgSpares(r) ==
  /\ transactions' = transactions /\ stage' = stage /\ reordered' = reordered
  /\ requestDisturbed \subseteq requestDisturbed' /\ requestDisturbed' \subseteq Requests
  /\ written \subseteq written' /\ written' \subseteq written \cup {r}
  /\ locked \subseteq locked' /\ locked' \subseteq locked \cup {r}
  /\ \A q \in Requests \ {r} : notices'[q] = notices[q]
  /\ notices' \in [Requests -> SUBSET {"APPLIED", "REJECTED"}]
  /\ requestEvents' \subseteq Requests \X Change!RequestStatuses
  /\ \A q \in Requests \ {r}, s \in Change!RequestStatuses :
       <<q, s>> \in requestEvents' <=> <<q, s>> \in requestEvents
  /\ values' \in Change!Values /\ projected' \in Change!Values /\ pending' \in Seq(Requests)
  /\ requestHandled' \in 0..Bounds.change /\ views' = views /\ overtaken' = overtaken

\* A caller may be where it is then.
ChgMay(c, j, r, doc) ==
  /\ j # Change!Idle => ChgKind(j) /\ (j.command # "CREATE" \/ j.step = "announce" => doc # Absent)
  /\ j # Change!Idle => \A d \in Callers \ {c} : requestJob[d].request = r =>
                   ~(requestJob[d].command = "CREATE" /\ requestJob[d].step # "announce")
  /\ j.command = "CREATE" /\ j.step # "announce" =>
       doc = Absent /\ \A d \in Callers \ {c} : requestJob[d].request # r
  /\ doc # Absent /\ doc.status = "APPLIED" => r \in written'
  /\ j.step \in {"compose", "project", "mark"} => r \in written'

\* The request is as far as its one caller.
ChgAgrees(c, j, r) ==
  r \notin requestDisturbed' =>
    /\ \A d \in Callers \ {c} : requestJob[d].request # r
    /\ j = Change!Idle => ChgSettled(r)'
    /\ j # Change!Idle => ChgFar(j)'

LEMMA ChgStepKeeps ==
  ASSUME ChgIInv, NEW c \in Callers, NEW j, NEW r, NEW doc,
         ChgTakes(c, j, r, doc), ChgSpares(r), ChgMay(c, j, r, doc), ChgAgrees(c, j, r), ChgCInv'
  PROVE  ChgIInv'
<1> USE DEF ChgTakes, ChgSpares, ChgMay, ChgAgrees
<1>1. /\ ChgTInv
      /\ requestJob \in [Callers -> ChgJob \cup {Change!Idle}]
      /\ requestJob' \in [Callers -> ChgJob \cup {Change!Idle}]
  BY DEF ChgIInv, ChgTInv
<1>2. requestJob'[c] = j /\ \A d \in Callers \ {c} : requestJob'[d] = requestJob[d]
  BY <1>1
<1>3. /\ requests \in [Requests -> ChgDoc \cup {Absent}] /\ requests'[r] = doc
      /\ \A q \in Requests \ {r} : requests'[q] = requests[q]
  BY <1>1 DEF ChgTInv
<1>4. \A q \in Requests : requests[q] # Absent =>
        requests'[q] # Absent /\ requests'[q].field = requests[q].field
  BY <1>3
<1>5. \A d \in Callers : requestJob[d].request \in Requests \/ requestJob[d] = Change!Idle
  BY <1>1, ChgJobIs DEF ChgJob
<1>6. ChgTInv'
  <2>2. locked' \subseteq Requests /\ written' \cup requestDisturbed' \subseteq Requests
    BY <1>1 DEF ChgTInv
  <2>3. stage' \in ChgStageNames
    BY <1>1 DEF ChgTInv
  <2>4. transactions' \in BOOLEAN /\ overtaken' \in BOOLEAN /\ reordered' \in BOOLEAN
    BY <1>1, Zenon DEF ChgTInv
  <2> QED
    BY <1>1, <2>2, <2>3, <2>4 DEF ChgTInv
<1>7. ChgKInv'
  <2> SUFFICES ASSUME NEW d \in Callers, requestJob'[d].step # "idle"
      PROVE  /\ ChgKind(requestJob[d])'
             /\ requestJob'[d].command # "CREATE" \/ requestJob'[d].step = "announce" =>
                  requests'[requestJob'[d].request] # Absent
    BY DEF ChgKInv
  <2>1. CASE d = c
    <3>1. requestJob'[d] = j /\ j # Change!Idle
      BY <1>2, <2>1, ChgIdleIs
    <3> QED
      BY <1>3, <3>1 DEF ChgKind
  <2>2. CASE d # c
    <3>1. requestJob'[d] = requestJob[d]
      BY <1>2, <2>2
    <3>2. ChgKind(requestJob[d]) /\ (requestJob[d].command # "CREATE" \/ requestJob[d].step = "announce" =>
                  requests[requestJob[d].request] # Absent)
      BY <3>1 DEF ChgIInv, ChgKInv
    <3>3. requestJob[d].request \in Requests
      BY <1>5, <3>1, ChgIdleIs
    <3> QED
      BY <1>4, <3>1, <3>2, <3>3 DEF ChgKind
  <2> QED
    BY <2>1, <2>2
<1>8. ChgBInv'
  <2> SUFFICES ASSUME NEW d \in Callers, requestJob'[d].command = "CREATE",
                      requestJob'[d].step # "announce"
      PROVE  /\ requests'[requestJob'[d].request] = Absent
             /\ \A e \in Callers \ {d} : requestJob'[e].request # requestJob'[d].request
    BY DEF ChgBInv
  <2>1. CASE d = c
    <3>1. requestJob'[d] = j /\ j # Change!Idle
      BY <1>2, <2>1, ChgIdleIs, ChgNamesDiffer
    <3> QED
      BY <1>2, <1>3, <2>1, <3>1
  <2>2. CASE d # c
    <3>1. requestJob'[d] = requestJob[d]
      BY <1>2, <2>2
    <3>2. /\ requests[requestJob[d].request] = Absent
          /\ \A e \in Callers \ {d} : requestJob[e].request # requestJob[d].request
      BY <3>1 DEF ChgIInv, ChgBInv
    <3>3. requestJob[d].request \in Requests
      BY <1>5, <3>1, ChgIdleIs, ChgNamesDiffer
    <3>4. requestJob[d].request # r \/ j = Change!Idle
      BY <2>2, <3>1
    <3>5. CASE requestJob[d].request # r
      <4>1. j.request # requestJob[d].request
        BY <3>3, <3>5, ChgIdleIs, ChgNamesDiffer
      <4> QED
        BY <1>2, <1>3, <3>1, <3>2, <3>3, <3>5, <4>1
    <3>6. CASE requestJob[d].request = r
      <4>1. requestJob[c] # Change!Idle => requestJob[c].request = requestJob[d].request
        BY <3>6
      <4> QED
        BY <2>2, <3>2, <3>4, <3>6, <4>1
    <3> QED
      BY <3>5, <3>6
  <2> QED
    BY <2>1, <2>2
<1>10. ChgWInv'
  <2>1. ASSUME NEW q \in Requests, Change!StatusOf(q)' = "APPLIED" PROVE q \in written'
    <3>1. requests'[q] # Absent /\ requests'[q].status = "APPLIED"
      BY <2>1, ChgNamesDiffer DEF Change!StatusOf
    <3>2. CASE q = r
      BY <1>3, <3>1, <3>2
    <3>3. CASE q # r
      BY <1>3, <3>1, <3>3 DEF ChgIInv, ChgWInv, Change!StatusOf
    <3> QED
      BY <3>2, <3>3
  <2>2. ASSUME NEW d \in Callers, requestJob'[d].step \in {"compose", "project", "mark"}
        PROVE requestJob'[d].request \in written'
    <3>1. CASE d = c
      BY <1>2, <2>2, <3>1, ChgIdleIs
    <3>2. CASE d # c
      BY <1>2, <2>2, <3>2 DEF ChgIInv, ChgWInv
    <3> QED
      BY <3>1, <3>2
  <2> QED
    BY <2>1, <2>2 DEF ChgWInv
<1>11. ChgRInv'
  <2> SUFFICES ASSUME NEW q \in Requests \ requestDisturbed'
      PROVE  /\ \A d, e \in Callers : requestJob'[d].request = q /\ requestJob'[e].request = q =>
                  d = e
             /\ \A d \in Callers : requestJob'[d].request = q => ChgFar(requestJob[d])'
             /\ Change!AtRest(q)' => ChgSettled(q)'
    BY DEF ChgRInv
  <2>0. /\ \A d, e \in Callers : requestJob[d].request = q /\ requestJob[e].request = q => d = e
        /\ \A d \in Callers : requestJob[d].request = q => ChgFar(requestJob[d])
        /\ Change!AtRest(q) => ChgSettled(q)
    BY DEF ChgIInv, ChgRInv
  <2>1. CASE q = r
    <3>1. /\ \A d \in Callers \ {c} : requestJob'[d].request # q
          /\ j = Change!Idle => ChgSettled(q)'
          /\ j # Change!Idle => ChgFar(j)'
      BY <1>2, <2>1
    <3>2. \A d, e \in Callers : requestJob'[d].request = q /\ requestJob'[e].request = q => d = e
      BY <3>1
    <3>3. ASSUME NEW d \in Callers, requestJob'[d].request = q PROVE ChgFar(requestJob[d])'
      <4>1. d = c /\ requestJob'[d] = j
        BY <1>2, <3>1, <3>3
      <4>2. j # Change!Idle
        BY <3>3, <4>1, ChgIdleIs, ChgNamesDiffer
      <4> QED
        BY <3>1, <4>1, <4>2 DEF ChgFar, Change!StatusOf, ChgHeard
    <3>4. Change!AtRest(q)' => j = Change!Idle
      BY <1>2, <2>1 DEF Change!AtRest
    <3> QED
      BY <3>1, <3>2, <3>3, <3>4
  <2>2. CASE q # r
    <3>1. /\ requests'[q] = requests[q] /\ (q \in written' <=> q \in written)
          /\ notices'[q] = notices[q] /\ (q \in locked' <=> q \in locked)
      BY <1>3, <2>2
    <3>7. ChgHeard(q)' = ChgHeard(q)
      BY <2>2 DEF ChgHeard
    <3>2. \A d \in Callers : requestJob'[d].request = q <=> requestJob[d].request = q
      BY <1>2, <2>2, ChgIdleIs, ChgNamesDiffer
    <3>3. \A d \in Callers : requestJob'[d].request = q => requestJob'[d] = requestJob[d]
      BY <1>2, <2>2, <3>2, ChgIdleIs, ChgNamesDiffer
    <3>4. ASSUME NEW d \in Callers, requestJob'[d].request = q PROVE ChgFar(requestJob[d])'
      <4>1. PICK k : k = requestJob[d]
        OBVIOUS
      <4>2. requestJob'[d] = k /\ k.request = q /\ ChgFar(k)
        BY <2>0, <3>2, <3>3, <3>4, <4>1
      <4>3. ChgFar(k)'
        BY <3>1, <3>7, <4>2, ChgFarStays
      <4>4. k = requestJob'[d]
        BY <4>2
      <4> QED
        BY <4>3, <4>4 DEF ChgFar, Change!StatusOf, ChgHeard
    <3>5. Change!AtRest(q)' => Change!AtRest(q)
      BY <3>2 DEF Change!AtRest
    <3>6. Change!AtRest(q)' => ChgSettled(q)'
      BY <2>0, <3>1, <3>5, <3>7, ChgSettledStays
    <3> QED
      BY <2>0, <3>2, <3>4, <3>6
  <2> QED
    BY <2>1, <2>2
<1> QED
  BY <1>6, <1>7, <1>8, <1>10, <1>11 DEF ChgIInv

\* What is pending, and what it changes, stays.
LEMMA ChgCSame ==
  ASSUME ChgIInv, pending' = pending, values' = values,
         projected' \in {projected} \cup views, views' \subseteq views \cup {values},
         transactions' = transactions, reordered' = reordered, overtaken' = overtaken,
         \A q \in Requests : requests[q] # Absent =>
           requests'[q] # Absent /\ requests'[q].field = requests[q].field
  PROVE  ChgCInv'
<1>1. ChgCInv /\ pending \in Seq(Requests)
  BY DEF ChgIInv, ChgTInv
<1>2. \A i \in 1..Len(pending) : /\ requests'[pending[i]] # Absent
                                 /\ requests'[pending'[i]].field = requests[pending[i]].field
  BY <1>1 DEF ChgCInv
<1>3. ASSUME NEW i \in 1..Len(pending) PROVE ChgFieldAt(i)' = ChgFieldAt(i)
  BY <1>2 DEF ChgFieldAt
<1>4. ASSUME transactions, ~reordered, ~overtaken, NEW f \in Fields,
             \A i \in 1..Len(pending) : ChgFieldAt(i) # f
      PROVE  projected'[f] = values[f] /\ \A view \in views' : view[f] = values[f]
  BY <1>1, <1>4 DEF ChgCInv
<1> QED
  BY <1>1, <1>2, <1>3, <1>4 DEF ChgCInv

\* Without transactions nothing is said of the read model.
LEMMA ChgCWithout ==
  ASSUME ChgIInv, ~transactions, transactions' = transactions, pending' \in Seq(Requests),
         \A i \in 1..Len(pending') : requests'[pending'[i]] # Absent
  PROVE  ChgCInv'
BY DEF ChgCInv

-------------------------------------------------------------------------------
\* A step that leaves requests, profile and events alone.
ChgQuiet(c, r) ==
  /\ UNCHANGED <<transactions, requests, stage, values, requestEvents, pending, requestHandled,
                 written, views, reordered, overtaken>>
  /\ projected' \in Change!Values /\ (transactions => projected' = projected)
  /\ requestDisturbed \subseteq requestDisturbed' /\ requestDisturbed' \subseteq Requests
  /\ locked \subseteq locked' /\ locked' \subseteq locked \cup {r}
  /\ \A q \in Requests \ {r} : notices'[q] = notices[q]
  /\ notices' \in [Requests -> SUBSET {"APPLIED", "REJECTED"}]

ChgGoes(c, j, r) ==
  /\ j \in ChgJob \cup {Change!Idle} /\ requestJob' = [requestJob EXCEPT ![c] = j]
  /\ r = requestJob[c].request
  /\ requestJob[c].step # "idle"
  /\ (j # Change!Idle => requestJob[c].step # "announce")
  /\ j # Change!Idle => j.request = r /\ j.command = requestJob[c].command /\ ChgKind(j)
  /\ j.command = "CREATE" => j.step # "announce"
  /\ j.step \in {"compose", "project", "mark"} => r \in written
  /\ r \notin requestDisturbed' =>
       (j = Change!Idle => ChgSettled(r)') /\ (j # Change!Idle => ChgFar(j)')

LEMMA ChgQuietKeeps ==
  ASSUME ChgIInv, NEW c \in Callers, NEW j, NEW r, ChgQuiet(c, r), ChgGoes(c, j, r)
  PROVE  ChgIInv'
<1>1. PICK doc : doc = requests[r]
  OBVIOUS
<1>2. /\ requestJob[c] \in ChgJob /\ r \in Requests
      /\ requestJob[c].command # "CREATE" => requests[r] \in ChgDoc
      /\ requestJob[c].command = "CREATE" /\ requestJob[c].step # "announce" => requests[r] = Absent
      /\ \A d \in Callers \ {c} : requestJob[d].request = r =>
           ~(requestJob[d].command = "CREATE" /\ requestJob[d].step # "announce")
      /\ r \notin requestDisturbed => \A d \in Callers \ {c} : requestJob[d].request # r
  BY ChgAtIs DEF ChgGoes
<1>3. /\ ChgTInv
      /\ requests[r] \in ChgDoc \cup {Absent}
      /\ requests' \in [Requests -> ChgDoc \cup {Absent}]
  BY <1>2 DEF ChgIInv, ChgTInv, ChgQuiet
<1>4. ChgCInv'
  <2>1. CASE transactions
    BY <2>1, ChgCSame DEF ChgQuiet
  <2>2. CASE ~transactions
    BY <1>3, <2>2, ChgCWithout DEF ChgQuiet, ChgIInv, ChgTInv, ChgCInv
  <2> QED
    BY <2>1, <2>2
<1>6. j.command = "CREATE" => j # Change!Idle
  BY ChgIdleIs, ChgNamesDiffer
<1>7. ChgTakes(c, j, r, doc)
  BY <1>1, <1>2, <1>3, ChgIdleIs DEF ChgTakes, ChgQuiet, ChgGoes
<1>8. ChgSpares(r)
  BY <1>3 DEF ChgSpares, ChgQuiet, ChgTInv
<1>9. ChgMay(c, j, r, doc)
  <2>1. doc # Absent /\ doc.status = "APPLIED" => r \in written
    BY <1>1, <1>2 DEF ChgIInv, ChgWInv, Change!StatusOf
  <2>2. j.command = "CREATE" =>
           doc = Absent /\ \A d \in Callers \ {c} : requestJob[d].request # r
    BY <1>1, <1>2, <1>6 DEF ChgIInv, ChgBInv, ChgGoes
  <2> QED
    BY <1>1, <1>2, <2>1, <2>2, ChgNamesDiffer DEF ChgMay, ChgGoes, ChgQuiet
<1>10. ChgAgrees(c, j, r)
  BY <1>2 DEF ChgAgrees, ChgQuiet, ChgGoes
<1> QED
  BY <1>4, <1>7, <1>8, <1>9, <1>10, ChgStepKeeps

\* A request that is over, or a caller that goes on.
LEMMA ChgMoveIs ==
  ASSUME ChgIInv, NEW c \in Callers, requestJob[c].step # "idle", NEW step \in ChgSteps
  PROVE  \E j \in ChgJob :
           /\ [requestJob[c] EXCEPT !.step = step] = j
           /\ j.step = step /\ j.request = requestJob[c].request /\ j.command = requestJob[c].command
<1>1. requestJob[c] \in ChgJob
  BY ChgAtIs
<1>2. [requestJob[c] EXCEPT !.step = step] \in ChgJob
  BY <1>1 DEF ChgJob
<1> QED
  BY <1>1, <1>2 DEF ChgJob

LEMMA ChgGoIs ==
  ASSUME ChgIInv, NEW c \in Callers, requestJob[c].step # "idle", NEW step \in ChgSteps,
         Change!Go(c, step)
  PROVE  \E j \in ChgJob :
           /\ requestJob' = [requestJob EXCEPT ![c] = j]
           /\ j.step = step /\ j.request = requestJob[c].request /\ j.command = requestJob[c].command
<1>1. PICK j \in ChgJob :
           /\ [requestJob[c] EXCEPT !.step = step] = j
           /\ j.step = step /\ j.request = requestJob[c].request /\ j.command = requestJob[c].command
  BY ChgMoveIs
<1>2. requestJob' = [requestJob EXCEPT ![c] = j]
  BY <1>1 DEF Change!Go
<1> QED
  BY <1>1, <1>2

LEMMA ChgSettledIs ==
  ASSUME NEW j \in ChgJob, ChgFar(j), ChgKind(j), j.step \in {"check", "write", "publish"}
  PROVE  ChgSettled(j.request)
<1>1. j.command \in ChgCommands
  BY DEF ChgJob
<1>2. Change!StatusOf(j.request) # Absent =>
        Change!StatusOf(j.request) \in {"PENDING"} \cup {ChgEnd(j)}
  BY DEF ChgFar, ChgBegun
<1> QED
  BY <1>1, ChgNamesDiffer DEF ChgFar, ChgKind, ChgSettled, ChgBegun, ChgEnd, ChgTold, ChgDue,
     ChgCommands

LEMMA ChgCheckKeeps ==
  ASSUME ChgIInv, NEW c \in Callers, Change!Check(c)
  PROVE  ChgIInv'
<1>1. PICK r : r = requestJob[c].request
  OBVIOUS
<1>2. requestJob[c].step = "check" /\ requestJob[c].command = "APPROVE" /\ requestJob[c] \in ChgJob /\ r \in Requests
      /\ requests[r] \in ChgDoc
      /\ (r \notin requestDisturbed => ChgFar(requestJob[c]))
      /\ ChgKind(requestJob[c])
  BY <1>1, ChgAtIs DEF Change!Check, Change!At, ChgKind
<1>3. UNCHANGED <<transactions, requests, stage, values, projected, locked, notices, requestEvents,
                  pending,
                  requestHandled, written, requestDisturbed, views, reordered, overtaken>>
  BY DEF Change!Check, Change!ProfileVars, Change!OutsideVars, Change!EventVars, Change!HistoryVars
<1>4. ChgTInv
  BY DEF ChgIInv
<1>5. CASE requestJob' = [requestJob EXCEPT ![c] = Change!Idle]
  <2>1. PICK j : j = Change!Idle
    OBVIOUS
  <2>2. r \notin requestDisturbed => ChgSettled(r)
    BY <1>1, <1>2, ChgSettledIs
  <2>3. r \notin requestDisturbed => ChgSettled(r)'
    BY <1>1, <1>3, <2>2 DEF ChgSettled, Change!StatusOf, ChgHeard
  <2>4. ChgQuiet(c, r)
    BY <1>3, <1>4 DEF ChgQuiet, ChgTInv
  <2>5. ChgGoes(c, j, r)
    BY <1>1, <1>2, <1>3, <1>5, <2>1, <2>3, ChgIdleIs, ChgNamesDiffer DEF ChgGoes
  <2> QED
    BY <2>4, <2>5, ChgQuietKeeps
<1>6. CASE requestJob' # [requestJob EXCEPT ![c] = Change!Idle]
  <2>1. Change!Go(c, "write")
    BY <1>6 DEF Change!Check, Change!Finish
  <2>2. PICK j \in ChgJob :
           /\ requestJob' = [requestJob EXCEPT ![c] = j]
           /\ j.step = "write" /\ j.request = requestJob[c].request /\ j.command = requestJob[c].command
    BY <1>2, <2>1, ChgGoIs DEF ChgSteps
  <2>3. ChgKind(j) /\ j # Change!Idle
    BY <1>2, <2>2, ChgIdleIs DEF ChgKind
  <2>4. r \notin requestDisturbed => ChgFar(j)
    BY <1>1, <1>2, <2>2 DEF ChgFar, ChgBegun, ChgEnd
  <2>5. r \notin requestDisturbed => ChgFar(j)'
    BY <1>3, <2>4 DEF ChgFar, Change!StatusOf, ChgHeard
  <2>6. ChgQuiet(c, r)
    BY <1>3, <1>4 DEF ChgQuiet, ChgTInv
  <2>7. ChgGoes(c, j, r)
    BY <1>1, <1>2, <1>3, <2>2, <2>3, <2>5 DEF ChgGoes
  <2> QED
    BY <2>6, <2>7, ChgQuietKeeps
<1> QED
  BY <1>5, <1>6

LEMMA ChgOpenKeeps ==
  ASSUME ChgIInv, NEW c \in Callers, Change!Open(c)
  PROVE  ChgIInv'
<1>1. PICK r : r = requestJob[c].request
  OBVIOUS
<1>2. /\ requestJob[c].step = "write"
      /\ requestJob[c] \in ChgJob
      /\ r \in Requests
      /\ (r \notin requestDisturbed => ChgFar(requestJob[c]))
      /\ ChgKind(requestJob[c])
  BY <1>1, ChgAtIs DEF Change!Open, Change!At
<1>3. UNCHANGED <<transactions, requests, stage, values, projected, locked, notices, requestEvents,
                  pending,
                  requestHandled, written, requestDisturbed, views, reordered, overtaken>>
  BY DEF Change!Open, Change!ProfileVars, Change!OutsideVars, Change!EventVars, Change!HistoryVars
<1>4. ChgTInv
  BY DEF ChgIInv
<1>5. CASE requestJob' = [requestJob EXCEPT ![c] = Change!Idle]
  <2>1. PICK j : j = Change!Idle
    OBVIOUS
  <2>2. r \notin requestDisturbed => ChgSettled(r)
    BY <1>1, <1>2, ChgSettledIs
  <2>3. r \notin requestDisturbed => ChgSettled(r)'
    BY <1>1, <1>3, <2>2 DEF ChgSettled, Change!StatusOf, ChgHeard
  <2>4. ChgQuiet(c, r)
    BY <1>3, <1>4 DEF ChgQuiet, ChgTInv
  <2>5. ChgGoes(c, j, r)
    BY <1>1, <1>2, <1>3, <1>5, <2>1, <2>3, ChgIdleIs, ChgNamesDiffer DEF ChgGoes
  <2> QED
    BY <2>4, <2>5, ChgQuietKeeps
<1>6. CASE requestJob' # [requestJob EXCEPT ![c] = Change!Idle]
  <2>1. transactions /\ Change!Go(c, Change!AfterMark(c))
    BY <1>6 DEF Change!Open, Change!Finish
  <2>2. PICK step : step = Change!AfterMark(c)
    OBVIOUS
  <2>3. /\ step \in {"lock", "notify", "commit"}
        /\ step = "lock" <=> requestJob[c].command = "APPROVE"
        /\ step = "notify" <=> requestJob[c].command = "REJECT"
    BY <2>1, <2>2 DEF Change!AfterMark
  <2>4. step \in ChgSteps
    BY <2>3 DEF ChgSteps
  <2>5. Change!Go(c, step)
    BY <2>1, <2>2
  <2>6. PICK j \in ChgJob :
           /\ requestJob' = [requestJob EXCEPT ![c] = j]
           /\ j.step = step /\ j.request = requestJob[c].request /\ j.command = requestJob[c].command
    BY <1>2, <2>4, <2>5, ChgGoIs
  <2>7. ChgKind(j) /\ j # Change!Idle
    BY <2>1, <2>3, <2>6, ChgJobIs, ChgIdleIs, <1>2 DEF ChgKind
  <2>9. r \notin requestDisturbed => ChgFar(j)
    <3>1. j.command \in ChgCommands
      BY DEF ChgJob
    <3>2. ChgBegun(j) = ChgBegun(requestJob[c]) /\ ChgEnd(j) = ChgEnd(requestJob[c])
      BY <2>6 DEF ChgBegun, ChgEnd
    <3>3. step = "commit" => ChgTold(ChgEnd(j)) = {}
      BY <2>3, <2>6, <3>1 DEF ChgEnd, ChgTold, ChgCommands
    <3> QED
      BY <1>1, <1>2, <2>1, <2>3, <2>6, <3>2, <3>3 DEF ChgFar
  <2>10. r \notin requestDisturbed => ChgFar(j)'
    BY <1>3, <2>9 DEF ChgFar, Change!StatusOf, ChgHeard
  <2>11. ChgQuiet(c, r)
    BY <1>3, <1>4 DEF ChgQuiet, ChgTInv
  <2>12. ChgGoes(c, j, r)
    BY <1>1, <1>2, <1>3, <2>3, <2>6, <2>7, <2>10 DEF ChgGoes
  <2> QED
    BY <2>11, <2>12, ChgQuietKeeps
<1> QED
  BY <1>5, <1>6

-------------------------------------------------------------------------------
\* What is known of a caller at work on r.
LEMMA ChgWorkIs ==
  ASSUME ChgIInv, NEW c \in Callers, requestJob[c].step # "idle"
  PROVE  \E r \in Requests, k \in ChgJob :
           /\ r = requestJob[c].request
           /\ k = requestJob[c]
           /\ k.request = r
           /\ k.command \in ChgCommands
           /\ ChgKind(k) /\ (r \notin requestDisturbed => ChgFar(k))
<1>1. PICK k : k = requestJob[c]
  OBVIOUS
<1>2. k \in ChgJob /\ ChgKind(k) /\ (k.request \notin requestDisturbed => ChgFar(k))
  BY <1>1, ChgAtIs
<1> QED
  BY <1>1, <1>2 DEF ChgJob

LEMMA ChgComposeKeeps ==
  ASSUME ChgIInv, NEW c \in Callers, Change!Compose(c)
  PROVE  ChgIInv'
<1>1. /\ requestJob[c].step = "compose"
      /\ requestJob' = [requestJob EXCEPT ![c].step = "project", ![c].view = values]
      /\ UNCHANGED <<transactions, requests, stage, values, views, projected, locked, notices, requestEvents,
                     pending, requestHandled, written, requestDisturbed, reordered, overtaken>>
  BY DEF Change!Compose, Change!At, Change!ProfileVars, Change!OutsideVars, Change!EventVars, Change!HistoryVars
<1>2. PICK r \in Requests, k \in ChgJob :
           /\ r = requestJob[c].request
           /\ k = requestJob[c]
           /\ k.request = r
           /\ k.command \in ChgCommands
           /\ ChgKind(k) /\ (r \notin requestDisturbed => ChgFar(k))
  BY <1>1, ChgWorkIs
<1>3. ChgTInv /\ values \in Change!Values
  BY DEF ChgIInv, ChgTInv
<1>4. PICK j : j = [[k EXCEPT !.step = "project"] EXCEPT !.view = values]
  OBVIOUS
<1>5. j \in ChgJob /\ j.step = "project" /\ j.view = values /\ j.command = k.command /\ j.request = r
  BY <1>2, <1>3, <1>4 DEF ChgJob, ChgSteps
<1>6. requestJob' = [requestJob EXCEPT ![c] = j]
  BY <1>1, <1>2, <1>3, <1>4 DEF ChgTInv
<1>7. ChgKind(j) /\ j # Change!Idle
  BY <1>1, <1>2, <1>3, <1>5, ChgIdleIs DEF ChgKind
<1>8. r \notin requestDisturbed => ChgFar(j)
  BY <1>1, <1>2, <1>5 DEF ChgFar, ChgBegun, ChgEnd
<1>9. r \notin requestDisturbed => ChgFar(j)'
  BY <1>1, <1>8 DEF ChgFar, Change!StatusOf, ChgHeard
<1>10. r \in written
  BY <1>1, <1>2 DEF ChgIInv, ChgWInv
<1>11. ChgQuiet(c, r)
  BY <1>1, <1>2, <1>3 DEF ChgQuiet, ChgTInv, ChgKind
<1>12. ChgGoes(c, j, r)
  BY <1>1, <1>2, <1>5, <1>6, <1>7, <1>9, <1>10 DEF ChgGoes
<1> QED
  BY <1>11, <1>12, ChgQuietKeeps

LEMMA ChgProjectKeeps ==
  ASSUME ChgIInv, NEW c \in Callers, Change!Project(c)
  PROVE  ChgIInv'
<1>1. /\ requestJob[c].step = "project"
      /\ requestJob' = [requestJob EXCEPT ![c].step = "mark", ![c].view = None]
      /\ projected' = requestJob[c].view
      /\ UNCHANGED <<transactions, requests, stage, values, views, locked, notices, requestEvents,
                     pending, requestHandled, written, requestDisturbed, reordered, overtaken>>
  BY DEF Change!Project, Change!At, Change!OutsideVars, Change!EventVars, Change!HistoryVars
<1>2. PICK r \in Requests, k \in ChgJob :
           /\ r = requestJob[c].request
           /\ k = requestJob[c]
           /\ k.request = r
           /\ k.command \in ChgCommands
           /\ ChgKind(k) /\ (r \notin requestDisturbed => ChgFar(k))
  BY <1>1, ChgWorkIs
<1>3. ChgTInv /\ values \in Change!Values
  BY DEF ChgIInv, ChgTInv
<1>4. PICK j : j = [[k EXCEPT !.step = "mark"] EXCEPT !.view = None]
  OBVIOUS
<1>5. j \in ChgJob /\ j.step = "mark" /\ j.view = None /\ j.command = k.command /\ j.request = r
  BY <1>2, <1>3, <1>4 DEF ChgJob, ChgSteps
<1>6. requestJob' = [requestJob EXCEPT ![c] = j]
  BY <1>1, <1>2, <1>3, <1>4 DEF ChgTInv
<1>7. ChgKind(j) /\ j # Change!Idle
  BY <1>1, <1>2, <1>3, <1>5, ChgIdleIs DEF ChgKind
<1>8. r \notin requestDisturbed => ChgFar(j)
  BY <1>1, <1>2, <1>5 DEF ChgFar, ChgBegun, ChgEnd
<1>9. r \notin requestDisturbed => ChgFar(j)'
  BY <1>1, <1>8 DEF ChgFar, Change!StatusOf, ChgHeard
<1>10. r \in written
  BY <1>1, <1>2 DEF ChgIInv, ChgWInv
<1>11. ChgQuiet(c, r)
  BY <1>1, <1>2, <1>3 DEF ChgQuiet, ChgTInv, ChgKind
<1>12. ChgGoes(c, j, r)
  BY <1>1, <1>2, <1>5, <1>6, <1>7, <1>9, <1>10 DEF ChgGoes
<1> QED
  BY <1>11, <1>12, ChgQuietKeeps

LEMMA ChgLockAttachmentsKeeps ==
  ASSUME ChgIInv, NEW c \in Callers, Change!LockAttachments(c)
  PROVE  ChgIInv'
<1>1. requestJob[c].step = "lock" /\ Change!Go(c, "notify") /\ locked' \in {locked, locked \cup {requestJob[c].request}}
      /\ UNCHANGED <<transactions, requests, stage, values, projected, notices, requestEvents,
                     pending,
                     requestHandled, written, requestDisturbed, views, reordered, overtaken>>
  BY DEF Change!LockAttachments, Change!At, Change!ProfileVars, Change!EventVars, Change!HistoryVars
<1>2. PICK r \in Requests, k \in ChgJob :
           /\ r = requestJob[c].request
           /\ k = requestJob[c]
           /\ k.request = r
           /\ k.command \in ChgCommands
           /\ ChgKind(k) /\ (r \notin requestDisturbed => ChgFar(k))
  BY <1>1, ChgWorkIs
<1>3. PICK j \in ChgJob :
           /\ requestJob' = [requestJob EXCEPT ![c] = j]
           /\ j.step = "notify"
           /\ j.request = requestJob[c].request
           /\ j.command = requestJob[c].command
  BY <1>1, ChgGoIs DEF ChgSteps
<1>4. ChgQuiet(c, r)
  BY <1>1, <1>2 DEF ChgQuiet, ChgIInv, ChgTInv
<1>5. ChgKind(j) /\ j # Change!Idle /\ j.command = "APPROVE"
  BY <1>1, <1>2, <1>3, ChgIdleIs DEF ChgKind
<1>6. r \notin requestDisturbed => ChgFar(j)'
  <2>1. ChgBegun(j) = ChgBegun(k) /\ ChgEnd(j) = ChgEnd(k)
    BY <1>2, <1>3 DEF ChgBegun, ChgEnd
  <2> QED
    BY <1>1, <1>2, <1>3, <1>5, <2>1 DEF ChgFar, Change!StatusOf, ChgHeard
<1>8. ChgGoes(c, j, r)
  BY <1>1, <1>2, <1>3, <1>5, <1>6 DEF ChgGoes
<1> QED
  BY <1>4, <1>8, ChgQuietKeeps

LEMMA ChgNotifyKeeps ==
  ASSUME ChgIInv, NEW c \in Callers, Change!Notify(c)
  PROVE  ChgIInv'
<1>0. PICK step : step = IF transactions THEN "commit" ELSE "announce"
  OBVIOUS
<1>1. requestJob[c].step = "notify" /\ Change!Go(c, step)
      /\ notices' = [notices EXCEPT ![requestJob[c].request] = @ \cup {Change!Outcome[requestJob[c].command]}]
      /\ UNCHANGED <<transactions, requests, stage, values, projected, locked, requestEvents, pending,
                     requestHandled, written, requestDisturbed, views, reordered, overtaken>>
  BY <1>0 DEF Change!Notify, Change!At, Change!ProfileVars, Change!EventVars, Change!HistoryVars
<1>2. PICK r \in Requests, k \in ChgJob :
           /\ r = requestJob[c].request
           /\ k = requestJob[c]
           /\ k.request = r
           /\ k.command \in ChgCommands
           /\ ChgKind(k) /\ (r \notin requestDisturbed => ChgFar(k))
  BY <1>1, ChgWorkIs
<1>3. PICK j \in ChgJob :
           /\ requestJob' = [requestJob EXCEPT ![c] = j]
           /\ j.step = step /\ j.request = requestJob[c].request /\ j.command = requestJob[c].command
  BY <1>0, <1>1, ChgGoIs DEF ChgSteps
<1>4. k.command \in {"APPROVE", "REJECT"} /\ ChgKind(j) /\ j # Change!Idle
  <2>1. k.command \in {"APPROVE", "REJECT"}
    BY <1>1, <1>2 DEF ChgKind
  <2>2. j # Change!Idle
    BY <1>0, <1>3, ChgIdleIs
  <2> QED
    BY <1>0, <1>2, <1>3, <2>1, <2>2 DEF ChgKind
<1>5. /\ ChgTold(ChgEnd(k)) = {Change!Outcome[k.command]}
      /\ {Change!Outcome[k.command]} \subseteq {"APPLIED", "REJECTED"}
  BY <1>4, ChgEndIs DEF ChgEnd, ChgTold
<1>6. notices \in [Requests -> SUBSET {"APPLIED", "REJECTED"}]
  BY DEF ChgIInv, ChgTInv
<1>7. /\ notices'[r] = notices[r] \cup ChgTold(ChgEnd(k))
      /\ \A q \in Requests \ {r} : notices'[q] = notices[q]
  BY <1>1, <1>2, <1>5, <1>6
<1>8. notices' \in [Requests -> SUBSET {"APPLIED", "REJECTED"}]
  BY <1>1, <1>2, <1>5, <1>6
<1>9. ChgQuiet(c, r)
  BY <1>1, <1>7, <1>8 DEF ChgQuiet, ChgIInv, ChgTInv
<1>10. r \notin requestDisturbed => ChgFar(j)'
  <2>1. ChgBegun(j) = ChgBegun(k) /\ ChgEnd(j) = ChgEnd(k)
    BY <1>2, <1>3 DEF ChgBegun, ChgEnd
  <2>2. notices[r] = {} => notices'[r] = ChgTold(ChgEnd(k))
    BY <1>7
  <2> QED
    BY <1>0, <1>1, <1>2, <1>3, <1>4, <2>1, <2>2 DEF ChgFar, Change!StatusOf, ChgHeard
<1>12. ChgGoes(c, j, r)
  BY <1>0, <1>1, <1>2, <1>3, <1>4, <1>10 DEF ChgGoes
<1> QED
  BY <1>9, <1>12, ChgQuietKeeps

-------------------------------------------------------------------------------
\* A step that changes neither who works on what nor the requests.
LEMMA ChgRestKeeps ==
  ASSUME ChgIInv, UNCHANGED <<transactions, requests, values, locked, notices, requestEvents,
                              requestJob, requestHandled, written,
                           requestDisturbed>>,
         stage' \in ChgStageNames, projected' \in Change!Values, pending' \in Seq(Requests),
         views' \subseteq Change!Values, reordered' \in BOOLEAN, overtaken' \in BOOLEAN, ChgCInv'
  PROVE  ChgIInv'
<1>1. ChgTInv'
  <2>1. transactions' \in BOOLEAN
    BY Zenon DEF ChgIInv, ChgTInv
  <2> QED
    BY <2>1 DEF ChgIInv, ChgTInv
<1>2. ChgKInv'
  BY DEF ChgIInv, ChgKInv, ChgKind
<1>3. ChgBInv'
  BY DEF ChgIInv, ChgBInv
<1>5. ChgWInv'
  BY DEF ChgIInv, ChgWInv, Change!StatusOf
<1>6. ChgRInv'
  <2> SUFFICES ASSUME NEW r \in Requests \ requestDisturbed
      PROVE  /\ \A d, e \in Callers : requestJob[d].request = r /\ requestJob[e].request = r => d = e
             /\ \A d \in Callers : requestJob[d].request = r => ChgFar(requestJob[d])'
             /\ Change!AtRest(r) => ChgSettled(r)'
    BY DEF ChgRInv, Change!AtRest
  <2>1. /\ \A d, e \in Callers : requestJob[d].request = r /\ requestJob[e].request = r => d = e
        /\ \A d \in Callers : requestJob[d].request = r => ChgFar(requestJob[d])
        /\ Change!AtRest(r) => ChgSettled(r)
    BY DEF ChgIInv, ChgRInv
  <2>2. ASSUME NEW d \in Callers, requestJob[d].request = r PROVE ChgFar(requestJob[d])'
    BY <2>1, <2>2 DEF ChgFar, Change!StatusOf, ChgHeard
  <2>3. Change!AtRest(r) => ChgSettled(r)'
    BY <2>1 DEF ChgSettled, Change!StatusOf, ChgHeard
  <2> QED
    BY <2>1, <2>2, <2>3
<1> QED
  BY <1>1, <1>2, <1>3, <1>5, <1>6 DEF ChgIInv

LEMMA ChgStageKeeps ==
  ASSUME ChgIInv, NEW s, Change!MoveStage(s)
  PROVE  ChgIInv'
<1>1. s \in Change!Stages[stage] /\ stage' = s
      /\ UNCHANGED <<transactions, requests, values, projected, locked, notices, requestEvents, pending,
                     requestJob, requestHandled,
                     written, requestDisturbed, views, reordered, overtaken>>
  BY DEF Change!MoveStage, Change!OutsideVars, Change!EventVars, Change!HistoryVars
<1>2. s \in ChgStageNames
  BY <1>1 DEF ChgIInv, ChgTInv, Change!Stages, ChgStageNames
<1>3. ChgCInv'
  BY <1>1, ChgCSame
<1>4. reordered' \in BOOLEAN /\ overtaken' \in BOOLEAN
  BY <1>1, Zenon DEF ChgIInv, ChgTInv
<1> QED
  BY <1>1, <1>2, <1>3, <1>4, ChgRestKeeps DEF ChgIInv, ChgTInv

\* A refresh reads the record, or puts what it read in the read model.
LEMMA ChgRefreshKeeps ==
  ASSUME ChgIInv, Change!StartRefresh \/ \E view \in views : Change!WriteRefresh(view)
  PROVE  ChgIInv'
<1>1. /\ projected' \in {projected} \cup views /\ views' \subseteq views \cup {values}
      /\ UNCHANGED <<transactions, requests, stage, values, locked, notices, requestEvents, pending,
                     requestJob, requestHandled, written, requestDisturbed, reordered, overtaken>>
  BY DEF Change!StartRefresh, Change!WriteRefresh, Change!OutsideVars, Change!EventVars,
     Change!HistoryVars
<1>2. ChgTInv
  BY DEF ChgIInv
<1>3. ChgCInv'
  BY <1>1, ChgCSame
<1>4. reordered' \in BOOLEAN /\ overtaken' \in BOOLEAN
  BY <1>1, <1>2, Zenon DEF ChgTInv
<1>5. projected' \in Change!Values /\ views' \subseteq Change!Values
  BY <1>1, <1>2 DEF ChgTInv
<1> QED
  BY <1>1, <1>2, <1>3, <1>4, <1>5, ChgRestKeeps DEF ChgTInv

LEMMA ChgRemoved ==
  ASSUME NEW S, NEW q \in Seq(S), NEW i \in 1..Len(q),
         NEW t, t = SubSeq(q, 1, i - 1) \o SubSeq(q, i + 1, Len(q))
  PROVE  /\ t \in Seq(S) /\ Len(t) = Len(q) - 1
         /\ \A k \in 1..Len(t) : t[k] = IF k < i THEN q[k] ELSE q[k + 1]
<1>1. PICK a, b : a = SubSeq(q, 1, i - 1) /\ b = SubSeq(q, i + 1, Len(q))
  OBVIOUS
<1>2. Len(q) \in Nat /\ \A k \in 1..Len(q) : q[k] \in S
  OBVIOUS
<1>3. /\ a \in Seq(S) /\ Len(a) = i - 1
      /\ \A k \in 1..(i - 1) : a[k] = q[k]
  <2>1. 1 \in Int /\ i - 1 \in Int /\ \A k \in 1..(i - 1) : q[k] \in S
    BY <1>2
  <2>2. /\ SubSeq(q, 1, i - 1) \in Seq(S)
        /\ Len(SubSeq(q, 1, i - 1)) = IF 1 <= i - 1 THEN (i - 1) - 1 + 1 ELSE 0
        /\ \A k \in 1..((i - 1) - 1 + 1) : SubSeq(q, 1, i - 1)[k] = q[1 + k - 1]
    BY <2>1, SubSeqProperties
  <2>3. \A k \in 1..(i - 1) : k \in 1..((i - 1) - 1 + 1) /\ 1 + k - 1 = k
    OBVIOUS
  <2> QED
    BY <1>1, <2>2, <2>3
<1>4. /\ b \in Seq(S) /\ Len(b) = Len(q) - i
      /\ \A k \in 1..(Len(q) - i) : b[k] = q[i + k]
  <2>1. i + 1 \in Int /\ Len(q) \in Int /\ \A k \in (i + 1)..Len(q) : q[k] \in S
    BY <1>2
  <2>2. /\ SubSeq(q, i + 1, Len(q)) \in Seq(S)
        /\ Len(SubSeq(q, i + 1, Len(q))) = IF i + 1 <= Len(q) THEN Len(q) - (i + 1) + 1 ELSE 0
        /\ \A k \in 1..(Len(q) - (i + 1) + 1) : SubSeq(q, i + 1, Len(q))[k] = q[(i + 1) + k - 1]
    BY <2>1, SubSeqProperties
  <2>3. \A k \in 1..(Len(q) - i) : k \in 1..(Len(q) - (i + 1) + 1) /\ (i + 1) + k - 1 = i + k
    BY <1>2
  <2> QED
    BY <1>1, <1>2, <2>2, <2>3
<1>5. /\ t \in Seq(S) /\ Len(t) = Len(a) + Len(b)
      /\ \A k \in 1..(Len(a) + Len(b)) : t[k] = IF k <= Len(a) THEN a[k] ELSE b[k - Len(a)]
  <2>1. t = a \o b
    BY <1>1
  <2>2. a \in Seq(S) /\ b \in Seq(S)
    BY <1>3, <1>4
  <2>3. /\ a \o b \in Seq(S) /\ Len(a \o b) = Len(a) + Len(b)
        /\ \A k \in 1..(Len(a) + Len(b)) : (a \o b)[k] = IF k <= Len(a) THEN a[k] ELSE b[k - Len(a)]
    BY <2>2, ConcatProperties
  <2> QED
    BY <2>1, <2>3
<1>6. Len(t) = Len(q) - 1
  <2>1. Len(a) = i - 1 /\ Len(b) = Len(q) - i /\ Len(t) = Len(a) + Len(b)
    BY <1>3, <1>4, <1>5
  <2>2. Len(t) = (i - 1) + (Len(q) - i)
    BY ONLY <2>1
  <2>3. Len(q) \in Nat /\ i \in Nat
    BY <1>2
  <2> QED
    BY ONLY <2>2, <2>3
<1>7. ASSUME NEW k \in 1..Len(t) PROVE t[k] = IF k < i THEN q[k] ELSE q[k + 1]
  <2>1. CASE k < i
    <3>1. k \in 1..(i - 1) /\ k <= Len(a) /\ k \in 1..(Len(a) + Len(b))
      BY <1>3, <1>5, <2>1
    <3> QED
      BY <1>3, <1>5, <2>1, <3>1
  <2>2. CASE ~(k < i)
    <3>1. k - (i - 1) \in 1..(Len(q) - i) /\ ~(k <= Len(a)) /\ k \in 1..(Len(a) + Len(b))
      <4>1. Len(a) = i - 1 /\ Len(t) = Len(q) - 1 /\ Len(t) = Len(a) + Len(b)
        BY <1>3, <1>5, <1>6
      <4>2. Len(q) \in Nat /\ i \in Nat /\ 1 <= i
        BY <1>2
      <4>3. k \in 1..(Len(q) - 1)
        BY <4>1
      <4>4. k \in Nat /\ k <= Len(q) - 1 /\ i <= k
        BY ONLY <2>2, <4>2, <4>3
      <4> QED
        BY ONLY <4>1, <4>2, <4>4
    <3>2. t[k] = b[k - (i - 1)]
      BY <1>3, <1>5, <3>1
    <3>3. b[k - (i - 1)] = q[i + (k - (i - 1))]
      BY <1>4, <3>1
    <3>4. i + (k - (i - 1)) = k + 1
      BY <1>2, <1>6
    <3> QED
      BY <2>2, <3>2, <3>3, <3>4
  <2> QED
    BY <2>1, <2>2
<1> QED
  BY <1>5, <1>6, <1>7

LEMMA ChgDeliverKeeps ==
  ASSUME ChgIInv, NEW i \in DOMAIN pending, Change!Deliver(i)
  PROVE  ChgIInv'
<1>1. /\ projected' = [projected EXCEPT ![requests[pending[i]].field] = pending[i]]
      /\ pending' = SubSeq(pending, 1, i - 1) \o SubSeq(pending, i + 1, Len(pending))
      /\ reordered' = (reordered \/ i > 1)
      /\ overtaken' = (overtaken \/ \E view \in views :
                                      view[requests[pending[i]].field] # pending[i])
      /\ UNCHANGED <<transactions, requests, stage, values, views, locked, notices, requestEvents,
                     requestJob, requestHandled, written, requestDisturbed>>
  BY DEF Change!Deliver, Change!OutsideVars
<1>2. ChgTInv /\ ChgCInv /\ i \in 1..Len(pending) /\ pending \in Seq(Requests)
  BY DEF ChgIInv, ChgTInv
<1>3. /\ pending' \in Seq(Requests) /\ Len(pending') = Len(pending) - 1
      /\ \A k \in 1..Len(pending') : pending'[k] = IF k < i THEN pending[k] ELSE pending[k + 1]
  <2>1. pending' = SubSeq(pending, 1, i - 1) \o SubSeq(pending, i + 1, Len(pending))
    BY <1>1
  <2> QED
    BY <1>2, <2>1, ChgRemoved, SMTT(60)
<1>4. \A k \in 1..Len(pending) : /\ pending[k] \in Requests
                                 /\ requests[pending[k]] \in ChgDoc /\ ChgFieldAt(k) \in Fields
  BY <1>2 DEF ChgCInv, ChgTInv, ChgDoc, ChgFieldAt
<1>5. projected' \in Change!Values /\ projected \in [Fields -> Requests \cup {None, Old}]
  BY <1>1, <1>2, <1>4 DEF ChgTInv, Change!Values, ChgFieldAt
<1>6. \A k \in 1..Len(pending') :
        /\ k + 1 \in 1..Len(pending) /\ k \in 1..Len(pending)
        /\ requests[pending'[k]] # Absent
  BY <1>2, <1>3 DEF ChgCInv
<1>7. ChgCInv'
  <2> SUFFICES ASSUME transactions, ~reordered', ~overtaken'
      PROVE  /\ \A n \in 1..Len(pending') :
                  (\A k \in (n + 1)..Len(pending') : ChgFieldAt(k)' # ChgFieldAt(n)') =>
                    values[ChgFieldAt(n)'] = pending'[n]
             /\ \A f \in Fields :
                  (\A n \in 1..Len(pending') : ChgFieldAt(n)' # f) =>
                    projected'[f] = values[f] /\ \A view \in views : view[f] = values[f]
    BY <1>1, <1>6 DEF ChgCInv
  <2>0. ~reordered /\ ~(i > 1) /\ ~overtaken
    BY <1>1, Zenon
  <2>1. ~reordered /\ ~overtaken /\ i = 1
    BY <1>2, <2>0
  <2>9. \A view \in views : view[ChgFieldAt(1)] = pending[1]
    <3> SUFFICES ASSUME NEW view \in views PROVE view[requests[pending[i]].field] = pending[i]
      BY <2>1 DEF ChgFieldAt
    <3> QED
      BY <1>1, Zenon
  <2>2. \A k \in 1..Len(pending') : pending'[k] = pending[k + 1] /\ ChgFieldAt(k)' = ChgFieldAt(k + 1)
    BY <1>1, <1>3, <2>1 DEF ChgFieldAt
  <2>3. /\ \A n \in 1..Len(pending) :
            (\A k \in (n + 1)..Len(pending) : ChgFieldAt(k) # ChgFieldAt(n)) =>
              values[ChgFieldAt(n)] = pending[n]
        /\ \A f \in Fields :
            (\A n \in 1..Len(pending) : ChgFieldAt(n) # f) =>
              projected[f] = values[f] /\ \A view \in views : view[f] = values[f]
    BY <1>2, <2>1 DEF ChgCInv
  <2>4. ASSUME NEW n \in 1..Len(pending'),
               \A k \in (n + 1)..Len(pending') : ChgFieldAt(k)' # ChgFieldAt(n)'
        PROVE  values[ChgFieldAt(n)'] = pending'[n]
    <3>1. ASSUME NEW k \in (n + 2)..Len(pending) PROVE ChgFieldAt(k) # ChgFieldAt(n + 1)
      <4>1. k - 1 \in (n + 1)..Len(pending') /\ k - 1 \in 1..Len(pending') /\ (k - 1) + 1 = k
        BY <1>3
      <4> QED
        BY <2>2, <2>4, <4>1
    <3>2. n + 1 \in 1..Len(pending) /\ (n + 1) + 1 = n + 2
      BY <1>6
    <3> QED
      BY <2>2, <2>3, <3>1, <3>2
  <2>5. ASSUME NEW f \in Fields, \A n \in 1..Len(pending') : ChgFieldAt(n)' # f
        PROVE  projected'[f] = values[f] /\ \A view \in views : view[f] = values[f]
    <3>1. ASSUME NEW k \in 2..Len(pending) PROVE ChgFieldAt(k) # f
      <4>1. k - 1 \in 1..Len(pending') /\ (k - 1) + 1 = k
        BY <1>3
      <4> QED
        BY <2>2, <2>5, <4>1
    <3>2. CASE ChgFieldAt(1) = f
      <4>1. values[f] = pending[1]
        BY <1>2, <2>1, <2>3, <3>1, <3>2
      <4> QED
        BY <1>1, <1>5, <2>1, <2>9, <3>2, <4>1 DEF ChgFieldAt
    <3>3. CASE ChgFieldAt(1) # f
      <4>1. \A n \in 1..Len(pending) : ChgFieldAt(n) # f
        BY <1>2, <3>1, <3>3
      <4> QED
        BY <1>1, <1>5, <2>1, <2>3, <3>3, <4>1 DEF ChgFieldAt
    <3> QED
      BY <3>2, <3>3
  <2> QED
    BY <2>4, <2>5
<1>8. reordered' \in BOOLEAN /\ overtaken' \in BOOLEAN
  BY <1>1
<1>9. stage' \in ChgStageNames /\ views' \subseteq Change!Values
  BY <1>1, <1>2 DEF ChgTInv
<1> QED
  BY <1>1, <1>3, <1>5, <1>7, <1>8, <1>9, ChgRestKeeps

-------------------------------------------------------------------------------
LEMMA ChgCutOffKeeps ==
  ASSUME ChgIInv, NEW c \in Callers, Change!CutOff(c)
  PROVE  ChgIInv'
<1>1. /\ requestJob[c].step # "idle" /\ requestJob' = [requestJob EXCEPT ![c] = Change!Idle]
      /\ requestDisturbed' = requestDisturbed \cup {requestJob[c].request}
      /\ UNCHANGED <<transactions, requests, stage, values, projected, locked, notices,
                     requestEvents, pending,
                     requestHandled, written, views, reordered, overtaken>>
  BY DEF Change!CutOff, Change!InTransaction, Change!Finish, Change!ProfileVars, Change!OutsideVars,
     Change!EventVars
<1>2. PICK r \in Requests : r = requestJob[c].request
  BY <1>1, ChgWorkIs
<1>3. PICK j : j = Change!Idle
  OBVIOUS
<1>4. ChgQuiet(c, r)
  BY <1>1, <1>2 DEF ChgQuiet, ChgIInv, ChgTInv
<1>5. ChgGoes(c, j, r)
  BY <1>1, <1>2, <1>3, ChgIdleIs, ChgNamesDiffer DEF ChgGoes
<1> QED
  BY <1>4, <1>5, ChgQuietKeeps

LEMMA ChgBeginKeeps ==
  ASSUME ChgIInv, NEW c \in Callers, NEW command \in DOMAIN Change!Outcome, NEW r \in Requests,
         Change!Begin(c, command, r)
  PROVE  ChgIInv'
<1>1. PICK j : j = [step |-> IF command = "APPROVE" THEN "check" ELSE "write",
                    request |-> r, command |-> command, view |-> None]
  OBVIOUS
<1>2. /\ requestJob[c] = Change!Idle
      /\ requestHandled < Bounds.change
      /\ requestHandled' = requestHandled + 1
      /\ requestJob' = [requestJob EXCEPT ![c] = j]
      /\ requestDisturbed' = IF \E d \in Callers \ {c} : requestJob[d].request = r
           THEN requestDisturbed \cup {r} ELSE requestDisturbed
      /\ UNCHANGED <<transactions, requests, stage, values, projected, locked, notices,
                     requestEvents, pending,
                     written, views, reordered, overtaken>>
  BY <1>1 DEF Change!Begin, Change!ProfileVars, Change!OutsideVars, Change!EventVars
<1>3. IF command = "CREATE" THEN requests[r] = Absent /\ \A d \in Callers : requestJob[d].request # r
                            ELSE requests[r] # Absent /\ requests[r].status = "PENDING"
  BY DEF Change!Begin
<1>4. command \in ChgCommands
  BY ChgOutcomeIs
<1>5. /\ j.step \in {"check", "write"} /\ (j.step = "check" <=> command = "APPROVE")
      /\ j.request = r /\ j.command = command
  BY <1>1
<1>6. j \in ChgJob
  BY <1>1, <1>4 DEF ChgJob, ChgSteps
<1>7. PICK doc : doc = requests[r]
  OBVIOUS
<1>8. ChgTInv
  BY DEF ChgIInv
<1>9. ChgTakes(c, j, r, doc)
  BY <1>2, <1>5, <1>6, <1>7, <1>8, ChgIdleIs DEF ChgTakes, ChgTInv
<1>10. ChgSpares(r)
  <2>2. requestHandled' \in 0..Bounds.change
    BY <1>2, <1>8, EmployeeBounds DEF ChgTInv
  <2> QED
    BY <1>2, <1>8, <2>2 DEF ChgSpares, ChgTInv
<1>11. ChgMay(c, j, r, doc)
  <2>1. ChgKind(j)
    BY <1>5 DEF ChgKind
  <2>2. command # "CREATE" => doc # Absent
    BY <1>3, <1>7
  <2>3. \A d \in Callers \ {c} : requestJob[d].request = r =>
          ~(requestJob[d].command = "CREATE" /\ requestJob[d].step # "announce")
    BY <1>3 DEF ChgIInv, ChgBInv
  <2>4. doc # Absent /\ doc.status = "APPLIED" => r \in written
    BY <1>7 DEF ChgIInv, ChgWInv, Change!StatusOf
  <2> QED
    BY <1>2, <1>3, <1>5, <1>7, <2>1, <2>2, <2>3, <2>4 DEF ChgMay
<1>12. ChgAgrees(c, j, r)
  <2> SUFFICES ASSUME r \notin requestDisturbed'
      PROVE  /\ \A d \in Callers \ {c} : requestJob[d].request # r
             /\ j = Change!Idle => ChgSettled(r)'
             /\ j # Change!Idle => ChgFar(j)'
    BY DEF ChgAgrees
  <2>1. r \notin requestDisturbed /\ \A d \in Callers \ {c} : requestJob[d].request # r
    BY <1>2
  <2>2. Change!AtRest(r)
    BY <1>2, <2>1, ChgIdleIs, ChgNamesDiffer DEF Change!AtRest
  <2>3. ChgSettled(r)
    BY <2>1, <2>2 DEF ChgIInv, ChgRInv
  <2>4. Change!StatusOf(r) = ChgBegun(j)
    BY <1>3, <1>5 DEF Change!StatusOf, ChgBegun
  <2>5. ChgBegun(j) # "APPLIED" /\ ChgTold(ChgBegun(j)) = {}
    BY ChgNamesDiffer DEF ChgBegun, ChgTold
  <2>6. ChgFar(j)
    BY <1>5, <2>3, <2>4, <2>5 DEF ChgFar, ChgSettled
  <2>7. ChgFar(j)'
    BY <1>2, <2>6 DEF ChgFar, Change!StatusOf, ChgHeard
  <2>8. j # Change!Idle
    BY <1>5, ChgIdleIs
  <2> QED
    BY <2>1, <2>7, <2>8
<1>13. ChgCInv'
  BY <1>2, ChgCSame
<1> QED
  BY <1>9, <1>10, <1>11, <1>12, <1>13, ChgStepKeeps

LEMMA ChgWriteProfileKeeps ==
  ASSUME ChgIInv, NEW c \in Callers, Change!WriteProfile(c)
  PROVE  ChgIInv'
<1>1. /\ ~transactions
      /\ requestJob[c].step = "write"
      /\ requestJob[c].command = "APPROVE"
      /\ Change!Go(c, "compose")
      /\ values' = [values EXCEPT ![requests[requestJob[c].request].field] = requestJob[c].request]
      /\ written' = written \cup {requestJob[c].request}
      /\ UNCHANGED <<transactions, requests, stage, projected, locked, notices, requestEvents,
                     pending, views, requestHandled, requestDisturbed, reordered, overtaken>>
  BY DEF Change!WriteProfile, Change!At, Change!Apply, Change!OutsideVars, Change!EventVars
<1>2. PICK r \in Requests, k \in ChgJob :
           /\ r = requestJob[c].request
           /\ k = requestJob[c]
           /\ k.request = r
           /\ k.command \in ChgCommands
           /\ ChgKind(k) /\ (r \notin requestDisturbed => ChgFar(k))
  BY <1>1, ChgWorkIs
<1>3. PICK j \in ChgJob :
           /\ requestJob' = [requestJob EXCEPT ![c] = j]
           /\ j.step = "compose"
           /\ j.request = requestJob[c].request
           /\ j.command = requestJob[c].command
  BY <1>1, ChgGoIs DEF ChgSteps
<1>4. PICK doc : doc = requests[r]
  OBVIOUS
<1>5. ChgTInv
  BY DEF ChgIInv
<1>6. /\ doc \in ChgDoc
      /\ \A d \in Callers \ {c} : requestJob[d].request = r =>
           ~(requestJob[d].command = "CREATE" /\ requestJob[d].step # "announce")
      /\ r \notin requestDisturbed => \A d \in Callers \ {c} : requestJob[d].request # r
  BY <1>1, <1>2, <1>4, ChgAtIs
<1>7. j # Change!Idle
  BY <1>3, ChgIdleIs
<1>8. ChgTakes(c, j, r, doc)
  BY <1>1, <1>2, <1>3, <1>4, <1>5, <1>6, <1>7, ChgIdleIs DEF ChgTakes, ChgTInv
<1>9. ChgSpares(r)
  <2>2. values' \in Change!Values
    BY <1>1, <1>2, <1>4, <1>5, <1>6 DEF ChgTInv, Change!Values, ChgDoc
  <2>3. written \subseteq written' /\ written' \subseteq written \cup {r}
    BY <1>1, <1>2
  <2> QED
    BY <1>1, <1>5, <2>2, <2>3 DEF ChgSpares, ChgTInv
<1>10. ChgMay(c, j, r, doc)
  <2>1. ChgKind(j)
    BY <1>1, <1>3 DEF ChgKind
  <2>3. doc # Absent
    BY <1>6, ChgNamesDiffer
  <2> QED
    BY <1>1, <1>2, <1>3, <1>6, <2>1, <2>3 DEF ChgMay
<1>11. ChgAgrees(c, j, r)
  <2>1. r \notin requestDisturbed => ChgFar(j)'
    <3>1. ChgBegun(j) = ChgBegun(k) /\ ChgEnd(j) = ChgEnd(k)
      BY <1>2, <1>3 DEF ChgBegun, ChgEnd
    <3> QED
      BY <1>1, <1>2, <1>3, <3>1 DEF ChgFar, Change!StatusOf, ChgHeard
  <2> QED
    BY <1>1, <1>6, <1>7, <2>1 DEF ChgAgrees
<1>12. ChgCInv'
  <2>1. pending' \in Seq(Requests) /\ \A i \in 1..Len(pending') : requests'[pending'[i]] # Absent
    BY <1>1, <1>5 DEF ChgIInv, ChgCInv, ChgTInv
  <2> QED
    BY <1>1, <2>1, ChgCWithout
<1> QED
  BY <1>8, <1>9, <1>10, <1>11, <1>12, ChgStepKeeps

-------------------------------------------------------------------------------
\* What a request is marked with.
LEMMA ChgMarkIs ==
  ASSUME ChgIInv, NEW c \in Callers, requestJob[c].step \notin {"idle", "announce"}, Change!Mark(c)
  PROVE  \E doc \in ChgDoc :
           /\ requests' \in [Requests -> ChgDoc \cup {Absent}]
           /\ requests'[requestJob[c].request] = doc
           /\ \A q \in Requests \ {requestJob[c].request} : requests'[q] = requests[q]
           /\ requests[requestJob[c].request] # Absent =>
                doc.field = requests[requestJob[c].request].field
           /\ doc.status = ChgEnd(requestJob[c])
<1>1. PICK r : r = requestJob[c].request
  OBVIOUS
<1>2. PICK doc \in Change!Document(c) : requests' = [requests EXCEPT ![r] = doc]
  BY <1>1 DEF Change!Mark
<1>3. /\ requestJob[c] \in ChgJob /\ r \in Requests
      /\ requestJob[c].command # "CREATE" => requests[r] \in ChgDoc
      /\ requestJob[c].command = "CREATE" => requests[r] = Absent
  BY <1>1, ChgAtIs
<1>4. /\ Change!Outcome[requestJob[c].command] = ChgEnd(requestJob[c])
      /\ ChgEnd(requestJob[c]) \in Change!RequestStatuses
  BY <1>3, ChgEndIs
<1>5. /\ doc \in ChgDoc
      /\ doc.status = ChgEnd(requestJob[c])
      /\ (requests[r] # Absent => doc.field = requests[r].field)
  <2>1. CASE requestJob[c].command = "CREATE"
    <3>1. PICK f \in Fields : doc = Change!NewRequest(f)
      BY <1>2, <2>1 DEF Change!Document
    <3>2. ChgEnd(requestJob[c]) = "PENDING"
      BY <2>1 DEF ChgEnd
    <3> QED
      BY <1>3, <2>1, <3>1, <3>2 DEF Change!NewRequest, ChgDoc, Change!RequestStatuses
  <2>2. CASE requestJob[c].command # "CREATE"
    <3>1. doc = [requests[r] EXCEPT !.status = Change!Outcome[requestJob[c].command]]
      BY <1>1, <1>2, <2>2 DEF Change!Document
    <3> QED
      BY <1>3, <1>4, <2>2, <3>1 DEF ChgDoc
  <2> QED
    BY <2>1, <2>2
<1>6. requests \in [Requests -> ChgDoc \cup {Absent}]
  BY DEF ChgIInv, ChgTInv
<1> QED
  BY <1>1, <1>2, <1>3, <1>5, <1>6

\* What the events say after the one of this step.
LEMMA ChgAnnounceIs ==
  ASSUME ChgIInv, NEW c \in Callers, requestJob[c].step # "idle", Change!Announce(c),
         NEW r, r = requestJob[c].request, NEW k, k = requestJob[c]
  PROVE  /\ requestEvents' \subseteq Requests \X Change!RequestStatuses
         /\ \A q \in Requests \ {r}, s \in Change!RequestStatuses :
              <<q, s>> \in requestEvents' <=> <<q, s>> \in requestEvents
         /\ ChgHeard(r)' = ChgHeard(r) \cup {ChgEnd(k)}
         /\ ChgDue(ChgBegun(k)) \cup {ChgEnd(k)} = ChgDue(ChgEnd(k))
<1>1. k \in ChgJob /\ r \in Requests
  BY ChgAtIs
<1>2. Change!Outcome[k.command] = ChgEnd(k) /\ ChgEnd(k) \in Change!RequestStatuses
  BY <1>1, ChgEndIs
<1>3. requestEvents' = requestEvents \cup {<<r, ChgEnd(k)>>}
  BY <1>2 DEF Change!Announce
<1>4. requestEvents \subseteq Requests \X Change!RequestStatuses
  BY DEF ChgIInv, ChgTInv
<1>5. ChgHeard(r)' = ChgHeard(r) \cup {ChgEnd(k)}
  BY <1>2, <1>3 DEF ChgHeard
<1>6. ChgDue(ChgBegun(k)) \cup {ChgEnd(k)} = ChgDue(ChgEnd(k))
  BY <1>1, ChgNamesDiffer DEF ChgDue, ChgBegun, ChgEnd, ChgJob, ChgCommands
<1> QED
  BY <1>1, <1>2, <1>3, <1>4, <1>5, <1>6

LEMMA ChgWriteRequestKeeps ==
  ASSUME ChgIInv, NEW c \in Callers, Change!WriteRequest(c)
  PROVE  ChgIInv'
<1>0. PICK step : step = Change!AfterMark(c)
  OBVIOUS
<1>1. /\ ~transactions
      /\ requestJob[c].step \in {"write", "mark"}
      /\ Change!Mark(c)
      /\ Change!Go(c, step)
      /\ requestJob[c].command = "APPROVE" <=> requestJob[c].step = "mark"
      /\ UNCHANGED <<transactions, stage, values, projected, locked, notices, requestEvents, pending,
                     requestHandled, written, requestDisturbed, views, reordered, overtaken>>
  BY <1>0 DEF Change!WriteRequest, Change!At, Change!ProfileVars, Change!OutsideVars,
     Change!EventVars, Change!HistoryVars
<1>2. PICK r \in Requests, k \in ChgJob :
           /\ r = requestJob[c].request
           /\ k = requestJob[c]
           /\ k.request = r
           /\ k.command \in ChgCommands
           /\ ChgKind(k) /\ (r \notin requestDisturbed => ChgFar(k))
  BY <1>1, ChgWorkIs
<1>3. /\ step \in {"lock", "notify", "announce"}
      /\ step = "lock" <=> k.command = "APPROVE"
      /\ step = "notify" <=> k.command = "REJECT"
  BY <1>0, <1>1, <1>2 DEF Change!AfterMark
<1>4. PICK j \in ChgJob :
           /\ requestJob' = [requestJob EXCEPT ![c] = j]
           /\ j.step = step /\ j.request = requestJob[c].request /\ j.command = requestJob[c].command
  BY <1>1, <1>3, ChgGoIs DEF ChgSteps
<1>5. PICK doc \in ChgDoc :
           /\ requests' \in [Requests -> ChgDoc \cup {Absent}] /\ requests'[r] = doc
           /\ \A q \in Requests \ {r} : requests'[q] = requests[q]
           /\ requests[r] # Absent => doc.field = requests[r].field
           /\ doc.status = ChgEnd(k)
  BY <1>1, <1>2, ChgMarkIs
<1>6. /\ \A d \in Callers \ {c} : requestJob[d].request = r =>
           ~(requestJob[d].command = "CREATE" /\ requestJob[d].step # "announce")
      /\ r \notin requestDisturbed => \A d \in Callers \ {c} : requestJob[d].request # r
      /\ k.command # "CREATE" => requests[r] # Absent
      /\ k.command = "CREATE" => requests[r] = Absent
  BY <1>1, <1>2, ChgAtIs, ChgNamesDiffer
<1>7. j # Change!Idle /\ doc # Absent
  BY <1>3, <1>4, ChgIdleIs, ChgNamesDiffer
<1>8. ChgTakes(c, j, r, doc)
  BY <1>1, <1>2, <1>4, <1>5, <1>7, ChgIdleIs DEF ChgTakes
<1>9. ChgSpares(r)
  BY <1>1 DEF ChgSpares, ChgIInv, ChgTInv
<1>10. ChgMay(c, j, r, doc)
  <2>1. ChgKind(j)
    BY <1>1, <1>2, <1>3, <1>4 DEF ChgKind
  <2>2. j.command = "CREATE" => j.step = "announce"
    BY <1>2, <1>3, <1>4
  <2>4. doc.status = "APPLIED" => r \in written
    <3>1. doc.status = "APPLIED" => k.command = "APPROVE"
      BY <1>5 DEF ChgEnd
    <3> QED
      BY <1>1, <1>2, <3>1 DEF ChgIInv, ChgWInv
  <2> QED
    BY <1>1, <1>3, <1>4, <1>6, <1>7, <2>1, <2>2, <2>4 DEF ChgMay
<1>11. ChgAgrees(c, j, r)
  <2>1. ChgBegun(j) = ChgBegun(k) /\ ChgEnd(j) = ChgEnd(k)
    BY <1>2, <1>4 DEF ChgBegun, ChgEnd
  <2>2. Change!StatusOf(r)' = ChgEnd(k)
    BY <1>5, <1>7 DEF Change!StatusOf
  <2>3. step = "announce" => ChgTold(ChgEnd(k)) = {}
    BY <1>2, <1>3 DEF ChgEnd, ChgTold, ChgCommands
  <2>4. r \notin requestDisturbed =>
          /\ r \in written <=> k.command = "APPROVE"
          /\ notices[r] = {} /\ r \notin locked /\ ChgHeard(r) = ChgDue(ChgBegun(k))
    BY <1>1, <1>2 DEF ChgFar
  <2>5. ChgHeard(r)' = ChgHeard(r)
    BY <1>1 DEF ChgHeard
  <2>6. r \notin requestDisturbed => ChgFar(j)'
    BY <1>1, <1>2, <1>3, <1>4, <2>1, <2>2, <2>3, <2>4, <2>5 DEF ChgFar
  <2> QED
    BY <1>1, <1>6, <1>7, <2>6 DEF ChgAgrees
<1>12. ChgCInv'
  <2>1. \A q \in Requests : requests[q] # Absent => requests'[q] # Absent
    BY <1>5, <1>7
  <2>2. pending' \in Seq(Requests) /\ \A i \in 1..Len(pending') : requests'[pending'[i]] # Absent
    BY <1>1, <2>1 DEF ChgIInv, ChgCInv, ChgTInv
  <2> QED
    BY <1>1, <2>2, ChgCWithout
<1> QED
  BY <1>8, <1>9, <1>10, <1>11, <1>12, ChgStepKeeps

LEMMA ChgWriteEventKeeps ==
  ASSUME ChgIInv, NEW c \in Callers, Change!WriteEvent(c)
  PROVE  ChgIInv'
<1>1. /\ requestJob[c].step = "announce" /\ Change!Announce(c)
      /\ IF requestJob[c].command = "APPROVE" THEN Change!Go(c, "publish")
           ELSE requestJob' = [requestJob EXCEPT ![c] = Change!Idle]
      /\ UNCHANGED <<transactions, requests, stage, values, projected, locked, notices, pending,
                     requestHandled, written, requestDisturbed, views, reordered, overtaken>>
  BY DEF Change!WriteEvent, Change!At, Change!Finish, Change!ProfileVars, Change!OutsideVars,
     Change!HistoryVars
<1>2. PICK r \in Requests, k \in ChgJob :
           /\ r = requestJob[c].request
           /\ k = requestJob[c]
           /\ k.request = r
           /\ k.command \in ChgCommands
           /\ ChgKind(k) /\ (r \notin requestDisturbed => ChgFar(k))
  BY <1>1, ChgWorkIs
<1>3. ~transactions
  BY <1>1, <1>2 DEF ChgKind
<1>4. /\ requestEvents' \subseteq Requests \X Change!RequestStatuses
      /\ \A q \in Requests \ {r}, s \in Change!RequestStatuses :
           <<q, s>> \in requestEvents' <=> <<q, s>> \in requestEvents
      /\ ChgHeard(r)' = ChgHeard(r) \cup {ChgEnd(k)}
      /\ ChgDue(ChgBegun(k)) \cup {ChgEnd(k)} = ChgDue(ChgEnd(k))
  BY <1>1, <1>2, ChgAnnounceIs
<1>5. \E j \in ChgJob \cup {Change!Idle} :
        /\ requestJob' = [requestJob EXCEPT ![c] = j]
        /\ k.command = "APPROVE" =>
             j \in ChgJob /\ j.step = "publish" /\ j.request = r /\ j.command = "APPROVE"
        /\ k.command # "APPROVE" => j = Change!Idle
  <2>1. CASE k.command = "APPROVE"
    <3>1. PICK j \in ChgJob :
           /\ requestJob' = [requestJob EXCEPT ![c] = j]
           /\ j.step = "publish"
           /\ j.request = requestJob[c].request
           /\ j.command = requestJob[c].command
      BY <1>1, <1>2, <2>1, ChgGoIs DEF ChgSteps
    <3> QED
      BY <1>2, <2>1, <3>1
  <2>2. CASE k.command # "APPROVE"
    BY <1>1, <1>2, <2>2
  <2> QED
    BY <2>1, <2>2
<1>6. PICK j \in ChgJob \cup {Change!Idle} :
        /\ requestJob' = [requestJob EXCEPT ![c] = j]
        /\ k.command = "APPROVE" =>
             j \in ChgJob /\ j.step = "publish" /\ j.request = r /\ j.command = "APPROVE"
        /\ k.command # "APPROVE" => j = Change!Idle
  BY <1>5
<1>7. PICK doc : doc = requests[r]
  OBVIOUS
<1>8. /\ doc \in ChgDoc
      /\ \A d \in Callers \ {c} : requestJob[d].request = r =>
           ~(requestJob[d].command = "CREATE" /\ requestJob[d].step # "announce")
      /\ r \notin requestDisturbed => \A d \in Callers \ {c} : requestJob[d].request # r
  BY <1>1, <1>2, <1>7, ChgAtIs
<1>9. doc # Absent /\ (j # Change!Idle => k.command = "APPROVE")
  BY <1>6, <1>8, ChgNamesDiffer
<1>10. ChgTInv
  BY DEF ChgIInv
<1>11. ChgTakes(c, j, r, doc)
  BY <1>1, <1>2, <1>6, <1>7, <1>8, <1>9, <1>10, ChgIdleIs DEF ChgTakes, ChgTInv
<1>12. ChgSpares(r)
  BY <1>1, <1>4, <1>10 DEF ChgSpares, ChgTInv
<1>13. ChgMay(c, j, r, doc)
  <2>1. j # Change!Idle => ChgKind(j) /\ j.command = "APPROVE"
    BY <1>1, <1>3, <1>6, <1>9 DEF ChgKind
  <2>3. doc.status = "APPLIED" => r \in written
    BY <1>7, <1>9 DEF ChgIInv, ChgWInv, Change!StatusOf
  <2>4. j.command \in ChgCommands => j # Change!Idle
    BY ChgIdleIs, ChgNamesDiffer DEF ChgCommands
  <2>5. j.step \notin {"compose", "project", "mark"}
    BY <1>6, ChgIdleIs
  <2> QED
    BY <1>1, <1>8, <1>9, <2>1, <2>3, <2>4, <2>5 DEF ChgMay, ChgCommands
<1>14. ChgAgrees(c, j, r)
  <2> SUFFICES ASSUME r \notin requestDisturbed
      PROVE  /\ \A d \in Callers \ {c} : requestJob[d].request # r
             /\ j = Change!Idle => ChgSettled(r)'
             /\ j # Change!Idle => ChgFar(j)'
    BY <1>1 DEF ChgAgrees
  <2>1. /\ Change!StatusOf(r) = ChgEnd(k) /\ (r \in written <=> k.command = "APPROVE")
        /\ notices[r] = ChgTold(ChgEnd(k)) /\ (r \in locked => k.command = "APPROVE")
        /\ ChgHeard(r) = ChgDue(ChgBegun(k))
    BY <1>1, <1>2, <1>3 DEF ChgFar
  <2>2. ChgHeard(r)' = ChgDue(ChgEnd(k))
    BY <1>4, <2>1
  <2>3. Change!StatusOf(r)' = ChgEnd(k)
    BY <1>1, <2>1 DEF Change!StatusOf
  <2>4. ChgEnd(k) = "APPLIED" <=> k.command = "APPROVE"
    BY <1>2 DEF ChgEnd, ChgCommands
  <2>5. j = Change!Idle => ChgSettled(r)'
    BY <1>1, <2>1, <2>2, <2>3, <2>4 DEF ChgSettled
  <2>6. j # Change!Idle => ChgFar(j)'
    <3> SUFFICES ASSUME j # Change!Idle PROVE ChgFar(j)'
      OBVIOUS
    <3>1. /\ j.step = "publish" /\ j.request = r /\ j.command = "APPROVE" /\ k.command = "APPROVE"
      BY <1>6, <1>9
    <3>2. ChgEnd(j) = ChgEnd(k)
      BY <3>1 DEF ChgEnd
    <3> QED
      BY <1>1, <1>3, <2>1, <2>2, <2>3, <3>1, <3>2 DEF ChgFar
  <2> QED
    BY <1>8, <2>5, <2>6
<1>15. ChgCInv'
  <2>1. pending' \in Seq(Requests) /\ \A i \in 1..Len(pending') : requests'[pending'[i]] # Absent
    BY <1>1, <1>10 DEF ChgIInv, ChgCInv, ChgTInv
  <2> QED
    BY <1>1, <1>3, <2>1, ChgCWithout
<1> QED
  BY <1>11, <1>12, <1>13, <1>14, <1>15, ChgStepKeeps

LEMMA ChgWriteUpdatedKeeps ==
  ASSUME ChgIInv, NEW c \in Callers, Change!WriteUpdated(c)
  PROVE  ChgIInv'
<1>1. /\ requestJob[c].step = "publish"
      /\ Change!PublishUpdate(c)
      /\ requestJob' = [requestJob EXCEPT ![c] = Change!Idle]
      /\ UNCHANGED <<transactions, requests, stage, values, projected, locked, notices, requestEvents,
                     requestHandled, written, requestDisturbed, views, reordered, overtaken>>
  BY DEF Change!WriteUpdated, Change!At, Change!Finish, Change!ProfileVars, Change!OutsideVars,
     Change!HistoryVars
<1>2. PICK r \in Requests, k \in ChgJob :
           /\ r = requestJob[c].request
           /\ k = requestJob[c]
           /\ k.request = r
           /\ k.command \in ChgCommands
           /\ ChgKind(k) /\ (r \notin requestDisturbed => ChgFar(k))
  BY <1>1, ChgWorkIs
<1>3. ~transactions /\ k.command = "APPROVE"
  BY <1>1, <1>2 DEF ChgKind
<1>4. PICK j, doc : j = Change!Idle /\ doc = requests[r]
  OBVIOUS
<1>5. ChgTInv /\ doc \in ChgDoc /\ pending' = Append(pending, r)
      /\ (r \notin requestDisturbed => \A d \in Callers \ {c} : requestJob[d].request # r)
  BY <1>1, <1>2, <1>3, <1>4, ChgAtIs DEF Change!PublishUpdate, ChgIInv
<1>6. pending \in Seq(Requests) /\ pending' \in Seq(Requests)
  BY <1>2, <1>5 DEF ChgTInv
<1>7. ChgTakes(c, j, r, doc)
  BY <1>1, <1>2, <1>4, <1>5, ChgIdleIs, ChgNamesDiffer DEF ChgTakes, ChgTInv
<1>8. ChgSpares(r)
  BY <1>1, <1>5, <1>6 DEF ChgSpares, ChgTInv
<1>9. ChgMay(c, j, r, doc)
  <2>1. doc # Absent /\ doc.status = "APPLIED" => r \in written
    BY <1>4 DEF ChgIInv, ChgWInv, Change!StatusOf
  <2> QED
    BY <1>1, <1>4, <2>1, ChgIdleIs, ChgNamesDiffer DEF ChgMay
<1>10. ChgAgrees(c, j, r)
  <2>1. r \notin requestDisturbed => ChgSettled(r)
    BY <1>1, <1>2, ChgSettledIs
  <2>2. r \notin requestDisturbed => ChgSettled(r)'
    BY <1>1, <2>1 DEF ChgSettled, Change!StatusOf, ChgHeard
  <2> QED
    BY <1>1, <1>4, <1>5, <2>2 DEF ChgAgrees
<1>11. ChgCInv'
  <2>1. ASSUME NEW i \in 1..Len(pending') PROVE requests[pending'[i]] # Absent
    <3>1. CASE i \in 1..Len(pending)
      BY <1>5, <1>6, <3>1 DEF ChgIInv, ChgCInv
    <3>2. CASE i = Len(pending) + 1
      BY <1>4, <1>5, <1>6, <3>2, ChgNamesDiffer
    <3> QED
      BY <1>5, <1>6, <3>1, <3>2
  <2> QED
    BY <1>1, <1>3, <1>6, <2>1, ChgCWithout
<1> QED
  BY <1>7, <1>8, <1>9, <1>10, <1>11, ChgStepKeeps

-------------------------------------------------------------------------------
LEMMA ChgCommitKeeps ==
  ASSUME ChgIInv, NEW c \in Callers, Change!Commit(c)
  PROVE  ChgIInv'
<1>1. /\ requestJob[c].step = "commit"
      /\ Change!Mark(c)
      /\ Change!Announce(c)
      /\ Change!PublishUpdate(c)
      /\ requestJob' = [requestJob EXCEPT ![c] = Change!Idle]
      /\ UNCHANGED <<transactions, stage, views, locked, notices, requestHandled, requestDisturbed,
                     reordered, overtaken>>
  BY DEF Change!Commit, Change!At, Change!Finish, Change!OutsideVars
<1>2. PICK r \in Requests, k \in ChgJob :
           /\ r = requestJob[c].request
           /\ k = requestJob[c]
           /\ k.request = r
           /\ k.command \in ChgCommands
           /\ ChgKind(k) /\ (r \notin requestDisturbed => ChgFar(k))
  BY <1>1, ChgWorkIs
<1>3. IF k.command = "APPROVE"
        THEN /\ values' = [values EXCEPT ![requests[r].field] = r] /\ projected' = values
             /\ written' = written \cup {r} /\ pending' = Append(pending, r)
        ELSE UNCHANGED <<values, projected, written, pending>>
  BY <1>1, <1>2 DEF Change!Commit, Change!Apply, Change!PublishUpdate
<1>4. /\ requestEvents' \subseteq Requests \X Change!RequestStatuses
      /\ \A q \in Requests \ {r}, s \in Change!RequestStatuses :
           <<q, s>> \in requestEvents' <=> <<q, s>> \in requestEvents
      /\ ChgHeard(r)' = ChgHeard(r) \cup {ChgEnd(k)}
      /\ ChgDue(ChgBegun(k)) \cup {ChgEnd(k)} = ChgDue(ChgEnd(k))
  BY <1>1, <1>2, ChgAnnounceIs
<1>5. PICK doc \in ChgDoc :
           /\ requests' \in [Requests -> ChgDoc \cup {Absent}] /\ requests'[r] = doc
           /\ \A q \in Requests \ {r} : requests'[q] = requests[q]
           /\ requests[r] # Absent => doc.field = requests[r].field
           /\ doc.status = ChgEnd(k)
  BY <1>1, <1>2, ChgMarkIs
<1>6. /\ r \notin requestDisturbed => \A d \in Callers \ {c} : requestJob[d].request # r
      /\ k.command # "CREATE" => requests[r] \in ChgDoc /\ requests[r] # Absent
  BY <1>1, <1>2, ChgAtIs, ChgNamesDiffer
<1>7. PICK j : j = Change!Idle
  OBVIOUS
<1>8. doc # Absent
  BY ChgNamesDiffer
<1>9. ChgTInv /\ pending \in Seq(Requests)
  BY DEF ChgIInv, ChgTInv
<1>10. k.command = "APPROVE" => requests[r].field \in Fields
  BY <1>6 DEF ChgDoc
<1>11. values' \in Change!Values /\ projected' \in Change!Values /\ pending' \in Seq(Requests)
  <2>1. CASE k.command = "APPROVE"
    <3>1. /\ values \in [Fields -> Requests \cup {None, Old}]
          /\ values' = [values EXCEPT ![requests[r].field] = r]
      BY <1>3, <1>9, <2>1 DEF ChgTInv, Change!Values
    <3>2. values' \in [Fields -> Requests \cup {None, Old}]
      BY <3>1
    <3>3. projected' = values /\ pending' = Append(pending, r)
      BY <1>3, <2>1
    <3> QED
      BY <1>9, <3>1, <3>2, <3>3 DEF Change!Values
  <2>2. CASE k.command # "APPROVE"
    BY <1>3, <1>9, <2>2 DEF ChgTInv
  <2> QED
    BY <2>1, <2>2
<1>12. ChgTakes(c, j, r, doc)
  BY <1>1, <1>2, <1>5, <1>7, <1>8, ChgIdleIs DEF ChgTakes
<1>13. ChgSpares(r)
  <2>1. written \subseteq written' /\ written' \subseteq written \cup {r}
    BY <1>3
  <2> QED
    BY <1>1, <1>4, <1>9, <1>11, <2>1 DEF ChgSpares, ChgTInv
<1>14. ChgEnd(k) = "APPLIED" <=> k.command = "APPROVE"
  BY <1>2 DEF ChgEnd, ChgCommands
<1>15. ChgMay(c, j, r, doc)
  BY <1>3, <1>5, <1>7, <1>14, ChgIdleIs, ChgNamesDiffer DEF ChgMay
<1>16. ChgAgrees(c, j, r)
  <2> SUFFICES ASSUME r \notin requestDisturbed
      PROVE  (\A d \in Callers \ {c} : requestJob[d].request # r) /\ ChgSettled(r)'
    BY <1>1, <1>7 DEF ChgAgrees
  <2>1. transactions
    BY <1>1, <1>2 DEF ChgKind
  <2>2. /\ r \notin written
        /\ notices[r] = ChgTold(ChgEnd(k))
        /\ (r \in locked => k.command = "APPROVE")
        /\ ChgHeard(r) = ChgDue(ChgBegun(k))
    BY <1>1, <1>2, <2>1 DEF ChgFar
  <2>3. Change!StatusOf(r)' = ChgEnd(k)
    BY <1>5, <1>8 DEF Change!StatusOf
  <2>4. r \in written' <=> k.command = "APPROVE"
    BY <1>3, <2>2
  <2>5. ChgHeard(r)' = ChgDue(ChgEnd(k))
    BY <1>4, <2>2
  <2> QED
    BY <1>1, <1>6, <1>14, <2>2, <2>3, <2>4, <2>5 DEF ChgSettled
<1>17. ChgCInv'
  <2>1. CASE k.command # "APPROVE"
    BY <1>1, <1>3, <1>5, <1>8, <2>1, ChgCSame
  <2>2. CASE k.command = "APPROVE"
    <3>1. PICK n \in Nat : n = Len(pending)
      BY <1>9
    <3>2. /\ Len(pending') = n + 1 /\ pending'[n + 1] = r
          /\ \A i \in 1..n :
               pending'[i] = pending[i] /\ pending[i] \in Requests /\ requests[pending[i]] # Absent
      BY <1>2, <1>3, <1>9, <2>2, <3>1 DEF ChgIInv, ChgCInv
    <3>3. \A i \in 1..n : /\ requests'[pending[i]] # Absent
                          /\ requests'[pending[i]].field = requests[pending[i]].field
      BY <1>5, <1>8, <3>2
    <3>4. \A i \in 1..n : ChgFieldAt(i)' = ChgFieldAt(i)
      BY <3>2, <3>3 DEF ChgFieldAt
    <3>5. ChgFieldAt(n + 1)' = requests[r].field
      BY <1>5, <1>6, <2>2, <3>2 DEF ChgFieldAt
    <3>6. \A i \in 1..(n + 1) : i \in 1..n \/ i = n + 1
      BY <3>1
    <3>7. \A i \in 1..Len(pending') : requests'[pending'[i]] # Absent
      BY <1>5, <1>8, <3>2, <3>3, <3>6
    <3>8. values \in [Fields -> Requests \cup {None, Old}] /\ values' = [values EXCEPT ![requests[r].field] = r]
          /\ projected' = values
      BY <1>3, <1>9, <2>2 DEF ChgTInv, Change!Values
    <3> SUFFICES ASSUME transactions, ~reordered, ~overtaken
        PROVE  /\ \A i \in 1..Len(pending') :
                    (\A m \in (i + 1)..Len(pending') : ChgFieldAt(m)' # ChgFieldAt(i)') =>
                      values'[ChgFieldAt(i)'] = pending'[i]
               /\ \A f \in Fields :
                    (\A i \in 1..Len(pending') : ChgFieldAt(i)' # f) =>
                      projected'[f] = values'[f] /\ \A view \in views : view[f] = values'[f]
      BY <1>1, <3>7 DEF ChgCInv
    <3>9. ASSUME NEW i \in 1..(n + 1), \A m \in (i + 1)..(n + 1) : ChgFieldAt(m)' # ChgFieldAt(i)'
          PROVE  values'[ChgFieldAt(i)'] = pending'[i]
      <4>1. CASE i = n + 1
        <5>1. values'[requests[r].field] = r
          BY <1>10, <2>2, <3>8
        <5> QED
          BY <3>2, <3>5, <4>1, <5>1
      <4>2. CASE i \in 1..n
        <5>1. ChgFieldAt(i) # requests[r].field
          <6>1. n + 1 \in (i + 1)..(n + 1)
            BY <3>1, <4>2
          <6> QED
            BY <3>4, <3>5, <3>9, <4>2, <6>1
        <5>2. \A m \in (i + 1)..n : m \in 1..n /\ m \in (i + 1)..(n + 1)
          BY <3>1, <4>2
        <5>3. \A m \in (i + 1)..n : ChgFieldAt(m) # ChgFieldAt(i)
          BY <3>4, <3>9, <4>2, <5>2
        <5>4. values[ChgFieldAt(i)] = pending[i]
          BY <3>1, <4>2, <5>3 DEF ChgIInv, ChgCInv
        <5>5. ChgFieldAt(i) \in Fields
          BY <1>9, <3>2, <4>2 DEF ChgFieldAt, ChgTInv, ChgDoc
        <5> QED
          BY <3>2, <3>4, <3>8, <4>2, <5>1, <5>4, <5>5
      <4> QED
        BY <3>6, <4>1, <4>2
    <3>10. ASSUME NEW f \in Fields, \A i \in 1..(n + 1) : ChgFieldAt(i)' # f
           PROVE  projected'[f] = values'[f] /\ \A view \in views : view[f] = values'[f]
      <4>1. n + 1 \in 1..(n + 1) /\ \A i \in 1..n : i \in 1..(n + 1)
        BY <3>1
      <4>2. f # requests[r].field
        BY <3>5, <3>10, <4>1
      <4>3. \A i \in 1..Len(pending) : ChgFieldAt(i) # f
        BY <3>1, <3>4, <3>10, <4>1
      <4>4. \A view \in views : view[f] = values[f]
        BY <4>3 DEF ChgIInv, ChgCInv
      <4> QED
        BY <3>8, <4>2, <4>4
    <3> QED
      BY <3>2, <3>9, <3>10
  <2> QED
    BY <2>1, <2>2
<1> QED
  BY <1>12, <1>13, <1>15, <1>16, <1>17, ChgStepKeeps

LEMMA ChgStutterKeeps ==
  ASSUME ChgIInv, UNCHANGED Change!vars
  PROVE  ChgIInv'
<1>1. UNCHANGED <<transactions, requests, stage, values, projected, locked, notices, requestEvents,
                  pending, requestJob,
                  requestHandled, written, requestDisturbed, views, reordered, overtaken>>
  BY DEF Change!vars
<1>2. ChgCInv'
  BY <1>1, ChgCSame
<1>3. reordered' \in BOOLEAN /\ overtaken' \in BOOLEAN
  BY <1>1, Zenon DEF ChgIInv, ChgTInv
<1> QED
  BY <1>1, <1>2, <1>3, ChgRestKeeps DEF ChgIInv, ChgTInv

LEMMA ChgHandleKeeps ==
  ASSUME ChgIInv, NEW c \in Callers, Change!Handle(c)
  PROVE  ChgIInv'
<1>1. CASE \E command \in DOMAIN Change!Outcome, r \in Requests : Change!Begin(c, command, r)
  BY <1>1, ChgBeginKeeps
<1>2. CASE Change!Check(c) \/ Change!Open(c) \/ Change!Commit(c)
  BY <1>2, ChgCheckKeeps, ChgOpenKeeps, ChgCommitKeeps
<1>3. CASE Change!WriteProfile(c) \/ Change!Compose(c) \/ Change!Project(c) \/ Change!WriteRequest(c)
  BY <1>3, ChgWriteProfileKeeps, ChgComposeKeeps, ChgProjectKeeps, ChgWriteRequestKeeps
<1>4. CASE Change!WriteEvent(c) \/ Change!WriteUpdated(c)
  BY <1>4, ChgWriteEventKeeps, ChgWriteUpdatedKeeps
<1>5. CASE Change!LockAttachments(c) \/ Change!Notify(c) \/ Change!CutOff(c)
  BY <1>5, ChgLockAttachmentsKeeps, ChgNotifyKeeps, ChgCutOffKeeps
<1> QED
  BY <1>1, <1>2, <1>3, <1>4, <1>5 DEF Change!Handle

LEMMA ChgInvNext == ChgIInv /\ [Change!Next]_(Change!vars) => ChgIInv'
<1> SUFFICES ASSUME ChgIInv, [Change!Next]_(Change!vars) PROVE ChgIInv'
  OBVIOUS
<1>1. CASE \E c \in Callers : Change!Handle(c)
  BY <1>1, ChgHandleKeeps
<1>2. CASE \E s \in DOMAIN Change!Stages : Change!MoveStage(s)
  BY <1>2, ChgStageKeeps
<1>3. CASE \E i \in DOMAIN pending : Change!Deliver(i)
  BY <1>3, ChgDeliverKeeps
<1>4. CASE Change!StartRefresh \/ \E view \in views : Change!WriteRefresh(view)
  BY <1>4, ChgRefreshKeeps
<1>5. CASE UNCHANGED Change!vars
  BY <1>5, ChgStutterKeeps
<1> QED
  BY <1>1, <1>2, <1>3, <1>4, <1>5 DEF Change!Next

LEMMA ChgInvariance == Change!Spec => []ChgIInv
BY ChgInvInit, ChgInvNext, PTL DEF Change!Spec

LEMMA ChgOutcomeHolds == ChgIInv => Change!OutcomeAgrees
<1> SUFFICES ASSUME ChgIInv, NEW r \in Requests
    PROVE  /\ Change!StatusOf(r) = "APPLIED" => r \in written
           /\ Change!AtRest(r) /\ r \notin requestDisturbed =>
                /\ r \in written <=> Change!StatusOf(r) = "APPLIED"
                /\ notices[r] = {Change!StatusOf(r)} \cap {"APPLIED", "REJECTED"}
                /\ r \in locked => Change!StatusOf(r) = "APPLIED"
                /\ Change!StatusOf(r) # Absent =>
                     {s \in Change!RequestStatuses : <<r, s>> \in requestEvents} = {"PENDING", Change!StatusOf(r)}
  BY DEF Change!OutcomeAgrees
<1>1. Change!StatusOf(r) = "APPLIED" => r \in written
  BY DEF ChgIInv, ChgWInv
<1>2. Change!AtRest(r) /\ r \notin requestDisturbed => ChgSettled(r)
  BY DEF ChgIInv, ChgRInv
<1> QED
  BY <1>1, <1>2 DEF ChgSettled, ChgTold, ChgHeard, ChgDue

LEMMA ChgCatchesUp == ChgIInv => Change!ProjectionCatchesUp
<1> SUFFICES ASSUME ChgIInv, transactions, pending = <<>>, ~reordered, ~overtaken
    PROVE  projected = values
  BY DEF Change!ProjectionCatchesUp
<1>1. \A i \in 1..Len(pending) : FALSE
  OBVIOUS
<1>2. \A f \in Fields : projected[f] = values[f]
  BY <1>1 DEF ChgIInv, ChgCInv
<1> QED
  BY <1>2 DEF ChgIInv, ChgTInv, Change!Values

LEMMA ChgTypes == ChgIInv => Change!TypeOK
BY ChgTypeIs DEF ChgIInv



-------------------------------------------------------------------------------
(* Accounts. *)

AccHeld == [active : BOOLEAN, roles : SUBSET Account!Authorities, version : Nat]

AccSteps == {"check", "write", "pull", "compare", "forget", "bump", "find", "issue"}

AccJob ==
  [step : AccSteps, command : Account!AdminCommands \cup {"LOGIN", "REFRESH"}, user : People,
   read : AccHeld \cup {Absent}, add : (SUBSET Account!Authorities) \cup {None},
   remove : (SUBSET Account!Authorities) \cup {None}, active : BOOLEAN \cup {None}]

AccTInv ==
  /\ users \in [People -> AccHeld \cup {Absent}]
  /\ sessions \in [People -> Nat]
  /\ tokens \subseteq [user : People, roles : SUBSET Account!Authorities, version : Nat]
  /\ accountJob \in [Callers -> AccJob \cup {Account!Idle}]
  /\ accountHandled \in 0..Bounds.accounts
  /\ accountDisturbed \in BOOLEAN /\ revived \in BOOLEAN

\* The steps of each request.
AccStepsOf ==
  [CREATE |-> {"check", "write"}, UPDATE |-> {"check", "write", "forget", "bump"},
   PATCH |-> {"check", "write", "pull", "compare", "forget", "bump"},
   DELETE |-> {"write", "forget", "bump"}, PASSWORD |-> {"write", "forget", "bump"},
   LOGIN |-> {"issue"}, REFRESH |-> {"find", "issue"}]

\* What a request has read and wants.
AccKind(j) ==
  /\ j.step \in AccStepsOf[j.command]
  /\ j.command \in {"UPDATE", "PATCH"} \/ j.step = "issue" => j.read \in AccHeld
  /\ j.command = "CREATE" => j.add \in SUBSET Roles
  /\ j.command = "PATCH" =>
       j.add \in SUBSET Roles /\ j.remove \in SUBSET Roles /\ j.add \cap j.remove = {}
  /\ j.command = "DELETE" => j.active = FALSE
  /\ j.step = "check" => j.add \in SUBSET Account!Authorities

AccKInv ==
  \A c \in Callers : accountJob[c].step # "idle" =>
    AccKind(accountJob[c]) /\ (accountJob[c].command # "CREATE" => users[accountJob[c].user] # Absent)

\* Sessions and tokens are those of an account.
AccLInv ==
  /\ \A u \in People : sessions[u] > 0 => users[u] # Absent
  /\ \A t \in tokens : users[t.user] # Absent

\* One administrator's request at a time.
AccAdministers(j) == j.step # "idle" /\ j.command \in Account!AdminCommands

AccOInv ==
  ~accountDisturbed =>
    \A c, d \in Callers : AccAdministers(accountJob[c]) /\ AccAdministers(accountJob[d]) => c = d

AccSame(a, b) == a \ {HeadRole} = b \ {HeadRole}

\* It knows the account it is about.
AccAgrees(j, roles) ==
  /\ j.step \in {"check", "write"} /\ j.command \in {"UPDATE", "PATCH"} =>
       AccSame(roles, j.read.roles)
  /\ j.step = "pull" => AccSame(roles, j.read.roles \cup j.add)
  /\ j.step = "compare" => AccSame(roles, (j.read.roles \cup j.add) \ j.remove)

AccRInv ==
  ~accountDisturbed => \A c \in Callers : AccAgrees(accountJob[c], users[accountJob[c].user].roles)

AccHeldBy(v, role) == users[v] # Absent /\ users[v].active /\ role \in users[v].roles

\* What it has checked still holds when it writes.
AccChecked(j) == j.step = "write" /\ j.command \in {"CREATE", "UPDATE", "PATCH"} /\ j.add # None

AccCInv ==
  ~accountDisturbed => \A c \in Callers :
    AccChecked(accountJob[c]) =>
      \A role \in Account!ToCheck(accountJob[c]) \cap Roles, v \in People \ {accountJob[c].user} :
        ~AccHeldBy(v, role)

AccUInv ==
  ~accountDisturbed /\ ~revived =>
    \A role \in Roles, v, w \in People : AccHeldBy(v, role) /\ AccHeldBy(w, role) => v = w

\* An account as it once was is no newer than the account; it has the same
\* authorities if it is as new, unless the request that changed them has yet
\* to say so.
AccTells(j, roles) ==
  \/ j.step \in {"forget", "bump"}
  \/ /\ j.step \in {"pull", "compare"}
     /\ AccSame(roles, j.read.roles) \/ AccSame(roles, j.read.roles \cup j.add)

AccSnap(u, roles, version) ==
  /\ version <= users[u].version
  /\ ~accountDisturbed /\ version = users[u].version =>
       \/ AccSame(roles, users[u].roles)
       \/ \E c \in Callers : accountJob[c].user = u /\ AccTells(accountJob[c], roles)

AccSInv ==
  /\ \A t \in tokens : AccSnap(t.user, t.roles, t.version)
  /\ \A c \in Callers :
       accountJob[c].step = "issue" =>
         AccSnap(accountJob[c].user, accountJob[c].read.roles, accountJob[c].read.version)

AccIInv == AccTInv /\ AccKInv /\ AccLInv /\ AccOInv /\ AccRInv /\ AccCInv /\ AccUInv /\ AccSInv

-------------------------------------------------------------------------------
LEMMA AccIdleIs ==
  /\ Account!Idle.step = "idle" /\ ~AccAdministers(Account!Idle) /\ ~AccChecked(Account!Idle)
  /\ \A roles : AccAgrees(Account!Idle, roles) /\ ~AccTells(Account!Idle, roles)
BY DEF Account!Idle, AccAdministers, AccChecked, AccAgrees, AccTells

LEMMA AccJobIs ==
  ASSUME AccTInv, NEW c \in Callers
  PROVE  /\ accountJob[c] \in AccJob \/ accountJob[c] = Account!Idle
         /\ accountJob[c].step # "idle" => accountJob[c] \in AccJob
         /\ accountJob[c] \in AccJob => accountJob[c].step # "idle"
<1>1. accountJob[c] \in AccJob \/ accountJob[c] = Account!Idle
  BY DEF AccTInv
<1>2. Account!Idle.step = "idle"
  BY DEF Account!Idle
<1>3. \A j \in AccJob : j.step # "idle"
  BY DEF AccJob, AccSteps
<1> QED
  BY <1>1, <1>2, <1>3

LEMMA AccUserIs ==
  ASSUME AccTInv, NEW u \in People
  PROVE  users[u] = Absent \/ users[u] \in AccHeld
BY DEF AccTInv

LEMMA AccInvInit == Account!Init => AccIInv
<1> SUFFICES ASSUME Account!Init PROVE AccIInv
  OBVIOUS
<1>1. \A roles \in SUBSET Roles : Account!NewAccount(roles) \in AccHeld
  BY DEF Account!NewAccount, AccHeld, Account!Authorities
<1>2. PICK held \in SUBSET Roles, u \in People \cup {Absent} :
        users = [v \in People |-> IF v = u THEN Account!NewAccount(held) ELSE Absent]
  BY DEF Account!Init
<1>3. users \in [People -> AccHeld \cup {Absent}]
  BY <1>1, <1>2
<1>4. \A c \in Callers : accountJob[c] = Account!Idle
  BY DEF Account!Init
<1>5. AccTInv
  <2>1. sessions \in [People -> Nat]
    BY DEF Account!Init
  <2>2. accountJob \in [Callers -> AccJob \cup {Account!Idle}]
    BY DEF Account!Init
  <2>3. accountHandled \in 0..Bounds.accounts
    BY EmployeeBounds DEF Account!Init
  <2> QED
    BY <1>3, <2>1, <2>2, <2>3 DEF AccTInv, Account!Init
<1>6. AccKInv
  BY <1>4, AccIdleIs DEF AccKInv
<1>7. AccLInv
  BY DEF AccLInv, Account!Init
<1>8. AccOInv
  BY <1>4, AccIdleIs DEF AccOInv
<1>9. AccRInv
  BY <1>4, AccIdleIs DEF AccRInv
<1>10. AccCInv
  BY <1>4, AccIdleIs DEF AccCInv
<1>11. AccUInv
  <2>1. \A role : \A v \in People : AccHeldBy(v, role) => v = u
    BY <1>2 DEF AccHeldBy
  <2> QED
    BY <2>1 DEF AccUInv
<1>12. AccSInv
  BY <1>4, AccIdleIs DEF AccSInv, Account!Init
<1> QED
  BY <1>5, <1>6, <1>7, <1>8, <1>9, <1>10, <1>11, <1>12 DEF AccIInv

-------------------------------------------------------------------------------
\* What an account was, compared with another request's step.
LEMMA AccSnapMoves ==
  ASSUME NEW u, NEW roles, NEW version, NEW c \in Callers, NEW j,
         AccSnap(u, roles, version), accountJob \in [Callers -> AccJob \cup {Account!Idle}],
         users' = users, accountJob' = [accountJob EXCEPT ![c] = j],
         accountDisturbed => accountDisturbed',
         ~accountDisturbed' =>
           \/ \A r : ~AccTells(accountJob[c], r)
           \/ j.user = accountJob[c].user /\ j.step \in {"forget", "bump"}
           \/ AccTells(accountJob[c], roles) /\ u = accountJob[c].user =>
                AccSame(roles, users[u].roles)
  PROVE  /\ version <= users'[u].version
         /\ ~accountDisturbed' /\ version = users'[u].version =>
              \/ AccSame(roles, users'[u].roles)
              \/ \E d \in Callers : accountJob'[d].user = u /\ AccTells(accountJob'[d], roles)
<1>1. version <= users'[u].version
  BY DEF AccSnap
<1>2. SUFFICES ASSUME ~accountDisturbed', version = users'[u].version, ~AccSame(roles, users[u].roles)
      PROVE  \E d \in Callers : accountJob'[d].user = u /\ AccTells(accountJob'[d], roles)
  BY <1>1
<1>3. PICK d \in Callers : accountJob[d].user = u /\ AccTells(accountJob[d], roles)
  BY <1>2 DEF AccSnap
<1>4. CASE d # c
  <2>1. accountJob'[d] = accountJob[d]
    BY <1>4
  <2> QED
    BY <1>3, <2>1
<1>5. CASE d = c
  <2>1. j.user = u /\ j.step \in {"forget", "bump"}
    BY <1>2, <1>3, <1>5
  <2>2. AccTells(j, roles)
    BY <2>1 DEF AccTells
  <2>3. accountJob'[c] = j
    OBVIOUS
  <2> QED
    BY <2>1, <2>2, <2>3
<1> QED
  BY <1>4, <1>5

\* A step of one request that leaves the accounts alone.
LEMMA AccJobStepKeeps ==
  ASSUME AccIInv, NEW c \in Callers, NEW j \in AccJob \cup {Account!Idle},
         users' = users, accountJob' = [accountJob EXCEPT ![c] = j],
         sessions' \in [People -> Nat], \A u \in People : sessions'[u] > 0 => users[u] # Absent,
         \A t \in tokens' :
           \/ t \in tokens
           \/ /\ accountJob[c].step = "issue"
              /\ t = [user |-> accountJob[c].user, roles |-> accountJob[c].read.roles, version |-> accountJob[c].read.version],
         accountHandled' \in 0..Bounds.accounts, accountDisturbed' \in BOOLEAN,
         accountDisturbed => accountDisturbed',
         revived' = revived,
         j # Account!Idle => AccKind(j) /\ (j.command # "CREATE" => users[j.user] # Absent),
         ~accountDisturbed' /\ AccAdministers(j) =>
           \A d \in Callers \ {c} : ~AccAdministers(accountJob[d]),
         ~accountDisturbed' /\ j # Account!Idle => AccAgrees(j, users[j.user].roles),
         ~accountDisturbed' /\ AccChecked(j) =>
           \A role \in Account!ToCheck(j) \cap Roles, v \in People \ {j.user} : ~AccHeldBy(v, role),
         ~accountDisturbed' =>
           \/ \A roles : ~AccTells(accountJob[c], roles)
           \/ j.user = accountJob[c].user /\ j.step \in {"forget", "bump"}
           \/ \A roles : AccTells(accountJob[c], roles) =>
                AccSame(roles, users[accountJob[c].user].roles),
         j.step = "issue" => j.read = users[j.user]
  PROVE  AccIInv'
<1> USE DEF AccIInv
<1>1. /\ accountJob \in [Callers -> AccJob \cup {Account!Idle}]
      /\ accountJob' \in [Callers -> AccJob \cup {Account!Idle}]
  BY DEF AccTInv
<1>2. accountJob'[c] = j /\ \A d \in Callers \ {c} : accountJob'[d] = accountJob[d]
  BY <1>1
<1>3. j # Account!Idle => j \in AccJob
  OBVIOUS
<1>4. \A t \in tokens' : t \in tokens \/ (accountJob[c].step = "issue" /\ accountJob[c] \in AccJob /\ accountJob[c].read \in AccHeld)
  <2>1. accountJob[c].step = "issue" => accountJob[c] \in AccJob /\ accountJob[c].read \in AccHeld
    BY AccJobIs DEF AccKInv, AccKind
  <2>2. ASSUME NEW t \in tokens', t \notin tokens PROVE accountJob[c].step = "issue"
    BY <2>2
  <2> QED
    BY <2>1, <2>2
<1>5. tokens' \subseteq [user : People, roles : SUBSET Account!Authorities, version : Nat]
  <2> SUFFICES ASSUME NEW t \in tokens', t \notin tokens
      PROVE  t \in [user : People, roles : SUBSET Account!Authorities, version : Nat]
    BY DEF AccTInv
  <2>1. accountJob[c].user \in People
    BY <1>4 DEF AccJob
  <2>2. accountJob[c].read.roles \in SUBSET Account!Authorities /\ accountJob[c].read.version \in Nat
    BY <1>4 DEF AccHeld
  <2> QED
    BY <2>1, <2>2
<1>6. AccTInv'
  BY <1>1, <1>5 DEF AccTInv
<1>7. AccKInv'
  <2> SUFFICES ASSUME NEW d \in Callers, accountJob'[d].step # "idle"
      PROVE  /\ AccKind(accountJob'[d])
             /\ (accountJob'[d].command # "CREATE" => users[accountJob'[d].user] # Absent)
    BY DEF AccKInv, AccKind
  <2>1. CASE d = c
    BY <1>2, <2>1, AccIdleIs
  <2>2. CASE d # c
    BY <1>2, <2>2 DEF AccKInv
  <2> QED
    BY <2>1, <2>2
<1>8. AccLInv'
  <2>1. \A t \in tokens' : users[t.user] # Absent
    <3> SUFFICES ASSUME NEW t \in tokens', t \notin tokens PROVE users[t.user] # Absent
      BY DEF AccLInv
    <3>1. accountJob[c].step = "issue" /\ accountJob[c].step # "idle" /\ t.user = accountJob[c].user
      OBVIOUS
    <3>2. accountJob[c].command # "CREATE"
      BY <1>4, <3>1 DEF AccKInv, AccKind, AccStepsOf
    <3> QED
      BY <3>1, <3>2 DEF AccKInv
  <2> QED
    BY <2>1 DEF AccLInv
<1>9. AccOInv'
  <2> SUFFICES ASSUME ~accountDisturbed', NEW d \in Callers, NEW e \in Callers,
                      AccAdministers(accountJob'[d]), AccAdministers(accountJob'[e])
      PROVE  d = e
    BY DEF AccOInv, AccAdministers
  <2>1. CASE d # c /\ e # c
    BY <1>2, <2>1 DEF AccOInv
  <2>2. CASE d = c \/ e = c
    BY <1>2, <2>2
  <2> QED
    BY <2>1, <2>2
<1>10. AccRInv'
  <2> SUFFICES ASSUME ~accountDisturbed', NEW d \in Callers
      PROVE  AccAgrees(accountJob'[d], users[accountJob'[d].user].roles)
    BY DEF AccRInv, AccAgrees, AccSame
  <2>1. CASE d = c
    BY <1>2, <2>1, AccIdleIs
  <2>2. CASE d # c
    BY <1>2, <2>2 DEF AccRInv
  <2> QED
    BY <2>1, <2>2
<1>11. AccCInv'
  <2> SUFFICES ASSUME ~accountDisturbed', NEW d \in Callers, AccChecked(accountJob'[d]),
                      NEW role \in Account!ToCheck(accountJob'[d]) \cap Roles,
                      NEW v \in People \ {accountJob'[d].user}
      PROVE  ~AccHeldBy(v, role)
    BY DEF AccCInv, AccChecked, Account!ToCheck, AccHeldBy
  <2>1. CASE d = c
    BY <1>2, <2>1
  <2>2. CASE d # c
    BY <1>2, <2>2 DEF AccCInv
  <2> QED
    BY <2>1, <2>2
<1>12. AccUInv'
  <2> SUFFICES ASSUME ~accountDisturbed', ~revived', NEW role \in Roles, NEW v \in People,
                      NEW w \in People,
                      AccHeldBy(v, role), AccHeldBy(w, role)
      PROVE  v = w
    BY DEF AccUInv, AccHeldBy
  <2> QED
    BY DEF AccUInv
<1>13. \A u, roles, version : AccSnap(u, roles, version) =>
         /\ version <= users'[u].version
         /\ ~accountDisturbed' /\ version = users'[u].version =>
              \/ AccSame(roles, users'[u].roles)
              \/ \E d \in Callers : accountJob'[d].user = u /\ AccTells(accountJob'[d], roles)
  <2> SUFFICES ASSUME NEW u, NEW roles, NEW version, AccSnap(u, roles, version)
      PROVE  /\ version <= users'[u].version
             /\ ~accountDisturbed' /\ version = users'[u].version =>
                  \/ AccSame(roles, users'[u].roles)
                  \/ \E d \in Callers : accountJob'[d].user = u /\ AccTells(accountJob'[d], roles)
    OBVIOUS
  <2>1. ~accountDisturbed' =>
          \/ \A r : ~AccTells(accountJob[c], r)
          \/ j.user = accountJob[c].user /\ j.step \in {"forget", "bump"}
          \/ AccTells(accountJob[c], roles) /\ u = accountJob[c].user =>
               AccSame(roles, users[u].roles)
    OBVIOUS
  <2>2. accountJob \in [Callers -> AccJob \cup {Account!Idle}]
    BY <1>1
  <2> QED
    BY <2>1, <2>2, AccSnapMoves
<1>14. AccSInv'
  <2>1. ASSUME NEW t \in tokens'
        PROVE  /\ t.version <= users'[t.user].version
               /\ ~accountDisturbed' /\ t.version = users'[t.user].version =>
                    \/ AccSame(t.roles, users'[t.user].roles)
                    \/ \E d \in Callers :
                         accountJob'[d].user = t.user /\ AccTells(accountJob'[d], t.roles)
    <3>1. AccSnap(t.user, t.roles, t.version)
      BY <2>1 DEF AccSInv
    <3> QED
      BY <3>1, <1>13
  <2>2. ASSUME NEW d \in Callers, accountJob'[d].step = "issue"
        PROVE  /\ accountJob'[d].read.version <= users'[accountJob'[d].user].version
               /\ ~accountDisturbed' /\ accountJob'[d].read.version = users'[accountJob'[d].user].version =>
                    \/ AccSame(accountJob'[d].read.roles, users'[accountJob'[d].user].roles)
                    \/ \E e \in Callers : accountJob'[e].user = accountJob'[d].user /\ AccTells(accountJob'[e], accountJob'[d].read.roles)
    <3>1. CASE d = c
      <4>1. j # Account!Idle /\ j.read = users[j.user] /\ accountJob'[d] = j
        BY <1>2, <2>2, <3>1, AccIdleIs
      <4>2. j.read \in AccHeld
        BY <4>1, <2>2 DEF AccKind
      <4>3. j.read.version <= users[j.user].version
        BY <4>1, <4>2 DEF AccHeld
      <4> QED
        BY <4>1, <4>3 DEF AccSame
    <3>2. CASE d # c
      <4>1. accountJob'[d] = accountJob[d]
        BY <1>2, <3>2
      <4>2. AccSnap(accountJob[d].user, accountJob[d].read.roles, accountJob[d].read.version)
        BY <2>2, <4>1 DEF AccSInv
      <4> QED
        BY <4>1, <4>2, <1>13
    <3> QED
      BY <3>1, <3>2
  <2> QED
    BY <2>1, <2>2 DEF AccSInv, AccSnap, AccTells, AccSame
<1> QED
  BY <1>6, <1>7, <1>8, <1>9, <1>10, <1>11, <1>12, <1>14

\* A step that no request takes leaves all of the accounts but what department
\* management hands on.
LEMMA AccHandedOnKeeps ==
  ASSUME AccIInv, users' \in [People -> AccHeld \cup {Absent}],
         UNCHANGED <<tokens, accountJob, accountDisturbed, revived>>,
         \A u \in People : (users'[u] = Absent) <=> (users[u] = Absent),
         \A u \in People : users[u] # Absent =>
           /\ users'[u].active = users[u].active /\ users'[u].version = users[u].version
           /\ users'[u].roles \ {HeadRole} = users[u].roles \ {HeadRole},
         sessions' \in [People -> Nat], \A u \in People : sessions'[u] > 0 => users[u] # Absent,
         accountHandled' \in 0..Bounds.accounts
  PROVE  AccIInv'
<1> USE DEF AccIInv
<1>1. AccTInv'
  BY DEF AccTInv
<1>2. ASSUME NEW c \in Callers, accountJob[c].step # "idle" PROVE accountJob[c].user \in People
  BY <1>2, AccJobIs DEF AccJob
<1>3. AccKInv'
  <2> SUFFICES ASSUME NEW c \in Callers, accountJob[c].step # "idle"
      PROVE  /\ AccKind(accountJob[c])
             /\ (accountJob[c].command # "CREATE" => users'[accountJob[c].user] # Absent)
    BY DEF AccKInv, AccKind
  <2> QED
    BY <1>2 DEF AccKInv
<1>4. AccLInv'
  <2>1. \A t \in tokens : t.user \in People
    BY DEF AccTInv
  <2> QED
    BY <2>1 DEF AccLInv
<1>5. AccOInv'
  BY DEF AccOInv, AccAdministers
<1>6. AccRInv'
  <2> SUFFICES ASSUME ~accountDisturbed, NEW c \in Callers
      PROVE  AccAgrees(accountJob[c], users'[accountJob[c].user].roles)
    BY DEF AccRInv, AccAgrees, AccSame
  <2>1. CASE accountJob[c].step \notin {"check", "write", "pull", "compare"}
    BY <2>1 DEF AccAgrees
  <2>2. CASE accountJob[c].step \in {"check", "write", "pull", "compare"}
    <3>1. accountJob[c].step # "idle"
      BY <2>2
    <3>2. CASE accountJob[c].command = "CREATE"
      <4>1. accountJob[c].step \in {"check", "write"}
        BY <3>1, <3>2 DEF AccKInv, AccKind, AccStepsOf
      <4> QED
        BY <3>2, <4>1 DEF AccAgrees
    <3>3. CASE accountJob[c].command # "CREATE"
      <4>1. users[accountJob[c].user] # Absent /\ accountJob[c].user \in People
        BY <1>2, <3>1, <3>3 DEF AccKInv
      <4>2. AccSame(users'[accountJob[c].user].roles, users[accountJob[c].user].roles)
        BY <4>1 DEF AccSame
      <4>3. AccAgrees(accountJob[c], users[accountJob[c].user].roles)
        BY DEF AccRInv
      <4> QED
        BY <4>2, <4>3 DEF AccAgrees, AccSame
    <3> QED
      BY <3>2, <3>3
  <2> QED
    BY <2>1, <2>2
<1>7. \A role \in Roles : \A v \in People :
        /\ users'[v] # Absent /\ users'[v].active /\ role \in users'[v].roles => AccHeldBy(v, role)
  <2> SUFFICES ASSUME NEW role \in Roles, NEW v \in People,
                      users'[v] # Absent, users'[v].active, role \in users'[v].roles
      PROVE  AccHeldBy(v, role)
    OBVIOUS
  <2>1. users[v] # Absent /\ users[v].active
    OBVIOUS
  <2>2. role \in users[v].roles
    BY <2>1, AccountsAssumption
  <2> QED
    BY <2>1, <2>2 DEF AccHeldBy
<1>8. AccCInv'
  <2> SUFFICES ASSUME ~accountDisturbed, NEW c \in Callers, AccChecked(accountJob[c]),
                      NEW role \in Account!ToCheck(accountJob[c]) \cap Roles,
                      NEW v \in People \ {accountJob[c].user},
                      users'[v] # Absent /\ users'[v].active /\ role \in users'[v].roles
      PROVE  FALSE
    BY DEF AccCInv, AccChecked, Account!ToCheck, AccHeldBy
  <2> QED
    BY <1>7 DEF AccCInv
<1>9. AccUInv'
  <2> SUFFICES ASSUME ~accountDisturbed, ~revived, NEW role \in Roles, NEW v \in People,
                      NEW w \in People,
                      users'[v] # Absent /\ users'[v].active /\ role \in users'[v].roles,
                      users'[w] # Absent /\ users'[w].active /\ role \in users'[w].roles
      PROVE  v = w
    BY DEF AccUInv, AccHeldBy
  <2> QED
    BY <1>7 DEF AccUInv
<1>10. ASSUME NEW u \in People, NEW roles, NEW version, users[u] # Absent, AccSnap(u, roles, version)
       PROVE  /\ version <= users'[u].version
              /\ ~accountDisturbed' /\ version = users'[u].version =>
                   \/ AccSame(roles, users'[u].roles)
                   \/ \E c \in Callers : accountJob[c].user = u /\ AccTells(accountJob[c], roles)
  <2>1. users'[u].version = users[u].version
    BY <1>10
  <2>2. AccSame(roles, users[u].roles) => AccSame(roles, users'[u].roles)
    BY <1>10 DEF AccSame
  <2> QED
    BY <1>10, <2>1, <2>2 DEF AccSnap
<1>11. AccSInv'
  <2>1. ASSUME NEW t \in tokens
        PROVE  /\ t.version <= users'[t.user].version
               /\ ~accountDisturbed' /\ t.version = users'[t.user].version =>
                    \/ AccSame(t.roles, users'[t.user].roles)
                    \/ \E c \in Callers :
                         accountJob[c].user = t.user /\ AccTells(accountJob[c], t.roles)
    <3>1. t.user \in People /\ users[t.user] # Absent
      BY DEF AccTInv, AccLInv
    <3>2. AccSnap(t.user, t.roles, t.version)
      BY DEF AccSInv
    <3> QED
      BY <3>1, <3>2, <1>10
  <2>2. ASSUME NEW d \in Callers, accountJob[d].step = "issue"
        PROVE  /\ accountJob[d].read.version <= users'[accountJob[d].user].version
               /\ ~accountDisturbed' /\ accountJob[d].read.version = users'[accountJob[d].user].version =>
                    \/ AccSame(accountJob[d].read.roles, users'[accountJob[d].user].roles)
                    \/ \E c \in Callers : accountJob[c].user = accountJob[d].user /\ AccTells(accountJob[c], accountJob[d].read.roles)
    <3>1. accountJob[d].user \in People
      BY <1>2, <2>2
    <3>2. accountJob[d].command # "CREATE"
      BY <2>2 DEF AccKInv, AccKind, AccStepsOf
    <3>3. users[accountJob[d].user] # Absent
      BY <2>2, <3>2 DEF AccKInv
    <3>4. AccSnap(accountJob[d].user, accountJob[d].read.roles, accountJob[d].read.version)
      BY <2>2 DEF AccSInv
    <3> QED
      BY <3>1, <3>3, <3>4, <1>10
  <2> QED
    BY <2>1, <2>2 DEF AccSInv, AccSnap, AccTells, AccSame
<1> QED
  BY <1>1, <1>3, <1>4, <1>5, <1>6, <1>8, <1>9, <1>11

LEMMA AccPullDepartmentKeeps ==
  ASSUME AccIInv, NEW u \in People, Account!PullDepartmentAuthority(u)
  PROVE  AccIInv'
<1>1. users[u] \in AccHeld
  BY AccUserIs DEF AccIInv, Account!PullDepartmentAuthority
<1>2. [users[u] EXCEPT !.roles = @ \ {HeadRole}] \in AccHeld
  BY <1>1 DEF AccHeld
<1>3. users' = [users EXCEPT ![u] = [users[u] EXCEPT !.roles = @ \ {HeadRole}]]
  BY DEF Account!PullDepartmentAuthority
<1>4. users' \in [People -> AccHeld \cup {Absent}]
  BY <1>2, <1>3 DEF AccIInv, AccTInv
<1>5. \A v \in People \ {u} : users'[v] = users[v]
  BY <1>3 DEF AccIInv, AccTInv
<1>6. users'[u] = [users[u] EXCEPT !.roles = @ \ {HeadRole}]
  BY <1>3 DEF AccIInv, AccTInv
<1>7. users[u] # Absent /\ users'[u] # Absent
  BY <1>2, <1>6, AccountsAssumption DEF Account!PullDepartmentAuthority, AccHeld
<1>8. /\ users'[u].active = users[u].active /\ users'[u].version = users[u].version
      /\ users'[u].roles \ {HeadRole} = users[u].roles \ {HeadRole}
  BY <1>1, <1>6 DEF AccHeld
<1>9. accountHandled' \in 0..Bounds.accounts
  BY EmployeeBounds DEF Account!PullDepartmentAuthority, AccIInv, AccTInv
<1>10. sessions' \in [People -> Nat] /\ \A v \in People : sessions'[v] > 0 => users[v] # Absent
  BY DEF Account!PullDepartmentAuthority, AccIInv, AccTInv, AccLInv
<1>11. UNCHANGED <<tokens, accountJob, accountDisturbed, revived>>
  BY DEF Account!PullDepartmentAuthority
<1>12. \A v \in People : (users'[v] = Absent) <=> (users[v] = Absent)
  BY <1>5, <1>7
<1>13. \A v \in People : users[v] # Absent =>
           /\ users'[v].active = users[v].active /\ users'[v].version = users[v].version
           /\ users'[v].roles \ {HeadRole} = users[v].roles \ {HeadRole}
  BY <1>5, <1>8
<1> QED
  BY <1>4, <1>9, <1>10, <1>11, <1>12, <1>13, AccHandedOnKeeps

LEMMA AccGrantDepartmentKeeps ==
  ASSUME AccIInv, NEW u \in People, Account!GrantDepartmentAuthority(u)
  PROVE  AccIInv'
<1>1. users[u] \in AccHeld
  BY AccUserIs DEF AccIInv, Account!GrantDepartmentAuthority
<1>2. [users[u] EXCEPT !.roles = @ \cup {HeadRole}] \in AccHeld
  BY <1>1 DEF AccHeld, Account!Authorities
<1>3. users' = [users EXCEPT ![u] = [users[u] EXCEPT !.roles = @ \cup {HeadRole}]]
  BY DEF Account!GrantDepartmentAuthority
<1>4. users' \in [People -> AccHeld \cup {Absent}]
  BY <1>2, <1>3 DEF AccIInv, AccTInv
<1>5. \A v \in People \ {u} : users'[v] = users[v]
  BY <1>3 DEF AccIInv, AccTInv
<1>6. users'[u] = [users[u] EXCEPT !.roles = @ \cup {HeadRole}]
  BY <1>3 DEF AccIInv, AccTInv
<1>7. users[u] # Absent /\ users'[u] # Absent
  BY <1>2, <1>6, AccountsAssumption DEF Account!GrantDepartmentAuthority, AccHeld
<1>8. /\ users'[u].active = users[u].active /\ users'[u].version = users[u].version
      /\ users'[u].roles \ {HeadRole} = users[u].roles \ {HeadRole}
  BY <1>1, <1>6 DEF AccHeld
<1>9. accountHandled' \in 0..Bounds.accounts
  BY EmployeeBounds DEF Account!GrantDepartmentAuthority, AccIInv, AccTInv
<1>10. sessions' \in [People -> Nat] /\ \A v \in People : sessions'[v] > 0 => users[v] # Absent
  BY DEF Account!GrantDepartmentAuthority, AccIInv, AccTInv, AccLInv
<1>11. UNCHANGED <<tokens, accountJob, accountDisturbed, revived>>
  BY DEF Account!GrantDepartmentAuthority
<1>12. \A v \in People : (users'[v] = Absent) <=> (users[v] = Absent)
  BY <1>5, <1>7
<1>13. \A v \in People : users[v] # Absent =>
           /\ users'[v].active = users[v].active /\ users'[v].version = users[v].version
           /\ users'[v].roles \ {HeadRole} = users[v].roles \ {HeadRole}
  BY <1>5, <1>8
<1> QED
  BY <1>4, <1>9, <1>10, <1>11, <1>12, <1>13, AccHandedOnKeeps

LEMMA AccLogoutKeeps ==
  ASSUME AccIInv, NEW u \in People, Account!Logout(u)
  PROVE  AccIInv'
<1>1. UNCHANGED <<users, tokens, accountJob, accountDisturbed, revived>>
  BY DEF Account!Logout
<1>2. sessions' \in [People -> Nat] /\ \A v \in People : sessions'[v] > 0 => users[v] # Absent
  <2>1. sessions \in [People -> Nat] /\ sessions[u] > 0 /\ sessions' = [sessions EXCEPT ![u] = @ - 1]
    BY DEF Account!Logout, AccIInv, AccTInv
  <2>2. \A v \in People : sessions[v] > 0 => users[v] # Absent
    BY DEF AccIInv, AccLInv
  <2> QED
    BY <2>1, <2>2
<1>3. accountHandled' \in 0..Bounds.accounts
  BY EmployeeBounds DEF Account!Logout, AccIInv, AccTInv
<1>4. users' \in [People -> AccHeld \cup {Absent}]
  BY <1>1 DEF AccIInv, AccTInv
<1> QED
  BY <1>1, <1>2, <1>3, <1>4, AccHandedOnKeeps

-------------------------------------------------------------------------------
\* A request begins with the account as it is.
LEMMA AccBeginKeeps ==
  ASSUME AccIInv, NEW c \in Callers, NEW r \in AccJob, Account!Begin(c, r), AccKind(r),
         r.command # "CREATE" => users[r.user] # Absent,
         r.step \in {"check", "write", "issue"}, ~AccChecked(r),
         r.command \in {"UPDATE", "PATCH"} \/ r.step = "issue" => r.read = users[r.user]
  PROVE  AccIInv'
<1>1. accountJob[c] = Account!Idle /\ accountJob' = [accountJob EXCEPT ![c] = r]
  BY DEF Account!Begin
<1>2. UNCHANGED <<users, sessions, tokens, revived>>
  BY DEF Account!Begin
<1>3. sessions' \in [People -> Nat] /\ \A u \in People : sessions'[u] > 0 => users[u] # Absent
  BY <1>2 DEF AccIInv, AccTInv, AccLInv
<1>4. accountHandled' \in 0..Bounds.accounts
  BY EmployeeBounds DEF Account!Begin, AccIInv, AccTInv
<1>5. accountDisturbed' \in BOOLEAN /\ (accountDisturbed => accountDisturbed')
  BY DEF Account!Begin
<1>6. ~accountDisturbed' /\ AccAdministers(r) =>
        \A d \in Callers \ {c} : ~AccAdministers(accountJob[d])
  BY DEF Account!Begin, AccAdministers
<1>7. AccAgrees(r, users[r.user].roles)
  BY DEF AccAgrees, AccSame
<1>8. \A roles : ~AccTells(accountJob[c], roles)
  BY <1>1, AccIdleIs
<1>9. \A t \in tokens' : t \in tokens
  BY <1>2
<1> QED
  BY <1>1, <1>2, <1>3, <1>4, <1>5, <1>6, <1>7, <1>8, <1>9, AccJobStepKeeps

LEMMA AccCreateUserKeeps ==
  ASSUME AccIInv, NEW c \in Callers, NEW u \in People, NEW roles \in SUBSET Roles,
         Account!CreateUser(c, u, roles)
  PROVE  AccIInv'
<1> DEFINE r == [Account!Idle EXCEPT !.step = "check", !.command = "CREATE", !.user = u, !.add = roles]
<1>1. Account!Begin(c, r)
  BY DEF Account!CreateUser
<1>2. /\ r.step = "check" /\ r.command = "CREATE" /\ r.user = u
      /\ r.read = Absent /\ r.add = roles /\ r.remove = None /\ r.active = None
  BY DEF Account!Idle
<1>3. r \in AccJob
  BY <1>2 DEF Account!Idle, AccJob, AccSteps, Account!AdminCommands, Account!Authorities
<1>4. AccKind(r)
  BY <1>2 DEF AccKind, AccStepsOf, Account!Authorities
<1>5. ~AccChecked(r) /\ r.step = "check" /\ r.command = "CREATE"
  BY <1>2 DEF AccChecked
<1> QED
  BY <1>1, <1>3, <1>4, <1>5, AccBeginKeeps

LEMMA AccUpdateUserKeeps ==
  ASSUME AccIInv, NEW c \in Callers, NEW u \in People,
         NEW roles \in (SUBSET Account!Authorities) \cup {None},
         NEW active \in {TRUE, FALSE, None}, Account!UpdateUser(c, u, roles, active)
  PROVE  AccIInv'
<1> DEFINE r == [Account!Idle EXCEPT !.step = IF roles = None THEN "write" ELSE "check",
                             !.command = "UPDATE", !.user = u, !.read = users[u],
                             !.add = roles, !.active = active]
<1>1. Account!Begin(c, r) /\ users[u] # Absent
  BY DEF Account!UpdateUser
<1>2. /\ r.step = (IF roles = None THEN "write" ELSE "check") /\ r.command = "UPDATE" /\ r.user = u
      /\ r.read = users[u] /\ r.add = roles /\ r.remove = None /\ r.active = active
  BY DEF Account!Idle
<1>3. users[u] \in AccHeld
  BY <1>1, AccUserIs DEF AccIInv
<1>4. active \in BOOLEAN \cup {None}
  OBVIOUS
<1>5. r \in AccJob
  BY <1>2, <1>3, <1>4 DEF Account!Idle, AccJob, AccSteps, Account!AdminCommands
<1>6. AccKind(r)
  BY <1>2, <1>3 DEF AccKind, AccStepsOf
<1>7. ~AccChecked(r)
  BY <1>2 DEF AccChecked
<1>8. r.step \in {"check", "write"} /\ r.user = u /\ r.read = users[u]
  BY <1>2
<1> QED
  BY <1>1, <1>5, <1>6, <1>7, <1>8, AccBeginKeeps

LEMMA AccPatchUserAuthoritiesKeeps ==
  ASSUME AccIInv, NEW c \in Callers, NEW u \in People, NEW add \in SUBSET Roles,
         NEW remove \in SUBSET Roles, Account!PatchUserAuthorities(c, u, add, remove)
  PROVE  AccIInv'
<1> DEFINE r == [Account!Idle EXCEPT !.step = "check", !.command = "PATCH", !.user = u,
                             !.read = users[u], !.add = add \ remove, !.remove = remove]
<1>1. Account!Begin(c, r) /\ users[u] # Absent
  BY DEF Account!PatchUserAuthorities
<1>2. /\ r.step = "check" /\ r.command = "PATCH" /\ r.user = u
      /\ r.read = users[u] /\ r.add = add \ remove /\ r.remove = remove /\ r.active = None
  BY DEF Account!Idle
<1>3. users[u] \in AccHeld
  BY <1>1, AccUserIs DEF AccIInv
<1>4. add \ remove \in SUBSET Roles /\ (add \ remove) \cap remove = {}
  OBVIOUS
<1>5. add \ remove \in SUBSET Account!Authorities /\ remove \in SUBSET Account!Authorities
  BY DEF Account!Authorities
<1>6. r \in AccJob
  BY <1>2, <1>3, <1>5 DEF Account!Idle, AccJob, AccSteps, Account!AdminCommands
<1>7. AccKind(r)
  BY <1>2, <1>3, <1>4, <1>5 DEF AccKind, AccStepsOf
<1>8. ~AccChecked(r)
  BY <1>2 DEF AccChecked
<1>9. r.step = "check" /\ r.user = u /\ r.read = users[u]
  BY <1>2
<1> QED
  BY <1>1, <1>6, <1>7, <1>8, <1>9, AccBeginKeeps

LEMMA AccDeleteUserKeeps ==
  ASSUME AccIInv, NEW c \in Callers, NEW u \in People, Account!DeleteUser(c, u)
  PROVE  AccIInv'
<1> DEFINE r == [Account!Idle EXCEPT !.step = "write", !.command = "DELETE", !.user = u,
                             !.read = users[u], !.active = FALSE]
<1>1. Account!Begin(c, r) /\ users[u] # Absent
  BY DEF Account!DeleteUser
<1>2. /\ r.step = "write" /\ r.command = "DELETE" /\ r.user = u
      /\ r.read = users[u] /\ r.add = None /\ r.remove = None /\ r.active = FALSE
  BY DEF Account!Idle
<1>3. users[u] \in AccHeld
  BY <1>1, AccUserIs DEF AccIInv
<1>4. r \in AccJob
  BY <1>2, <1>3 DEF Account!Idle, AccJob, AccSteps, Account!AdminCommands
<1>5. AccKind(r)
  BY <1>2, <1>3 DEF AccKind, AccStepsOf
<1>6. ~AccChecked(r) /\ r.step = "write" /\ r.user = u /\ r.command = "DELETE"
  BY <1>2 DEF AccChecked
<1> QED
  BY <1>1, <1>4, <1>5, <1>6, AccBeginKeeps

LEMMA AccChangePasswordKeeps ==
  ASSUME AccIInv, NEW c \in Callers, NEW u \in People, Account!ChangePassword(c, u)
  PROVE  AccIInv'
<1> DEFINE r == [Account!Idle EXCEPT !.step = "write", !.command = "PASSWORD", !.user = u,
                             !.read = users[u]]
<1>1. Account!Begin(c, r) /\ users[u] # Absent
  BY DEF Account!ChangePassword
<1>2. /\ r.step = "write" /\ r.command = "PASSWORD" /\ r.user = u
      /\ r.read = users[u] /\ r.add = None /\ r.remove = None /\ r.active = None
  BY DEF Account!Idle
<1>3. users[u] \in AccHeld
  BY <1>1, AccUserIs DEF AccIInv
<1>4. r \in AccJob
  BY <1>2, <1>3 DEF Account!Idle, AccJob, AccSteps, Account!AdminCommands
<1>5. AccKind(r)
  BY <1>2, <1>3 DEF AccKind, AccStepsOf
<1>6. ~AccChecked(r) /\ r.step = "write" /\ r.user = u /\ r.command = "PASSWORD"
  BY <1>2 DEF AccChecked
<1> QED
  BY <1>1, <1>4, <1>5, <1>6, AccBeginKeeps

LEMMA AccLoginKeeps ==
  ASSUME AccIInv, NEW c \in Callers, NEW u \in People, Account!Login(c, u)
  PROVE  AccIInv'
<1> DEFINE r == [Account!Idle EXCEPT !.step = "issue", !.command = "LOGIN", !.user = u, !.read = users[u]]
<1>1. Account!Begin(c, r) /\ users[u] # Absent
  BY DEF Account!Login
<1>2. /\ r.step = "issue" /\ r.command = "LOGIN" /\ r.user = u
      /\ r.read = users[u] /\ r.add = None /\ r.remove = None /\ r.active = None
  BY DEF Account!Idle
<1>3. users[u] \in AccHeld
  BY <1>1, AccUserIs DEF AccIInv
<1>4. r \in AccJob
  BY <1>2, <1>3 DEF Account!Idle, AccJob, AccSteps
<1>5. AccKind(r)
  BY <1>2, <1>3 DEF AccKind, AccStepsOf
<1>6. ~AccChecked(r) /\ r.step = "issue" /\ r.user = u /\ r.read = users[u]
  BY <1>2 DEF AccChecked
<1> QED
  BY <1>1, <1>4, <1>5, <1>6, AccBeginKeeps

LEMMA AccRefreshKeeps ==
  ASSUME AccIInv, NEW c \in Callers, NEW u \in People, Account!Refresh(c, u)
  PROVE  AccIInv'
<1> DEFINE r == [Account!Idle EXCEPT !.step = "find", !.command = "REFRESH", !.user = u]
<1>1. accountJob[c] = Account!Idle /\ accountJob' = [accountJob EXCEPT ![c] = r] /\ sessions[u] > 0
  BY DEF Account!Refresh
<1>2. /\ r.step = "find" /\ r.command = "REFRESH" /\ r.user = u
      /\ r.read = Absent /\ r.add = None /\ r.remove = None /\ r.active = None
  BY DEF Account!Idle
<1>3. r \in AccJob
  BY <1>2 DEF Account!Idle, AccJob, AccSteps
<1>4. AccKind(r) /\ ~AccChecked(r) /\ ~AccAdministers(r) /\ r.step = "find" /\ r.user = u
  BY <1>2 DEF AccKind, AccStepsOf, AccChecked, AccAdministers, Account!AdminCommands
<1>5. \A roles : AccAgrees(r, roles)
  BY <1>4 DEF AccAgrees
<1>6. \A roles : ~AccTells(accountJob[c], roles)
  BY <1>1, AccIdleIs
<1>7. users[u] # Absent
  BY <1>1 DEF AccIInv, AccLInv
<1>8. sessions' \in [People -> Nat] /\ \A v \in People : sessions'[v] > 0 => users[v] # Absent
  <2>1. sessions \in [People -> Nat] /\ sessions' = [sessions EXCEPT ![u] = @ - 1]
    BY DEF Account!Refresh, AccIInv, AccTInv
  <2>2. \A v \in People : sessions[v] > 0 => users[v] # Absent
    BY DEF AccIInv, AccLInv
  <2> QED
    BY <1>1, <2>1, <2>2
<1>9. accountHandled' \in 0..Bounds.accounts
  BY EmployeeBounds DEF Account!Refresh, AccIInv, AccTInv
<1>10. UNCHANGED <<users, tokens, accountDisturbed, revived>> /\ accountDisturbed \in BOOLEAN
  BY DEF Account!Refresh, AccIInv, AccTInv
<1>11. \A t \in tokens' : t \in tokens
  BY <1>10
<1> QED
  BY <1>1, <1>3, <1>4, <1>5, <1>6, <1>7, <1>8, <1>9, <1>10, <1>11, AccJobStepKeeps

-------------------------------------------------------------------------------
\* A request goes on.
LEMMA AccGoIs ==
  ASSUME AccTInv, NEW c \in Callers, accountJob[c] \in AccJob, NEW step \in AccSteps,
         Account!Go(c, step)
  PROVE  \E j \in AccJob :
           /\ accountJob' = [accountJob EXCEPT ![c] = j]
           /\ j.step = step /\ j.command = accountJob[c].command /\ j.user = accountJob[c].user
           /\ j.read = accountJob[c].read
           /\ j.add = accountJob[c].add
           /\ j.remove = accountJob[c].remove
           /\ j.active = accountJob[c].active
<1> DEFINE j == [accountJob[c] EXCEPT !.step = step]
<1>1. accountJob' = [accountJob EXCEPT ![c] = j]
  BY DEF Account!Go
<1>2. /\ j.step = step /\ j.command = accountJob[c].command /\ j.user = accountJob[c].user
      /\ j.read = accountJob[c].read /\ j.add = accountJob[c].add /\ j.remove = accountJob[c].remove
      /\ j.active = accountJob[c].active
  BY DEF AccJob
<1>3. j \in AccJob
  BY DEF AccJob
<1> QED
  BY <1>1, <1>2, <1>3

\* What a request has told of what others hold, told again at its later steps.
LEMMA AccKindGoes ==
  ASSUME NEW i \in AccJob, NEW j \in AccJob, AccKind(i), i.step \notin {"issue", "find"},
         j.step \in AccStepsOf[j.command], j.step \notin {"issue", "check"},
         j.command = i.command, j.read = i.read, j.add = i.add, j.remove = i.remove,
         j.active = i.active
  PROVE  AccKind(j)
BY DEF AccKind

LEMMA AccAtIs ==
  ASSUME AccIInv, NEW c \in Callers, accountJob[c].step # "idle"
  PROVE  /\ accountJob[c] \in AccJob /\ AccKind(accountJob[c]) /\ accountJob[c].user \in People
         /\ accountJob[c].step \in AccStepsOf[accountJob[c].command]
         /\ accountJob[c].command # "CREATE" =>
              users[accountJob[c].user] # Absent /\ users[accountJob[c].user] \in AccHeld
<1>1. accountJob[c] \in AccJob
  BY AccJobIs DEF AccIInv
<1>2. accountJob[c].user \in People
  BY <1>1 DEF AccJob
<1>3. /\ AccKind(accountJob[c])
      /\ (accountJob[c].command # "CREATE" => users[accountJob[c].user] # Absent)
  BY DEF AccIInv, AccKInv
<1>4. accountJob[c].step \in AccStepsOf[accountJob[c].command]
  BY <1>3 DEF AccKind
<1> QED
  BY <1>1, <1>2, <1>3, <1>4, AccUserIs DEF AccIInv

\* A request that is over.
LEMMA AccFinishKeeps ==
  ASSUME AccIInv, NEW c \in Callers, Account!Finish(c), users' = users,
         sessions' \in [People -> Nat], \A u \in People : sessions'[u] > 0 => users[u] # Absent,
         \A t \in tokens' :
           \/ t \in tokens
           \/ /\ accountJob[c].step = "issue"
              /\ t = [user |-> accountJob[c].user, roles |-> accountJob[c].read.roles, version |-> accountJob[c].read.version],
         accountHandled' = accountHandled, accountDisturbed' \in BOOLEAN,
         accountDisturbed => accountDisturbed', revived' = revived,
         ~accountDisturbed' =>
           \/ \A roles : ~AccTells(accountJob[c], roles)
           \/ \A roles : AccTells(accountJob[c], roles) =>
                AccSame(roles, users[accountJob[c].user].roles)
  PROVE  AccIInv'
<1>1. accountJob' = [accountJob EXCEPT ![c] = Account!Idle]
  BY DEF Account!Finish
<1>2. accountHandled' \in 0..Bounds.accounts
  BY DEF AccIInv, AccTInv
<1>3. Account!Idle.step # "issue"
  BY AccIdleIs
<1>4. ~AccAdministers(Account!Idle) /\ ~AccChecked(Account!Idle)
  BY AccIdleIs
<1> QED
  BY <1>1, <1>2, <1>3, <1>4, AccJobStepKeeps

LEMMA AccCheckKeeps ==
  ASSUME AccIInv, NEW c \in Callers, Account!Check(c)
  PROVE  AccIInv'
<1>1. /\ accountJob[c].step = "check"
      /\ UNCHANGED <<users, sessions, tokens, accountHandled, accountDisturbed, revived>>
  BY DEF Account!Check, Account!At
<1>2. /\ accountJob[c] \in AccJob /\ AccKind(accountJob[c]) /\ accountJob[c].user \in People
      /\ accountJob[c].step \in AccStepsOf[accountJob[c].command]
      /\ accountJob[c].command # "CREATE" => users[accountJob[c].user] # Absent
  BY <1>1, AccAtIs
<1>3. \A roles : ~AccTells(accountJob[c], roles)
  BY <1>1 DEF AccTells
<1>4. sessions' \in [People -> Nat] /\ \A u \in People : sessions'[u] > 0 => users[u] # Absent
  BY <1>1 DEF AccIInv, AccTInv, AccLInv
<1>5. accountDisturbed' \in BOOLEAN /\ accountHandled' \in 0..Bounds.accounts
  BY <1>1 DEF AccIInv, AccTInv
<1>6. \A t \in tokens' : t \in tokens
  BY <1>1
<1>7. CASE Account!Finish(c)
  BY <1>1, <1>3, <1>4, <1>5, <1>6, <1>7, AccFinishKeeps
<1>8. CASE Account!Go(c, "write") /\ ~\E role \in Account!ToCheck(accountJob[c]) :
             Account!Holders(role, People \ {accountJob[c].user}) # {}
  <2>1. PICK j \in AccJob :
          /\ accountJob' = [accountJob EXCEPT ![c] = j]
          /\ j.step = "write" /\ j.command = accountJob[c].command /\ j.user = accountJob[c].user
          /\ j.read = accountJob[c].read
          /\ j.add = accountJob[c].add
          /\ j.remove = accountJob[c].remove
          /\ j.active = accountJob[c].active
    BY <1>2, <1>8, AccGoIs DEF AccSteps, AccIInv
  <2>2. accountJob[c].command \in {"CREATE", "UPDATE", "PATCH"}
    BY <1>1, <1>2 DEF AccJob, Account!AdminCommands, AccStepsOf
  <2>3. AccKind(j) /\ (j.command # "CREATE" => users[j.user] # Absent)
    <3>1. "write" \in AccStepsOf[j.command]
      BY <2>1, <2>2 DEF AccStepsOf
    <3> QED
      BY <1>1, <1>2, <2>1, <3>1, AccKindGoes
  <2>4. ~accountDisturbed' /\ AccAdministers(j) =>
          \A d \in Callers \ {c} : ~AccAdministers(accountJob[d])
    <3>1. AccAdministers(accountJob[c])
      BY <1>1, <2>2 DEF AccAdministers, Account!AdminCommands
    <3> QED
      BY <1>1, <3>1 DEF AccIInv, AccOInv
  <2>5. ~accountDisturbed' => AccAgrees(j, users[j.user].roles)
    <3>1. ~accountDisturbed' => AccAgrees(accountJob[c], users[accountJob[c].user].roles)
      BY <1>1 DEF AccIInv, AccRInv
    <3> QED
      BY <1>1, <2>1, <3>1 DEF AccAgrees
  <2>6. \A role \in Account!ToCheck(j) \cap Roles, v \in People \ {j.user} : ~AccHeldBy(v, role)
    <3>1. Account!ToCheck(j) = Account!ToCheck(accountJob[c])
      BY <2>1 DEF Account!ToCheck
    <3> QED
      BY <1>8, <2>1, <3>1 DEF Account!Holders, AccHeldBy
  <2> QED
    BY <1>1, <1>3, <1>4, <1>5, <1>6, <2>1, <2>3, <2>4, <2>5, <2>6, AccJobStepKeeps
<1> QED
  BY <1>7, <1>8 DEF Account!Check

\* Nothing has changed in the end.
LEMMA AccUnchanged ==
  ASSUME AccIInv, NEW c \in Callers, ~accountDisturbed, accountJob[c].step = "compare",
         users[accountJob[c].user].roles = accountJob[c].read.roles, NEW roles,
         AccTells(accountJob[c], roles)
  PROVE  AccSame(roles, users[accountJob[c].user].roles)
<1>1. AccSame(users[accountJob[c].user].roles, (accountJob[c].read.roles \cup accountJob[c].add) \ accountJob[c].remove)
  BY DEF AccIInv, AccRInv, AccAgrees
<1>2. accountJob[c].command = "PATCH" /\ AccKind(accountJob[c])
  BY AccAtIs DEF AccStepsOf, AccJob, Account!AdminCommands
<1>3. accountJob[c].add \cap accountJob[c].remove = {}
  BY <1>2 DEF AccKind
<1>4. AccSame(roles, accountJob[c].read.roles) \/ AccSame(roles, accountJob[c].read.roles \cup accountJob[c].add)
  BY DEF AccTells
<1>5. AccSame(accountJob[c].read.roles, accountJob[c].read.roles \cup accountJob[c].add)
  BY <1>1, <1>3 DEF AccSame
<1> QED
  BY <1>4, <1>5 DEF AccSame

LEMMA AccCompareKeeps ==
  ASSUME AccIInv, NEW c \in Callers, Account!Compare(c)
  PROVE  AccIInv'
<1>1. /\ accountJob[c].step = "compare"
      /\ UNCHANGED <<users, sessions, tokens, accountHandled, accountDisturbed, revived>>
  BY DEF Account!Compare, Account!At
<1>2. /\ accountJob[c] \in AccJob /\ AccKind(accountJob[c]) /\ accountJob[c].user \in People
      /\ accountJob[c].step \in AccStepsOf[accountJob[c].command]
      /\ accountJob[c].command # "CREATE" => users[accountJob[c].user] # Absent
  BY <1>1, AccAtIs
<1>3. sessions' \in [People -> Nat] /\ \A u \in People : sessions'[u] > 0 => users[u] # Absent
  BY <1>1 DEF AccIInv, AccTInv, AccLInv
<1>4. accountDisturbed' \in BOOLEAN /\ accountHandled' \in 0..Bounds.accounts
  BY <1>1 DEF AccIInv, AccTInv
<1>5. \A t \in tokens' : t \in tokens
  BY <1>1
<1>6. CASE Account!Finish(c) /\ users[accountJob[c].user].roles = accountJob[c].read.roles
  <2>1. ~accountDisturbed' => \A roles : AccTells(accountJob[c], roles) =>
          AccSame(roles, users[accountJob[c].user].roles)
    BY <1>1, <1>6, AccUnchanged
  <2> QED
    BY <1>1, <1>3, <1>4, <1>5, <1>6, <2>1, AccFinishKeeps
<1>7. CASE Account!Go(c, "forget")
  <2>1. PICK j \in AccJob :
          /\ accountJob' = [accountJob EXCEPT ![c] = j]
          /\ j.step = "forget" /\ j.command = accountJob[c].command /\ j.user = accountJob[c].user
          /\ j.read = accountJob[c].read
          /\ j.add = accountJob[c].add
          /\ j.remove = accountJob[c].remove
          /\ j.active = accountJob[c].active
    BY <1>2, <1>7, AccGoIs DEF AccSteps, AccIInv
  <2>2. accountJob[c].command = "PATCH"
    BY <1>1, <1>2 DEF AccJob, Account!AdminCommands, AccStepsOf
  <2>3. AccKind(j) /\ (j.command # "CREATE" => users[j.user] # Absent)
    <3>1. "forget" \in AccStepsOf[j.command]
      BY <2>1, <2>2 DEF AccStepsOf
    <3> QED
      BY <1>1, <1>2, <2>1, <3>1, AccKindGoes
  <2>4. ~accountDisturbed' /\ AccAdministers(j) =>
          \A d \in Callers \ {c} : ~AccAdministers(accountJob[d])
    <3>1. AccAdministers(accountJob[c])
      BY <1>1, <2>2 DEF AccAdministers, Account!AdminCommands
    <3> QED
      BY <1>1, <3>1 DEF AccIInv, AccOInv
  <2>5. AccAgrees(j, users[j.user].roles) /\ ~AccChecked(j)
    BY <2>1 DEF AccAgrees, AccChecked
  <2> QED
    BY <1>1, <1>3, <1>4, <1>5, <2>1, <2>3, <2>4, <2>5, AccJobStepKeeps
<1> QED
  BY <1>6, <1>7 DEF Account!Compare, Account!Of

LEMMA AccForgetKeeps ==
  ASSUME AccIInv, NEW c \in Callers, Account!Forget(c)
  PROVE  AccIInv'
<1>1. /\ accountJob[c].step = "forget"
      /\ UNCHANGED <<users, tokens, accountHandled, accountDisturbed, revived>>
      /\ Account!Go(c, "bump")
  BY DEF Account!Forget, Account!At
<1>2. /\ accountJob[c] \in AccJob /\ AccKind(accountJob[c]) /\ accountJob[c].user \in People
      /\ accountJob[c].step \in AccStepsOf[accountJob[c].command]
      /\ accountJob[c].command # "CREATE" => users[accountJob[c].user] # Absent
  BY <1>1, AccAtIs
<1>3. sessions' \in [People -> Nat] /\ \A u \in People : sessions'[u] > 0 => users[u] # Absent
  <2>1. sessions \in [People -> Nat] /\ sessions' = [sessions EXCEPT ![accountJob[c].user] = 0]
    BY DEF Account!Forget, AccIInv, AccTInv
  <2>2. \A u \in People : sessions[u] > 0 => users[u] # Absent
    BY DEF AccIInv, AccLInv
  <2> QED
    BY <1>2, <2>1, <2>2
<1>4. accountDisturbed' \in BOOLEAN /\ accountHandled' \in 0..Bounds.accounts
  BY <1>1 DEF AccIInv, AccTInv
<1>5. \A t \in tokens' : t \in tokens
  BY <1>1
<1>6. PICK j \in AccJob :
        /\ accountJob' = [accountJob EXCEPT ![c] = j]
        /\ j.step = "bump" /\ j.command = accountJob[c].command /\ j.user = accountJob[c].user
        /\ j.read = accountJob[c].read /\ j.add = accountJob[c].add /\ j.remove = accountJob[c].remove
        /\ j.active = accountJob[c].active
  BY <1>1, <1>2, AccGoIs DEF AccSteps, AccIInv
<1>7. accountJob[c].command \in {"UPDATE", "PATCH", "DELETE", "PASSWORD"}
  BY <1>1, <1>2 DEF AccJob, Account!AdminCommands, AccStepsOf
<1>8. AccKind(j) /\ (j.command # "CREATE" => users[j.user] # Absent)
  <2>1. "bump" \in AccStepsOf[j.command]
    BY <1>6, <1>7 DEF AccStepsOf
  <2> QED
    BY <1>1, <1>2, <1>6, <2>1, AccKindGoes
<1>9. ~accountDisturbed' /\ AccAdministers(j) =>
        \A d \in Callers \ {c} : ~AccAdministers(accountJob[d])
  <2>1. AccAdministers(accountJob[c])
    BY <1>1, <1>7 DEF AccAdministers, Account!AdminCommands
  <2> QED
    BY <1>1, <2>1 DEF AccIInv, AccOInv
<1>10. AccAgrees(j, users[j.user].roles) /\ ~AccChecked(j)
  BY <1>6 DEF AccAgrees, AccChecked
<1> QED
  BY <1>1, <1>3, <1>4, <1>5, <1>6, <1>8, <1>9, <1>10, AccJobStepKeeps

LEMMA AccCutOffKeeps ==
  ASSUME AccIInv, NEW c \in Callers, Account!CutOff(c)
  PROVE  AccIInv'
<1>1. /\ Account!Finish(c)
      /\ accountDisturbed' = TRUE
      /\ UNCHANGED <<users, sessions, tokens, accountHandled, revived>>
  BY DEF Account!CutOff
<1>2. sessions' \in [People -> Nat] /\ \A u \in People : sessions'[u] > 0 => users[u] # Absent
  BY <1>1 DEF AccIInv, AccTInv, AccLInv
<1>3. \A t \in tokens' : t \in tokens
  BY <1>1
<1> QED
  BY <1>1, <1>2, <1>3, AccFinishKeeps

LEMMA AccFindForRefreshKeeps ==
  ASSUME AccIInv, NEW c \in Callers, Account!FindForRefresh(c)
  PROVE  AccIInv'
<1>1. /\ accountJob[c].step = "find"
      /\ UNCHANGED <<users, sessions, tokens, accountHandled, accountDisturbed, revived>>
  BY DEF Account!FindForRefresh, Account!At
<1>2. /\ accountJob[c] \in AccJob
      /\ accountJob[c].user \in People
      /\ accountJob[c].step \in AccStepsOf[accountJob[c].command]
  BY <1>1, AccAtIs
<1>3. accountJob[c].command = "REFRESH"
  BY <1>1, <1>2 DEF AccJob, Account!AdminCommands, AccStepsOf
<1>4. users[accountJob[c].user] # Absent /\ users[accountJob[c].user] \in AccHeld
  BY <1>1, <1>3, AccAtIs
<1>5. sessions' \in [People -> Nat] /\ \A u \in People : sessions'[u] > 0 => users[u] # Absent
  BY <1>1 DEF AccIInv, AccTInv, AccLInv
<1>6. accountDisturbed' \in BOOLEAN /\ accountHandled' \in 0..Bounds.accounts
  BY <1>1 DEF AccIInv, AccTInv
<1>7. \A t \in tokens' : t \in tokens
  BY <1>1
<1>8. \A roles : ~AccTells(accountJob[c], roles)
  BY <1>1 DEF AccTells
<1>9. CASE Account!Finish(c)
  BY <1>1, <1>5, <1>6, <1>7, <1>8, <1>9, AccFinishKeeps
<1>10. CASE accountJob' = [accountJob EXCEPT ![c].step = "issue", ![c].read = Account!Of(c)]
  <2> DEFINE j == [accountJob[c] EXCEPT !.step = "issue", !.read = users[accountJob[c].user]]
  <2>1. accountJob' = [accountJob EXCEPT ![c] = j]
    BY <1>10 DEF Account!Of, AccIInv, AccTInv
  <2>2. /\ j.step = "issue" /\ j.command = "REFRESH" /\ j.user = accountJob[c].user
        /\ j.read = users[accountJob[c].user]
    BY <1>2, <1>3 DEF AccJob
  <2>3. j \in AccJob
    BY <1>2, <1>4 DEF AccJob, AccSteps
  <2> HIDE DEF j
  <2>4. AccKind(j)
    BY <1>4, <2>2 DEF AccKind, AccStepsOf
  <2>5. ~AccAdministers(j) /\ ~AccChecked(j) /\ AccAgrees(j, users[j.user].roles)
    BY <2>2 DEF AccAdministers, Account!AdminCommands, AccChecked, AccAgrees
  <2> QED
    BY <1>1, <1>4, <1>5, <1>6, <1>7, <1>8, <2>1, <2>2, <2>3, <2>4, <2>5, AccJobStepKeeps
<1> QED
  BY <1>9, <1>10 DEF Account!FindForRefresh

LEMMA AccIssueKeeps ==
  ASSUME AccIInv, NEW c \in Callers, Account!Issue(c)
  PROVE  AccIInv'
<1>1. /\ accountJob[c].step = "issue"
      /\ UNCHANGED <<users, accountHandled, accountDisturbed, revived>>
      /\ Account!Finish(c)
  BY DEF Account!Issue, Account!At
<1>2. /\ accountJob[c] \in AccJob
      /\ accountJob[c].user \in People
      /\ accountJob[c].step \in AccStepsOf[accountJob[c].command]
  BY <1>1, AccAtIs
<1>3. accountJob[c].command # "CREATE"
  BY <1>1, <1>2 DEF AccStepsOf
<1>4. users[accountJob[c].user] # Absent
  BY <1>1, <1>3, AccAtIs
<1>5. sessions' \in [People -> Nat] /\ \A u \in People : sessions'[u] > 0 => users[u] # Absent
  <2>1. sessions \in [People -> Nat] /\ sessions' = [sessions EXCEPT ![accountJob[c].user] = @ + 1]
    BY DEF Account!Issue, AccIInv, AccTInv
  <2>2. \A u \in People : sessions[u] > 0 => users[u] # Absent
    BY DEF AccIInv, AccLInv
  <2> QED
    BY <1>2, <1>4, <2>1, <2>2
<1>6. accountDisturbed' \in BOOLEAN
  BY <1>1 DEF AccIInv, AccTInv
<1>7. \A t \in tokens' :
        \/ t \in tokens
        \/ t = [user |-> accountJob[c].user, roles |-> accountJob[c].read.roles, version |-> accountJob[c].read.version]
  BY DEF Account!Issue
<1>8. \A roles : ~AccTells(accountJob[c], roles)
  BY <1>1 DEF AccTells
<1> QED
  BY <1>1, <1>5, <1>6, <1>7, <1>8, AccFinishKeeps

-------------------------------------------------------------------------------
\* While one administrator's request works, the others log in and refresh.
LEMMA AccAlone ==
  ASSUME AccIInv, ~accountDisturbed, NEW c \in Callers, AccAdministers(accountJob[c]),
         NEW d \in Callers, d # c
  PROVE  accountJob[d].step \in {"idle", "issue", "find"}
<1>1. ~AccAdministers(accountJob[d])
  BY DEF AccIInv, AccOInv
<1>2. CASE accountJob[d].step # "idle"
  <2>1. accountJob[d] \in AccJob /\ accountJob[d].step \in AccStepsOf[accountJob[d].command]
    BY <1>2, AccAtIs
  <2>2. accountJob[d].command \in {"LOGIN", "REFRESH"}
    BY <1>1, <1>2, <2>1 DEF AccAdministers, AccJob
  <2> QED
    BY <2>1, <2>2 DEF AccStepsOf
<1> QED
  BY <1>2

\* A step of an administrator's request that writes the account.
LEMMA AccWriterKeeps ==
  ASSUME AccIInv, NEW c \in Callers, AccAdministers(accountJob[c]),
         NEW j \in AccJob \cup {Account!Idle}, NEW a \in AccHeld,
         accountJob' = [accountJob EXCEPT ![c] = j],
         users' = [users EXCEPT ![accountJob[c].user] = a],
         UNCHANGED <<sessions, tokens, accountHandled, accountDisturbed>>,
         revived' \in BOOLEAN, revived => revived',
         j # Account!Idle => /\ AccKind(j) /\ j.user = accountJob[c].user
                     /\ j.step \in {"pull", "compare", "forget", "bump"},
         users[accountJob[c].user] # Absent =>
           a.version \in Nat /\ a.version >= users[accountJob[c].user].version,
         ~accountDisturbed /\ j # Account!Idle => AccAgrees(j, a.roles),
         ~accountDisturbed /\ ~revived' /\ a.active =>
           \A role \in a.roles \cap Roles, v \in People \ {accountJob[c].user} : ~AccHeldBy(v, role),
         ~accountDisturbed /\ users[accountJob[c].user] # Absent /\ a.version = users[accountJob[c].user].version =>
           \A roles :
             AccSame(roles, users[accountJob[c].user].roles) \/ AccTells(accountJob[c], roles) =>
             AccSame(roles, a.roles) \/ AccTells(j, roles)
  PROVE  AccIInv'
<1> DEFINE u == accountJob[c].user
<1>1. accountJob[c].step # "idle"
  BY DEF AccAdministers
<1>2. u \in People /\ accountJob[c] \in AccJob
  BY <1>1, AccAtIs
<1>3. /\ users \in [People -> AccHeld \cup {Absent}]
      /\ accountJob \in [Callers -> AccJob \cup {Account!Idle}]
  BY DEF AccIInv, AccTInv
<1>4. users'[u] = a /\ \A v \in People \ {u} : users'[v] = users[v]
  BY <1>2, <1>3
<1>5. accountJob'[c] = j /\ \A d \in Callers \ {c} : accountJob'[d] = accountJob[d]
  BY <1>3
<1>6. a # Absent
  BY AccountsAssumption DEF AccHeld
<1>7. \A v \in People : users[v] # Absent => users'[v] # Absent
  BY <1>4, <1>6
<1>8. AccTInv'
  <2>1. users' \in [People -> AccHeld \cup {Absent}]
    BY <1>3
  <2>2. accountJob' \in [Callers -> AccJob \cup {Account!Idle}]
    BY <1>3
  <2> QED
    BY <2>1, <2>2 DEF AccIInv, AccTInv
<1> HIDE DEF u
<1>9. ASSUME NEW d \in Callers, accountJob[d].step # "idle" PROVE accountJob[d].user \in People
  BY <1>9, AccAtIs
<1>10. AccKInv'
  <2> SUFFICES ASSUME NEW d \in Callers, accountJob'[d].step # "idle"
      PROVE  /\ AccKind(accountJob'[d])
             /\ (accountJob'[d].command # "CREATE" => users'[accountJob'[d].user] # Absent)
    BY DEF AccKInv, AccKind
  <2>1. CASE d = c
    <3>1. j # Account!Idle
      BY <1>5, <2>1, AccIdleIs
    <3> QED
      BY <1>4, <1>5, <1>6, <2>1, <3>1 DEF u
  <2>2. CASE d # c
    BY <1>5, <1>7, <1>9, <2>2 DEF AccIInv, AccKInv
  <2> QED
    BY <2>1, <2>2
<1>11. AccLInv'
  <2>1. \A t \in tokens : t.user \in People
    BY DEF AccIInv, AccTInv
  <2> QED
    BY <1>7, <2>1 DEF AccIInv, AccLInv
<1>12. AccOInv'
  <2> SUFFICES ASSUME ~accountDisturbed, NEW d \in Callers, NEW e \in Callers,
                      AccAdministers(accountJob'[d]), AccAdministers(accountJob'[e])
      PROVE  d = e
    BY DEF AccOInv, AccAdministers
  <2>1. \A f \in Callers \ {c} : ~AccAdministers(accountJob[f])
    BY DEF AccIInv, AccOInv
  <2> QED
    BY <1>5, <2>1
<1>13. ASSUME ~accountDisturbed, NEW d \in Callers, d # c
       PROVE  accountJob'[d] = accountJob[d] /\ accountJob[d].step \in {"idle", "issue", "find"}
  BY <1>5, <1>13, AccAlone
<1>14. AccRInv'
  <2> SUFFICES ASSUME ~accountDisturbed, NEW d \in Callers
      PROVE  AccAgrees(accountJob'[d], users'[accountJob'[d].user].roles)
    BY DEF AccRInv, AccAgrees, AccSame
  <2>1. CASE d = c /\ j = Account!Idle
    BY <1>5, <2>1, AccIdleIs
  <2>2. CASE d = c /\ j # Account!Idle
    BY <1>4, <1>5, <2>2 DEF u
  <2>3. CASE d # c
    BY <1>13, <2>3 DEF AccAgrees
  <2> QED
    BY <2>1, <2>2, <2>3
<1>15. AccCInv'
  <2> SUFFICES ASSUME ~accountDisturbed, NEW d \in Callers
      PROVE  ~AccChecked(accountJob'[d])
    BY DEF AccCInv, AccChecked, Account!ToCheck, AccHeldBy
  <2>1. CASE d = c /\ j = Account!Idle
    BY <1>5, <2>1, AccIdleIs
  <2>2. CASE d = c /\ j # Account!Idle
    BY <1>5, <2>2 DEF AccChecked
  <2>3. CASE d # c
    BY <1>13, <2>3 DEF AccChecked
  <2> QED
    BY <2>1, <2>2, <2>3
<1>16. AccUInv'
  <2> SUFFICES ASSUME ~accountDisturbed, ~revived', NEW role \in Roles, NEW v \in People,
                      NEW w \in People,
                      users'[v] # Absent /\ users'[v].active /\ role \in users'[v].roles,
                      users'[w] # Absent /\ users'[w].active /\ role \in users'[w].roles
      PROVE  v = w
    BY DEF AccUInv, AccHeldBy
  <2>1. CASE v # u /\ w # u
    <3>1. AccHeldBy(v, role) /\ AccHeldBy(w, role)
      BY <1>4, <2>1 DEF AccHeldBy
    <3> QED
      BY <3>1 DEF AccIInv, AccUInv
  <2>2. ASSUME NEW x \in People, x # u, AccHeldBy(x, role), a.active, role \in a.roles PROVE FALSE
    BY <2>2 DEF u
  <2>3. CASE v = u /\ w # u
    <3>1. AccHeldBy(w, role) /\ a.active /\ role \in a.roles
      BY <1>4, <2>3 DEF AccHeldBy
    <3> QED
      BY <2>2, <2>3, <3>1
  <2>4. CASE w = u /\ v # u
    <3>1. AccHeldBy(v, role) /\ a.active /\ role \in a.roles
      BY <1>4, <2>4 DEF AccHeldBy
    <3> QED
      BY <2>2, <2>4, <3>1
  <2> QED
    BY <2>1, <2>3, <2>4
<1>17. ASSUME NEW v \in People, NEW roles, NEW version \in Nat, users[v] # Absent,
              AccSnap(v, roles, version)
       PROVE  /\ version <= users'[v].version
              /\ ~accountDisturbed' /\ version = users'[v].version =>
                   \/ AccSame(roles, users'[v].roles)
                   \/ \E d \in Callers : accountJob'[d].user = v /\ AccTells(accountJob'[d], roles)
  <2>1. users[v] \in AccHeld
    BY <1>17, AccUserIs DEF AccIInv
  <2>2. version <= users'[v].version
    <3>1. CASE v = u
      BY <1>4, <1>17, <2>1, <3>1 DEF u, AccSnap, AccHeld
    <3>2. CASE v # u
      BY <1>4, <1>17, <3>2 DEF AccSnap
    <3> QED
      BY <3>1, <3>2
  <2>3. SUFFICES ASSUME ~accountDisturbed, version = users'[v].version,
                        ~AccSame(roles, users'[v].roles)
        PROVE  \E d \in Callers : accountJob'[d].user = v /\ AccTells(accountJob'[d], roles)
    BY <2>2
  <2>4. version = users[v].version
    <3>1. CASE v = u
      BY <1>4, <1>17, <2>1, <2>3, <3>1 DEF u, AccSnap, AccHeld
    <3>2. CASE v # u
      BY <1>4, <2>3, <3>2
    <3> QED
      BY <3>1, <3>2
  <2>5. ASSUME ~AccSame(roles, users[v].roles) PROVE v = u /\ AccTells(accountJob[c], roles)
    <3>1. PICK d \in Callers : accountJob[d].user = v /\ AccTells(accountJob[d], roles)
      BY <1>17, <2>3, <2>4, <2>5 DEF AccSnap
    <3>2. d = c
      BY <1>13, <2>3, <3>1 DEF AccTells
    <3> QED
      BY <3>1, <3>2 DEF u
  <2>6. v = u
    BY <1>4, <2>3, <2>5
  <2>7. AccTells(j, roles)
    BY <1>4, <1>17, <2>3, <2>4, <2>5, <2>6 DEF u
  <2>8. j.user = u
    BY <2>7, AccIdleIs DEF u
  <2> QED
    BY <1>5, <2>6, <2>7, <2>8
<1>18. AccSInv'
  <2>1. ASSUME NEW t \in tokens
        PROVE  /\ t.version <= users'[t.user].version
               /\ ~accountDisturbed' /\ t.version = users'[t.user].version =>
                    \/ AccSame(t.roles, users'[t.user].roles)
                    \/ \E d \in Callers :
                         accountJob'[d].user = t.user /\ AccTells(accountJob'[d], t.roles)
    <3>1. t.user \in People /\ t.version \in Nat /\ users[t.user] # Absent
      BY DEF AccIInv, AccTInv, AccLInv
    <3>2. AccSnap(t.user, t.roles, t.version)
      BY DEF AccIInv, AccSInv
    <3> QED
      BY <3>1, <3>2, <1>17
  <2>2. ASSUME NEW d \in Callers, accountJob'[d].step = "issue"
        PROVE  /\ accountJob'[d].read.version <= users'[accountJob'[d].user].version
               /\ ~accountDisturbed' /\ accountJob'[d].read.version = users'[accountJob'[d].user].version =>
                    \/ AccSame(accountJob'[d].read.roles, users'[accountJob'[d].user].roles)
                    \/ \E e \in Callers : accountJob'[e].user = accountJob'[d].user /\ AccTells(accountJob'[e], accountJob'[d].read.roles)
    <3>1. d # c
      BY <1>5, <2>2, AccIdleIs
    <3>2. accountJob'[d] = accountJob[d] /\ accountJob[d].step = "issue"
      BY <1>5, <2>2, <3>1
    <3>3. /\ accountJob[d] \in AccJob /\ AccKind(accountJob[d]) /\ accountJob[d].user \in People
          /\ accountJob[d].step \in AccStepsOf[accountJob[d].command]
          /\ accountJob[d].command # "CREATE" => users[accountJob[d].user] # Absent
      BY <3>2, AccAtIs
    <3>4. accountJob[d].command # "CREATE" /\ accountJob[d].read \in AccHeld
      BY <3>2, <3>3 DEF AccKind, AccStepsOf
    <3>5. accountJob[d].read.version \in Nat
      BY <3>4 DEF AccHeld
    <3>6. AccSnap(accountJob[d].user, accountJob[d].read.roles, accountJob[d].read.version)
      BY <3>2 DEF AccIInv, AccSInv
    <3> QED
      BY <3>2, <3>3, <3>4, <3>5, <3>6, <1>17
  <2> QED
    BY <2>1, <2>2 DEF AccSInv, AccSnap, AccTells, AccSame
<1> QED
  BY <1>8, <1>10, <1>11, <1>12, <1>14, <1>15, <1>16, <1>18 DEF AccIInv

LEMMA AccWriteCreateKeeps ==
  ASSUME AccIInv, NEW c \in Callers, Account!WriteCreate(c)
  PROVE  AccIInv'
<1> DEFINE u == accountJob[c].user
<1>1. /\ accountJob[c].step = "write" /\ accountJob[c].command = "CREATE" /\ Account!Finish(c)
      /\ UNCHANGED <<sessions, tokens, accountHandled, accountDisturbed, revived>>
      /\ users' = [users EXCEPT ![u] = IF users[u] = Absent THEN Account!NewAccount(accountJob[c].add) ELSE users[u]]
  BY DEF Account!WriteCreate, Account!At
<1>2. accountJob[c] \in AccJob /\ AccKind(accountJob[c]) /\ u \in People
  BY <1>1, AccAtIs
<1>3. accountJob[c].add \in SUBSET Roles
  BY <1>1, <1>2 DEF AccKind
<1>4. users \in [People -> AccHeld \cup {Absent}]
  BY DEF AccIInv, AccTInv
<1>5. CASE users[u] # Absent
  <2>1. users' = users
    BY <1>1, <1>2, <1>4, <1>5
  <2>2. \A roles : ~AccTells(accountJob[c], roles)
    BY <1>1 DEF AccTells
  <2>3. sessions' \in [People -> Nat] /\ \A v \in People : sessions'[v] > 0 => users[v] # Absent
    BY <1>1 DEF AccIInv, AccTInv, AccLInv
  <2>4. accountDisturbed' \in BOOLEAN
    BY <1>1 DEF AccIInv, AccTInv
  <2>5. \A t \in tokens' : t \in tokens
    BY <1>1
  <2> QED
    BY <1>1, <2>1, <2>2, <2>3, <2>4, <2>5, AccFinishKeeps
<1>6. CASE users[u] = Absent
  <2> DEFINE a == Account!NewAccount(accountJob[c].add)
  <2>1. users' = [users EXCEPT ![u] = a]
    BY <1>1, <1>6
  <2>2. a \in AccHeld /\ a.roles = accountJob[c].add
    BY <1>3 DEF Account!NewAccount, AccHeld, Account!Authorities
  <2> HIDE DEF a
  <2>3. AccAdministers(accountJob[c])
    BY <1>1 DEF AccAdministers, Account!AdminCommands
  <2>4. accountJob' = [accountJob EXCEPT ![c] = Account!Idle]
    BY <1>1 DEF Account!Finish
  <2>5. ~accountDisturbed => \A role \in a.roles \cap Roles, v \in People \ {u} : ~AccHeldBy(v, role)
    <3>1. accountJob[c].add # None
      BY <1>3, AccountsAssumption DEF Account!Authorities
    <3>2. AccChecked(accountJob[c]) /\ Account!ToCheck(accountJob[c]) = accountJob[c].add
      BY <1>1, <3>1 DEF AccChecked, Account!ToCheck
    <3> QED
      BY <2>2, <3>2 DEF AccIInv, AccCInv
  <2>6. revived' \in BOOLEAN /\ (revived => revived')
    BY <1>1 DEF AccIInv, AccTInv
  <2> QED
    BY <1>1, <1>6, <2>1, <2>2, <2>3, <2>4, <2>5, <2>6, AccWriterKeeps
<1> QED
  BY <1>5, <1>6

LEMMA AccWriteUpdateKeeps ==
  ASSUME AccIInv, NEW c \in Callers, Account!WriteUpdate(c)
  PROVE  AccIInv'
<1> DEFINE u == accountJob[c].user
           old == users[accountJob[c].user]
           add == accountJob[c].add
           a == [old EXCEPT !.roles = IF add = None THEN @ ELSE add,
                            !.active = IF accountJob[c].active = None THEN @
                              ELSE accountJob[c].active]
<1>1. /\ accountJob[c].step = "write" /\ accountJob[c].command = "UPDATE"
      /\ UNCHANGED <<sessions, tokens, accountHandled, accountDisturbed>>
      /\ revived' = (revived \/ (accountJob[c].active = TRUE /\ ~old.active))
      /\ IF Account!RolesChanged(accountJob[c]) THEN Account!Go(c, "forget") ELSE Account!Finish(c)
  BY DEF Account!WriteUpdate, Account!At, Account!Of
<1>2. /\ accountJob[c] \in AccJob /\ AccKind(accountJob[c]) /\ u \in People
      /\ accountJob[c].step \in AccStepsOf[accountJob[c].command]
      /\ users[u] # Absent /\ old \in AccHeld
  BY <1>1, AccAtIs
<1>3. users' = [users EXCEPT ![u] = a]
  BY <1>2 DEF Account!WriteUpdate, AccIInv, AccTInv
<1>4. add \in (SUBSET Account!Authorities) \cup {None} /\ accountJob[c].active \in BOOLEAN \cup {None}
  BY <1>2 DEF AccJob
<1>5. accountJob[c].read \in AccHeld
  BY <1>1, <1>2 DEF AccKind
<1>6. a \in AccHeld
  BY <1>2, <1>4 DEF AccHeld
<1>7. /\ a.roles = IF add = None THEN old.roles ELSE add
      /\ a.version = old.version /\ old.version \in Nat
  BY <1>2 DEF AccHeld
<1>8. a.active => accountJob[c].active = TRUE \/ old.active
  <2>1. a.active = IF accountJob[c].active = None THEN old.active ELSE accountJob[c].active
    BY <1>2 DEF AccHeld
  <2> QED
    BY <1>4, <2>1
<1> HIDE DEF a
<1>9. AccAdministers(accountJob[c])
  BY <1>1 DEF AccAdministers, Account!AdminCommands
<1>10. revived' \in BOOLEAN /\ (revived => revived')
  BY <1>1
<1>11. ~accountDisturbed => AccSame(old.roles, accountJob[c].read.roles)
  BY <1>1 DEF AccIInv, AccRInv, AccAgrees
<1>12. ~accountDisturbed /\ ~revived' /\ a.active =>
         \A role \in a.roles \cap Roles, v \in People \ {u} : ~AccHeldBy(v, role)
  <2> SUFFICES ASSUME ~accountDisturbed, ~revived', a.active, NEW role \in a.roles \cap Roles,
                      NEW v \in People \ {u}, AccHeldBy(v, role)
      PROVE  FALSE
    OBVIOUS
  <2>1. ~revived /\ old.active
    BY <1>1, <1>8
  <2>2. role \notin old.roles
    BY <1>2, <2>1 DEF AccHeldBy, AccIInv, AccUInv
  <2>3. add # None /\ role \in add
    BY <1>7, <2>2
  <2>4. role \notin accountJob[c].read.roles
    BY <1>11, <2>2, AccountsAssumption DEF AccSame
  <2>5. AccChecked(accountJob[c]) /\ role \in Account!ToCheck(accountJob[c])
    BY <1>1, <2>3, <2>4 DEF AccChecked, Account!ToCheck
  <2> QED
    BY <2>5 DEF AccIInv, AccCInv
<1>13. a.version \in Nat /\ a.version >= users[accountJob[c].user].version
  BY <1>7
<1>14. CASE Account!Go(c, "forget")
  <2>1. PICK j \in AccJob :
          /\ accountJob' = [accountJob EXCEPT ![c] = j]
          /\ j.step = "forget" /\ j.command = accountJob[c].command /\ j.user = accountJob[c].user
          /\ j.read = accountJob[c].read
          /\ j.add = accountJob[c].add
          /\ j.remove = accountJob[c].remove
          /\ j.active = accountJob[c].active
    BY <1>2, <1>14, AccGoIs DEF AccSteps, AccIInv
  <2>2. AccKind(j)
    <3>1. "forget" \in AccStepsOf[j.command]
      BY <1>1, <2>1 DEF AccStepsOf
    <3> QED
      BY <1>1, <1>2, <2>1, <3>1, AccKindGoes
  <2>3. \A roles : AccTells(j, roles) /\ AccAgrees(j, a.roles)
    BY <2>1 DEF AccTells, AccAgrees
  <2> QED
    BY <1>1, <1>3, <1>6, <1>9, <1>10, <1>12, <1>13, <2>1, <2>2, <2>3, AccWriterKeeps
<1>15. CASE Account!Finish(c) /\ ~Account!RolesChanged(accountJob[c])
  <2>1. accountJob' = [accountJob EXCEPT ![c] = Account!Idle]
    BY <1>15 DEF Account!Finish
  <2>2. ~accountDisturbed => AccSame(old.roles, a.roles)
    BY <1>7, <1>11, <1>15 DEF Account!RolesChanged, AccSame
  <2>3. ~accountDisturbed =>
          \A roles : AccSame(roles, old.roles) \/ AccTells(accountJob[c], roles) =>
            AccSame(roles, a.roles)
    BY <1>1, <2>2 DEF AccSame, AccTells
  <2> QED
    BY <1>1, <1>3, <1>6, <1>9, <1>10, <1>12, <1>13, <2>1, <2>3, AccWriterKeeps
<1> QED
  BY <1>1, <1>14, <1>15

LEMMA AccWriteOtherKeeps ==
  ASSUME AccIInv, NEW c \in Callers, Account!WriteOther(c)
  PROVE  AccIInv'
<1> DEFINE u == accountJob[c].user
           old == users[accountJob[c].user]
           a == [old EXCEPT !.active = IF accountJob[c].active = None THEN @ ELSE FALSE]
<1>1. /\ accountJob[c].step = "write"
      /\ accountJob[c].command \in {"DELETE", "PASSWORD"}
      /\ Account!Go(c, "forget")
      /\ UNCHANGED <<sessions, tokens, accountHandled, accountDisturbed, revived>>
  BY DEF Account!WriteOther, Account!At
<1>2. /\ accountJob[c] \in AccJob /\ AccKind(accountJob[c]) /\ u \in People
      /\ users[u] # Absent /\ old \in AccHeld
  BY <1>1, AccAtIs
<1>3. users' = [users EXCEPT ![u] = a]
  BY <1>2 DEF Account!WriteOther, AccIInv, AccTInv
<1>4. a \in AccHeld
  BY <1>2 DEF AccHeld
<1>5. a.roles = old.roles /\ a.version = old.version /\ old.version \in Nat
  BY <1>2 DEF AccHeld
<1>6. a.active => old.active
  BY <1>2 DEF AccHeld
<1> HIDE DEF a
<1>7. AccAdministers(accountJob[c])
  BY <1>1 DEF AccAdministers, Account!AdminCommands
<1>8. revived' \in BOOLEAN /\ (revived => revived')
  BY <1>1 DEF AccIInv, AccTInv
<1>9. ~accountDisturbed /\ ~revived' /\ a.active =>
        \A role \in a.roles \cap Roles, v \in People \ {u} : ~AccHeldBy(v, role)
  BY <1>1, <1>2, <1>5, <1>6 DEF AccHeldBy, AccIInv, AccUInv
<1>10. PICK j \in AccJob :
          /\ accountJob' = [accountJob EXCEPT ![c] = j]
          /\ j.step = "forget" /\ j.command = accountJob[c].command /\ j.user = accountJob[c].user
          /\ j.read = accountJob[c].read
          /\ j.add = accountJob[c].add
          /\ j.remove = accountJob[c].remove
          /\ j.active = accountJob[c].active
  BY <1>1, <1>2, AccGoIs DEF AccSteps, AccIInv
<1>11. AccKind(j)
  <2>1. "forget" \in AccStepsOf[j.command]
    BY <1>1, <1>10 DEF AccStepsOf
  <2> QED
    BY <1>1, <1>2, <1>10, <2>1, AccKindGoes
<1>12. \A roles : AccTells(j, roles) /\ AccAgrees(j, a.roles)
  BY <1>10 DEF AccTells, AccAgrees
<1>13. a.version \in Nat /\ a.version >= users[accountJob[c].user].version
  BY <1>5
<1> QED
  BY <1>1, <1>3, <1>4, <1>7, <1>8, <1>9, <1>10, <1>11, <1>12, <1>13, AccWriterKeeps

LEMMA AccBumpKeeps ==
  ASSUME AccIInv, NEW c \in Callers, Account!Bump(c)
  PROVE  AccIInv'
<1> DEFINE u == accountJob[c].user
           old == users[accountJob[c].user]
           a == [old EXCEPT !.version = @ + 1]
<1>1. /\ accountJob[c].step = "bump" /\ Account!Finish(c)
      /\ UNCHANGED <<sessions, tokens, accountHandled, accountDisturbed, revived>>
  BY DEF Account!Bump, Account!At
<1>2. /\ accountJob[c] \in AccJob
      /\ u \in People
      /\ accountJob[c].step \in AccStepsOf[accountJob[c].command]
      /\ accountJob[c].command # "CREATE" => users[u] # Absent /\ old \in AccHeld
  BY <1>1, AccAtIs
<1>3. accountJob[c].command \in {"UPDATE", "PATCH", "DELETE", "PASSWORD"}
  BY <1>1, <1>2 DEF AccJob, Account!AdminCommands, AccStepsOf
<1>4. users[u] # Absent /\ old \in AccHeld
  BY <1>2, <1>3
<1>5. users' = [users EXCEPT ![u] = a]
  BY <1>2 DEF Account!Bump, AccIInv, AccTInv
<1>6. a \in AccHeld
  BY <1>4 DEF AccHeld
<1>7. a.roles = old.roles /\ a.version = old.version + 1 /\ old.version \in Nat
  BY <1>4 DEF AccHeld
<1>8. a.active => old.active
  BY <1>4 DEF AccHeld
<1> HIDE DEF a
<1>9. AccAdministers(accountJob[c])
  BY <1>1, <1>3 DEF AccAdministers, Account!AdminCommands
<1>10. revived' \in BOOLEAN /\ (revived => revived')
  BY <1>1 DEF AccIInv, AccTInv
<1>11. ~accountDisturbed /\ ~revived' /\ a.active =>
         \A role \in a.roles \cap Roles, v \in People \ {u} : ~AccHeldBy(v, role)
  BY <1>1, <1>2, <1>4, <1>7, <1>8 DEF AccHeldBy, AccIInv, AccUInv
<1>12. accountJob' = [accountJob EXCEPT ![c] = Account!Idle]
  BY <1>1 DEF Account!Finish
<1>13. a.version \in Nat /\ a.version >= old.version /\ a.version # old.version
  BY <1>7
<1> QED
  BY <1>1, <1>5, <1>6, <1>9, <1>10, <1>11, <1>12, <1>13, AccWriterKeeps

\* Authorities added or taken away; those added were checked.
LEMMA AccWritePatchKeeps ==
  ASSUME AccIInv, NEW c \in Callers, Account!WritePatch(c)
  PROVE  AccIInv'
<1> DEFINE u == accountJob[c].user
           old == users[accountJob[c].user]
           add == accountJob[c].add
           remove == accountJob[c].remove
           roles0 == IF add # {} THEN old.roles \cup add ELSE old.roles \ remove
           a == [old EXCEPT !.roles = roles0]
<1>1. /\ accountJob[c].step = "write" /\ accountJob[c].command = "PATCH"
      /\ UNCHANGED <<sessions, tokens, accountHandled, accountDisturbed, revived>>
      /\ IF add # {} /\ remove # {} THEN Account!Go(c, "pull") ELSE Account!Go(c, "compare")
  BY DEF Account!WritePatch, Account!At
<1>2. /\ accountJob[c] \in AccJob /\ AccKind(accountJob[c]) /\ u \in People
      /\ users[u] # Absent /\ old \in AccHeld
  BY <1>1, AccAtIs
<1>3. users' = [users EXCEPT ![u] = a]
  BY <1>2 DEF Account!WritePatch, AccIInv, AccTInv
<1>4. /\ add \in SUBSET Roles /\ remove \in SUBSET Roles /\ add \cap remove = {}
      /\ accountJob[c].read \in AccHeld
  BY <1>1, <1>2 DEF AccKind
<1>5. roles0 \in SUBSET Account!Authorities
  BY <1>2, <1>4 DEF AccHeld, Account!Authorities
<1> HIDE DEF roles0
<1>6. a \in AccHeld
  BY <1>2, <1>5 DEF AccHeld
<1>7. /\ a.roles = roles0 /\ a.active = old.active
      /\ a.version = old.version /\ old.version \in Nat
  BY <1>2 DEF AccHeld
<1> HIDE DEF a
<1>8. AccAdministers(accountJob[c])
  BY <1>1 DEF AccAdministers, Account!AdminCommands
<1>9. revived' \in BOOLEAN /\ (revived => revived')
  BY <1>1 DEF AccIInv, AccTInv
<1>10. ~accountDisturbed => AccSame(old.roles, accountJob[c].read.roles)
  BY <1>1 DEF AccIInv, AccRInv, AccAgrees
<1>11. ~accountDisturbed /\ ~revived' /\ a.active =>
         \A role \in a.roles \cap Roles, v \in People \ {u} : ~AccHeldBy(v, role)
  <2> SUFFICES ASSUME ~accountDisturbed, ~revived', a.active, NEW role \in a.roles \cap Roles,
                      NEW v \in People \ {u}, AccHeldBy(v, role)
      PROVE  FALSE
    OBVIOUS
  <2>1. ~revived /\ old.active
    BY <1>1, <1>7
  <2>2. role \notin old.roles
    BY <1>2, <2>1 DEF AccHeldBy, AccIInv, AccUInv
  <2>3. role \in add
    BY <1>7, <2>2 DEF roles0
  <2>4. add # None
    BY <1>4, AccountsAssumption DEF Account!Authorities
  <2>5. AccChecked(accountJob[c]) /\ role \in Account!ToCheck(accountJob[c])
    BY <1>1, <2>3, <2>4 DEF AccChecked, Account!ToCheck
  <2> QED
    BY <2>5 DEF AccIInv, AccCInv
<1>12. PICK step \in {"pull", "compare"} :
         /\ Account!Go(c, step)
         /\ step = "pull" => add # {}
         /\ step = "compare" => add = {} \/ remove = {}
  BY <1>1
<1>13. PICK j \in AccJob :
          /\ accountJob' = [accountJob EXCEPT ![c] = j]
          /\ j.step = step /\ j.command = accountJob[c].command /\ j.user = accountJob[c].user
          /\ j.read = accountJob[c].read
          /\ j.add = accountJob[c].add
          /\ j.remove = accountJob[c].remove
          /\ j.active = accountJob[c].active
  BY <1>2, <1>12, AccGoIs DEF AccSteps, AccIInv
<1>14. AccKind(j)
  <2>1. j.step \in AccStepsOf[j.command]
    BY <1>1, <1>12, <1>13 DEF AccStepsOf
  <2> QED
    BY <1>1, <1>2, <1>12, <1>13, <2>1, AccKindGoes
<1>15. ~accountDisturbed => AccAgrees(j, a.roles)
  <2> SUFFICES ASSUME ~accountDisturbed PROVE AccAgrees(j, a.roles)
    OBVIOUS
  <2>1. CASE step = "pull"
    BY <1>7, <1>10, <1>12, <1>13, <2>1 DEF AccAgrees, AccSame, roles0
  <2>2. CASE step = "compare"
    <3>1. AccSame(roles0, (accountJob[c].read.roles \cup add) \ remove)
      BY <1>4, <1>10, <1>12, <2>2 DEF AccSame, roles0
    <3> QED
      BY <1>7, <1>13, <2>2, <3>1 DEF AccAgrees
  <2> QED
    BY <1>12, <2>1, <2>2
<1>16. ~accountDisturbed =>
         \A roles : AccSame(roles, old.roles) \/ AccTells(accountJob[c], roles) =>
           AccTells(j, roles)
  BY <1>1, <1>10, <1>12, <1>13 DEF AccTells, AccSame
<1>17. a.version \in Nat /\ a.version >= users[accountJob[c].user].version
  BY <1>7
<1>18. j.user = accountJob[c].user /\ j.step \in {"pull", "compare", "forget", "bump"}
  BY <1>12, <1>13
<1> QED
  BY <1>1, <1>3, <1>6, <1>8, <1>9, <1>11, <1>13, <1>14, <1>15, <1>16, <1>17, <1>18, AccWriterKeeps

LEMMA AccPullKeeps ==
  ASSUME AccIInv, NEW c \in Callers, Account!Pull(c)
  PROVE  AccIInv'
<1> DEFINE u == accountJob[c].user
           old == users[accountJob[c].user]
           a == [old EXCEPT !.roles = @ \ accountJob[c].remove]
<1>1. /\ accountJob[c].step = "pull" /\ Account!Go(c, "compare")
      /\ UNCHANGED <<sessions, tokens, accountHandled, accountDisturbed, revived>>
  BY DEF Account!Pull, Account!At
<1>2. /\ accountJob[c] \in AccJob
      /\ AccKind(accountJob[c])
      /\ u \in People
      /\ accountJob[c].step \in AccStepsOf[accountJob[c].command]
      /\ accountJob[c].command # "CREATE" => users[u] # Absent /\ old \in AccHeld
  BY <1>1, AccAtIs
<1>3. accountJob[c].command = "PATCH"
  BY <1>1, <1>2 DEF AccJob, Account!AdminCommands, AccStepsOf
<1>4. users[u] # Absent /\ old \in AccHeld
  BY <1>2, <1>3
<1>5. users' = [users EXCEPT ![u] = a]
  BY <1>2 DEF Account!Pull, AccIInv, AccTInv
<1>6. a \in AccHeld
  BY <1>4 DEF AccHeld
<1>7. /\ a.roles = old.roles \ accountJob[c].remove /\ a.active = old.active
      /\ a.version = old.version /\ old.version \in Nat
  BY <1>4 DEF AccHeld
<1> HIDE DEF a
<1>8. AccAdministers(accountJob[c])
  BY <1>1, <1>3 DEF AccAdministers, Account!AdminCommands
<1>9. revived' \in BOOLEAN /\ (revived => revived')
  BY <1>1 DEF AccIInv, AccTInv
<1>10. ~accountDisturbed /\ ~revived' /\ a.active =>
         \A role \in a.roles \cap Roles, v \in People \ {u} : ~AccHeldBy(v, role)
  BY <1>1, <1>2, <1>4, <1>7 DEF AccHeldBy, AccIInv, AccUInv
<1>11. PICK j \in AccJob :
          /\ accountJob' = [accountJob EXCEPT ![c] = j]
          /\ j.step = "compare" /\ j.command = accountJob[c].command /\ j.user = accountJob[c].user
          /\ j.read = accountJob[c].read
          /\ j.add = accountJob[c].add
          /\ j.remove = accountJob[c].remove
          /\ j.active = accountJob[c].active
  BY <1>1, <1>2, AccGoIs DEF AccSteps, AccIInv
<1>12. AccKind(j)
  <2>1. "compare" \in AccStepsOf[j.command]
    BY <1>3, <1>11 DEF AccStepsOf
  <2> QED
    BY <1>1, <1>2, <1>11, <2>1, AccKindGoes
<1>13. ~accountDisturbed => AccSame(old.roles, accountJob[c].read.roles \cup accountJob[c].add)
  BY <1>1 DEF AccIInv, AccRInv, AccAgrees
<1>14. ~accountDisturbed => AccAgrees(j, a.roles)
  BY <1>7, <1>11, <1>13 DEF AccAgrees, AccSame
<1>15. ~accountDisturbed =>
         \A roles : AccSame(roles, old.roles) \/ AccTells(accountJob[c], roles) =>
           AccTells(j, roles)
  BY <1>1, <1>11, <1>13 DEF AccTells, AccSame
<1>16. a.version \in Nat /\ a.version >= users[accountJob[c].user].version
  BY <1>7
<1> QED
  BY <1>1, <1>5, <1>6, <1>8, <1>9, <1>10, <1>11, <1>12, <1>14, <1>15, <1>16, AccWriterKeeps

-------------------------------------------------------------------------------
LEMMA AccInvNext == AccIInv /\ [Account!Next]_(Account!vars) => AccIInv'
<1> SUFFICES ASSUME AccIInv, [Account!Next]_(Account!vars) PROVE AccIInv'
  OBVIOUS
<1>1. CASE UNCHANGED Account!vars
  BY <1>1 DEF Account!vars, AccIInv, AccTInv, AccKInv, AccKind, AccLInv, AccOInv, AccAdministers,
     AccRInv, AccAgrees, AccSame, AccCInv, AccChecked,
              Account!ToCheck, AccHeldBy, AccUInv, AccSInv, AccSnap, AccTells
<1>2. ASSUME NEW u \in People,
             Account!Logout(u) \/ Account!PullDepartmentAuthority(u) \/
               Account!GrantDepartmentAuthority(u)
      PROVE  AccIInv'
  BY <1>2, AccLogoutKeeps, AccPullDepartmentKeeps, AccGrantDepartmentKeeps
<1>3. ASSUME NEW c \in Callers, NEW u \in People, NEW roles \in SUBSET Roles,
             Account!CreateUser(c, u, roles)
      PROVE  AccIInv'
  BY <1>3, AccCreateUserKeeps
<1>4. ASSUME NEW c \in Callers, NEW u \in People,
             NEW roles \in (SUBSET Account!Authorities) \cup {None},
             NEW active \in {TRUE, FALSE, None}, Account!UpdateUser(c, u, roles, active)
      PROVE  AccIInv'
  BY <1>4, AccUpdateUserKeeps
<1>5. ASSUME NEW c \in Callers, NEW u \in People, NEW add \in SUBSET Roles,
             NEW remove \in SUBSET Roles,
             Account!PatchUserAuthorities(c, u, add, remove)
      PROVE  AccIInv'
  BY <1>5, AccPatchUserAuthoritiesKeeps
<1>6. ASSUME NEW c \in Callers, NEW u \in People,
             Account!DeleteUser(c, u) \/ Account!ChangePassword(c, u) \/ Account!Login(c, u) \/ Account!Refresh(c, u)
      PROVE  AccIInv'
  BY <1>6, AccDeleteUserKeeps, AccChangePasswordKeeps, AccLoginKeeps, AccRefreshKeeps
<1>7. ASSUME NEW c \in Callers,
             \/ Account!Check(c) \/ Account!WriteCreate(c) \/ Account!WriteUpdate(c) \/ Account!WritePatch(c) \/ Account!WriteOther(c)
             \/ Account!Pull(c) \/ Account!Compare(c) \/ Account!Forget(c) \/ Account!Bump(c) \/ Account!CutOff(c)
             \/ Account!FindForRefresh(c) \/ Account!Issue(c)
      PROVE  AccIInv'
  BY <1>7, AccCheckKeeps, AccWriteCreateKeeps, AccWriteUpdateKeeps, AccWritePatchKeeps,
     AccWriteOtherKeeps, AccPullKeeps,
     AccCompareKeeps, AccForgetKeeps, AccBumpKeeps, AccCutOffKeeps, AccFindForRefreshKeeps,
     AccIssueKeeps
<1>8. CASE \E c \in Callers, u \in People :
            \/ \E roles \in SUBSET Roles : Account!CreateUser(c, u, roles)
            \/ \E roles \in (SUBSET Account!Authorities) \cup {None}, active \in {TRUE, FALSE, None} :
                 (roles = None) # (active = None) /\ Account!UpdateUser(c, u, roles, active)
            \/ \E add, remove \in SUBSET Roles :
                 (add # {} \/ remove # {}) /\ Account!PatchUserAuthorities(c, u, add, remove)
            \/ Account!DeleteUser(c, u) \/ Account!ChangePassword(c, u)
            \/ Account!Login(c, u) \/ Account!Refresh(c, u)
  <2>1. PICK c \in Callers, u \in People :
            \/ \E roles \in SUBSET Roles : Account!CreateUser(c, u, roles)
            \/ \E roles \in (SUBSET Account!Authorities) \cup {None}, active \in {TRUE, FALSE, None} :
                 (roles = None) # (active = None) /\ Account!UpdateUser(c, u, roles, active)
            \/ \E add, remove \in SUBSET Roles :
                 (add # {} \/ remove # {}) /\ Account!PatchUserAuthorities(c, u, add, remove)
            \/ Account!DeleteUser(c, u) \/ Account!ChangePassword(c, u)
            \/ Account!Login(c, u) \/ Account!Refresh(c, u)
    BY <1>8
  <2>2. CASE \E roles \in SUBSET Roles : Account!CreateUser(c, u, roles)
    BY <1>3, <2>2
  <2>3. CASE \E roles \in (SUBSET Account!Authorities) \cup {None}, active \in {TRUE, FALSE, None} :
               Account!UpdateUser(c, u, roles, active)
    BY <1>4, <2>3
  <2>4. CASE \E add, remove \in SUBSET Roles : Account!PatchUserAuthorities(c, u, add, remove)
    BY <1>5, <2>4
  <2>5. CASE Account!DeleteUser(c, u) \/ Account!ChangePassword(c, u) \/ Account!Login(c, u) \/ Account!Refresh(c, u)
    BY <1>6, <2>5
  <2> QED
    BY <2>1, <2>2, <2>3, <2>4, <2>5
<1>9. CASE \E u \in People : Account!Logout(u) \/ Account!PullDepartmentAuthority(u) \/
               Account!GrantDepartmentAuthority(u)
  BY <1>2, <1>9
<1>10. CASE \E c \in Callers :
             \/ Account!Check(c) \/ Account!WriteCreate(c) \/ Account!WriteUpdate(c) \/ Account!WritePatch(c) \/ Account!WriteOther(c)
             \/ Account!Pull(c) \/ Account!Compare(c) \/ Account!Forget(c) \/ Account!Bump(c) \/ Account!CutOff(c)
             \/ Account!FindForRefresh(c) \/ Account!Issue(c)
  BY <1>7, <1>10
<1> QED
  BY <1>1, <1>8, <1>9, <1>10, Zenon DEF Account!Next

LEMMA AccInvariance == Account!Spec => []AccIInv
BY AccInvInit, AccInvNext, PTL DEF Account!Spec

LEMMA AccOneHolds == AccIInv => Account!OneHolder
BY DEF Account!OneHolder, Account!Holders, AccHeldBy, AccIInv, AccUInv

LEMMA AccTokensAgree == AccIInv => Account!TokensCurrent
<1> SUFFICES ASSUME AccIInv, ~accountDisturbed, NEW t \in tokens, Account!Accepted(t),
                    \A c \in Callers : accountJob[c].user = t.user =>
                      accountJob[c].step \notin Account!Unsettled
    PROVE  t.roles \ {HeadRole} = users[t.user].roles \ {HeadRole}
  BY DEF Account!TokensCurrent
<1>1. AccSnap(t.user, t.roles, t.version) /\ t.version = users[t.user].version
  BY DEF AccIInv, AccSInv, Account!Accepted
<1>2. \A c \in Callers : accountJob[c].user = t.user => ~AccTells(accountJob[c], t.roles)
  BY DEF AccTells, Account!Unsettled
<1> QED
  BY <1>1, <1>2 DEF AccSnap, AccSame

LEMMA AccTypes == AccIInv => Account!TypeOK
<1> SUFFICES ASSUME AccIInv PROVE Account!TypeOK
  OBVIOUS
<1>1. AccTInv
  BY DEF AccIInv
<1>2. \A c \in Callers : accountJob[c] = Account!Idle \/ accountJob[c].user \in People
  BY <1>1 DEF AccTInv, AccJob
<1>3. users \in [People -> Account!Account \cup {Absent}]
  BY <1>1 DEF AccTInv, AccHeld, Account!Account
<1> QED
  BY <1>1, <1>2, <1>3 DEF AccTInv, Account!TypeOK

-------------------------------------------------------------------------------
(* The theorems. *)

\* A profile in review belongs to an active identity with its sections complete,
\* and between requests the newest event and audit record say the status it
\* has, unless a request was cut off between its writes or read a stale row.
THEOREM DecisionsHold == Spec => []DecisionsKnown
<1>1. Profile!ReviewedIsReady /\ Profile!DecisionsKnown => DecisionsKnown
  BY DEF DecisionsKnown, Running
<1> QED
  BY SimulatesProfile, ProfInvariance, ProfDecisions, <1>1, PTL

\* An applied change request has its value in the profile, and one that nobody
\* disturbed has outcome, profile, notice, attachment lock and events that say
\* the same: without transactions each is a write of its own, with them lock
\* and notice are outside the commit.
THEOREM OutcomesHold == Spec => []OutcomeAgrees
<1>1. Change!OutcomeAgrees => OutcomeAgrees
  BY DEF OutcomeAgrees, Running
<1> QED
  BY SimulatesChange, ChgInvariance, ChgOutcomeHolds, <1>1, PTL

\* An exclusive authority has one active holder at most, and a token that is
\* accepted says the authorities its account has, unless administrators'
\* requests overlapped, were cut off or revived an account: the check, the
\* write and the end of the sessions are calls of their own, between which
\* others log in and refresh.
THEOREM AuthoritiesHold == Spec => []AuthoritiesAgree
<1>1. Account!OneHolder /\ Account!TokensCurrent => AuthoritiesAgree
  BY DEF AuthoritiesAgree, Running
<1> QED
  BY SimulatesAccount, AccInvariance, AccOneHolds, AccTokensAgree, <1>1, PTL

===============================================================================
