------------------------------ MODULE LeaveProofs ------------------------------
(* What holds of a leave, for any number of applications, requests, users  *)
(* and faults, with and without transactions.                              *)
(*                                                                         *)
(* Whatever requests decide at the same time, a request writes a status    *)
(* that another may have overtaken, but it only ever adds to who reviewed  *)
(* the leave, and it debits before it sanctions.                           *)
(*                                                                         *)
(* Handled one at a time, a request finds the account it has read, so that *)
(* each debit takes from the balance what it adds to the debts, and        *)
(* nothing is granted that was not accrued.                                *)
EXTENDS Leave, FiniteSetTheorems, TLAPS

Officers == Users \ {Applicant}

-------------------------------------------------------------------------------
(* Who reviewed a leave. *)

\* The application of request c is not in the database yet.
Pending(c) == job[c].command = "APPLY" /\ pc[c] # "publish"

Shaped(j) ==
  j = [command |-> j.command, leave |-> j.leave, user |-> j.user, status |-> j.status,
       available |-> j.available, account |-> j.account, closing |-> j.closing]

Types ==
  /\ leaves \in [Leaves -> Application \cup {Absent}]
  /\ pc \in [Callers -> Steps]
  /\ DOMAIN job = Callers /\ job = [c \in Callers |-> job[c]]
  /\ \A c \in Callers :
       /\ Shaped(job[c])
       /\ pc[c] \in {"build", "open"} => job[c].command \in {"VIEW", "APPLY"}
       /\ pc[c] \notin {"idle", "build", "open"} => job[c].command \in DOMAIN EventOf

\* Nobody handles an application before it is inserted but the request that
\* inserts it; what is handled later stays in the database.
Inserted ==
  \A c \in Callers :
    /\ Pending(c) =>
         /\ leaves[job[c].leave] = Absent
         /\ \A d \in Callers \ {c} : job[d].leave # job[c].leave
    /\ job[c].command \in {"RECOMMEND", "REJECT", "CANCEL", "SANCTION"} =>
         job[c].leave \in Leaves /\ leaves[job[c].leave] # Absent
    /\ job[c].command = "APPLY" => job[c].leave \in Leaves

Reviewed(l) == leaves[l].recommended_by \in Officers

\* A status beyond SUBMITTED has its recommendation, and a request that read
\* one can rely on it.
Backed ==
  /\ \A l \in Leaves : leaves[l] # Absent =>
       /\ leaves[l].status \in {"RECOMMENDED", "SANCTIONED"} => Reviewed(l)
       /\ leaves[l].status = "SANCTIONED" => leaves[l].sanctioned_by \in Officers
  /\ \A c \in Callers :
       /\ job[c].command \in {"RECOMMEND", "SANCTION"} => job[c].user \in Officers
       /\ job[c].command = "SANCTION" =>
            \/ job[c].status = "SUBMITTED" /\ TypeOf[job[c].leave] = "CL"
            \/ job[c].status = "RECOMMENDED" /\ Reviewed(job[c].leave)

IInv == Types /\ Inserted /\ Backed

LEMMA CommandNames == DOMAIN EventOf = {"APPLY", "RECOMMEND", "SANCTION", "REJECT", "CANCEL"}
BY DEF EventOf

LEMMA WrittenReviewed ==
  ASSUME IInv, NEW c \in Callers, job[c].command \in DOMAIN EventOf, pc[c] # "publish"
  PROVE  LET l == job[c].leave
             w == Written(job[c])
         IN  /\ l \in Leaves
             /\ w \in Application
             /\ w.status \in {"RECOMMENDED", "SANCTIONED"} => w.recommended_by \in Officers
             /\ w.status = "SANCTIONED" => w.sanctioned_by \in Officers
             /\ leaves[l] # Absent /\ Reviewed(l) => w.recommended_by \in Officers
<1> DEFINE l == job[c].leave
           w == Written(job[c])
<1>1. l \in Leaves
  BY CommandNames DEF IInv, Inserted
<1>2. CASE job[c].command = "APPLY"
  <2>1. leaves[l] = Absent
    BY <1>2 DEF IInv, Inserted, Pending
  <2>2. w = [status |-> "SUBMITTED", recommended_by |-> None, sanctioned_by |-> None]
    BY <1>2 DEF Written
  <2> QED
    BY <1>1, <2>1, <2>2 DEF Application, Statuses
<1>3. CASE job[c].command # "APPLY"
  <2>1. leaves[l] \in Application /\ leaves[l] # Absent
    BY <1>1, <1>3, CommandNames DEF IInv, Types, Inserted
  <2>2. CASE job[c].command = "RECOMMEND"
    <3>1. w = [leaves[l] EXCEPT !.status = "RECOMMENDED", !.recommended_by = job[c].user]
      BY <2>2 DEF Written
    <3>2. job[c].user \in Officers
      BY <2>2 DEF IInv, Backed
    <3> QED
      BY <1>1, <2>1, <3>1, <3>2 DEF Application, Statuses, Officers
  <2>3. CASE job[c].command = "REJECT"
    <3>1. w = [leaves[l] EXCEPT !.status = "REJECTED"]
      BY <2>3 DEF Written
    <3> QED
      BY <1>1, <2>1, <3>1 DEF Application, Statuses, Reviewed
  <2>4. CASE job[c].command = "CANCEL"
    <3>1. w = [leaves[l] EXCEPT !.status = "CANCELLED"]
      BY <2>4 DEF Written
    <3> QED
      BY <1>1, <2>1, <3>1 DEF Application, Statuses, Reviewed
  <2>5. CASE job[c].command = "SANCTION"
    <3>1. w = [leaves[l] EXCEPT
                 !.status = "SANCTIONED",
                 !.sanctioned_by = job[c].user,
                 !.recommended_by =
                   IF job[c].status = "SUBMITTED" /\ TypeOf[l] = "CL" THEN job[c].user ELSE @]
      BY <2>5 DEF Written
    <3>2. /\ job[c].user \in Officers
          /\ ~(job[c].status = "SUBMITTED" /\ TypeOf[l] = "CL") =>
               leaves[l].recommended_by \in Officers
      BY <2>5 DEF IInv, Backed, Reviewed
    <3> QED
      BY <1>1, <2>1, <3>1, <3>2 DEF Application, Statuses, Officers
  <2> QED
    BY <1>3, <2>2, <2>3, <2>4, <2>5, CommandNames
<1> QED
  BY <1>2, <1>3

\* The write itself; the request is then done or goes on to its other writes.
LEMMA WriteStep ==
  ASSUME IInv, NEW c \in Callers, job[c].command \in DOMAIN EventOf, pc[c] # "publish",
         leaves' = [leaves EXCEPT ![job[c].leave] = Written(job[c])],
         \/ Done(c)
         \/ /\ UNCHANGED job
            /\ \E s \in {"lock", "publish"} :
                 /\ pc' = [pc EXCEPT ![c] = s]
                 /\ job[c].command = "APPLY" => s = "publish"
  PROVE  IInv'
<1> DEFINE l == job[c].leave
           w == Written(job[c])
<1>1. /\ l \in Leaves
      /\ w \in Application /\ w # Absent
      /\ w.status \in {"RECOMMENDED", "SANCTIONED"} => w.recommended_by \in Officers
      /\ w.status = "SANCTIONED" => w.sanctioned_by \in Officers
      /\ leaves[l] # Absent /\ Reviewed(l) => w.recommended_by \in Officers
  BY WrittenReviewed, AbsentAssumption
<1>2. leaves \in [Leaves -> Application \cup {Absent}] /\ leaves' = [leaves EXCEPT ![l] = w]
  BY DEF IInv, Types
<1> HIDE DEF w
<1>3. /\ leaves' \in [Leaves -> Application \cup {Absent}]
      /\ leaves'[l] = w
      /\ \A k \in Leaves \ {l} : leaves'[k] = leaves[k]
  BY <1>1, <1>2
<1>4. \A d \in Callers :
        \/ d # c /\ pc'[d] = pc[d] /\ job'[d] = job[d]
        \/ d = c /\ pc'[d] = "idle" /\ job'[d] = Idle
        \/ d = c /\ job'[d] = job[d] /\ pc'[d] \in {"lock", "publish"}
                /\ (job[c].command = "APPLY" => pc'[d] = "publish")
  BY DEF IInv, Types, Done
<1>5. Types'
  <2>1. pc' \in [Callers -> Steps] /\ DOMAIN job' = Callers /\ job' = [d \in Callers |-> job'[d]]
    BY DEF IInv, Types, Done, Steps
  <2>2. Shaped(Idle)
    BY DEF Shaped, Idle, NewJob
  <2> QED
    BY <1>3, <1>4, <2>1, <2>2 DEF IInv, Types
<1>6. Inserted'
  <2>1. Idle.command = None /\ Idle.command \notin DOMAIN EventOf
    BY NoneAssumption DEF Idle, NewJob
  <2>2. \A d \in Callers \ {c} : Pending(d) => job[d].leave # l /\ job[d].leave \in Leaves
    BY DEF IInv, Inserted, Pending
  <2>3. ASSUME NEW d \in Callers, Pending(d)'
        PROVE  /\ leaves'[job'[d].leave] = Absent
               /\ \A e \in Callers \ {d} : job'[e].leave # job'[d].leave
    <3>1. d # c /\ Pending(d)
      BY <1>4, <2>1, <2>3, CommandNames DEF Pending
    <3>2. Idle.leave = None
      BY DEF Idle, NewJob
    <3> QED
      BY <1>3, <1>4, <2>2, <3>1, <3>2, LeaveAssumption DEF IInv, Inserted
  <2>4. ASSUME NEW d \in Callers,
               job'[d].command \in {"RECOMMEND", "REJECT", "CANCEL", "SANCTION"}
        PROVE  job'[d].leave \in Leaves /\ leaves'[job'[d].leave] # Absent
    BY <1>1, <1>3, <1>4, <2>1, <2>4, CommandNames DEF IInv, Inserted
  <2>5. ASSUME NEW d \in Callers, job'[d].command = "APPLY"
        PROVE  job'[d].leave \in Leaves
    BY <1>4, <2>1, <2>5, CommandNames DEF IInv, Inserted
  <2> QED
    BY <2>3, <2>4, <2>5 DEF Inserted
<1>7. Backed'
  <2>1. Idle.command \notin DOMAIN EventOf
    BY NoneAssumption DEF Idle, NewJob
  <2>2. \A k \in Leaves : leaves[k] # Absent /\ Reviewed(k) => Reviewed(k)'
    BY <1>1, <1>3 DEF Reviewed
  <2>3. ASSUME NEW k \in Leaves, leaves'[k] # Absent
        PROVE  /\ leaves'[k].status \in {"RECOMMENDED", "SANCTIONED"} => Reviewed(k)'
               /\ leaves'[k].status = "SANCTIONED" => leaves'[k].sanctioned_by \in Officers
    BY <1>1, <1>3, <2>3 DEF IInv, Backed, Reviewed
  <2>4. ASSUME NEW d \in Callers, job'[d].command \in {"RECOMMEND", "SANCTION"}
        PROVE  job'[d].user \in Officers
    BY <1>4, <2>1, <2>4, CommandNames DEF IInv, Backed
  <2>5. ASSUME NEW d \in Callers, job'[d].command = "SANCTION"
        PROVE  \/ job'[d].status = "SUBMITTED" /\ TypeOf[job'[d].leave] = "CL"
               \/ job'[d].status = "RECOMMENDED"
                  /\ leaves'[job'[d].leave].recommended_by \in Officers
    <3>1. job'[d] = job[d]
      BY <1>4, <2>1, <2>5, CommandNames
    <3>2. job[d].leave \in Leaves /\ leaves[job[d].leave] # Absent
      BY <2>5, <3>1 DEF IInv, Inserted
    <3> QED
      BY <2>2, <2>5, <3>1, <3>2 DEF IInv, Backed, Reviewed
  <2> QED
    BY <2>3, <2>4, <2>5 DEF Backed, Reviewed
<1> QED
  BY <1>5, <1>6, <1>7 DEF IInv

\* A step that leaves the applications alone and takes one request to
\* another job keeps what is known of the others.
LEMMA JobStep ==
  ASSUME IInv, UNCHANGED leaves, NEW c \in Callers, NEW s \in Steps, NEW j, Shaped(j),
         pc' = [pc EXCEPT ![c] = s], job' = [job EXCEPT ![c] = j],
         s \in {"build", "open"} => j.command \in {"VIEW", "APPLY"},
         s \notin {"idle", "build", "open"} => j.command \in DOMAIN EventOf,
         \/ j.command \notin DOMAIN EventOf
            /\ j.leave = None
         \/ /\ j.command = job[c].command /\ j.leave = job[c].leave
            /\ j.user = job[c].user /\ j.status = job[c].status
            /\ pc[c] # "publish"
         \/ /\ j.command = "APPLY" /\ j.leave \in Leaves /\ leaves[j.leave] = Absent
            /\ \A d \in Callers : job[d].leave # j.leave
         \/ /\ j.command \in {"RECOMMEND", "REJECT", "CANCEL", "SANCTION"}
            /\ j.leave \in Leaves /\ leaves[j.leave] # Absent
            /\ j.command \in {"RECOMMEND", "SANCTION"} => j.user \in Officers
            /\ j.command = "SANCTION" =>
                 \/ j.status = "SUBMITTED" /\ TypeOf[j.leave] = "CL"
                 \/ j.status = "RECOMMENDED" /\ Reviewed(j.leave)
  PROVE  IInv'
<1>1. \A d \in Callers :
        \/ d # c /\ pc'[d] = pc[d] /\ job'[d] = job[d]
        \/ d = c /\ pc'[d] = s /\ job'[d] = j
  BY DEF IInv, Types
<1>2. Types'
  <2>1. pc' \in [Callers -> Steps] /\ DOMAIN job' = Callers /\ job' = [d \in Callers |-> job'[d]]
    BY DEF IInv, Types
  <2> QED
    BY <1>1, <2>1 DEF IInv, Types
<1>3. Inserted'
  <2>1. ASSUME NEW d \in Callers, Pending(d)'
        PROVE  /\ leaves'[job'[d].leave] = Absent
               /\ \A e \in Callers \ {d} : job'[e].leave # job'[d].leave
    <3>1. CASE d = c
      BY <1>1, <2>1, <3>1, CommandNames DEF IInv, Inserted, Pending
    <3>2. CASE d # c
      <4>1. Pending(d) /\ job'[d] = job[d] /\ job[d].leave \in Leaves
        BY <1>1, <2>1, <3>2 DEF Pending, IInv, Inserted
      <4>2. leaves[job[d].leave] = Absent /\ \A e \in Callers \ {d} : job[e].leave # job[d].leave
        BY <4>1 DEF IInv, Inserted
      <4>3. j.leave # job[d].leave
        BY <3>2, <4>1, <4>2, LeaveAssumption
      <4> QED
        BY <1>1, <3>2, <4>1, <4>2, <4>3
    <3> QED
      BY <3>1, <3>2
  <2>2. ASSUME NEW d \in Callers,
               job'[d].command \in {"RECOMMEND", "REJECT", "CANCEL", "SANCTION"}
        PROVE  job'[d].leave \in Leaves /\ leaves'[job'[d].leave] # Absent
    BY <1>1, <2>2, CommandNames DEF IInv, Inserted
  <2>3. ASSUME NEW d \in Callers, job'[d].command = "APPLY"
        PROVE  job'[d].leave \in Leaves
    BY <1>1, <2>3, CommandNames DEF IInv, Inserted
  <2> QED
    BY <2>1, <2>2, <2>3 DEF Inserted
<1>4. Backed'
  <2>1. ASSUME NEW d \in Callers, job'[d].command \in {"RECOMMEND", "SANCTION"}
        PROVE  job'[d].user \in Officers
    BY <1>1, <2>1, CommandNames DEF IInv, Backed
  <2>2. ASSUME NEW d \in Callers, job'[d].command = "SANCTION"
        PROVE  \/ job'[d].status = "SUBMITTED" /\ TypeOf[job'[d].leave] = "CL"
               \/ job'[d].status = "RECOMMENDED"
                  /\ leaves'[job'[d].leave].recommended_by \in Officers
    BY <1>1, <2>2, CommandNames DEF IInv, Backed, Reviewed
  <2> QED
    BY <2>1, <2>2 DEF IInv, Backed, Reviewed
<1> QED
  BY <1>2, <1>3, <1>4 DEF IInv

LEMMA IdleShaped ==
  /\ Shaped(Idle)
  /\ Idle.leave = None
  /\ Idle.command = None /\ None \notin DOMAIN EventOf
BY NoneAssumption DEF Idle, NewJob, Shaped

\* A request that is done or refused.
LEMMA DoneStep ==
  ASSUME IInv, UNCHANGED leaves, NEW c \in Callers, Done(c)
  PROVE  IInv'
BY JobStep, IdleShaped DEF Done, Steps

LEMMA DecidedStep ==
  ASSUME NEW l, NEW f
  PROVE  Decided(l, f) \in {"write", "lock", "commit"}
BY DEF Decided

\* A request that has read something and goes on.
LEMMA ReadStep ==
  ASSUME IInv, NEW c \in Callers, NEW step \in Steps \ {"idle", "build"}, NEW j, Shaped(j),
         Proceed(c, step, j),
         pc[c] \notin {"idle", "publish"},
         step # "open" => job[c].command \in DOMAIN EventOf,
         step = "open" => pc[c] = "build",
         j.command = job[c].command, j.leave = job[c].leave,
         j.user = job[c].user, j.status = job[c].status
  PROVE  IInv'
<1>1. step \in {"build", "open"} => j.command \in {"VIEW", "APPLY"}
  BY DEF IInv, Types
<1>2. step \notin {"idle", "build", "open"} => j.command \in DOMAIN EventOf
  OBVIOUS
<1>3. /\ step \in Steps
      /\ UNCHANGED leaves
      /\ pc' = [pc EXCEPT ![c] = step]
      /\ job' = [job EXCEPT ![c] = j]
  BY DEF Proceed
<1>4. /\ j.command = job[c].command /\ j.leave = job[c].leave
      /\ j.user = job[c].user /\ j.status = job[c].status
      /\ pc[c] # "publish"
  OBVIOUS
<1> QED
  BY <1>1, <1>2, <1>3, <1>4, JobStep

\* A request that starts.
LEMMA BeginStep ==
  ASSUME IInv, NEW c \in Callers, NEW command, NEW l, NEW u, NEW status, NEW s \in Steps,
         Begin(c, command, l, u, status, s),
         s \in {"build", "open"} => command \in {"VIEW", "APPLY"},
         s \notin {"idle", "build", "open"} => command \in DOMAIN EventOf,
         \/ command \notin DOMAIN EventOf /\ l = None
         \/ /\ command = "APPLY" /\ l \in Leaves /\ leaves[l] = Absent
            /\ \A d \in Callers : job[d].leave # l
         \/ /\ command \in {"RECOMMEND", "REJECT", "CANCEL", "SANCTION"}
            /\ l \in Leaves /\ leaves[l] # Absent
            /\ command \in {"RECOMMEND", "SANCTION"} => u \in Officers
            /\ command = "SANCTION" =>
                 \/ status = "SUBMITTED" /\ TypeOf[l] = "CL"
                 \/ status = "RECOMMENDED" /\ Reviewed(l)
  PROVE  IInv'
<1> DEFINE j == NewJob(command, l, u, status)
<1>1. Shaped(j) /\ j.command = command /\ j.leave = l /\ j.user = u /\ j.status = status
  BY DEF NewJob, Shaped
<1>2. /\ UNCHANGED leaves
      /\ pc' = [pc EXCEPT ![c] = s]
      /\ job' = [job EXCEPT ![c] = j]
  BY DEF Begin
<1> HIDE DEF j
<1>3. CASE command \notin DOMAIN EventOf /\ l = None
  BY <1>1, <1>2, <1>3, JobStep
<1>4. CASE /\ command = "APPLY" /\ l \in Leaves /\ leaves[l] = Absent
           /\ \A d \in Callers : job[d].leave # l
  <2>1. /\ j.command = "APPLY" /\ j.leave \in Leaves /\ leaves[j.leave] = Absent
        /\ \A d \in Callers : job[d].leave # j.leave
    BY <1>1, <1>4
  <2> QED
    BY <1>1, <1>2, <2>1, JobStep
<1>5. CASE /\ command \in {"RECOMMEND", "REJECT", "CANCEL", "SANCTION"}
           /\ l \in Leaves /\ leaves[l] # Absent
           /\ command \in {"RECOMMEND", "SANCTION"} => u \in Officers
           /\ command = "SANCTION" =>
                \/ status = "SUBMITTED" /\ TypeOf[l] = "CL"
                \/ status = "RECOMMENDED" /\ Reviewed(l)
  <2>1. /\ j.command \in {"RECOMMEND", "REJECT", "CANCEL", "SANCTION"}
        /\ j.leave \in Leaves /\ leaves[j.leave] # Absent
        /\ j.command \in {"RECOMMEND", "SANCTION"} => j.user \in Officers
        /\ j.command = "SANCTION" =>
             \/ j.status = "SUBMITTED" /\ TypeOf[j.leave] = "CL"
             \/ j.status = "RECOMMENDED" /\ Reviewed(j.leave)
    BY <1>1, <1>5
  <2> QED
    BY <1>1, <1>2, <2>1, JobStep
<1> QED
  BY <1>3, <1>4, <1>5

LEMMA HandleStep ==
  ASSUME IInv, NEW c \in Callers, Handle(c)
  PROVE  IInv'
<1>1. ASSUME View(c) PROVE IInv'
  <2>1. "VIEW" \notin DOMAIN EventOf /\ "build" \in Steps
    BY CommandNames DEF Steps
  <2>2. Begin(c, "VIEW", None, Applicant, None, "build")
    BY <1>1 DEF View
  <2> QED
    BY <2>1, <2>2, BeginStep
<1>2. ASSUME NEW l \in Leaves, Apply(c, l) PROVE IInv'
  <2>1. PICK s \in {"build", "overlap"} : Begin(c, "APPLY", l, Applicant, None, s)
    BY <1>2 DEF Apply
  <2>2. leaves[l] = Absent /\ \A d \in Callers : job[d].leave # l
    BY <1>2 DEF Apply
  <2>3. s \in Steps /\ "APPLY" \in DOMAIN EventOf
    BY CommandNames DEF Steps
  <2> QED
    BY <2>1, <2>2, <2>3, BeginStep
<1>3. ASSUME NEW l \in Leaves, NEW u \in Users, Recommend(c, l, u) PROVE IInv'
  <2>1. PICK s \in {"write", "lock", "commit"} :
          Begin(c, "RECOMMEND", l, u, leaves[l].status, s)
    BY <1>3, DecidedStep DEF Recommend
  <2>2. leaves[l] # Absent /\ u \in Officers
    BY <1>3 DEF Recommend, Officers
  <2>3. s \in Steps /\ "RECOMMEND" \in DOMAIN EventOf
    BY CommandNames DEF Steps
  <2> QED
    BY <2>1, <2>2, <2>3, BeginStep
<1>4. ASSUME NEW l \in Leaves, NEW u \in Users, Reject(c, l, u) PROVE IInv'
  <2>1. PICK s \in {"write", "lock", "commit"} :
          Begin(c, "REJECT", l, u, leaves[l].status, s)
    BY <1>4, DecidedStep DEF Reject
  <2>2. leaves[l] # Absent
    BY <1>4 DEF Reject
  <2>3. s \in Steps /\ "REJECT" \in DOMAIN EventOf
    BY CommandNames DEF Steps
  <2> QED
    BY <2>1, <2>2, <2>3, BeginStep
<1>5. ASSUME NEW l \in Leaves, Cancel(c, l) PROVE IInv'
  <2>1. PICK s \in {"write", "lock", "commit"} :
          Begin(c, "CANCEL", l, Applicant, leaves[l].status, s)
    BY <1>5, DecidedStep DEF Cancel
  <2>2. leaves[l] # Absent
    BY <1>5 DEF Cancel
  <2>3. s \in Steps /\ "CANCEL" \in DOMAIN EventOf
    BY CommandNames DEF Steps
  <2> QED
    BY <2>1, <2>2, <2>3, BeginStep
<1>6. ASSUME NEW l \in Leaves, NEW u \in Users, Sanction(c, l, u) PROVE IInv'
  <2>1. Begin(c, "SANCTION", l, u, leaves[l].status, "balance")
    BY <1>6 DEF Sanction
  <2>2. leaves[l] # Absent /\ u \in Officers
    BY <1>6 DEF Sanction, Sanctionable, Officers
  <2>3. \/ leaves[l].status = "RECOMMENDED" /\ Reviewed(l)
        \/ leaves[l].status = "SUBMITTED" /\ TypeOf[l] = "CL"
    BY <1>6, <2>2 DEF Sanction, Sanctionable, IInv, Backed
  <2>4. "balance" \in Steps /\ "SANCTION" \in DOMAIN EventOf
    BY CommandNames DEF Steps
  <2> QED
    BY <2>1, <2>2, <2>3, <2>4, BeginStep
<1> QED
  BY <1>1, <1>2, <1>3, <1>4, <1>5, <1>6 DEF Handle

\* The reads between the first and the writes.
LEMMA ReadsStep ==
  ASSUME IInv, NEW c \in Callers,
         \/ BuildAccount(c) \/ CheckOverlap(c) \/ CheckQuota(c)
         \/ ReadBalance(c) \/ ReadAccount(c)
  PROVE  IInv'
<1>0. /\ Shaped(job[c])
      /\ pc[c] \notin {"idle", "build", "open"} => job[c].command \in DOMAIN EventOf
  BY DEF IInv, Types
<1>1. ASSUME Refuse(c) PROVE IInv'
  BY <1>1, JobStep, IdleShaped DEF Refuse, Proceed, Steps
<1> DEFINE Same(j) == /\ Shaped(j)
                      /\ j.command = job[c].command /\ j.leave = job[c].leave
                      /\ j.user = job[c].user /\ j.status = job[c].status
<1>2. ASSUME NEW step \in Steps \ {"idle", "build", "open"}, NEW j, Same(j),
             Proceed(c, step, j), pc[c] \notin {"idle", "build", "open", "publish"}
      PROVE  IInv'
  BY <1>0, <1>2, ReadStep
<1>3. Same(job[c])
  BY <1>0
<1>5. CASE BuildAccount(c)
  <2> DEFINE j == [job[c] EXCEPT !.account = InitialAccount]
  <2>1. Same(j)
    BY <1>0 DEF Shaped
  <2>2. pc[c] = "build" /\ Proceed(c, "open", j)
    BY <1>5 DEF BuildAccount
  <2> HIDE DEF j
  <2> QED
    BY <2>1, <2>2, ReadStep DEF Steps
<1>6. CASE CheckOverlap(c)
  <2>1. pc[c] = "overlap" /\ (Refuse(c) \/ Proceed(c, "quota", job[c]))
    BY <1>6 DEF CheckOverlap
  <2> QED
    BY <1>1, <1>2, <1>3, <2>1 DEF Steps
<1>7. CASE CheckQuota(c)
  <2>1. pc[c] = "quota" /\ \/ Refuse(c)
                           \/ \E s \in {"write", "lock", "commit"} : Proceed(c, s, job[c])
    BY <1>7, DecidedStep DEF CheckQuota
  <2> QED
    BY <1>1, <1>2, <1>3, <2>1 DEF Steps
<1>8. CASE ReadBalance(c)
  <2> DEFINE j == [job[c] EXCEPT !.available = Available(Source(job[c].leave))]
  <2>1. Same(j)
    BY <1>0 DEF Shaped
  <2>2. /\ pc[c] = "balance"
        /\ \/ Refuse(c)
           \/ \E s \in {"account", "write", "lock", "commit"} : Proceed(c, s, j)
    BY <1>8, DecidedStep DEF ReadBalance
  <2> HIDE DEF j
  <2> QED
    BY <1>1, <1>2, <2>1, <2>2 DEF Steps
<1>9. CASE ReadAccount(c)
  <2>1. ASSUME NEW x, NEW y
        PROVE  Same([job[c] EXCEPT !.account = x, !.closing = y])
    <3> DEFINE i == [job[c] EXCEPT !.account = x]
    <3>1. Same(i)
      BY <1>0 DEF Shaped
    <3>2. [job[c] EXCEPT !.account = x, !.closing = y] = [i EXCEPT !.closing = y]
      BY <1>0 DEF Shaped
    <3> HIDE DEF i
    <3>3. Same([i EXCEPT !.closing = y])
      BY <3>1 DEF Shaped
    <3> QED
      BY <3>2, <3>3
  <2>2. /\ pc[c] = "account"
        /\ \/ Refuse(c)
           \/ \E x, y : \E s \in {"debit", "write", "lock", "commit"} :
                Proceed(c, s, [job[c] EXCEPT !.account = x, !.closing = y])
    BY <1>9, DecidedStep DEF ReadAccount
  <2>3. CASE Refuse(c)
    BY <1>1, <2>3
  <2>4. CASE \E x, y : \E s \in {"debit", "write", "lock", "commit"} :
               Proceed(c, s, [job[c] EXCEPT !.account = x, !.closing = y])
    <3>1. PICK x, y : \E s \in {"debit", "write", "lock", "commit"} :
               Proceed(c, s, [job[c] EXCEPT !.account = x, !.closing = y])
      BY <2>4
    <3> DEFINE j == [job[c] EXCEPT !.account = x, !.closing = y]
    <3>2. PICK s \in {"debit", "write", "lock", "commit"} : Proceed(c, s, j)
      BY <3>1
    <3>3. Same(j)
      BY <2>1
    <3> HIDE DEF j
    <3> QED
      BY <1>2, <2>2, <3>2, <3>3 DEF Steps
  <2> QED
    BY <2>2, <2>3, <2>4
<1> QED
  BY <1>5, <1>6, <1>7, <1>8, <1>9

LEMMA InitIInv == Init => IInv
<1> SUFFICES ASSUME Init PROVE IInv
  OBVIOUS
<1>1. Types
  BY IdleShaped DEF Init, Types, Steps
<1>2. \A c \in Callers : job[c] = Idle
  BY DEF Init
<1>3. Inserted
  BY <1>2, IdleShaped, CommandNames DEF Inserted, Pending
<1>4. Backed
  BY <1>2, IdleShaped, CommandNames DEF Init, Backed
<1> QED
  BY <1>1, <1>3, <1>4 DEF IInv

LEMMA StepIInv == IInv /\ [Next]_vars => IInv'
<1> SUFFICES ASSUME IInv, [Next]_vars PROVE IInv'
  OBVIOUS
<1>1. ASSUME NEW c \in Callers, Handle(c) PROVE IInv'
  BY <1>1, HandleStep
<1>2. ASSUME NEW c \in Callers,
             \/ BuildAccount(c) \/ CheckOverlap(c) \/ CheckQuota(c)
             \/ ReadBalance(c) \/ ReadAccount(c)
      PROVE  IInv'
  BY <1>2, ReadsStep
<1>3. ASSUME NEW c \in Callers, OpenAccount(c) PROVE IInv'
  <2>1. /\ Shaped(job[c]) /\ job = [d \in Callers |-> job[d]]
        /\ job[c].command \in {"VIEW", "APPLY"}
    BY <1>3 DEF OpenAccount, IInv, Types
  <2>2. CASE job[c].command = "VIEW"
    BY <1>3, <2>2, DoneStep DEF OpenAccount, Done
  <2>3. CASE job[c].command = "APPLY"
    <3>1. job' = [job EXCEPT ![c] = job[c]]
      BY <1>3, <2>1, <2>3 DEF OpenAccount
    <3>2. pc' = [pc EXCEPT ![c] = "overlap"] /\ UNCHANGED leaves /\ pc[c] # "publish"
      BY <1>3, <2>3 DEF OpenAccount
    <3> QED
      BY <2>1, <2>3, <3>1, <3>2, JobStep, CommandNames DEF Steps
  <2> QED
    BY <2>1, <2>2, <2>3
<1>4. ASSUME NEW c \in Callers, Commit(c) PROVE IInv'
  BY <1>4, WriteStep DEF Commit, IInv, Types
<1>5. ASSUME NEW c \in Callers, WriteLeave(c) PROVE IInv'
  <2>1. job[c].command \in DOMAIN EventOf /\ pc[c] # "publish"
    BY <1>5 DEF WriteLeave, IInv, Types
  <2> QED
    BY <1>5, <2>1, WriteStep DEF WriteLeave, Finalises
<1>6. ASSUME NEW c \in Callers, WriteDebit(c) \/ LockAttachments(c) PROVE IInv'
  <2>1. Shaped(job[c]) /\ job = [d \in Callers |-> job[d]]
    BY DEF IInv, Types
  <2>2. job' = [job EXCEPT ![c] = job[c]] /\ UNCHANGED leaves
    BY <1>6, <2>1 DEF WriteDebit, LockAttachments
  <2>3. pc[c] \in {"debit", "lock"} /\ job[c].command \in DOMAIN EventOf
    BY <1>6 DEF WriteDebit, LockAttachments, IInv, Types
  <2>4. PICK s \in {"write", "commit", "publish"} : pc' = [pc EXCEPT ![c] = s]
    BY <1>6 DEF WriteDebit, LockAttachments
  <2> QED
    BY <2>1, <2>2, <2>3, <2>4, JobStep DEF Steps
<1>7. ASSUME NEW c \in Callers, AddEvent(c) \/ CutOff(c) PROVE IInv'
  BY <1>7, DoneStep DEF AddEvent, CutOff
<1>8. CASE UNCHANGED vars
  BY <1>8 DEF vars, IInv, Types, Inserted, Backed, Pending, Reviewed
<1> QED
  BY <1>1, <1>2, <1>3, <1>4, <1>5, <1>6, <1>7, <1>8 DEF Next

\* Whatever is decided about a leave at the same time, it is only ever
\* sanctioned with a recommendation and a sanction of officers on record.
THEOREM ReviewHolds == Spec => []ReviewedByOthers
<1>1. IInv => ReviewedByOthers
  BY DEF IInv, Backed, ReviewedByOthers, Granted, Reviewed, Officers
<1> QED
  BY <1>1, InitIInv, StepIInv, PTL DEF Spec

-------------------------------------------------------------------------------
(* Sums of days. *)

\* One more day is one more element: the pairs Total counts are finite.
Pairs(f, S) == UNION {{l} \X (1..f[l]) : l \in S}

LEMMA PairsFinite ==
  ASSUME NEW f \in [Leaves -> Nat], NEW S \in SUBSET Leaves
  PROVE  IsFiniteSet(Pairs(f, S))
<1> DEFINE g == [l \in S |-> {l} \X (1..f[l])]
           P == {{l} \X (1..f[l]) : l \in S}
<1>1. IsFiniteSet(S)
  BY LeaveAssumption, FS_Subset
<1>2. g \in Surjection(S, P)
  <2>1. g \in [S -> P]
    OBVIOUS
  <2>2. \A T \in P : \E l \in S : g[l] = T
    OBVIOUS
  <2> HIDE DEF g, P
  <2> QED
    BY <2>1, <2>2 DEF Surjection
<1>3. IsFiniteSet(P)
  <2> HIDE DEF g, P
  <2> QED
    BY <1>1, <1>2, FS_Surjection
<1>4. ASSUME NEW l \in S PROVE IsFiniteSet({l} \X (1..f[l]))
  <2>1. f[l] \in Int
    OBVIOUS
  <2>2. IsFiniteSet(1..f[l])
    BY <2>1, FS_Interval
  <2>3. IsFiniteSet({l})
    BY FS_Singleton
  <2> QED
    BY <2>2, <2>3, FS_Product
<1>5. \A T \in P : IsFiniteSet(T)
  BY <1>4
<1>6. IsFiniteSet(UNION P)
  <2> HIDE DEF P
  <2> QED
    BY <1>3, <1>5, FS_UNION
<1> QED
  BY <1>6 DEF Pairs

LEMMA TotalNat ==
  ASSUME NEW f \in [Leaves -> Nat], NEW S \in SUBSET Leaves
  PROVE  Total(f, S) \in Nat
BY PairsFinite, FS_CardinalityType DEF Total, Pairs

LEMMA TotalZero ==
  ASSUME NEW f, NEW S, \A l \in S : f[l] = 0
  PROVE  Total(f, S) = 0
<1>1. UNION {{l} \X (1..f[l]) : l \in S} = {}
  OBVIOUS
<1> QED
  BY <1>1, FS_EmptySet DEF Total

\* What is counted per leave can only grow with the leaves and their values.
LEMMA TotalMonotone ==
  ASSUME NEW f \in [Leaves -> Nat], NEW g \in [Leaves -> Nat],
         NEW T \in SUBSET Leaves, NEW S \in SUBSET T, \A l \in S : f[l] <= g[l]
  PROVE  Total(f, S) <= Total(g, T)
<1>1. Pairs(f, S) \subseteq Pairs(g, T)
  <2>1. ASSUME NEW l \in S, NEW n \in 1..f[l] PROVE n \in 1..g[l]
    OBVIOUS
  <2> QED
    BY <2>1 DEF Pairs
<1>2. IsFiniteSet(Pairs(g, T))
  BY PairsFinite
<1> QED
  BY <1>1, <1>2, FS_Subset DEF Total, Pairs

LEMMA TotalSame ==
  ASSUME NEW f, NEW g, NEW S, \A l \in S : f[l] = g[l]
  PROVE  Total(f, S) = Total(g, S)
<1>1. {{l} \X (1..f[l]) : l \in S} = {{l} \X (1..g[l]) : l \in S}
  OBVIOUS
<1> QED
  BY <1>1 DEF Total

LEMMA TotalAdd ==
  ASSUME NEW f \in [Leaves -> Nat], NEW S \in SUBSET Leaves, NEW x \in Leaves \ S
  PROVE  Total(f, S \cup {x}) = Total(f, S) + f[x]
<1> DEFINE D == {x} \X (1..f[x])
<1>1. IsFiniteSet(D) /\ Cardinality(D) = f[x]
  <2>1. IsFiniteSet({x}) /\ Cardinality({x}) = 1
    BY FS_Singleton
  <2>2. IsFiniteSet(1..f[x]) /\ Cardinality(1..f[x]) = f[x]
    BY FS_Interval
  <2>3. IsFiniteSet(D) /\ Cardinality(D) = 1 * f[x]
    BY <2>1, <2>2, FS_Product
  <2> QED
    BY <2>3
<1>2. IsFiniteSet(Pairs(f, S))
  BY PairsFinite
<1>3. Pairs(f, S \cup {x}) = Pairs(f, S) \cup D
  BY DEF Pairs
<1>4. Pairs(f, S) \cap D = {}
  BY DEF Pairs
<1>5. Cardinality(Pairs(f, S) \cup D) = Cardinality(Pairs(f, S)) + f[x]
  <2> HIDE DEF D
  <2>1. Cardinality(Pairs(f, S) \cup D) =
          Cardinality(Pairs(f, S)) + Cardinality(D) - Cardinality(Pairs(f, S) \cap D)
    BY <1>1, <1>2, FS_Union
  <2>2. Cardinality(Pairs(f, S)) \in Nat
    BY <1>2, FS_CardinalityType
  <2>3. Cardinality(Pairs(f, S) \cap D) = 0
    BY <1>4, FS_EmptySet
  <2> QED
    BY <1>1, <2>1, <2>2, <2>3
<1> QED
  BY <1>3, <1>5 DEF Total, Pairs

\* Changing the value of one leave changes the sum by as much.
LEMMA TotalChange ==
  ASSUME NEW f \in [Leaves -> Nat], NEW g \in [Leaves -> Nat], NEW S \in SUBSET Leaves,
         NEW x \in S, \A l \in S \ {x} : f[l] = g[l]
  PROVE  Total(g, S) = Total(f, S) - f[x] + g[x]
<1> DEFINE R == S \ {x}
<1>1. Total(f, R) = Total(g, R) /\ Total(f, R) \in Nat
  BY TotalSame, TotalNat
<1>2. S = R \cup {x} /\ x \in Leaves \ R
  OBVIOUS
<1> HIDE DEF R
<1>3. R \in SUBSET Leaves
  BY DEF R
<1>4. Total(f, S) = Total(f, R) + f[x]
  BY <1>2, <1>3, TotalAdd
<1>5. Total(g, S) = Total(g, R) + g[x]
  BY <1>2, <1>3, TotalAdd
<1> QED
  BY <1>1, <1>4, <1>5

-------------------------------------------------------------------------------
(* The types. *)

Paid == {"EL", "HPL"}
Closings == UNION {[F -> Int] : F \in SUBSET Fields}

\* What a leave costs is taken from a balance that there is.
LEMMA SourceType ==
  ASSUME NEW l \in Leaves
  PROVE  /\ Source(l) \in Paid \cup DOMAIN Cap
         /\ Cost(l) \in Nat
         /\ Source(l) \notin Paid => Source(l) = TypeOf[l] /\ Cost(l) = DaysOf[l]
         /\ Source(l) \in Paid => RecordsDebit(l)
BY TypesAssumption, DaysAssumption DEF Source, Cost, Paid, RecordsDebit, Fields

LEMMA UsedNat ==
  ASSUME NEW type
  PROVE  Used(type) \in Nat
<1> DEFINE S == {l \in Leaves : Granted(l) /\ TypeOf[l] = type}
<1>1. S \in SUBSET Leaves
  OBVIOUS
<1> HIDE DEF S
<1>2. Total(DaysOf, S) \in Nat
  BY <1>1, DaysAssumption, TotalNat
<1> QED
  BY <1>2 DEF Used, S

LEMMA AvailableInt ==
  ASSUME account \in Account \cup {Absent}, NEW type \in Paid \cup DOMAIN Cap
  PROVE  Available(type) \in Int
<1>1. Used(type) \in Nat
  BY UsedNat
<1>2. CASE type \in Paid
  <2>1. CASE account # Absent
    BY <1>2, <2>1 DEF Available, Account, Paid, Fields
  <2>2. CASE account = Absent
    BY <1>1, <1>2, <2>2, EntitlementAssumption DEF Available, AtLeastZero, Paid
  <2> QED
    BY <2>1, <2>2
<1>3. CASE type \notin Paid
  BY <1>1, <1>3, EntitlementAssumption DEF Available, AtLeastZero, Paid
<1> QED
  BY <1>2, <1>3

LEMMA InitialAccountType ==
  ASSUME account \in Account \cup {Absent}
  PROVE  InitialAccount \in Account
<1>1. ASSUME NEW f \in Fields
      PROVE  (IF f = "CML" THEN "HPL" ELSE f) \in Paid \cup DOMAIN Cap
  BY TypesAssumption DEF Fields, Paid
<1>2. \A f \in Fields : Available(IF f = "CML" THEN "HPL" ELSE f) \in Int
  BY <1>1, AvailableInt
<1> QED
  BY <1>2 DEF InitialAccount, Account

\* A debit sets the balance its leave is paid from, less what it costs, and
\* of the two that are accrued no other.
LEMMA ClosingType ==
  ASSUME NEW l \in Leaves, RecordsDebit(l), NEW a \in Int, NEW o \in [Fields -> Int]
  PROVE  /\ Closing(l, a, o) \in Closings
         /\ \A s \in Paid :
              /\ Source(l) = s <=> s \in DOMAIN Closing(l, a, o)
              /\ Source(l) = s => Closing(l, a, o)[s] = o[s] - Cost(l)
<1>0. DaysOf[l] \in Nat /\ TypeOf[l] \in Fields
  BY DaysAssumption DEF RecordsDebit
<1>1. ASSUME NEW F \in SUBSET Fields, NEW g \in [F -> Int] PROVE g \in Closings
  BY DEF Closings
<1>2. CASE TypeOf[l] \in Paid
  <2> DEFINE g == [f \in {TypeOf[l]} |-> o[f] - DaysOf[l]]
  <2>1. Closing(l, a, o) = g
    BY <1>2 DEF Closing, Paid
  <2>2. g \in [{TypeOf[l]} -> Int] /\ {TypeOf[l]} \in SUBSET Fields
    BY <1>0
  <2> QED
    BY <1>0, <1>1, <1>2, <2>1, <2>2 DEF Source, Cost, Paid
<1>3. CASE TypeOf[l] = "CML"
  <2> DEFINE g == [f \in {"HPL", "CML"} |->
                     IF f = "HPL" THEN o[f] - Cost(l) ELSE a - Cost(l)]
  <2>1. Closing(l, a, o) = g
    BY <1>3 DEF Closing
  <2>2. Cost(l) \in Nat /\ Source(l) = "HPL"
    BY <1>0, <1>3 DEF Cost, Source
  <2>3. g \in [{"HPL", "CML"} -> Int] /\ {"HPL", "CML"} \in SUBSET Fields
    BY <2>2 DEF Fields
  <2> QED
    BY <1>1, <2>1, <2>2, <2>3 DEF Paid
<1>4. CASE TypeOf[l] \notin Paid \cup {"CML"}
  <2> DEFINE g == [f \in {TypeOf[l]} |-> a - DaysOf[l]]
  <2>1. Closing(l, a, o) = g
    BY <1>4 DEF Closing, Paid
  <2>2. g \in [{TypeOf[l]} -> Int] /\ {TypeOf[l]} \in SUBSET Fields
    BY <1>0
  <2> QED
    BY <1>1, <1>4, <2>1, <2>2 DEF Source, Paid
<1> QED
  BY <1>2, <1>3, <1>4

LEMMA DebitedType ==
  ASSUME NEW acct \in Account, NEW l \in Leaves, NEW closing \in Closings
  PROVE  /\ Debited(acct, l, closing) \in Account
         /\ Debited(acct, l, closing).debits = [acct.debits EXCEPT ![l] = @ + 1]
         /\ \A f \in Fields : Debited(acct, l, closing).balance[f] =
              IF f \in DOMAIN closing THEN closing[f] ELSE acct.balance[f]
<1>1. PICK F \in SUBSET Fields : closing \in [F -> Int]
  BY DEF Closings
<1>2. acct.balance \in [Fields -> Int] /\ acct.debits \in [Leaves -> Nat]
  BY DEF Account
<1>3. Reset(acct.balance, closing) \in [Fields -> Int]
  BY <1>1, <1>2 DEF Reset
<1> QED
  BY <1>2, <1>3 DEF Debited, Account, Reset

\* A request whose next step, or the one after the lock, debits the account.
DebitAhead(c) ==
  /\ job[c].command = "SANCTION" /\ RecordsDebit(job[c].leave)
  /\ pc[c] \in {"debit", "commit"} \/ (pc[c] = "lock" /\ Transactions)

JobType ==
  [command : DOMAIN EventOf \cup {"VIEW", None}, leave : Leaves \cup {None},
   user : Users \cup {None}, status : Statuses \cup {None},
   available : Int, account : Account \cup {Absent}, closing : Closings]

Typed(c) ==
  /\ job[c] \in JobType
  /\ pc[c] \in {"overlap", "quota"} => job[c].command = "APPLY"
  /\ pc[c] \in {"balance", "account"} => job[c].command = "SANCTION"
  /\ pc[c] = "account" => RecordsDebit(job[c].leave)
  /\ pc[c] = "open" => job[c].account # Absent
  /\ pc[c] = "lock" => job[c].leave \in Attached
  /\ pc[c] \in {"debit", "write", "publish"} => ~Transactions
  /\ DebitAhead(c) => job[c].account # Absent

Events == {<<EventOf[k], l>> : k \in DOMAIN EventOf, l \in Leaves}

TInv ==
  /\ account \in Account \cup {Absent}
  /\ locked \subseteq Attached
  /\ outbox \subseteq Events
  /\ \A c \in Callers : Typed(c)
  /\ handled \in 0..MaxCommands
  /\ crashes \in 0..MaxCrashes

\* Only the request that takes the step has to be looked at.
LEMMA TypedStep ==
  ASSUME TInv, NEW c \in Callers,
         account' \in Account \cup {Absent}, locked' \subseteq Attached, outbox' \subseteq Events,
         handled' \in 0..MaxCommands, crashes' \in 0..MaxCrashes,
         \A d \in Callers \ {c} : pc'[d] = pc[d] /\ job'[d] = job[d],
         Typed(c)'
  PROVE  TInv'
<1>1. ASSUME NEW d \in Callers \ {c}
      PROVE  Typed(d)'
  <2>1. pc'[d] = pc[d] /\ job'[d] = job[d] /\ Typed(d)
    BY DEF TInv
  <2> QED
    BY <2>1 DEF Typed, DebitAhead, RecordsDebit
<1>2. \A d \in Callers : Typed(d)'
  BY <1>1
<1> QED
  BY <1>2 DEF TInv

LEMMA NewJobType ==
  ASSUME NEW command \in DOMAIN EventOf \cup {"VIEW", None}, NEW l \in Leaves \cup {None},
         NEW u \in Users \cup {None}, NEW status \in Statuses \cup {None}
  PROVE  NewJob(command, l, u, status) \in JobType
<1>1. <<>> \in Closings
  <2>1. <<>> \in [{} -> Int]
    OBVIOUS
  <2> QED
    BY <2>1 DEF Closings
<1> QED
  BY <1>1 DEF NewJob, JobType

\* A request that is done or refused.
LEMMA DoneTyped ==
  ASSUME IInv, TInv, NEW c \in Callers, Done(c),
         UNCHANGED <<locked, handled>>, account' \in Account \cup {Absent},
         outbox' \subseteq Events, crashes' \in 0..MaxCrashes
  PROVE  TInv'
<1>1. /\ pc'[c] = "idle" /\ job'[c] = Idle
      /\ \A d \in Callers \ {c} : pc'[d] = pc[d] /\ job'[d] = job[d]
  BY DEF Done, IInv, Types
<1>2. Idle \in JobType
  BY NewJobType DEF Idle
<1>3. Typed(c)'
  BY <1>1, <1>2 DEF Typed, DebitAhead
<1> QED
  BY <1>1, <1>3, TypedStep DEF TInv

\* A request that goes on to a step with what it has read.
LEMMA ProceedTyped ==
  ASSUME IInv, TInv, NEW c \in Callers, NEW s \in Steps, NEW j \in JobType, Proceed(c, s, j),
         s \in {"overlap", "quota"} => j.command = "APPLY",
         s \in {"balance", "account"} => j.command = "SANCTION",
         s = "account" => RecordsDebit(j.leave),
         s = "open" => j.account # Absent,
         s = "lock" => j.leave \in Attached,
         s \in {"debit", "write", "publish"} => ~Transactions,
         (/\ j.command = "SANCTION" /\ RecordsDebit(j.leave)
          /\ s \in {"debit", "commit"} \/ (s = "lock" /\ Transactions)) => j.account # Absent
  PROVE  TInv'
<1>1. /\ pc'[c] = s /\ job'[c] = j
      /\ \A d \in Callers \ {c} : pc'[d] = pc[d] /\ job'[d] = job[d]
      /\ UNCHANGED <<account, locked, outbox, handled, crashes>>
  BY DEF Proceed, IInv, Types
<1>2. Typed(c)'
  BY <1>1 DEF Typed, DebitAhead, RecordsDebit
<1> QED
  BY <1>1, <1>2, TypedStep DEF TInv

\* A request that starts.
LEMMA BeginTyped ==
  ASSUME IInv, TInv, NEW c \in Callers,
         NEW command \in DOMAIN EventOf \cup {"VIEW", None}, NEW l \in Leaves \cup {None},
         NEW u \in Users \cup {None}, NEW status \in Statuses \cup {None}, NEW s \in Steps,
         Begin(c, command, l, u, status, s),
         s \in {"overlap", "quota"} => command = "APPLY",
         s = "balance" => command = "SANCTION",
         s \notin {"account", "open", "debit", "publish"},
         s = "lock" => l \in Attached,
         s = "write" => ~Transactions,
         s \in {"lock", "commit"} => command # "SANCTION"
  PROVE  TInv'
<1>1. /\ pc'[c] = s /\ job'[c] = NewJob(command, l, u, status)
      /\ \A d \in Callers \ {c} : pc'[d] = pc[d] /\ job'[d] = job[d]
      /\ UNCHANGED <<account, locked, outbox, crashes>>
      /\ handled < MaxCommands /\ handled' = handled + 1
  BY DEF Begin, IInv, Types
<1>2. NewJob(command, l, u, status) \in JobType
  BY NewJobType
<1>3. /\ NewJob(command, l, u, status).command = command
      /\ NewJob(command, l, u, status).leave = l
  BY DEF NewJob
<1>4. Typed(c)'
  BY <1>1, <1>2, <1>3 DEF Typed, DebitAhead
<1>5. handled' \in 0..MaxCommands
  BY <1>1, BoundsAssumption DEF TInv
<1> QED
  BY <1>1, <1>4, <1>5, TypedStep DEF TInv

LEMMA DecidedTyped ==
  ASSUME NEW l, NEW f \in BOOLEAN
  PROVE  /\ Decided(l, f) \in {"write", "lock", "commit"}
         /\ Decided(l, f) = "lock" => l \in Attached /\ Transactions
         /\ Decided(l, f) = "write" <=> ~Transactions
BY DEF Decided

\* A request that has decided when it starts.
LEMMA BeginDecided ==
  ASSUME IInv, TInv, NEW c \in Callers, NEW command \in {"RECOMMEND", "REJECT", "CANCEL"},
         NEW l \in Leaves, NEW u \in Users, leaves[l] # Absent, NEW f \in BOOLEAN,
         Begin(c, command, l, u, leaves[l].status, Decided(l, f))
  PROVE  TInv'
<1> DEFINE s == Decided(l, f)
           status == leaves[l].status
<1>1. /\ s \in {"write", "lock", "commit"}
      /\ s = "lock" => l \in Attached
      /\ s = "write" => ~Transactions
  BY DecidedTyped
<1>2. status \in Statuses
  BY DEF IInv, Types, Application
<1>3. command \in DOMAIN EventOf
  BY CommandNames
<1>4. Begin(c, command, l, u, status, s)
  OBVIOUS
<1> HIDE DEF s, status
<1> QED
  BY <1>1, <1>2, <1>3, <1>4, BeginTyped DEF Steps

LEMMA HandleTyped ==
  ASSUME IInv, TInv, NEW c \in Callers, Handle(c)
  PROVE  TInv'
<1>0. /\ Applicant \in Users
      /\ \A l \in Leaves : leaves[l] # Absent => leaves[l].status \in Statuses
  BY UsersAssumption DEF IInv, Types, Application
<1>1. CASE View(c)
  BY <1>0, <1>1, BeginTyped DEF View, Steps
<1>2. ASSUME NEW l \in Leaves, Apply(c, l) PROVE TInv'
  <2>1. \E s \in {"build", "overlap"} : Begin(c, "APPLY", l, Applicant, None, s)
    BY <1>2 DEF Apply
  <2> QED
    BY <1>0, <2>1, BeginTyped, CommandNames DEF Steps
<1>3. ASSUME NEW l \in Leaves, NEW u \in Users, Recommend(c, l, u) PROVE TInv'
  BY <1>3, BeginDecided DEF Recommend
<1>4. ASSUME NEW l \in Leaves, NEW u \in Users, Reject(c, l, u) PROVE TInv'
  BY <1>4, BeginDecided DEF Reject
<1>5. ASSUME NEW l \in Leaves, Cancel(c, l) PROVE TInv'
  BY <1>0, <1>5, BeginDecided DEF Cancel
<1>6. ASSUME NEW l \in Leaves, NEW u \in Users, Sanction(c, l, u) PROVE TInv'
  BY <1>0, <1>6, BeginTyped, CommandNames DEF Sanction, Steps
<1> QED
  BY <1>1, <1>2, <1>3, <1>4, <1>5, <1>6 DEF Handle

\* The application a request that writes is about.
LEMMA JobLeave ==
  ASSUME IInv, NEW c \in Callers, pc[c] \notin {"idle", "build", "open"}
  PROVE  job[c].command \in DOMAIN EventOf /\ job[c].leave \in Leaves
BY CommandNames DEF IInv, Types, Inserted

LEMMA ReadsTyped ==
  ASSUME IInv, TInv, NEW c \in Callers,
         \/ BuildAccount(c) \/ OpenAccount(c) \/ CheckOverlap(c) \/ CheckQuota(c)
         \/ ReadBalance(c) \/ ReadAccount(c)
  PROVE  TInv'
<1>0. Typed(c) /\ account \in Account \cup {Absent} /\ job[c] \in JobType
  BY DEF TInv, Typed
<1>1. ASSUME Refuse(c) PROVE TInv'
  <2>1. Idle \in JobType /\ Proceed(c, "idle", Idle)
    BY <1>1, NewJobType DEF Refuse, Idle
  <2> HIDE DEF IInv, TInv
  <2> QED
    BY <2>1, ProceedTyped DEF Steps
<1>2. CASE BuildAccount(c)
  <2> DEFINE j == [job[c] EXCEPT !.account = InitialAccount]
  <2>1. InitialAccount \in Account /\ InitialAccount # Absent
    BY <1>0, InitialAccountType, AbsentAssumption
  <2>2. j \in JobType /\ j.account # Absent
    BY <1>0, <2>1 DEF JobType
  <2>3. Proceed(c, "open", j)
    BY <1>2 DEF BuildAccount
  <2> HIDE DEF j
  <2> QED
    BY <2>2, <2>3, ProceedTyped DEF Steps
<1>3. CASE OpenAccount(c)
  <2>1. account' \in Account \cup {Absent} /\ UNCHANGED <<locked, outbox, handled, crashes>>
    BY <1>0, <1>3 DEF OpenAccount, JobType
  <2>2. CASE job[c].command = "VIEW"
    <3>1. Done(c)
      BY <1>3, <2>2 DEF OpenAccount, Done
    <3> QED
      BY <2>1, <3>1, DoneTyped DEF TInv
  <2>3. CASE job[c].command # "VIEW"
    <3>1. /\ pc'[c] = "overlap" /\ job' = job /\ pc[c] = "open"
          /\ \A d \in Callers \ {c} : pc'[d] = pc[d]
      BY <1>3, <2>3 DEF OpenAccount, IInv, Types
    <3>2. job[c].command = "APPLY"
      BY <2>3, <3>1 DEF IInv, Types
    <3>3. Typed(c)'
      BY <1>0, <3>1, <3>2 DEF Typed, DebitAhead
    <3> QED
      BY <2>1, <3>1, <3>3, TypedStep DEF TInv
  <2> QED
    BY <2>2, <2>3
<1>4. CASE CheckOverlap(c)
  <2>1. job[c].command = "APPLY"
    BY <1>0, <1>4 DEF CheckOverlap, Typed
  <2> QED
    BY <1>0, <1>1, <1>4, <2>1, ProceedTyped DEF CheckOverlap, Steps
<1>5. CASE CheckQuota(c)
  <2>1. job[c].command = "APPLY"
    BY <1>0, <1>5 DEF CheckQuota, Typed
  <2>2. CASE Proceed(c, Decided(job[c].leave, FALSE), job[c])
    BY <1>0, <2>1, <2>2, DecidedTyped, ProceedTyped DEF Steps
  <2> QED
    BY <1>1, <1>5, <2>2 DEF CheckQuota
<1>6. CASE ReadBalance(c)
  <2> DEFINE l == job[c].leave
             j == [job[c] EXCEPT !.available = Available(Source(l))]
  <2>1. l \in Leaves /\ job[c].command = "SANCTION"
    BY <1>0, <1>6, JobLeave DEF ReadBalance, Typed
  <2>2. Available(Source(l)) \in Int
    BY <1>0, <2>1, SourceType, AvailableInt
  <2>3. j \in JobType /\ j.command = "SANCTION" /\ j.leave = l
    BY <1>0, <2>1, <2>2 DEF JobType
  <2>4. \/ Refuse(c)
        \/ RecordsDebit(l) /\ Proceed(c, "account", j)
        \/ ~RecordsDebit(l) /\ Proceed(c, Decided(l, TRUE), j)
    BY <1>6 DEF ReadBalance
  <2> HIDE DEF j
  <2>5. CASE RecordsDebit(l) /\ Proceed(c, "account", j)
    BY <2>3, <2>5, ProceedTyped DEF Steps
  <2>6. CASE ~RecordsDebit(l) /\ Proceed(c, Decided(l, TRUE), j)
    <3>1. ~RecordsDebit(j.leave)
      BY <2>3, <2>6
    <3> QED
      BY <2>3, <2>6, <3>1, DecidedTyped, ProceedTyped DEF Steps
  <2> QED
    BY <1>1, <2>4, <2>5, <2>6
<1>7. CASE ReadAccount(c)
  <2> DEFINE l == job[c].leave
             opening == IF account = Absent THEN InitialAccount ELSE account
             closing == Closing(l, job[c].available, opening.balance)
             j == [job[c] EXCEPT !.account = opening, !.closing = closing]
  <2>1. l \in Leaves /\ job[c].command = "SANCTION" /\ RecordsDebit(l)
    BY <1>0, <1>7, JobLeave DEF ReadAccount, Typed
  <2>2. opening \in Account /\ opening # Absent
    BY <1>0, InitialAccountType, AbsentAssumption
  <2>3. opening.balance \in [Fields -> Int] /\ job[c].available \in Int
    BY <1>0, <2>2 DEF Account, JobType
  <2>4. closing \in Closings
    BY <2>1, <2>3, ClosingType
  <2>5. \/ Refuse(c)
        \/ Proceed(c, IF Transactions THEN Decided(l, TRUE) ELSE "debit", j)
    BY <1>7 DEF ReadAccount
  <2> HIDE DEF opening, closing
  <2>6. j \in JobType /\ j.command = "SANCTION" /\ j.leave = l /\ j.account # Absent
    BY <1>0, <2>1, <2>2, <2>4 DEF JobType
  <2> HIDE DEF j
  <2>7. CASE Proceed(c, IF Transactions THEN Decided(l, TRUE) ELSE "debit", j)
    BY <2>6, <2>7, DecidedTyped, ProceedTyped, OptionsAssumption DEF Steps
  <2> QED
    BY <1>1, <2>5, <2>7
<1> QED
  BY <1>2, <1>3, <1>4, <1>5, <1>6, <1>7

\* What the debit of a sanction makes of the account.
LEMMA DebitTyped ==
  ASSUME IInv, TInv, NEW c \in Callers, pc[c] \in {"debit", "commit"}
  PROVE  WithDebit(job[c]) \in Account \cup {Absent}
<1>1. job[c].leave \in Leaves /\ Typed(c) /\ account \in Account \cup {Absent}
  BY JobLeave DEF TInv
<1>2. CASE job[c].command = "SANCTION" /\ RecordsDebit(job[c].leave)
  <2>1. job[c].account \in Account /\ job[c].closing \in Closings
    BY <1>1, <1>2 DEF Typed, DebitAhead, JobType
  <2>2. PICK acct \in Account : WithDebit(job[c]) = Debited(acct, job[c].leave, job[c].closing)
    BY <1>1, <1>2, <2>1 DEF WithDebit
  <2>3. Debited(acct, job[c].leave, job[c].closing) \in Account
    BY <1>1, <2>1, DebitedType
  <2> QED
    BY <2>2, <2>3
<1>3. CASE ~(job[c].command = "SANCTION" /\ RecordsDebit(job[c].leave))
  BY <1>1, <1>3 DEF WithDebit
<1> QED
  BY <1>2, <1>3

LEMMA PublishTyped ==
  ASSUME IInv, TInv, NEW c \in Callers, pc[c] \in {"commit", "publish"}, Publish(c)
  PROVE  outbox' \subseteq Events
<1>1. job[c].command \in DOMAIN EventOf /\ job[c].leave \in Leaves
  BY JobLeave
<1> QED
  BY <1>1 DEF Publish, Events, TInv

LEMMA WritesTyped ==
  ASSUME IInv, TInv, NEW c \in Callers,
         \/ Commit(c) \/ WriteDebit(c) \/ WriteLeave(c) \/ AddEvent(c) \/ LockAttachments(c)
         \/ CutOff(c)
  PROVE  TInv'
<1>0. Typed(c)
  BY DEF TInv
<1>1. CASE Commit(c)
  BY <1>1, DebitTyped, PublishTyped, DoneTyped DEF Commit, TInv
<1>2. CASE AddEvent(c)
  BY <1>2, PublishTyped, DoneTyped DEF AddEvent, TInv
<1>3. CASE CutOff(c)
  BY <1>0, <1>3, DoneTyped, BoundsAssumption DEF CutOff, TInv
<1>4. CASE WriteDebit(c)
  <2>1. /\ pc[c] = "debit" /\ pc'[c] = "write" /\ job' = job
        /\ \A d \in Callers \ {c} : pc'[d] = pc[d]
        /\ UNCHANGED <<locked, outbox, handled, crashes>>
        /\ account' \in Account \cup {Absent}
    BY <1>4, DebitTyped DEF WriteDebit, IInv, Types
  <2>2. Typed(c)'
    BY <1>0, <2>1 DEF Typed, DebitAhead, RecordsDebit
  <2> QED
    BY <2>1, <2>2, TypedStep DEF TInv
<1>5. CASE WriteLeave(c)
  <2>1. /\ pc[c] = "write" /\ job' = job
        /\ \/ pc'[c] = "lock" /\ job[c].leave \in Attached
           \/ pc'[c] = "publish"
        /\ \A d \in Callers \ {c} : pc'[d] = pc[d]
        /\ UNCHANGED <<account, locked, outbox, handled, crashes>>
    BY <1>5 DEF WriteLeave, IInv, Types
  <2>2. Typed(c)'
    BY <1>0, <2>1 DEF Typed, DebitAhead, RecordsDebit
  <2> QED
    BY <2>1, <2>2, TypedStep DEF TInv
<1>6. CASE LockAttachments(c)
  <2>1. /\ pc[c] = "lock" /\ job' = job
        /\ pc'[c] = IF Transactions THEN "commit" ELSE "publish"
        /\ \A d \in Callers \ {c} : pc'[d] = pc[d]
        /\ UNCHANGED <<account, outbox, handled>>
    BY <1>6 DEF LockAttachments, IInv, Types
  <2>2. Typed(c)'
    BY <1>0, <2>1, OptionsAssumption DEF Typed, DebitAhead, RecordsDebit
  <2>3. locked' \subseteq Attached
    BY <1>0, <1>6, <2>1 DEF LockAttachments, Typed, TInv
  <2>4. crashes' \in 0..MaxCrashes
    BY <1>6, BoundsAssumption DEF LockAttachments, TInv
  <2> QED
    BY <2>1, <2>2, <2>3, <2>4, TypedStep DEF TInv
<1> QED
  BY <1>1, <1>2, <1>3, <1>4, <1>5, <1>6

LEMMA InitAccount ==
  ASSUME Init
  PROVE  account \in Account \cup {Absent} /\ (Seeded = TRUE => account \in Account)
<1> DEFINE b == [f \in Fields |-> CASE f \in {"EL", "HPL"} -> Accrued[f]
                                    [] f = "CML" -> Accrued["HPL"]
                                    [] OTHER -> Cap[f]]
<1>1. b \in [Fields -> Int]
  BY EntitlementAssumption, TypesAssumption DEF Fields
<1>2. account = IF Seeded THEN [balance |-> b, debits |-> [l \in Leaves |-> 0]] ELSE Absent
  BY DEF Init
<1> HIDE DEF b
<1> QED
  BY <1>1, <1>2 DEF Account

LEMMA InitTInv == Init => TInv
<1> SUFFICES ASSUME Init PROVE TInv
  OBVIOUS
<1>1. account \in Account \cup {Absent}
  BY InitAccount
<1>2. ASSUME NEW c \in Callers PROVE Typed(c)
  <2>1. pc[c] = "idle" /\ job[c] = Idle /\ Idle \in JobType
    BY NewJobType DEF Init, Idle
  <2> QED
    BY <2>1 DEF Typed, DebitAhead
<1> QED
  BY <1>1, <1>2, BoundsAssumption DEF Init, TInv

LEMMA StepTInv == IInv /\ TInv /\ [Next]_vars => TInv'
<1> SUFFICES ASSUME IInv, TInv, [Next]_vars PROVE TInv'
  OBVIOUS
<1>1. ASSUME NEW c \in Callers, Handle(c) PROVE TInv'
  BY <1>1, HandleTyped
<1>2. ASSUME NEW c \in Callers,
             \/ BuildAccount(c) \/ OpenAccount(c) \/ CheckOverlap(c) \/ CheckQuota(c)
             \/ ReadBalance(c) \/ ReadAccount(c)
      PROVE  TInv'
  BY <1>2, ReadsTyped
<1>3. ASSUME NEW c \in Callers,
             \/ Commit(c) \/ WriteDebit(c) \/ WriteLeave(c) \/ AddEvent(c) \/ LockAttachments(c)
             \/ CutOff(c)
      PROVE  TInv'
  BY <1>3, WritesTyped
<1>4. CASE UNCHANGED vars
  BY <1>4 DEF vars, TInv, Typed, DebitAhead, RecordsDebit
<1> QED
  BY <1>1, <1>2, <1>3, <1>4 DEF Next

\* Whatever requests run at the same time, every document and every request
\* has the type the model gives it: no balance is computed from a document
\* that is not there, and no lock is set on an application without
\* attachments.
THEOREM TypeCorrect == Spec => []TypeOK
<1>1. Init => IInv /\ TInv
  BY InitIInv, InitTInv
<1>2. IInv /\ TInv /\ [Next]_vars => (IInv /\ TInv)'
  BY StepIInv, StepTInv
<1>3. IInv /\ TInv => TypeOK
  <2> SUFFICES ASSUME IInv, TInv PROVE TypeOK
    OBVIOUS
  <2>1. ASSUME NEW c \in Callers
        PROVE  [command |-> job[c].command, leave |-> job[c].leave,
                user |-> job[c].user, status |-> job[c].status] \in Jobs
    BY DEF TInv, Typed, JobType, Jobs
  <2>2. \A e \in outbox : \E k \in DOMAIN EventOf, l \in Leaves : e = <<EventOf[k], l>>
    BY DEF TInv, Events
  <2> QED
    BY <2>1, <2>2 DEF IInv, Types, TInv, TypeOK
<1> QED
  BY <1>1, <1>2, <1>3, PTL DEF Spec

-------------------------------------------------------------------------------
(* What a sanctioned leave cost. *)

Owed(l) == RecordsDebit(l) => account.debits[l] > 0

\* No request opens the account again, and one that is about to write a
\* sanction on its own has debited it before.
Covered(c) ==
  /\ pc[c] \notin {"build", "open"}
  /\ pc[c] \in {"overlap", "quota"} => job[c].command = "APPLY"
  /\ pc[c] = "write" /\ job[c].command = "SANCTION" => Owed(job[c].leave)

DInv ==
  /\ account # Absent /\ account.debits \in [Leaves -> Nat]
  /\ \A l \in Leaves : Granted(l) => Owed(l)
  /\ \A c \in Callers : Covered(c)

\* A debit is added to the account, whatever else was, and taken from none.
LEMMA DebitAdds ==
  ASSUME IInv, TInv, DInv, NEW c \in Callers, pc[c] \in {"debit", "commit"}
  PROVE  LET l == job[c].leave
         IN  /\ WithDebit(job[c]) # Absent
             /\ WithDebit(job[c]).debits \in [Leaves -> Nat]
             /\ \A k \in Leaves : WithDebit(job[c]).debits[k] >= account.debits[k]
             /\ job[c].command = "SANCTION" /\ RecordsDebit(l) =>
                  WithDebit(job[c]).debits[l] > 0
<1> DEFINE l == job[c].leave
<1>0. /\ l \in Leaves /\ job[c].closing \in Closings
      /\ account \in Account /\ account # Absent
  BY JobLeave DEF TInv, Typed, JobType, DInv
<1>1. CASE job[c].command = "SANCTION" /\ RecordsDebit(l)
  <2> DEFINE d == [account.debits EXCEPT ![l] = @ + 1]
             acct == WithDebit(job[c])
  <2>1. acct = Debited(account, l, job[c].closing)
    BY <1>0, <1>1 DEF WithDebit
  <2>2. d \in [Leaves -> Nat] /\ d[l] > 0 /\ \A k \in Leaves : d[k] >= account.debits[k]
    BY <1>0 DEF DInv
  <2> HIDE DEF d, acct
  <2>3. acct \in Account /\ acct.debits = d
    BY <1>0, <2>1, DebitedType DEF d
  <2> QED
    BY <2>2, <2>3, AbsentAssumption DEF acct
<1>2. CASE ~(job[c].command = "SANCTION" /\ RecordsDebit(l))
  <2>1. WithDebit(job[c]) = account
    BY <1>2 DEF WithDebit
  <2>2. account.debits \in [Leaves -> Nat]
    BY DEF DInv
  <2> QED
    BY <1>0, <1>2, <2>1, <2>2
<1> QED
  BY <1>1, <1>2

\* Only a sanction writes SANCTIONED.
LEMMA WrittenGranted ==
  ASSUME IInv, NEW c \in Callers, job[c].command \in DOMAIN EventOf \ {"SANCTION"},
         pc[c] # "publish"
  PROVE  Written(job[c]).status # "SANCTIONED"
<1> DEFINE l == job[c].leave
<1>1. CASE job[c].command = "APPLY"
  BY <1>1 DEF Written
<1>2. CASE job[c].command # "APPLY"
  <2>1. leaves[l] \in Application
    BY <1>2, CommandNames DEF IInv, Types, Inserted
  <2>2. CASE job[c].command = "RECOMMEND"
    <3>1. Written(job[c]) =
            [leaves[l] EXCEPT !.status = "RECOMMENDED", !.recommended_by = job[c].user]
      BY <2>2 DEF Written
    <3> QED
      BY <2>1, <3>1 DEF Application
  <2>3. CASE job[c].command = "REJECT"
    BY <2>1, <2>3 DEF Written, Application
  <2>4. CASE job[c].command = "CANCEL"
    BY <2>1, <2>4 DEF Written, Application
  <2> QED
    BY <1>2, <2>2, <2>3, <2>4, CommandNames
<1> QED
  BY <1>1, <1>2

\* A step after which every leave that is granted, and every request about to
\* write, is covered by debits that have only grown.
LEMMA CoveredStep ==
  ASSUME IInv, DInv, NEW c \in Callers,
         account' # Absent, account'.debits \in [Leaves -> Nat],
         \A l \in Leaves : account'.debits[l] >= account.debits[l],
         \A l \in Leaves : Granted(l)' => Granted(l) \/ Owed(l)',
         \A d \in Callers \ {c} : pc'[d] = pc[d] /\ job'[d] = job[d],
         Covered(c)'
  PROVE  DInv'
<1>1. \A l \in Leaves : Owed(l) => Owed(l)'
  <2>1. ASSUME NEW l \in Leaves, account.debits[l] > 0
        PROVE  account'.debits[l] > 0
    <3>1. account.debits[l] \in Nat /\ account'.debits[l] \in Nat
      BY DEF DInv
    <3> QED
      BY <2>1, <3>1
  <2> QED
    BY <2>1 DEF Owed, RecordsDebit
<1>2. \A l \in Leaves : Granted(l)' => Owed(l)'
  BY <1>1 DEF DInv
<1>3. ASSUME NEW d \in Callers
      PROVE  Covered(d)'
  <2>1. CASE d = c
    BY <2>1
  <2>2. CASE d # c
    <3>1. job[d].command = "SANCTION" => job[d].leave \in Leaves
      BY DEF IInv, Inserted
    <3>2. pc'[d] = pc[d] /\ job'[d] = job[d] /\ Covered(d)
      BY <2>2 DEF DInv
    <3>3. pc[d] = "write" /\ job[d].command = "SANCTION" => Owed(job[d].leave)'
      BY <1>1, <3>1, <3>2 DEF Covered
    <3> QED
      BY <3>2, <3>3 DEF Covered, Owed, RecordsDebit
  <2> QED
    BY <2>1, <2>2
<1> QED
  BY <1>2, <1>3 DEF DInv

\* A step that only takes the request c to another point.
LEMMA MovedStep ==
  ASSUME IInv, DInv, NEW c \in Callers, UNCHANGED <<leaves, account>>,
         \A d \in Callers \ {c} : pc'[d] = pc[d] /\ job'[d] = job[d],
         Covered(c)'
  PROVE  DInv'
<1>1. \A l \in Leaves : Granted(l)' => Granted(l) \/ Owed(l)'
  BY DEF Granted
<1>2. /\ account' # Absent /\ account'.debits \in [Leaves -> Nat]
      /\ \A l \in Leaves : account'.debits[l] >= account.debits[l]
  BY DEF DInv
<1> HIDE DEF IInv, DInv
<1> QED
  BY <1>1, <1>2, CoveredStep

\* A request that is done or refused.
LEMMA EndedStep ==
  ASSUME IInv, DInv, UNCHANGED <<leaves, account>>, NEW c \in Callers, Done(c)
  PROVE  DInv'
<1>1. /\ pc'[c] = "idle"
      /\ \A d \in Callers \ {c} : pc'[d] = pc[d] /\ job'[d] = job[d]
  BY DEF Done, IInv, Types
<1>2. Covered(c)'
  BY <1>1 DEF Covered
<1> QED
  BY <1>1, <1>2, MovedStep

\* A request goes on with what it has read.
LEMMA OnwardStep ==
  ASSUME IInv, DInv, NEW c \in Callers, NEW s \in Steps \ {"build", "open"}, NEW j,
         Proceed(c, s, j),
         s = "quota" => pc[c] = "overlap" /\ j.command = job[c].command,
         s # "overlap",
         s = "write" => j.command # "SANCTION" \/ ~RecordsDebit(j.leave)
  PROVE  DInv'
<1>1. /\ pc'[c] = s /\ job'[c] = j
      /\ \A d \in Callers \ {c} : pc'[d] = pc[d] /\ job'[d] = job[d]
      /\ UNCHANGED <<leaves, account>>
  BY DEF Proceed, IInv, Types
<1>2. s = "quota" => j.command = "APPLY"
  BY DEF DInv, Covered
<1>3. Covered(c)'
  BY <1>1, <1>2 DEF Covered, Owed, RecordsDebit
<1> QED
  BY <1>1, <1>3, MovedStep

\* A request that starts neither opens an account nor is about to write a
\* sanction.
LEMMA StartStep ==
  ASSUME IInv, DInv, NEW c \in Callers, NEW command, NEW l, NEW u, NEW status,
         NEW s \in Steps \ {"build", "open", "quota"},
         Begin(c, command, l, u, status, s),
         s = "overlap" => command = "APPLY",
         s = "write" => command # "SANCTION"
  PROVE  DInv'
<1>1. /\ pc'[c] = s /\ job'[c] = NewJob(command, l, u, status)
      /\ \A d \in Callers \ {c} : pc'[d] = pc[d] /\ job'[d] = job[d]
      /\ UNCHANGED <<leaves, account>>
  BY DEF Begin, IInv, Types
<1>2. job'[c].command = command
  BY <1>1 DEF NewJob
<1>3. Covered(c)'
  BY <1>1, <1>2 DEF Covered
<1> QED
  BY <1>1, <1>3, MovedStep

LEMMA HandleDebited ==
  ASSUME IInv, DInv, NEW c \in Callers, Handle(c)
  PROVE  DInv'
<1>1. ~View(c)
  BY DEF View, DInv
<1>2. ASSUME NEW l \in Leaves, Apply(c, l) PROVE DInv'
  <2>1. Begin(c, "APPLY", l, Applicant, None, "overlap")
    BY <1>2 DEF Apply, DInv
  <2> QED
    BY <2>1, StartStep DEF Steps
<1>3. ASSUME NEW l \in Leaves, NEW u \in Users, Recommend(c, l, u) PROVE DInv'
  BY <1>3, DecidedStep, StartStep DEF Recommend, Steps
<1>4. ASSUME NEW l \in Leaves, NEW u \in Users, Reject(c, l, u) PROVE DInv'
  BY <1>4, DecidedStep, StartStep DEF Reject, Steps
<1>5. ASSUME NEW l \in Leaves, Cancel(c, l) PROVE DInv'
  BY <1>5, DecidedStep, StartStep DEF Cancel, Steps
<1>6. ASSUME NEW l \in Leaves, NEW u \in Users, Sanction(c, l, u) PROVE DInv'
  BY <1>6, StartStep DEF Sanction, Steps
<1> QED
  BY <1>1, <1>2, <1>3, <1>4, <1>5, <1>6 DEF Handle

LEMMA ReadsDebited ==
  ASSUME IInv, DInv, NEW c \in Callers,
         \/ BuildAccount(c) \/ OpenAccount(c) \/ CheckOverlap(c) \/ CheckQuota(c)
         \/ ReadBalance(c) \/ ReadAccount(c)
  PROVE  DInv'
<1>1. ASSUME Refuse(c) PROVE DInv'
  BY <1>1, OnwardStep DEF Refuse, Steps
<1>2. ~BuildAccount(c) /\ ~OpenAccount(c)
  BY DEF BuildAccount, OpenAccount, DInv, Covered
<1>3. CASE CheckOverlap(c)
  BY <1>1, <1>3, OnwardStep DEF CheckOverlap, Steps
<1>4. CASE CheckQuota(c)
  <2>1. pc[c] = "quota" /\ job[c].command = "APPLY"
    BY <1>4 DEF CheckQuota, DInv, Covered
  <2>2. \/ Refuse(c)
        \/ \E s \in {"write", "lock", "commit"} : Proceed(c, s, job[c])
    BY <1>4, DecidedStep DEF CheckQuota
  <2> QED
    BY <1>1, <2>1, <2>2, OnwardStep DEF Steps
<1>5. CASE ReadBalance(c)
  <2> DEFINE j == [job[c] EXCEPT !.available = Available(Source(job[c].leave))]
  <2>1. j.leave = job[c].leave
    BY DEF IInv, Types, Shaped
  <2>2. \/ Refuse(c)
        \/ RecordsDebit(job[c].leave) /\ Proceed(c, "account", j)
        \/ /\ ~RecordsDebit(job[c].leave)
           /\ \E s \in {"write", "lock", "commit"} : Proceed(c, s, j)
    BY <1>5, DecidedStep DEF ReadBalance
  <2> HIDE DEF j
  <2> QED
    BY <1>1, <2>1, <2>2, OnwardStep DEF Steps
<1>6. CASE ReadAccount(c)
  <2>1. \/ Refuse(c)
        \/ \E j : \E s \in {"debit", "lock", "commit"} : Proceed(c, s, j)
    BY <1>6 DEF ReadAccount, Decided
  <2> QED
    BY <1>1, <2>1, OnwardStep DEF Steps
<1> QED
  BY <1>2, <1>3, <1>4, <1>5, <1>6

\* The transaction grants the leave it debits; on its own the status is
\* written after the debit.
LEMMA WritesDebited ==
  ASSUME IInv, TInv, DInv, NEW c \in Callers,
         Commit(c) \/ WriteLeave(c) \/ WriteDebit(c)
  PROVE  DInv'
<1>1. PICK l \in Leaves :
        l = job[c].leave /\ job[c].command \in DOMAIN EventOf /\ pc[c] # "publish"
  BY CommandNames DEF Commit, WriteLeave, WriteDebit, IInv, Types, Inserted
<1>2. pc[c] \in {"debit", "commit"} =>
        /\ WithDebit(job[c]) # Absent
        /\ WithDebit(job[c]).debits \in [Leaves -> Nat]
        /\ \A k \in Leaves : WithDebit(job[c]).debits[k] >= account.debits[k]
        /\ job[c].command = "SANCTION" /\ RecordsDebit(l) => WithDebit(job[c]).debits[l] > 0
  BY <1>1, DebitAdds
<1>3. ASSUME leaves' = [leaves EXCEPT ![job[c].leave] = Written(job[c])],
             job[c].command = "SANCTION" => Owed(l)'
      PROVE  \A k \in Leaves : Granted(k)' => Granted(k) \/ Owed(k)'
  <2>1. \A k \in Leaves \ {l} : leaves'[k] = leaves[k]
    BY <1>1, <1>3 DEF IInv, Types
  <2>2. leaves'[l] = Written(job[c])
    BY <1>1, <1>3 DEF IInv, Types
  <2>3. Granted(l)' => job[c].command = "SANCTION"
    BY <1>1, <2>2, WrittenGranted DEF Granted
  <2> QED
    BY <1>3, <2>1, <2>3 DEF Granted
<1>4. CASE Commit(c)
  <2>1. /\ pc[c] = "commit" /\ account' = WithDebit(job[c])
        /\ pc'[c] = "idle"
        /\ \A d \in Callers \ {c} : pc'[d] = pc[d] /\ job'[d] = job[d]
    BY <1>4 DEF Commit, Done, IInv, Types
  <2>2. job[c].command = "SANCTION" => Owed(l)'
    BY <1>1, <1>2, <2>1 DEF Owed, RecordsDebit
  <2>3. \A k \in Leaves : Granted(k)' => Granted(k) \/ Owed(k)'
    BY <1>3, <1>4, <2>2 DEF Commit
  <2>4. Covered(c)'
    BY <2>1 DEF Covered
  <2> QED
    BY <1>2, <2>1, <2>3, <2>4, CoveredStep
<1>5. CASE WriteLeave(c)
  <2>1. /\ UNCHANGED account
        /\ pc'[c] \in {"lock", "publish"}
        /\ \A d \in Callers \ {c} : pc'[d] = pc[d] /\ job'[d] = job[d]
    BY <1>5 DEF WriteLeave, IInv, Types
  <2>2. job[c].command = "SANCTION" => Owed(l)'
    BY <1>1, <1>5, <2>1 DEF WriteLeave, DInv, Covered, Owed, RecordsDebit
  <2>3. \A k \in Leaves : Granted(k)' => Granted(k) \/ Owed(k)'
    BY <1>3, <1>5, <2>2 DEF WriteLeave
  <2>4. Covered(c)'
    BY <2>1 DEF Covered
  <2>5. /\ account' # Absent /\ account'.debits \in [Leaves -> Nat]
        /\ \A k \in Leaves : account'.debits[k] >= account.debits[k]
    BY <2>1 DEF DInv
  <2> QED
    BY <2>1, <2>3, <2>4, <2>5, CoveredStep
<1>6. CASE WriteDebit(c)
  <2>1. /\ pc[c] = "debit" /\ account' = WithDebit(job[c]) /\ UNCHANGED <<leaves, job>>
        /\ pc'[c] = "write"
        /\ \A d \in Callers \ {c} : pc'[d] = pc[d] /\ job'[d] = job[d]
    BY <1>6 DEF WriteDebit, IInv, Types
  <2>2. Covered(c)'
    BY <1>1, <1>2, <2>1 DEF Covered, Owed, RecordsDebit
  <2>3. \A k \in Leaves : Granted(k)' => Granted(k) \/ Owed(k)'
    BY <2>1 DEF Granted
  <2> QED
    BY <1>2, <2>1, <2>2, <2>3, CoveredStep
<1> QED
  BY <1>4, <1>5, <1>6

LEMMA InitDInv ==
  ASSUME Seeded = TRUE, Init
  PROVE  DInv
<1>1. account # Absent /\ account.debits = [l \in Leaves |-> 0]
  <2>1. account \in Account
    BY InitAccount DEF Init
  <2> QED
    BY <2>1, AbsentAssumption DEF Init
<1> QED
  BY <1>1 DEF Init, DInv, Covered, Granted

LEMMA StepDInv ==
  ASSUME IInv, TInv, DInv, [Next]_vars
  PROVE  DInv'
<1>1. ASSUME NEW c \in Callers, Handle(c) PROVE DInv'
  BY <1>1, HandleDebited
<1>2. ASSUME NEW c \in Callers,
             \/ BuildAccount(c) \/ OpenAccount(c) \/ CheckOverlap(c) \/ CheckQuota(c)
             \/ ReadBalance(c) \/ ReadAccount(c)
      PROVE  DInv'
  BY <1>2, ReadsDebited
<1>3. ASSUME NEW c \in Callers, Commit(c) \/ WriteLeave(c) \/ WriteDebit(c) PROVE DInv'
  BY <1>3, WritesDebited
<1>4. ASSUME NEW c \in Callers, AddEvent(c) \/ CutOff(c) PROVE DInv'
  BY <1>4, EndedStep DEF AddEvent, CutOff
<1>5. ASSUME NEW c \in Callers, LockAttachments(c) PROVE DInv'
  <2>1. /\ UNCHANGED <<leaves, account>>
        /\ pc'[c] \in {"commit", "publish"}
        /\ \A d \in Callers \ {c} : pc'[d] = pc[d] /\ job'[d] = job[d]
    BY <1>5 DEF LockAttachments, IInv, Types
  <2>2. Covered(c)'
    BY <2>1 DEF Covered
  <2> QED
    BY <2>1, <2>2, MovedStep
<1>6. CASE UNCHANGED vars
  BY <1>6 DEF vars, DInv, Covered, Owed, Granted, RecordsDebit
<1> QED
  BY <1>1, <1>2, <1>3, <1>4, <1>5, <1>6 DEF Next

\* Once the employee's account exists, no leave is ever sanctioned without
\* its debit on record, whatever requests run at the same time and are cut
\* off, with and without transactions.
THEOREM SanctionsDebited ==
  ASSUME Seeded = TRUE
  PROVE  Spec => []SanctionedIsDebited
<1>1. Init => IInv /\ TInv /\ DInv
  BY InitIInv, InitTInv, InitDInv
<1>2. IInv /\ TInv /\ DInv /\ [Next]_vars => (IInv /\ TInv /\ DInv)'
  BY StepIInv, StepTInv, StepDInv
<1>3. DInv => SanctionedIsDebited
  BY DEF DInv, SanctionedIsDebited, DebitsOf, Owed
<1> QED
  BY <1>1, <1>2, <1>3, PTL DEF Spec

-------------------------------------------------------------------------------
(* Requests that are handled one at a time: what is granted can be paid.    *)

OneAtATime == \A c, d \in Callers : c = d

Of(s) == {l \in Leaves : Source(l) = s}
Debts(acct) == [l \in Leaves |-> acct.debits[l] * Cost(l)]

\* What was accrued covers the balance and the debits, and is all that they
\* come from when the service start is known.
Sound(acct) ==
  \A s \in Paid :
    /\ acct.balance[s] >= 0
    /\ acct.balance[s] + Total(Debts(acct), Of(s)) <= Accrued[s]
    /\ ServiceStart => acct.balance[s] + Total(Debts(acct), Of(s)) = Accrued[s]

\* A request that has not written its status yet, and a leave nobody has
\* decided about.
Ahead(c) ==
  /\ job[c].command \in DOMAIN EventOf
  /\ pc[c] \notin {"idle", "publish"}
  /\ pc[c] = "lock" => Transactions

Undone(l) == leaves[l] # Absent => leaves[l].status \in {"SUBMITTED", "RECOMMENDED"}

Owing(l) == RecordsDebit(l) => account # Absent /\ account.debits[l] > 0

\* What the debit starts from is still the account.
Payable(j) ==
  /\ account # Absent => j.account = account
  /\ Sound(j.account)
  /\ j.closing = Closing(j.leave, j.available, j.account.balance)
  /\ \A f \in DOMAIN j.closing : j.closing[f] >= 0

Affordable(l) == TypeOf[l] \in DOMAIN Cap => Used(TypeOf[l]) + DaysOf[l] <= Cap[TypeOf[l]]

Ready(c) ==
  /\ pc[c] \in {"build", "open"} => account = Absent
  /\ pc[c] = "open" => Sound(job[c].account)
  /\ Ahead(c) => Undone(job[c].leave)
  /\ DebitAhead(c) => Payable(job[c])
  /\ Ahead(c) /\ job[c].command = "SANCTION" /\ pc[c] # "balance" => Affordable(job[c].leave)
  /\ pc[c] = "write" /\ job[c].command = "SANCTION" => Owing(job[c].leave)

Funded ==
  /\ account # Absent => Sound(account)
  /\ \A l \in Leaves : Granted(l) => Owing(l)
  /\ \A s \in DOMAIN Cap : Used(s) <= Cap[s]

EInv == Funded /\ \A c \in Callers : Ready(c)

LEMMA SameLeaves ==
  ASSUME UNCHANGED leaves
  PROVE  /\ \A l \in Leaves : Granted(l)' <=> Granted(l)
         /\ \A s : Used(s)' = Used(s)
BY DEF Granted, Used

LEMMA DebtsType ==
  ASSUME NEW acct \in Account
  PROVE  Debts(acct) \in [Leaves -> Nat]
<1>1. ASSUME NEW l \in Leaves
      PROVE  acct.debits[l] * Cost(l) \in Nat
  <2>1. acct.debits[l] \in Nat /\ Cost(l) \in Nat
    BY SourceType DEF Account
  <2> QED
    BY <2>1
<1> QED
  BY <1>1 DEF Debts

LEMMA NoDebts ==
  ASSUME NEW acct, acct.debits = [l \in Leaves |-> 0], NEW s
  PROVE  Total(Debts(acct), Of(s)) = 0
<1>1. ASSUME NEW l \in Of(s)
      PROVE  Debts(acct)[l] = 0
  <2>1. l \in Leaves /\ Cost(l) \in Nat
    BY SourceType DEF Of
  <2> QED
    BY <2>1 DEF Debts
<1> QED
  BY <1>1, TotalZero

\* The account that is computed when there is none.
LEMMA InitialSound ==
  ASSUME Funded, account = Absent
  PROVE  Sound(InitialAccount)
<1> SUFFICES ASSUME NEW s \in Paid
             PROVE  /\ InitialAccount.balance[s] >= 0
                    /\ InitialAccount.balance[s] + Total(Debts(InitialAccount), Of(s)) <= Accrued[s]
                    /\ ServiceStart => InitialAccount.balance[s]
                                         + Total(Debts(InitialAccount), Of(s)) = Accrued[s]
  BY DEF Sound
<1>1. Used(s) = 0
  <2>1. {l \in Leaves : Granted(l) /\ TypeOf[l] = s} = {}
    BY DEF Funded, Owing, RecordsDebit, Paid, Fields
  <2>2. Total(DaysOf, {}) = 0
    BY TotalZero
  <2> QED
    BY <2>1, <2>2 DEF Used
<1>2. InitialAccount.balance[s] = Available(s)
  BY DEF InitialAccount, Paid, Fields
<1>3. Total(Debts(InitialAccount), Of(s)) = 0
  BY NoDebts DEF InitialAccount
<1>4. Accrued[s] \in Nat
  BY EntitlementAssumption DEF Paid
<1>5. Available(s) = IF ServiceStart THEN Accrued[s] ELSE 0
  BY <1>1, <1>4 DEF Available, AtLeastZero, Paid
<1> QED
  BY <1>2, <1>3, <1>4, <1>5

\* A debit takes from the balance what it adds to the debts.
LEMMA DebitedSound ==
  ASSUME NEW acct \in Account, Sound(acct), NEW l \in Leaves, RecordsDebit(l), NEW a \in Int,
         \A f \in DOMAIN Closing(l, a, acct.balance) : Closing(l, a, acct.balance)[f] >= 0
  PROVE  Sound(Debited(acct, l, Closing(l, a, acct.balance)))
<1> DEFINE closing == Closing(l, a, acct.balance)
           next == Debited(acct, l, closing)
<1>0. acct.balance \in [Fields -> Int] /\ acct.debits \in [Leaves -> Nat] /\ Cost(l) \in Nat
  BY SourceType DEF Account
<1>1. /\ closing \in Closings
      /\ \A s \in Paid :
           /\ Source(l) = s <=> s \in DOMAIN closing
           /\ Source(l) = s => closing[s] = acct.balance[s] - Cost(l)
           /\ s \in DOMAIN closing => closing[s] >= 0
  BY <1>0, ClosingType
<1> HIDE DEF closing
<1>2. /\ next \in Account
      /\ next.debits = [acct.debits EXCEPT ![l] = @ + 1]
      /\ \A f \in Fields :
           next.balance[f] = IF f \in DOMAIN closing THEN closing[f] ELSE acct.balance[f]
  BY <1>1, DebitedType
<1> HIDE DEF next
<1>3. Debts(acct) \in [Leaves -> Nat] /\ Debts(next) \in [Leaves -> Nat]
  BY <1>2, DebtsType
<1>4. \A k \in Leaves \ {l} : Debts(acct)[k] = Debts(next)[k]
  BY <1>0, <1>2 DEF Debts
<1>5. Debts(next)[l] = Debts(acct)[l] + Cost(l)
  <2>1. \A m, n \in Nat : (m + 1) * n = m * n + n
    OBVIOUS
  <2>2. Debts(next)[l] = (acct.debits[l] + 1) * Cost(l)
    BY <1>0, <1>2 DEF Debts
  <2>3. Debts(acct)[l] = acct.debits[l] * Cost(l)
    BY DEF Debts
  <2> QED
    BY <1>0, <2>1, <2>2, <2>3
<1>6. ASSUME NEW s \in Paid
      PROVE  /\ next.balance[s] >= 0
             /\ next.balance[s] + Total(Debts(next), Of(s)) =
                  acct.balance[s] + Total(Debts(acct), Of(s))
  <2>0. /\ Of(s) \in SUBSET Leaves /\ Total(Debts(acct), Of(s)) \in Nat
        /\ acct.balance[s] \in Int /\ acct.balance[s] >= 0
        /\ next.balance[s] = IF s \in DOMAIN closing THEN closing[s] ELSE acct.balance[s]
    <3>1. Of(s) \in SUBSET Leaves /\ s \in Fields
      BY DEF Of, Paid, Fields
    <3> QED
      BY <1>0, <1>2, <1>3, <3>1, TotalNat DEF Sound
  <2>1. CASE Source(l) = s
    <3>1. l \in Of(s)
      BY <2>1 DEF Of
    <3>2. Total(Debts(next), Of(s)) = Total(Debts(acct), Of(s)) - Debts(acct)[l] + Debts(next)[l]
      BY <1>3, <1>4, <2>0, <3>1, TotalChange
    <3>3. next.balance[s] = acct.balance[s] - Cost(l) /\ next.balance[s] >= 0
      BY <1>1, <2>0, <2>1
    <3>4. Debts(acct)[l] \in Nat
      BY <1>3
    <3> QED
      BY <1>0, <1>5, <2>0, <3>2, <3>3, <3>4
  <2>2. CASE Source(l) # s
    <3>1. \A k \in Of(s) : Debts(acct)[k] = Debts(next)[k]
      BY <1>4, <2>2 DEF Of
    <3>2. Total(Debts(next), Of(s)) = Total(Debts(acct), Of(s))
      BY <3>1, TotalSame
    <3> QED
      BY <1>1, <2>0, <2>2, <3>2
  <2> QED
    BY <2>1, <2>2
<1>7. Sound(next)
  BY <1>6 DEF Sound
<1> QED
  BY <1>7 DEF next, closing

-------------------------------------------------------------------------------
\* A step that leaves the documents alone has only the request to look at.
LEMMA ReadyStep ==
  ASSUME OneAtATime, EInv, NEW c \in Callers, UNCHANGED <<leaves, account>>, Ready(c)'
  PROVE  EInv'
<1>1. Funded'
  <2>1. Funded
    BY DEF EInv
  <2>2. \A l \in Leaves : Granted(l)' => Owing(l)'
    BY <2>1, SameLeaves DEF Funded, Owing, RecordsDebit
  <2>3. \A s \in DOMAIN Cap : Used(s)' <= Cap[s]
    BY <2>1, SameLeaves DEF Funded
  <2>4. account' # Absent => Sound(account)'
    BY <2>1 DEF Funded
  <2> QED
    BY <2>2, <2>3, <2>4 DEF Funded
<1>2. \A d \in Callers : d = c
  BY DEF OneAtATime
<1> QED
  BY <1>1, <1>2 DEF EInv

\* A request that is done or refused.
LEMMA DoneReady ==
  ASSUME IInv, NEW c \in Callers, Done(c)
  PROVE  Ready(c)'
<1>1. pc'[c] = "idle"
  BY DEF Done, IInv, Types
<1> QED
  BY <1>1 DEF Ready, Ahead, DebitAhead

\* A request that goes on, with what it has read, to a step that writes no
\* sanction.
LEMMA ProceedReady ==
  ASSUME OneAtATime, IInv, EInv, NEW c \in Callers, NEW s \in Steps, NEW j, Proceed(c, s, j),
         pc[c] \notin {"idle", "publish", "lock"},
         s \notin {"idle", "build", "open", "publish"},
         s = "lock" => Transactions,
         j.command = job[c].command, j.leave = job[c].leave,
         (j.command = "SANCTION" /\ RecordsDebit(j.leave)
            /\ s \in {"debit", "commit", "lock"}) => Payable(j),
         j.command = "SANCTION" => Affordable(j.leave),
         (s = "write" /\ j.command = "SANCTION") => Owing(j.leave)
  PROVE  EInv'
<1>1. /\ pc'[c] = s /\ job'[c] = j
      /\ UNCHANGED <<leaves, account>>
  BY DEF Proceed, IInv, Types
<1>2. Ahead(c)' => Undone(job[c].leave)
  <2>1. Ahead(c)' => Ahead(c)
    BY <1>1 DEF Ahead
  <2> QED
    BY <2>1 DEF EInv, Ready
<1>3. Undone(j.leave)' <=> Undone(job[c].leave)
  BY <1>1 DEF Undone
<1>4. Affordable(j.leave) => Affordable(j.leave)'
  BY <1>1, SameLeaves DEF Affordable
<1>5. DebitAhead(c)' => Payable(job[c])'
  <2>1. SUFFICES ASSUME DebitAhead(c)' PROVE Payable(job[c])'
    OBVIOUS
  <2>2. Payable(j)
    BY <1>1, <2>1 DEF DebitAhead
  <2> QED
    BY <1>1, <2>2 DEF Payable
<1>6. pc'[c] = "write" /\ job'[c].command = "SANCTION" => Owing(job[c].leave)'
  BY <1>1 DEF Owing, RecordsDebit
<1>7. Ready(c)'
  <2>1. Ahead(c)' => Undone(job[c].leave)'
    BY <1>1, <1>2, <1>3 DEF Undone
  <2>2. Ahead(c)' /\ job'[c].command = "SANCTION" => Affordable(job[c].leave)'
    BY <1>1, <1>4 DEF Affordable
  <2> QED
    BY <1>1, <1>5, <1>6, <2>1, <2>2 DEF Ready
<1> QED
  BY <1>1, <1>7, ReadyStep

\* A request that starts.
LEMMA BeginReady ==
  ASSUME OneAtATime, IInv, EInv, NEW c \in Callers, NEW command, NEW l, NEW u, NEW status,
         NEW s \in Steps, Begin(c, command, l, u, status, s),
         s # "open",
         s = "build" => account = Absent,
         command \in DOMAIN EventOf => Undone(l),
         command = "SANCTION" => s = "balance"
  PROVE  EInv'
<1>1. /\ pc'[c] = s /\ job'[c] = NewJob(command, l, u, status)
      /\ UNCHANGED <<leaves, account>>
  BY DEF Begin, IInv, Types
<1>2. job'[c].command = command /\ job'[c].leave = l
  BY <1>1 DEF NewJob
<1>3. Ahead(c)' => Undone(job[c].leave)'
  BY <1>1, <1>2 DEF Ahead, Undone
<1>4. Ready(c)'
  BY <1>1, <1>2, <1>3 DEF Ready, DebitAhead
<1> QED
  BY <1>1, <1>4, ReadyStep

LEMMA HandleFunded ==
  ASSUME OneAtATime, IInv, TInv, EInv, NEW c \in Callers, Handle(c)
  PROVE  EInv'
<1>1. CASE View(c)
  BY <1>1, BeginReady, CommandNames DEF View, Steps
<1>2. ASSUME NEW l \in Leaves, Apply(c, l) PROVE EInv'
  <2>1. Undone(l)
    BY <1>2 DEF Apply, Undone
  <2>2. \/ Begin(c, "APPLY", l, Applicant, None, "overlap")
        \/ Begin(c, "APPLY", l, Applicant, None, "build") /\ account = Absent
    BY <1>2 DEF Apply
  <2> QED
    BY <2>1, <2>2, BeginReady DEF Steps
<1>3. ASSUME NEW l \in Leaves, NEW u \in Users, NEW f \in BOOLEAN, Undone(l),
             NEW command \in {"RECOMMEND", "REJECT", "CANCEL"},
             Begin(c, command, l, u, leaves[l].status, Decided(l, f))
      PROVE  EInv'
  <2> DEFINE s == Decided(l, f)
             status == leaves[l].status
  <2>1. s \in {"write", "lock", "commit"}
    BY DecidedTyped
  <2>2. Begin(c, command, l, u, status, s)
    BY <1>3
  <2> HIDE DEF s, status
  <2> QED
    BY <1>3, <2>1, <2>2, BeginReady DEF Steps
<1>4. ASSUME NEW l \in Leaves, NEW u \in Users, Recommend(c, l, u) PROVE EInv'
  BY <1>3, <1>4 DEF Recommend, Undone
<1>5. ASSUME NEW l \in Leaves, NEW u \in Users, Reject(c, l, u) PROVE EInv'
  BY <1>3, <1>5 DEF Reject, Undone
<1>6. ASSUME NEW l \in Leaves, Cancel(c, l) PROVE EInv'
  BY <1>3, <1>6, UsersAssumption DEF Cancel, Undone
<1>7. ASSUME NEW l \in Leaves, NEW u \in Users, Sanction(c, l, u) PROVE EInv'
  <2>1. Undone(l)
    BY <1>7 DEF Sanction, Sanctionable, Undone
  <2>2. Begin(c, "SANCTION", l, u, leaves[l].status, "balance")
    BY <1>7 DEF Sanction
  <2> QED
    BY <2>1, <2>2, BeginReady DEF Steps
<1> QED
  BY <1>1, <1>2, <1>4, <1>5, <1>6, <1>7 DEF Handle

\* What the balances cover can be afforded.
LEMMA CoveredAffordable ==
  ASSUME Funded, NEW l \in Leaves, Cost(l) <= Available(Source(l))
  PROVE  Affordable(l)
<1> SUFFICES ASSUME TypeOf[l] \in DOMAIN Cap
             PROVE  Used(TypeOf[l]) + DaysOf[l] <= Cap[TypeOf[l]]
  BY DEF Affordable
<1>1. /\ TypeOf[l] \notin Paid
      /\ Source(l) = TypeOf[l] /\ Cost(l) = DaysOf[l] /\ DaysOf[l] \in Nat
  BY TypesAssumption, DaysAssumption DEF Source, Cost, Paid
<1>2. Used(TypeOf[l]) \in Nat /\ Cap[TypeOf[l]] \in Nat /\ Used(TypeOf[l]) <= Cap[TypeOf[l]]
  BY UsedNat, EntitlementAssumption DEF Funded
<1>3. DaysOf[l] <= AtLeastZero(Cap[TypeOf[l]] - Used(TypeOf[l]))
  BY <1>1 DEF Available, Paid
<1> QED
  BY <1>1, <1>2, <1>3 DEF AtLeastZero

LEMMA ReadsFunded ==
  ASSUME OneAtATime, IInv, TInv, EInv, NEW c \in Callers,
         \/ BuildAccount(c) \/ OpenAccount(c) \/ CheckOverlap(c) \/ CheckQuota(c)
         \/ ReadBalance(c) \/ ReadAccount(c)
  PROVE  EInv'
<1>0. /\ Typed(c) /\ job[c] \in JobType /\ account \in Account \cup {Absent}
      /\ Ready(c) /\ Funded
  BY DEF TInv, Typed, EInv
<1>1. ASSUME Refuse(c) PROVE EInv'
  <2>1. pc'[c] = "idle" /\ UNCHANGED <<leaves, account>>
    BY <1>1 DEF Refuse, Proceed, IInv, Types
  <2>2. Ready(c)'
    BY <2>1 DEF Ready, Ahead, DebitAhead
  <2> QED
    BY <2>1, <2>2, ReadyStep
<1>2. CASE BuildAccount(c)
  <2> DEFINE j == [job[c] EXCEPT !.account = InitialAccount]
  <2>1. /\ pc'[c] = "open" /\ job'[c] = j /\ pc[c] = "build" /\ UNCHANGED <<leaves, account>>
    BY <1>2 DEF BuildAccount, Proceed, IInv, Types
  <2>2. account = Absent /\ Sound(InitialAccount)
    BY <1>0, <2>1, InitialSound DEF Ready
  <2>3. /\ j.account = InitialAccount
        /\ j.command = job[c].command /\ j.leave = job[c].leave
    BY <1>0 DEF JobType
  <2> HIDE DEF j
  <2>4. Sound(job'[c].account)
    BY <2>1, <2>2, <2>3
  <2>5. Ahead(c)' => Undone(job[c].leave)
    BY <1>0, <2>1, <2>3 DEF Ready, Ahead
  <2>6. Ahead(c)' => Undone(job[c].leave)'
    BY <2>1, <2>3, <2>5 DEF Undone
  <2>7. job'[c].command # "SANCTION"
    BY <2>1, <2>3 DEF IInv, Types
  <2>8. Ready(c)'
    BY <2>1, <2>2, <2>4, <2>6, <2>7 DEF Ready, DebitAhead
  <2> QED
    BY <2>1, <2>8, ReadyStep
<1>3. CASE OpenAccount(c)
  <2>1. /\ pc[c] = "open" /\ UNCHANGED leaves
        /\ account' = job[c].account /\ account = Absent /\ Sound(job[c].account)
        /\ \/ pc'[c] = "idle"
           \/ pc'[c] = "overlap" /\ job' = job
    BY <1>0, <1>3 DEF OpenAccount, Ready, IInv, Types
  <2>2. Funded'
    <3>1. account' # Absent => Sound(account)'
      BY <2>1
    <3>2. \A l \in Leaves : Granted(l)' => Owing(l)'
      BY <1>0, <2>1, SameLeaves DEF Funded, Owing, RecordsDebit
    <3>3. \A s \in DOMAIN Cap : Used(s)' <= Cap[s]
      BY <1>0, <2>1, SameLeaves DEF Funded
    <3> QED
      BY <3>1, <3>2, <3>3 DEF Funded
  <2>3. Ready(c)'
    <3>1. CASE pc'[c] = "idle"
      BY <3>1 DEF Ready, Ahead, DebitAhead
    <3>2. CASE pc'[c] = "overlap" /\ job' = job
      <4>1. job[c].command # "SANCTION"
        BY <2>1 DEF IInv, Types
      <4>2. Ahead(c)' => Undone(job[c].leave)'
        BY <1>0, <2>1, <3>2 DEF Ready, Ahead, Undone
      <4> QED
        BY <3>2, <4>1, <4>2 DEF Ready, DebitAhead
    <3> QED
      BY <2>1, <3>1, <3>2
  <2> QED
    BY <2>2, <2>3 DEF EInv, OneAtATime
<1>4. CASE CheckOverlap(c)
  <2>1. job[c].command = "APPLY" /\ pc[c] = "overlap"
    BY <1>0, <1>4 DEF CheckOverlap, Typed
  <2>2. Refuse(c) \/ Proceed(c, "quota", job[c])
    BY <1>4 DEF CheckOverlap
  <2> QED
    BY <1>1, <2>1, <2>2, ProceedReady DEF Steps
<1>5. CASE CheckQuota(c)
  <2> DEFINE s == Decided(job[c].leave, FALSE)
  <2>1. job[c].command = "APPLY" /\ pc[c] = "quota"
    BY <1>0, <1>5 DEF CheckQuota, Typed
  <2>2. Refuse(c) \/ Proceed(c, s, job[c])
    BY <1>5 DEF CheckQuota
  <2>3. s \in {"write", "lock", "commit"} /\ (s = "lock" => Transactions)
    BY DecidedTyped
  <2> HIDE DEF s
  <2> QED
    BY <1>1, <2>1, <2>2, <2>3, ProceedReady DEF Steps
<1>6. CASE ReadBalance(c)
  <2> DEFINE l == job[c].leave
             j == [job[c] EXCEPT !.available = Available(Source(l))]
             s == IF RecordsDebit(l) THEN "account" ELSE Decided(l, TRUE)
  <2>1. l \in Leaves /\ job[c].command = "SANCTION" /\ pc[c] = "balance"
    BY <1>0, <1>6, JobLeave DEF ReadBalance, Typed
  <2>2. Refuse(c) \/ (~(Cost(l) > Available(Source(l))) /\ Proceed(c, s, j))
    BY <1>6 DEF ReadBalance
  <2>3. ASSUME ~(Cost(l) > Available(Source(l))) PROVE Affordable(l)
    <3>1. Cost(l) \in Nat /\ Available(Source(l)) \in Int
      BY <1>0, <2>1, SourceType, AvailableInt
    <3>2. Cost(l) <= Available(Source(l))
      BY <2>3, <3>1
    <3> QED
      BY <1>0, <2>1, <3>2, CoveredAffordable
  <2>4. /\ s \in {"account", "write", "lock", "commit"}
        /\ s = "lock" => Transactions
        /\ RecordsDebit(l) => s = "account"
    BY DecidedTyped
  <2>5. j.command = "SANCTION" /\ j.leave = l
    BY <1>0, <2>1 DEF JobType
  <2>6. s = "write" => Owing(l)
    BY <2>4 DEF Owing
  <2>7. CASE Proceed(c, s, j) /\ Affordable(l)
    <3> HIDE DEF s, j
    <3>1. (RecordsDebit(j.leave) /\ s \in {"debit", "commit", "lock"}) => Payable(j)
      BY <2>4, <2>5
    <3>2. Affordable(j.leave) /\ (s = "write" => Owing(j.leave))
      BY <2>5, <2>6, <2>7
    <3> QED
      BY <2>1, <2>4, <2>5, <2>7, <3>1, <3>2, ProceedReady DEF Steps
  <2> QED
    BY <1>1, <2>2, <2>3, <2>7
<1>7. CASE ReadAccount(c)
  <2> DEFINE l == job[c].leave
             opening == IF account = Absent THEN InitialAccount ELSE account
             closing == Closing(l, job[c].available, opening.balance)
             j == [job[c] EXCEPT !.account = opening, !.closing = closing]
             s == IF Transactions THEN Decided(l, TRUE) ELSE "debit"
  <2>1. /\ l \in Leaves /\ job[c].command = "SANCTION" /\ RecordsDebit(l) /\ pc[c] = "account"
    BY <1>0, <1>7, JobLeave DEF ReadAccount, Typed
  <2>2. opening \in Account /\ Sound(opening) /\ (account # Absent => opening = account)
    BY <1>0, InitialAccountType, InitialSound DEF Funded
  <2>3. opening.balance \in [Fields -> Int] /\ job[c].available \in Int
    BY <1>0, <2>2 DEF Account, JobType
  <2>4. closing \in Closings
    BY <2>1, <2>3, ClosingType
  <2>5. \/ Refuse(c)
        \/ ~(\E f \in DOMAIN closing : closing[f] < 0) /\ Proceed(c, s, j)
    BY <1>7 DEF ReadAccount
  <2>6. ASSUME ~(\E f \in DOMAIN closing : closing[f] < 0)
        PROVE  \A f \in DOMAIN closing : closing[f] >= 0
    <3>1. ASSUME NEW f \in DOMAIN closing PROVE closing[f] \in Int
      <4> HIDE DEF closing
      <4> QED
        BY <2>4, <3>1 DEF Closings
    <3> HIDE DEF closing
    <3> QED
      BY <2>6, <3>1
  <2>7. /\ j.command = "SANCTION" /\ j.leave = l /\ j.available = job[c].available
        /\ j.account = opening /\ j.closing = closing
    <3> HIDE DEF closing, opening
    <3> QED
      BY <1>0, <2>1 DEF JobType
  <2>8. /\ s \in {"debit", "lock", "commit"}
        /\ s = "lock" => Transactions
    BY DecidedTyped, OptionsAssumption
  <2>9. Affordable(l)
    <3>1. Ahead(c)
      BY <2>1, JobLeave DEF Ahead
    <3> QED
      BY <1>0, <2>1, <3>1 DEF Ready
  <2>10. CASE ~(\E f \in DOMAIN closing : closing[f] < 0) /\ Proceed(c, s, j)
    <3>1. \A f \in DOMAIN closing : closing[f] >= 0
      BY <2>6, <2>10
    <3>2. j.closing = Closing(j.leave, j.available, j.account.balance)
      BY <2>7
    <3> HIDE DEF closing, opening, j, s
    <3>3. Payable(j)
      BY <2>2, <2>7, <3>1, <3>2 DEF Payable
    <3> QED
      BY <2>1, <2>7, <2>8, <2>9, <2>10, <3>3, ProceedReady DEF Steps
  <2> QED
    BY <1>1, <2>5, <2>10
<1> QED
  BY <1>2, <1>3, <1>4, <1>5, <1>6, <1>7

\* Only a sanction grants a leave, the one it is about, and nobody had decided
\* about that before.
LEMMA GrantStep ==
  ASSUME IInv, NEW c \in Callers, pc[c] \notin {"idle", "build", "open", "publish"},
         leaves' = [leaves EXCEPT ![job[c].leave] = Written(job[c])],
         Undone(job[c].leave)
  PROVE  LET l == job[c].leave
         IN  /\ \A k \in Leaves :
                  Granted(k)' <=> Granted(k) \/ (k = l /\ job[c].command = "SANCTION")
             /\ \A s : Used(s)' = IF job[c].command = "SANCTION" /\ TypeOf[l] = s
                                    THEN Used(s) + DaysOf[l] ELSE Used(s)
<1> DEFINE l == job[c].leave
           w == Written(job[c])
<1>1. l \in Leaves /\ job[c].command \in DOMAIN EventOf
  BY JobLeave
<1>2. w \in Application /\ w # Absent /\ leaves \in [Leaves -> Application \cup {Absent}]
  BY <1>1, WrittenReviewed, AbsentAssumption DEF IInv, Types
<1>3. w.status = "SANCTIONED" <=> job[c].command = "SANCTION"
  <2>1. CASE job[c].command = "SANCTION"
    <3>1. leaves[l] \in Application
      BY <1>2, <2>1 DEF IInv, Inserted
    <3>2. w = [leaves[l] EXCEPT
                 !.status = "SANCTIONED",
                 !.sanctioned_by = job[c].user,
                 !.recommended_by =
                   IF job[c].status = "SUBMITTED" /\ TypeOf[l] = "CL" THEN job[c].user ELSE @]
      BY <2>1 DEF Written
    <3> QED
      BY <2>1, <3>1, <3>2 DEF Application
  <2>2. CASE job[c].command # "SANCTION"
    BY <1>1, <2>2, WrittenGranted
  <2> QED
    BY <2>1, <2>2
<1>4. ~Granted(l)
  BY DEF Granted, Undone
<1> HIDE DEF w
<1>5. leaves'[l] = w /\ \A k \in Leaves \ {l} : leaves'[k] = leaves[k]
  BY <1>1, <1>2 DEF w
<1>6. \A k \in Leaves : Granted(k)' <=> Granted(k) \/ (k = l /\ job[c].command = "SANCTION")
  BY <1>1, <1>2, <1>3, <1>4, <1>5 DEF Granted
<1>7. ASSUME NEW s
      PROVE  Used(s)' = IF job[c].command = "SANCTION" /\ TypeOf[l] = s
                          THEN Used(s) + DaysOf[l] ELSE Used(s)
  <2> DEFINE G == {k \in Leaves : Granted(k) /\ TypeOf[k] = s}
             H == {k \in Leaves : Granted(k)' /\ TypeOf[k] = s}
  <2>1. Used(s) = Total(DaysOf, G) /\ Used(s)' = Total(DaysOf, H)
    BY DEF Used
  <2>2. CASE job[c].command = "SANCTION" /\ TypeOf[l] = s
    <3>1. H = G \cup {l}
      BY <1>1, <1>6, <2>2
    <3>2. G \in SUBSET Leaves /\ l \in Leaves \ G
      BY <1>1, <1>4
    <3> HIDE DEF G, H
    <3>3. Total(DaysOf, G \cup {l}) = Total(DaysOf, G) + DaysOf[l]
      BY <3>2, DaysAssumption, TotalAdd
    <3> QED
      BY <2>1, <2>2, <3>1, <3>3
  <2>3. CASE ~(job[c].command = "SANCTION" /\ TypeOf[l] = s)
    <3>1. H = G
      BY <1>6, <2>3
    <3> QED
      BY <2>1, <2>3, <3>1
  <2> QED
    BY <2>2, <2>3
<1> QED
  BY <1>6, <1>7

\* The status of a request that is done before it is written.
LEMMA GrantFunded ==
  ASSUME IInv, EInv, NEW c \in Callers, pc[c] \notin {"idle", "build", "open", "publish"},
         Ahead(c), pc[c] # "balance",
         leaves' = [leaves EXCEPT ![job[c].leave] = Written(job[c])],
         account' # Absent => Sound(account'),
         \A k \in Leaves :
           Granted(k) \/ (k = job[c].leave /\ job[c].command = "SANCTION") => Owing(k)'
  PROVE  Funded'
<1> DEFINE l == job[c].leave
<1>1. Undone(l) /\ (job[c].command = "SANCTION" => Affordable(l)) /\ Funded
  BY DEF EInv, Ready
<1>2. /\ \A k \in Leaves : Granted(k)' <=> Granted(k) \/ (k = l /\ job[c].command = "SANCTION")
      /\ \A s : Used(s)' = IF job[c].command = "SANCTION" /\ TypeOf[l] = s
                             THEN Used(s) + DaysOf[l] ELSE Used(s)
  BY <1>1, GrantStep
<1>3. ASSUME NEW k \in Leaves, Granted(k)' PROVE Owing(k)'
  BY <1>2, <1>3
<1>4. ASSUME NEW s \in DOMAIN Cap PROVE Used(s)' <= Cap[s]
  BY <1>1, <1>2 DEF Funded, Affordable
<1> QED
  BY <1>3, <1>4 DEF Funded

\* A debit leaves the account sound, and every leave that owed one debited.
LEMMA DebitFunded ==
  ASSUME IInv, TInv, EInv, NEW c \in Callers, pc[c] \in {"debit", "commit"},
         account' = WithDebit(job[c])
  PROVE  /\ account' # Absent => Sound(account')
         /\ \A k \in Leaves :
              Granted(k) \/ (k = job[c].leave /\ job[c].command = "SANCTION") => Owing(k)'
<1> DEFINE l == job[c].leave
           a == job[c].account
<1>1. /\ l \in Leaves /\ job[c] \in JobType /\ Typed(c) /\ Ready(c)
      /\ Funded
  BY JobLeave DEF TInv, Typed, EInv
<1>2. CASE job[c].command = "SANCTION" /\ RecordsDebit(l)
  <2>1. Payable(job[c]) /\ a \in Account
    BY <1>1, <1>2 DEF Ready, DebitAhead, Typed, JobType
  <2>2. account' = Debited(a, l, job[c].closing)
    BY <1>2, <2>1 DEF WithDebit, Payable
  <2>3. Sound(account')
    <3>1. Sound(a) /\ job[c].closing = Closing(l, job[c].available, a.balance)
      BY <2>1 DEF Payable
    <3>2. \A f \in DOMAIN Closing(l, job[c].available, a.balance) :
             Closing(l, job[c].available, a.balance)[f] >= 0
      BY <2>1, <3>1 DEF Payable
    <3>3. job[c].available \in Int
      BY <1>1 DEF JobType
    <3>4. Sound(Debited(a, l, Closing(l, job[c].available, a.balance)))
      BY <1>1, <1>2, <2>1, <3>1, <3>2, <3>3, DebitedSound
    <3> QED
      BY <2>2, <3>1, <3>4
  <2>4. account' \in Account /\ account'.debits = [a.debits EXCEPT ![l] = @ + 1]
    BY <1>1, <2>1, <2>2, DebitedType DEF JobType
  <2>5. account' # Absent /\ a.debits \in [Leaves -> Nat]
    BY <2>1, <2>4, AbsentAssumption DEF Account
  <2>6. ASSUME NEW k \in Leaves, Granted(k) PROVE Owing(k)'
    <3>1. SUFFICES ASSUME RecordsDebit(k) PROVE account'.debits[k] > 0
      BY <2>5 DEF Owing, RecordsDebit
    <3>2. account # Absent /\ account.debits[k] > 0
      BY <1>1, <2>6, <3>1 DEF Funded, Owing
    <3>3. a = account
      BY <2>1, <3>2 DEF Payable
    <3> QED
      BY <1>1, <2>4, <2>5, <3>2, <3>3
  <2>7. ASSUME NEW k \in Leaves, k = l PROVE Owing(k)'
    <3>1. account'.debits[l] > 0
      BY <1>1, <2>4, <2>5
    <3> QED
      BY <2>5, <2>7, <3>1 DEF Owing
  <2> QED
    BY <2>3, <2>6, <2>7
<1>3. CASE ~(job[c].command = "SANCTION" /\ RecordsDebit(l))
  <2>1. account' = account
    BY <1>3 DEF WithDebit
  <2>2. \A k \in Leaves : Owing(k)' <=> Owing(k)
    BY <2>1 DEF Owing, RecordsDebit
  <2>3. ASSUME NEW k \in Leaves, k = l, job[c].command = "SANCTION" PROVE Owing(k)'
    BY <1>3, <2>3 DEF Owing, RecordsDebit
  <2> QED
    BY <1>1, <2>1, <2>2, <2>3 DEF Funded
<1> QED
  BY <1>2, <1>3

LEMMA WritesFunded ==
  ASSUME OneAtATime, IInv, TInv, EInv, NEW c \in Callers,
         \/ Commit(c) \/ WriteDebit(c) \/ WriteLeave(c) \/ AddEvent(c) \/ LockAttachments(c)
         \/ CutOff(c)
  PROVE  EInv'
<1>0. Typed(c) /\ Ready(c) /\ Funded
  BY DEF TInv, EInv
<1>1. ASSUME Funded', Ready(c)' PROVE EInv'
  BY <1>1 DEF EInv, OneAtATime
<1>2. CASE AddEvent(c) \/ CutOff(c)
  <2>1. Done(c) /\ UNCHANGED <<leaves, account>>
    BY <1>2 DEF AddEvent, CutOff
  <2> QED
    BY <2>1, DoneReady, ReadyStep
<1>3. CASE Commit(c)
  <2>1. /\ pc[c] = "commit" /\ Done(c) /\ account' = WithDebit(job[c])
        /\ leaves' = [leaves EXCEPT ![job[c].leave] = Written(job[c])]
    BY <1>3 DEF Commit
  <2>2. Ahead(c)
    BY <2>1, JobLeave DEF Ahead
  <2>3. /\ account' # Absent => Sound(account')
        /\ \A k \in Leaves :
             Granted(k) \/ (k = job[c].leave /\ job[c].command = "SANCTION") => Owing(k)'
    BY <2>1, DebitFunded
  <2>4. Funded'
    BY <2>1, <2>2, <2>3, GrantFunded
  <2> QED
    BY <1>1, <2>1, <2>4, DoneReady
<1>4. CASE WriteDebit(c)
  <2>1. /\ pc[c] = "debit" /\ pc'[c] = "write" /\ job' = job
        /\ account' = WithDebit(job[c]) /\ UNCHANGED leaves
    BY <1>4 DEF WriteDebit, IInv, Types
  <2>2. /\ account' # Absent => Sound(account')
        /\ \A k \in Leaves :
             Granted(k) \/ (k = job[c].leave /\ job[c].command = "SANCTION") => Owing(k)'
    BY <2>1, DebitFunded
  <2>3. Funded'
    <3>1. \A k \in Leaves : Granted(k)' => Owing(k)'
      BY <2>1, <2>2, SameLeaves
    <3>2. \A s \in DOMAIN Cap : Used(s)' <= Cap[s]
      BY <1>0, <2>1, SameLeaves DEF Funded
    <3> QED
      BY <2>2, <3>1, <3>2 DEF Funded
  <2>4. Ready(c)'
    <3>1. Ahead(c)
      BY <2>1, JobLeave DEF Ahead
    <3>2. Undone(job[c].leave)'
      BY <1>0, <2>1, <3>1 DEF Ready, Undone
    <3>3. job[c].command = "SANCTION" => Affordable(job[c].leave)'
      BY <1>0, <2>1, <3>1, SameLeaves DEF Ready, Affordable
    <3>4. job[c].command = "SANCTION" => Owing(job[c].leave)'
      <4>1. job[c].leave \in Leaves
        BY <2>1, JobLeave
      <4> QED
        BY <2>1, <2>2, <4>1 DEF Owing, RecordsDebit
    <3> QED
      BY <2>1, <3>2, <3>3, <3>4 DEF Ready, DebitAhead
  <2> QED
    BY <1>1, <2>3, <2>4
<1>5. CASE WriteLeave(c)
  <2>1. /\ pc[c] = "write" /\ pc'[c] \in {"lock", "publish"} /\ UNCHANGED <<account, job>>
        /\ leaves' = [leaves EXCEPT ![job[c].leave] = Written(job[c])]
    BY <1>5 DEF WriteLeave, IInv, Types
  <2>2. Ahead(c) /\ ~Transactions
    BY <1>0, <2>1, JobLeave DEF Ahead, Typed
  <2>3. /\ account' # Absent => Sound(account')
        /\ \A k \in Leaves :
             Granted(k) \/ (k = job[c].leave /\ job[c].command = "SANCTION") => Owing(k)'
    BY <1>0, <2>1 DEF Ready, Funded, Owing, RecordsDebit
  <2>4. Funded'
    BY <2>1, <2>2, <2>3, GrantFunded
  <2>5. Ready(c)'
    BY <2>1, <2>2 DEF Ready, Ahead, DebitAhead
  <2> QED
    BY <1>1, <2>4, <2>5
<1>6. CASE LockAttachments(c)
  <2>1. /\ pc[c] = "lock" /\ job' = job /\ UNCHANGED <<leaves, account>>
        /\ pc'[c] = IF Transactions THEN "commit" ELSE "publish"
    BY <1>6 DEF LockAttachments, IInv, Types
  <2>2. CASE Transactions = TRUE
    <3>1. Ahead(c)
      BY <2>1, <2>2, JobLeave DEF Ahead
    <3>2. Undone(job[c].leave)'
      BY <1>0, <2>1, <3>1 DEF Ready, Undone
    <3>3. job[c].command = "SANCTION" => Affordable(job[c].leave)'
      BY <1>0, <2>1, <3>1, SameLeaves DEF Ready, Affordable
    <3>4. DebitAhead(c)' => DebitAhead(c)
      BY <2>1, <2>2 DEF DebitAhead, RecordsDebit
    <3>5. DebitAhead(c)' => Payable(job[c])'
      BY <1>0, <2>1, <3>4 DEF Ready, Payable
    <3>6. Ready(c)'
      BY <2>1, <2>2, <3>2, <3>3, <3>5 DEF Ready
    <3> QED
      BY <2>1, <3>6, ReadyStep
  <2>3. CASE Transactions = FALSE
    <3>1. Ready(c)'
      BY <2>1, <2>3 DEF Ready, Ahead, DebitAhead
    <3> QED
      BY <2>1, <3>1, ReadyStep
  <2> QED
    BY <2>2, <2>3, OptionsAssumption
<1> QED
  BY <1>2, <1>3, <1>4, <1>5, <1>6

LEMMA InitEInv == Init => EInv
<1> SUFFICES ASSUME Init PROVE EInv
  OBVIOUS
<1>1. \A l \in Leaves : ~Granted(l)
  BY DEF Init, Granted
<1>2. ASSUME NEW s \in DOMAIN Cap PROVE Used(s) <= Cap[s]
  <2>1. {l \in Leaves : Granted(l) /\ TypeOf[l] = s} = {}
    BY <1>1
  <2>2. Total(DaysOf, {}) = 0
    BY TotalZero
  <2>3. Used(s) = 0
    BY <2>1, <2>2 DEF Used
  <2> QED
    BY <2>3, EntitlementAssumption
<1>3. ASSUME account # Absent PROVE Sound(account)
  <2> DEFINE b == [f \in Fields |-> CASE f \in {"EL", "HPL"} -> Accrued[f]
                                      [] f = "CML" -> Accrued["HPL"]
                                      [] OTHER -> Cap[f]]
  <2>1. account = [balance |-> b, debits |-> [l \in Leaves |-> 0]]
    BY <1>3 DEF Init
  <2>2. \A s \in Paid : b[s] = Accrued[s] /\ Accrued[s] \in Nat
    BY EntitlementAssumption DEF Paid, Fields
  <2> HIDE DEF b
  <2>3. account.balance = b /\ account.debits = [l \in Leaves |-> 0]
    BY <2>1
  <2>4. \A s \in Paid : Total(Debts(account), Of(s)) = 0
    BY <2>3, NoDebts
  <2> QED
    BY <2>2, <2>3, <2>4 DEF Sound
<1>4. \A c \in Callers : Ready(c)
  BY DEF Init, Ready, Ahead, DebitAhead
<1> QED
  BY <1>1, <1>2, <1>3, <1>4 DEF EInv, Funded

LEMMA StepEInv ==
  ASSUME OneAtATime, IInv, TInv, EInv, [Next]_vars
  PROVE  EInv'
<1>1. ASSUME NEW c \in Callers, Handle(c) PROVE EInv'
  BY <1>1, HandleFunded
<1>2. ASSUME NEW c \in Callers,
             \/ BuildAccount(c) \/ OpenAccount(c) \/ CheckOverlap(c) \/ CheckQuota(c)
             \/ ReadBalance(c) \/ ReadAccount(c)
      PROVE  EInv'
  BY <1>2, ReadsFunded
<1>3. ASSUME NEW c \in Callers,
             \/ Commit(c) \/ WriteDebit(c) \/ WriteLeave(c) \/ AddEvent(c) \/ LockAttachments(c)
             \/ CutOff(c)
      PROVE  EInv'
  BY <1>3, WritesFunded
<1>4. CASE UNCHANGED vars
  <2>1. UNCHANGED <<leaves, account, pc, job>>
    BY <1>4 DEF vars
  <2>2. Funded'
    <3>1. account' # Absent => Sound(account')
      BY <2>1 DEF EInv, Funded
    <3>2. \A k \in Leaves : Granted(k)' => Owing(k)'
      BY <2>1, SameLeaves DEF EInv, Funded, Owing, RecordsDebit
    <3>3. \A s \in DOMAIN Cap : Used(s)' <= Cap[s]
      BY <2>1, SameLeaves DEF EInv, Funded
    <3> QED
      BY <3>1, <3>2, <3>3 DEF Funded
  <2>3. ASSUME NEW c \in Callers PROVE Ready(c)'
    <3>1. Ready(c)
      BY DEF EInv
    <3>2. Affordable(job[c].leave) => Affordable(job[c].leave)'
      BY <2>1, SameLeaves DEF Affordable
    <3> QED
      BY <2>1, <3>1, <3>2
         DEF Ready, Ahead, DebitAhead, Undone, Owing, Payable, RecordsDebit
  <2> QED
    BY <2>2, <2>3 DEF EInv
<1> QED
  BY <1>1, <1>2, <1>3, <1>4 DEF Next

LEMMA ImplyEInv ==
  ASSUME OneAtATime
  PROVE  Spec => [](IInv /\ TInv /\ EInv)
<1>1. Init => IInv /\ TInv /\ EInv
  BY InitIInv, InitTInv, InitEInv
<1>2. IInv /\ TInv /\ EInv /\ [Next]_vars => (IInv /\ TInv /\ EInv)'
  BY StepIInv, StepTInv, StepEInv
<1> QED
  BY <1>1, <1>2, PTL DEF Spec

\* One request at a time, what is granted from one source never costs more
\* than the employee is entitled to, wherever requests are cut off and
\* although the account is debited in a call of its own.
THEOREM EntitlementKept ==
  ASSUME OneAtATime
  PROVE  Spec => []WithinEntitlement
<1>1. IInv /\ TInv /\ EInv => WithinEntitlement
  <2> DEFINE costs == [l \in Leaves |-> Cost(l)]
             G(s) == {l \in Leaves : Granted(l) /\ Source(l) = s}
  <2> SUFFICES ASSUME IInv, TInv, EInv, NEW k \in Leaves
               PROVE  Total(costs, G(Source(k)))
                        <= IF Source(k) \in {"EL", "HPL"} THEN Accrued[Source(k)]
                                                          ELSE Cap[Source(k)]
    BY DEF WithinEntitlement
  <2> DEFINE s == Source(k)
  <2>1. Funded /\ account \in Account \cup {Absent}
    BY DEF EInv, TInv
  <2>2. CASE s \in Paid
    <3>1. \A l \in G(s) : RecordsDebit(l)
      BY <2>2, SourceType
    <3>2. CASE account = Absent
      <4>1. G(s) = {}
        BY <2>1, <3>1, <3>2 DEF Funded, Owing
      <4>2. Total(costs, {}) = 0
        BY TotalZero
      <4>3. Accrued[s] \in Nat
        BY <2>2, EntitlementAssumption DEF Paid
      <4> QED
        BY <2>2, <4>1, <4>2, <4>3 DEF Paid
    <3>3. CASE account # Absent
      <4>1. account \in Account /\ Sound(account)
        BY <2>1, <3>3 DEF Funded
      <4>2. Debts(account) \in [Leaves -> Nat] /\ costs \in [Leaves -> Nat]
        BY <4>1, DebtsType, SourceType
      <4>3. ASSUME NEW l \in G(s) PROVE costs[l] <= Debts(account)[l]
        <5>1. /\ l \in Leaves /\ account.debits[l] \in Nat /\ Cost(l) \in Nat
              /\ account.debits[l] > 0
          BY <2>1, <3>1, <4>1, SourceType DEF Funded, Owing, Account
        <5>2. \A m, n \in Nat : m > 0 => n <= m * n
          OBVIOUS
        <5>3. Cost(l) <= account.debits[l] * Cost(l)
          BY <5>1, <5>2
        <5> QED
          BY <5>1, <5>3 DEF Debts
      <4>4. Of(s) \in SUBSET Leaves /\ G(s) \in SUBSET Of(s)
        BY DEF Of
      <4> HIDE DEF G, costs
      <4>5. Total(costs, G(s)) <= Total(Debts(account), Of(s))
        BY <4>2, <4>3, <4>4, TotalMonotone
      <4>6. /\ Total(costs, G(s)) \in Nat /\ Total(Debts(account), Of(s)) \in Nat
        BY <4>2, <4>4, TotalNat
      <4>7. /\ account.balance[s] \in Int /\ account.balance[s] >= 0
            /\ account.balance[s] + Total(Debts(account), Of(s)) <= Accrued[s]
            /\ Accrued[s] \in Nat
        BY <2>2, <4>1, EntitlementAssumption DEF Sound, Account, Paid, Fields
      <4> QED
        BY <2>2, <4>5, <4>6, <4>7 DEF Paid
    <3> QED
      BY <3>2, <3>3
  <2>3. CASE s \notin Paid
    <3>1. s \in DOMAIN Cap /\ s # "CML"
      BY <2>3, SourceType, TypesAssumption
    <3>2. G(s) = {l \in Leaves : Granted(l) /\ TypeOf[l] = s}
      BY <2>3, <3>1 DEF Source, Paid
    <3>3. \A l \in G(s) : costs[l] = DaysOf[l]
      BY <2>3, SourceType
    <3>4. Total(costs, G(s)) = Used(s)
      <4>1. Total(costs, G(s)) = Total(DaysOf, G(s))
        <5> HIDE DEF G, costs
        <5> QED
          BY <3>3, TotalSame
      <4> QED
        BY <3>2, <4>1 DEF Used
    <3>5. Used(s) <= Cap[s]
      BY <2>1, <3>1 DEF Funded
    <3> QED
      BY <2>3, <3>4, <3>5 DEF Paid
  <2> QED
    BY <2>2, <2>3
<1> QED
  BY <1>1, ImplyEInv, PTL

\* One request at a time, the balance of earned and half-pay leave is what
\* was accrued less the debits that are on record, commuted leave at twice
\* its days, although each debit is two updates away from the status.
THEOREM BalanceExplains ==
  ASSUME OneAtATime
  PROVE  Spec => []BalanceExplained
<1>1. IInv /\ TInv /\ EInv => BalanceExplained
  <2> SUFFICES ASSUME IInv, TInv, EInv, account # Absent, ServiceStart, NEW s \in {"EL", "HPL"}
               PROVE  account.balance[s] =
                        Accrued[s] - Total([l \in Leaves |-> DebitsOf(l) * Cost(l)],
                                           {l \in Leaves : Source(l) = s})
    BY DEF BalanceExplained
  <2>1. account \in Account /\ Sound(account)
    BY DEF TInv, EInv, Funded
  <2>2. account.balance[s] + Total(Debts(account), Of(s)) = Accrued[s]
    BY <2>1 DEF Sound, Paid
  <2>3. [l \in Leaves |-> DebitsOf(l) * Cost(l)] = Debts(account)
    BY DEF DebitsOf, Debts
  <2>4. Total(Debts(account), Of(s)) \in Nat
    <3>1. Of(s) \in SUBSET Leaves
      BY DEF Of
    <3> QED
      BY <2>1, <3>1, DebtsType, TotalNat
  <2>5. account.balance[s] \in Int /\ Accrued[s] \in Nat
    BY <2>1, EntitlementAssumption DEF Account, Fields
  <2>6. account.balance[s] = Accrued[s] - Total(Debts(account), Of(s))
    BY <2>2, <2>4, <2>5
  <2> QED
    BY <2>3, <2>6 DEF Of
<1> QED
  BY <1>1, ImplyEInv, PTL

-------------------------------------------------------------------------------
(* What is locked. *)

Closed(l) == leaves[l] # Absent /\ leaves[l].status \in {"SANCTIONED", "REJECTED"}

\* The status is written before the attachments are locked.
LkInv ==
  /\ \A l \in locked : l \in Leaves /\ Closed(l)
  /\ \A c \in Callers : pc[c] = "lock" => Finalises(job[c]) /\ Closed(job[c].leave)

LEMMA StepLkInv ==
  ASSUME OneAtATime, Transactions = FALSE, IInv, TInv, EInv, LkInv, [Next]_vars
  PROVE  LkInv'
<1>1. ASSUME UNCHANGED <<leaves, locked>>, NEW c \in Callers, pc'[c] # "lock"
      PROVE  LkInv'
  BY <1>1 DEF LkInv, Closed, OneAtATime
<1>2. ASSUME NEW c \in Callers, Handle(c) PROVE LkInv'
  <2>1. pc'[c] # "lock" /\ UNCHANGED <<leaves, locked>>
    BY <1>2 DEF Handle, View, Apply, Cancel, Recommend, Reject, Sanction, Begin, Decided,
                IInv, Types
  <2> QED
    BY <1>1, <2>1
<1>3. ASSUME NEW c \in Callers,
             \/ BuildAccount(c) \/ OpenAccount(c) \/ CheckOverlap(c) \/ CheckQuota(c)
             \/ ReadBalance(c) \/ ReadAccount(c)
      PROVE  LkInv'
  <2>1. pc'[c] # "lock" /\ UNCHANGED <<leaves, locked>>
    BY <1>3 DEF BuildAccount, OpenAccount, CheckOverlap, CheckQuota, ReadBalance, ReadAccount,
                Refuse, Proceed, Decided, IInv, Types
  <2> QED
    BY <1>1, <2>1
<1>4. ASSUME NEW c \in Callers, AddEvent(c) \/ CutOff(c) \/ WriteDebit(c) PROVE LkInv'
  <2>1. pc'[c] # "lock" /\ UNCHANGED <<leaves, locked>>
    BY <1>4 DEF AddEvent, CutOff, WriteDebit, Done, IInv, Types
  <2> QED
    BY <1>1, <2>1
<1>5. ASSUME NEW c \in Callers, Commit(c) \/ WriteLeave(c) PROVE LkInv'
  <2> DEFINE l == job[c].leave
             w == Written(job[c])
  <2>1. /\ pc[c] \in {"commit", "write"} /\ UNCHANGED locked
        /\ leaves' = [leaves EXCEPT ![l] = w]
        /\ pc'[c] = "lock" => Finalises(job[c]) /\ job' = job
    BY <1>5 DEF Commit, WriteLeave, Done, IInv, Types
  <2>2. l \in Leaves /\ job[c].command \in DOMAIN EventOf /\ Undone(l)
    <3>1. Ahead(c)
      BY <2>1, JobLeave DEF Ahead
    <3> QED
      BY <2>1, <3>1, JobLeave DEF EInv, Ready
  <2>3. w \in Application /\ w # Absent /\ leaves \in [Leaves -> Application \cup {Absent}]
    BY <2>1, <2>2, WrittenReviewed, AbsentAssumption DEF IInv, Types
  <2>4. Finalises(job[c]) => w.status \in {"SANCTIONED", "REJECTED"}
    <3>1. Finalises(job[c]) => leaves[l] \in Application
      BY <2>2, <2>3 DEF Finalises, IInv, Inserted
    <3> QED
      BY <2>2, <3>1 DEF Finalises, Written, Application
  <2> HIDE DEF w
  <2>5. leaves'[l] = w /\ \A k \in Leaves \ {l} : leaves'[k] = leaves[k]
    BY <2>1, <2>2, <2>3
  <2>6. l \notin locked
    BY <2>2 DEF LkInv, Closed, Undone
  <2>7. \A k \in locked' : k \in Leaves /\ Closed(k)'
    BY <2>1, <2>5, <2>6 DEF LkInv, Closed
  <2>8. pc'[c] = "lock" => Finalises(job'[c]) /\ Closed(job[c].leave)'
    BY <2>1, <2>3, <2>4, <2>5 DEF Closed
  <2> QED
    BY <2>7, <2>8 DEF LkInv, OneAtATime, Finalises
<1>6. ASSUME NEW c \in Callers, LockAttachments(c) PROVE LkInv'
  <2>1. /\ pc[c] = "lock" /\ pc'[c] = "publish" /\ UNCHANGED leaves
        /\ locked' \subseteq locked \cup {job[c].leave}
    BY <1>6 DEF LockAttachments, IInv, Types
  <2>2. job[c].leave \in Leaves /\ Closed(job[c].leave)
    BY <2>1, JobLeave DEF LkInv
  <2> QED
    BY <2>1, <2>2 DEF LkInv, Closed, OneAtATime
<1>7. CASE UNCHANGED vars
  BY <1>7 DEF vars, LkInv, Closed, Finalises
<1> QED
  BY <1>2, <1>3, <1>4, <1>5, <1>6, <1>7 DEF Next

\* One request at a time on a database without transactions, attachments are
\* locked only for leaves that were sanctioned or rejected, wherever the
\* request is cut off: the lock comes after the status.
THEOREM LocksFollowDecisions ==
  ASSUME OneAtATime, Transactions = FALSE
  PROVE  Spec => []LockedAreDecided
<1>1. Init => LkInv
  BY DEF Init, LkInv
<1>2. IInv /\ TInv /\ EInv /\ LkInv /\ [Next]_vars => LkInv'
  BY StepLkInv
<1>3. LkInv => LockedAreDecided
  BY DEF LkInv, LockedAreDecided, Closed
<1> QED
  BY <1>1, <1>2, <1>3, ImplyEInv, PTL DEF Spec

===============================================================================
