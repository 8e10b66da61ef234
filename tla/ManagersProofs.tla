--------------------------- MODULE ManagersProofs ---------------------------
(***************************************************************************)
(* Proofs about two processes of the operator: each keeps, under the       *)
(* other's steps, what ManagerProofs shows it keeps under its own, so that *)
(* what rests on the API server's conflict check holds of both, for any    *)
(* set of OCIDs and any bounds.                                            *)
(***************************************************************************)
EXTENDS ManagersProperties, FiniteSetTheorems, TLAPS

MA == INSTANCE ManagerProofs WITH
    Self <- "A", Nobody <- "nobody", versions <- versionsA, queued <- queuedA,
    timer <- timerA, pc <- pcA, obj <- objA, attempt <- attemptA,
    client <- clientA, leads <- leadsA

MB == INSTANCE ManagerProofs WITH
    Self <- "B", Nobody <- "nobody", versions <- versionsB, queued <- queuedB,
    timer <- timerB, pc <- pcB, obj <- objB, attempt <- attemptB,
    client <- clientB, leads <- leadsB

-----------------------------------------------------------------------------
(* What is said of a process in the specification, in the properties and   *)
(* in its proofs is the same.                                              *)
LEMMA ProcessA_Is == A!Process => MA!Process
BY DEF A!Process, MA!Process, A!Lead, MA!Lead, A!Work, MA!Work, A!Lapse, MA!Lapse, A!Renew,
       MA!Renew, A!LoseLease, MA!LoseLease, A!Crash, MA!Crash, A!Expire, MA!Expire, A!Exit, MA!Exit, A!process,
       MA!process, A!workerVars, MA!workerVars, A!Worker, MA!Worker, A!ReconcileNothing,
       MA!ReconcileNothing, A!HandleDeletion, MA!HandleDeletion, A!EnsureFinalizer,
       MA!EnsureFinalizer, A!ReconcileInstance, MA!ReconcileInstance, A!AddFinalizer,
       MA!AddFinalizer, A!Terminate, MA!Terminate, A!RemoveFinalizer, MA!RemoveFinalizer,
       A!MarkProvisioning, MA!MarkProvisioning, A!Launch, MA!Launch, A!RecordInstance,
       MA!RecordInstance, A!GetInstance, MA!GetInstance, A!SyncStatus, MA!SyncStatus,
       A!Refetch, MA!Refetch, A!SetFailed, MA!SetFailed, A!Deliver, MA!Deliver, A!TimerFires,
       MA!TimerFires, A!Fault, MA!Fault, A!Dequeue, MA!Dequeue, A!Proceed, MA!Proceed,
       A!Return, MA!Return, A!Write, MA!Write, A!Writes, MA!Writes, A!WriteFails,
       MA!WriteFails, A!Accepts, MA!Accepts, A!Commit, MA!Commit, A!NewVersion, MA!NewVersion,
       A!Gone, MA!Gone, A!Stored, MA!Stored, A!Cached, MA!Cached, A!NoObject, MA!NoObject,
       A!GivenUp, MA!GivenUp, A!GiveUp, MA!GiveUp, A!MarkedFailed, MA!MarkedFailed,
       A!SetFailedStatus, MA!SetFailedStatus, A!SetObservedGeneration,
       MA!SetObservedGeneration, A!Terminated, MA!Terminated, A!Recorded, MA!Recorded,
       A!Synced, MA!Synced, A!PhaseOf, MA!PhaseOf

(* The same for B.                                                         *)
LEMMA ProcessB_Is == B!Process => MB!Process
BY DEF B!Process, MB!Process, B!Lead, MB!Lead, B!Work, MB!Work, B!Lapse, MB!Lapse, B!Renew,
       MB!Renew, B!LoseLease, MB!LoseLease, B!Crash, MB!Crash, B!Expire, MB!Expire, B!Exit, MB!Exit, B!process,
       MB!process, B!workerVars, MB!workerVars, B!Worker, MB!Worker, B!ReconcileNothing,
       MB!ReconcileNothing, B!HandleDeletion, MB!HandleDeletion, B!EnsureFinalizer,
       MB!EnsureFinalizer, B!ReconcileInstance, MB!ReconcileInstance, B!AddFinalizer,
       MB!AddFinalizer, B!Terminate, MB!Terminate, B!RemoveFinalizer, MB!RemoveFinalizer,
       B!MarkProvisioning, MB!MarkProvisioning, B!Launch, MB!Launch, B!RecordInstance,
       MB!RecordInstance, B!GetInstance, MB!GetInstance, B!SyncStatus, MB!SyncStatus,
       B!Refetch, MB!Refetch, B!SetFailed, MB!SetFailed, B!Deliver, MB!Deliver, B!TimerFires,
       MB!TimerFires, B!Fault, MB!Fault, B!Dequeue, MB!Dequeue, B!Proceed, MB!Proceed,
       B!Return, MB!Return, B!Write, MB!Write, B!Writes, MB!Writes, B!WriteFails,
       MB!WriteFails, B!Accepts, MB!Accepts, B!Commit, MB!Commit, B!NewVersion, MB!NewVersion,
       B!Gone, MB!Gone, B!Stored, MB!Stored, B!Cached, MB!Cached, B!NoObject, MB!NoObject,
       B!GivenUp, MB!GivenUp, B!GiveUp, MB!GiveUp, B!MarkedFailed, MB!MarkedFailed,
       B!SetFailedStatus, MB!SetFailedStatus, B!SetObservedGeneration,
       MB!SetObservedGeneration, B!Terminated, MB!Terminated, B!Recorded, MB!Recorded,
       B!Synced, MB!Synced, B!PhaseOf, MB!PhaseOf

(* The invariants of A ...                                                 *)
LEMMA InvA_Is ==
  /\ P!SharedInv <=> MA!SharedInv
  /\ P!LaunchesAlone <=> MA!LaunchesAlone
BY DEF P!SharedInv, MA!SharedInv, P!TypeOK, MA!TypeOK, P!StreamIsKnown, MA!StreamIsKnown,
       P!StoreIsSound, MA!StoreIsSound, P!HandDeletes, MA!HandDeletes, P!HandReads,
       MA!HandReads, P!HandLaunches, MA!HandLaunches, P!HandSyncs, MA!HandSyncs,
       P!LaunchesAlone, MA!LaunchesAlone, P!Known, MA!Known, P!RecordedIsOwn,
       MA!RecordedIsOwn, P!ReleasedIsEnding, MA!ReleasedIsEnding, P!GivenUp, MA!GivenUp,
       P!current, MA!current, P!Stored, MA!Stored, P!Recorded, MA!Recorded,
       P!SetObservedGeneration, MA!SetObservedGeneration, P!Object, MA!Object, P!Phases,
       MA!Phases, P!States, MA!States, P!Steps, MA!Steps, P!Ending, MA!Ending, P!OCIRecord,
       MA!OCIRecord

(* ... and of B.                                                           *)
LEMMA InvB_Is == Q!SharedInv <=> MB!SharedInv
BY DEF Q!SharedInv, MB!SharedInv, Q!TypeOK, MB!TypeOK, Q!StreamIsKnown, MB!StreamIsKnown,
       Q!StoreIsSound, MB!StoreIsSound, Q!HandDeletes, MB!HandDeletes, Q!HandReads,
       MB!HandReads, Q!HandLaunches, MB!HandLaunches, Q!HandSyncs, MB!HandSyncs, Q!Known,
       MB!Known, Q!RecordedIsOwn, MB!RecordedIsOwn, Q!ReleasedIsEnding, MB!ReleasedIsEnding,
       Q!GivenUp, MB!GivenUp, Q!current, MB!current, Q!Stored, MB!Stored, Q!Recorded,
       MB!Recorded, Q!SetObservedGeneration, MB!SetObservedGeneration, Q!Object, MB!Object,
       Q!Phases, MB!Phases, Q!States, MB!States, Q!Steps, MB!Steps, Q!Ending, MB!Ending,
       Q!OCIRecord, MB!OCIRecord

-----------------------------------------------------------------------------
(* The stored object, as each of the two sees it.                          *)
LEMMA CurrentIs ==
  /\ P!current = MA!current /\ Q!current = MB!current
BY DEF P!current, P!Stored, MA!current, MA!Stored, Q!current, Q!Stored, MB!current, MB!Stored

(* What a step does to the store and OCI is the same for both.             *)
LEMMA StoreStepIs ==
  ASSUME MA!current = MB!current, MA!current' = MB!current'
  PROVE  MA!StoreStep <=> MB!StoreStep
BY DEF MA!StoreStep, MA!Evolves, MA!OCIKeeps, MA!Sound, MA!GivenUp, MA!Ending,
       MB!StoreStep, MB!Evolves, MB!OCIKeeps, MB!Sound, MB!GivenUp, MB!Ending

(* The version that one writes becomes the last one of the other's stream. *)
LEMMA Followed ==
  ASSUME NEW S, NEW v \in Seq(S), Len(v) > 0, NEW c \in S,
         NEW w, w = IF c = v[Len(v)] THEN v ELSE Append(v, c)
  PROVE  w[Len(w)] = c /\ (w = v \/ w = Append(v, c))
<1>1. Append(v, c)[Len(Append(v, c))] = c
  OBVIOUS
<1> QED BY <1>1

(* Both processes deal in the same objects.                                *)
Objects == MA!Objects

(* ... which B calls by the same names.                                    *)
LEMMA ObjectsAre == MB!Objects = Objects
BY DEF Objects, MA!Objects, MA!Object, MA!Phases, MB!Objects, MB!Object, MB!Phases

(* What the types say of the two streams, and of what the processes share. *)
LEMMA StreamTypes ==
  /\ MA!TypeOK => /\ versionsA \in Seq(Objects) /\ Len(versionsA) > 0
                  /\ MA!current \in Objects
                  /\ interventions \in Nat /\ faults \in Nat
                  /\ oci \in [InstanceIDs -> MA!OCIRecord]
  /\ MB!TypeOK => /\ versionsB \in Seq(Objects) /\ Len(versionsB) > 0
                  /\ MB!current \in Objects
                  /\ interventions \in Nat /\ faults \in Nat
                  /\ oci \in [InstanceIDs -> MA!OCIRecord]
<1>1. MB!OCIRecord = MA!OCIRecord
  BY DEF MA!OCIRecord, MA!States, MB!OCIRecord, MB!States
<1>2. MA!TypeOK => MA!current \in Objects /\ versionsA \in Seq(Objects)
  BY MA!StoreTyped, BoundsAssumption, IDAssumption DEF MA!TypeOK, Objects, MA!Objects
<1>3. MB!TypeOK => MB!current \in Objects /\ versionsB \in Seq(Objects)
  BY MB!StoreTyped, ObjectsAre, BoundsAssumption, IDAssumption DEF MB!TypeOK, MB!Objects
<1> QED BY <1>1, <1>2, <1>3 DEF MA!TypeOK, MB!TypeOK

-----------------------------------------------------------------------------
(* What is done on A's watch leaves of B what holds of it, and both        *)
(* streams end in the same version ...                                     *)
LEMMA FollowA ==
  ASSUME MA!SharedInv, MB!SharedInv, MA!current = MB!current, MA!SharedInv', MA!StoreStep,
         Follows(versionsA, versionsB), UNCHANGED processB
  PROVE  MA!SharedInv' /\ MB!SharedInv' /\ MA!current' = MB!current' /\ MA!StoreStep
<1>1. MA!TypeOK /\ MB!TypeOK /\ MA!TypeOK'
  BY DEF MA!SharedInv, MB!SharedInv
<1>2. /\ MA!current' \in Objects
      /\ interventions' \in Nat /\ faults' \in Nat /\ oci' \in [InstanceIDs -> MA!OCIRecord]
  <2>1. (MA!TypeOK => MA!current \in Objects)'
    BY StreamTypes, PTL
  <2> QED BY <1>1, <2>1 DEF MA!TypeOK, MA!OCIRecord, MA!States, MA!OCIRecord, MA!States
<1>3. versionsB' = IF MA!current' = MA!current THEN versionsB
                   ELSE Append(versionsB, MA!current')
  BY DEF Follows, A!Stored, MA!current, MA!Stored
<1>4. /\ MB!current' = MA!current'
      /\ versionsB' = versionsB \/ versionsB' = Append(versionsB, MA!current')
  <2>1. /\ versionsB \in Seq(Objects) /\ Len(versionsB) > 0
        /\ MA!current = versionsB[Len(versionsB)]
    BY <1>1, StreamTypes DEF MB!current, MB!Stored
  <2>2. /\ versionsB'[Len(versionsB')] = MA!current'
        /\ versionsB' = versionsB \/ versionsB' = Append(versionsB, MA!current')
    BY <1>2, <1>3, <2>1, Followed
  <2> QED BY <2>2 DEF MB!current, MB!Stored
<1>5. MB!StoreStep /\ MA!StoreStep
  BY <1>4, StoreStepIs
<1>6. MB!SharedInv'
  <2>1. UNCHANGED <<queuedB, timerB, pcB, objB, attemptB, clientB>>
    BY DEF processB
  <2>2. /\ MB!current' \in MB!Objects
        /\ oci' \in [InstanceIDs -> MB!OCIRecord]
    BY <1>2, <1>4, ObjectsAre DEF Objects, MA!OCIRecord, MA!States, MB!OCIRecord, MB!States
  <2> QED BY <1>2, <1>4, <1>5, <2>1, <2>2, MB!OthersStep, BoundsAssumption, IDAssumption
<1> QED BY <1>4, <1>5, <1>6

(* ... as what is done on B's does.                                        *)
LEMMA FollowB ==
  ASSUME MA!SharedInv, MB!SharedInv, MA!current = MB!current, MB!SharedInv', MB!StoreStep,
         Follows(versionsB, versionsA), UNCHANGED processA
  PROVE  MA!SharedInv' /\ MB!SharedInv' /\ MA!current' = MB!current' /\ MA!StoreStep
<1>1. MA!TypeOK /\ MB!TypeOK /\ MB!TypeOK'
  BY DEF MA!SharedInv, MB!SharedInv
<1>2. /\ MB!current' \in Objects
      /\ interventions' \in Nat /\ faults' \in Nat /\ oci' \in [InstanceIDs -> MA!OCIRecord]
  <2>1. (MB!TypeOK => MB!current \in Objects)'
    BY StreamTypes, PTL
  <2> QED BY <1>1, <2>1 DEF MB!TypeOK, MA!OCIRecord, MA!States, MB!OCIRecord, MB!States
<1>3. versionsA' = IF MB!current' = MB!current THEN versionsA
                   ELSE Append(versionsA, MB!current')
  BY DEF Follows, A!Stored, MB!current, MB!Stored
<1>4. /\ MA!current' = MB!current'
      /\ versionsA' = versionsA \/ versionsA' = Append(versionsA, MB!current')
  <2>1. /\ versionsA \in Seq(Objects) /\ Len(versionsA) > 0
        /\ MB!current = versionsA[Len(versionsA)]
    BY <1>1, StreamTypes DEF MA!current, MA!Stored
  <2>2. /\ versionsA'[Len(versionsA')] = MB!current'
        /\ versionsA' = versionsA \/ versionsA' = Append(versionsA, MB!current')
    BY <1>2, <1>3, <2>1, Followed
  <2> QED BY <2>2 DEF MA!current, MA!Stored
<1>5. MA!StoreStep /\ MA!StoreStep
  BY <1>4, StoreStepIs
<1>6. MA!SharedInv'
  <2>1. UNCHANGED <<queuedA, timerA, pcA, objA, attemptA, clientA>>
    BY DEF processA
  <2>2. /\ MA!current' \in MA!Objects
        /\ oci' \in [InstanceIDs -> MA!OCIRecord]
    BY <1>2, <1>4, ObjectsAre DEF Objects, MA!OCIRecord, MA!States, MB!OCIRecord, MB!States
  <2> QED BY <1>2, <1>4, <1>5, <2>1, <2>2, MA!OthersStep, BoundsAssumption, IDAssumption
<1> QED BY <1>4, <1>5, <1>6

-----------------------------------------------------------------------------
(* What users and OCI do is a step of the specification of one process.    *)
LEMMA WorldIs ==
  World => /\ MA!Next
           /\ MA!Cloud \/ (MA!Runtime /\ UNCHANGED <<attemptA, clientA, oci>>)
<1>1. ASSUME A!Create \/ A!EditSpec \/ A!Delete, UNCHANGED <<faults, oci, processA>>
      PROVE  MA!Users /\ UNCHANGED <<attemptA, clientA, oci>>
  BY <1>1 DEF A!Create, A!EditSpec, A!Delete, A!Intervention, A!NewVersion, A!Gone, A!Stored,
              A!Created, A!Edited, A!Deleted, A!NoObject, MA!Create, MA!EditSpec, MA!Delete,
              MA!Intervention, MA!NewVersion, MA!Gone, MA!Stored, MA!Created, MA!Edited,
              MA!Deleted, MA!NoObject, MA!Users, MA!workerVars, processA
<1>2. ASSUME NEW i \in InstanceIDs, A!Progress(i) \/ A!Purge(i)
      PROVE  MA!Cloud
  BY <1>2 DEF A!Progress, A!Purge, A!workerVars, MA!Progress, MA!Purge, MA!workerVars, MA!Cloud
<1> QED BY <1>1, <1>2 DEF World, MA!Next, MA!Runtime

(* Every step keeps what holds of the two processes and their resource.    *)
LEMMA BothStep ==
  ASSUME MA!SharedInv, MB!SharedInv, MA!current = MB!current, [Next]_vars
  PROVE  MA!SharedInv' /\ MB!SharedInv' /\ MA!current' = MB!current' /\ MA!StoreStep
<1>1. CASE ProcessA
  <2>1. MA!SharedInv' /\ MA!StoreStep
    BY <1>1, MA!ProcessStep, ProcessA_Is, BoundsAssumption, IDAssumption DEF ProcessA
  <2> QED BY <1>1, <2>1, FollowA DEF ProcessA
<1>2. CASE ProcessB
  <2>1. MB!SharedInv' /\ MB!StoreStep
    BY <1>2, MB!ProcessStep, ProcessB_Is, BoundsAssumption, IDAssumption DEF ProcessB
  <2> QED BY <1>2, <2>1, FollowB DEF ProcessB
<1>3. CASE World
  <2>1. MA!SharedInv' /\ MA!StoreStep
    BY <1>3, WorldIs, MA!SharedStep, BoundsAssumption, IDAssumption
  <2> QED BY <1>3, <2>1, FollowA DEF World
<1>4. CASE UNCHANGED vars
  <2>1. MA!SharedInv' /\ MA!StoreStep
    BY <1>4, MA!SharedStep, BoundsAssumption, IDAssumption DEF vars, processA, MA!vars
  <2>2. Follows(versionsA, versionsB) /\ UNCHANGED processB
    BY <1>4 DEF vars, Follows
  <2> QED BY <2>1, <2>2, FollowA
<1> QED BY <1>1, <1>2, <1>3, <1>4 DEF Next

(* Changes and faults are spent one at a time and never regained.          *)
LEMMA BudgetsStep ==
  ASSUME [Next]_vars
  PROVE  /\ faults' = faults \/ (faults > 0 /\ faults' = faults - 1)
         /\ \/ interventions' = interventions
            \/ interventions > 0 /\ interventions' = interventions - 1
<1>1. CASE ProcessA
  BY <1>1, MA!ProcessBudgets, ProcessA_Is, BoundsAssumption, IDAssumption DEF ProcessA, MA!Fault
<1>2. CASE ProcessB
  BY <1>2, MB!ProcessBudgets, ProcessB_Is, BoundsAssumption, IDAssumption DEF ProcessB, MB!Fault
<1>3. CASE World
  BY <1>3, WorldIs, MA!Budgets, BoundsAssumption, IDAssumption DEF MA!Fault, MA!Intervention
<1>4. CASE UNCHANGED vars
  BY <1>4 DEF vars
<1> QED BY <1>1, <1>2, <1>3, <1>4 DEF Next

(* The lease names one of the two or nobody, and only who leads works,     *)
(* whoever moves.                                                          *)
LEMMA LeaseTyped ==
  ASSUME TypeOK, LeadersWork, [Next]_vars
  PROVE  /\ leadsA' \in BOOLEAN /\ leadsB' \in BOOLEAN
         /\ holder' \in {"nobody", "A", "B"}
         /\ LeadersWork'
<1>1. CASE ProcessA
  <2>1. /\ leadsA' \in BOOLEAN /\ (leadsA' \/ pcA' = "idle")
        /\ holder' \in {holder, "A", "nobody"}
    BY <1>1, MA!LeaseMoves, ProcessA_Is, BoundsAssumption, IDAssumption
       DEF ProcessA, TypeOK, LeadersWork
  <2> QED BY <1>1, <2>1 DEF ProcessA, processB, TypeOK, LeadersWork
<1>2. CASE ProcessB
  <2>1. /\ leadsB' \in BOOLEAN /\ (leadsB' \/ pcB' = "idle")
        /\ holder' \in {holder, "B", "nobody"}
    BY <1>2, MB!LeaseMoves, ProcessB_Is, BoundsAssumption, IDAssumption
       DEF ProcessB, TypeOK, LeadersWork
  <2> QED BY <1>2, <2>1 DEF ProcessB, processA, TypeOK, LeadersWork
<1>3. CASE World \/ UNCHANGED vars
  BY <1>3 DEF World, vars, processA, processB, TypeOK, LeadersWork
<1> QED BY <1>1, <1>2, <1>3 DEF Next

(* Until the first fault the first leader leads alone.                     *)
LEMMA FirstLeadsStep ==
  ASSUME SharedInv, [Next]_vars, MA!SharedInv'
  PROVE  FirstLeads'
<1>0. /\ MA!SharedInv /\ faults \in Nat /\ MaxFaults \in Nat /\ faults <= MaxFaults
      /\ interventions \in Nat /\ MaxInterventions \in Nat
      /\ interventions <= MaxInterventions
  BY InvA_Is, StreamTypes, BoundsAssumption DEF SharedInv, FirstLeads, MA!SharedInv
<1>1. faults' <= MaxFaults /\ interventions' <= MaxInterventions
  BY <1>0, BudgetsStep
<1>2. ASSUME faults' = MaxFaults
      PROVE  holder' = "A" /\ leadsA' /\ ~leadsB' /\ MA!LaunchesAlone'
  <2>1. faults = MaxFaults /\ faults' = faults
    BY <1>0, <1>2, BudgetsStep
  <2>2. holder = "A" /\ leadsA /\ ~leadsB /\ MA!IInv
    BY <1>0, <2>1, InvA_Is DEF SharedInv, FirstLeads, MA!IInv
  <2>3. CASE ProcessA
    <3>1. ~MA!Fault
      BY <1>0, <2>1 DEF MA!Fault
    <3>2. MA!LaunchesAlone' /\ leadsA' /\ holder' = "A"
      BY <2>2, <2>3, <3>1, MA!LeaderStays, ProcessA_Is, BoundsAssumption, IDAssumption DEF ProcessA
    <3> QED BY <2>2, <2>3, <3>2 DEF ProcessA, processB
  <2>4. CASE ProcessB
    BY <2>2, <2>4, MB!StandbyWaits, ProcessB_Is, BoundsAssumption, IDAssumption DEF ProcessB
  <2>5. CASE World \/ UNCHANGED vars
    <3>1. MA!Next \/ UNCHANGED MA!vars
      BY <2>5, WorldIs DEF vars, processA, MA!vars
    <3>2. MA!LaunchesAlone'
      BY <2>2, <3>1, MA!AloneStep, BoundsAssumption, IDAssumption
    <3>3. UNCHANGED <<holder, leadsA, leadsB>>
      BY <2>5 DEF World, vars, processA, processB
    <3> QED BY <2>2, <3>2, <3>3
  <2> QED BY <2>3, <2>4, <2>5 DEF Next
<1>3. (P!LaunchesAlone <=> MA!LaunchesAlone)'
  BY InvA_Is, PTL
<1> QED BY <1>1, <1>2, <1>3 DEF FirstLeads

-----------------------------------------------------------------------------
(* The inductive invariant, as it is proved and as it is stated.           *)
LEMMA SharedIs == SharedInv => MA!SharedInv /\ MB!SharedInv /\ MA!current = MB!current
BY InvA_Is, InvB_Is, CurrentIs DEF SharedInv, TypeOK

(* It is kept ...                                                          *)
LEMMA SharedStep ==
  ASSUME SharedInv, [Next]_vars
  PROVE  SharedInv' /\ MA!StoreStep
<1>1. MA!SharedInv' /\ MB!SharedInv' /\ MA!current' = MB!current' /\ MA!StoreStep
  BY SharedIs, BothStep
<1>2. /\ (P!SharedInv <=> MA!SharedInv)' /\ (Q!SharedInv <=> MB!SharedInv)'
      /\ (P!current = MA!current)' /\ (Q!current = MB!current)'
  BY InvA_Is, InvB_Is, CurrentIs, PTL
<1>3. TypeOK' /\ LeadersWork'
  BY <1>1, <1>2, LeaseTyped DEF SharedInv, TypeOK, P!SharedInv, Q!SharedInv
<1> QED BY <1>1, <1>2, <1>3, FirstLeadsStep DEF SharedInv

(* ... and holds when A leads and B waits.                                 *)
LEMMA SharedInit == Init => SharedInv
<1> SUFFICES ASSUME Init PROVE SharedInv
  OBVIOUS
<1>1. MA!Init /\ MB!Init
  BY DEF Init, A!Init, A!RuntimeInit, A!NoObject, B!Init, B!RuntimeInit, B!NoObject,
         MA!Init, MA!RuntimeInit, MA!NoObject, MB!Init, MB!RuntimeInit, MB!NoObject
<1>2. MA!IInv /\ MB!SharedInv
  BY <1>1, MA!InvInit, MB!InvInit, BoundsAssumption, IDAssumption DEF MB!IInv
<1>3. MA!current = MB!current
  BY <1>1 DEF MA!Init, MA!RuntimeInit, MA!NoObject, MB!Init, MB!RuntimeInit, MB!NoObject,
              MA!current, MA!Stored, MB!current, MB!Stored
<1>4. P!SharedInv /\ P!LaunchesAlone /\ Q!SharedInv /\ P!current = Q!current
  BY <1>2, <1>3, InvA_Is, InvB_Is, CurrentIs DEF MA!IInv
<1>5. faults = MaxFaults /\ interventions = MaxInterventions /\ pcB = "idle"
  BY <1>1 DEF MA!Init, MA!RuntimeInit, MB!Init, MB!RuntimeInit
<1>6. TypeOK
  BY <1>4, Zenon DEF Init, TypeOK, P!SharedInv, Q!SharedInv
<1>7. faults <= MaxFaults /\ interventions <= MaxInterventions
  BY <1>5, BoundsAssumption
<1> QED BY <1>4, <1>5, <1>6, <1>7, Zenon DEF Init, SharedInv, FirstLeads, LeadersWork

(* What a process holds is an old truth about the store, whatever the      *)
(* other one does.                                                         *)
LEMMA SharedCorrect == Spec => []SharedInv
BY SharedInit, SharedStep, PTL DEF Spec

(* Two processes share the store, OCI and the lease well typed.            *)
THEOREM ManagersTypeCorrect == Spec => []TypeOK
<1>1. SharedInv => TypeOK
  BY DEF SharedInv
<1> QED BY <1>1, SharedCorrect, PTL

(* A generation one leader gave up the other does not revive.              *)
THEOREM ManagersGivenUpIsFinalCorrect == Spec => GivenUpIsFinal
<1>1. ASSUME SharedInv, [Next]_vars, P!GivenUp(P!current),
             P!current'.uid = P!current.uid, P!current'.gen = P!current.gen
      PROVE  P!GivenUp(P!current')
  <2>1. MA!StoreStep
    BY <1>1, SharedStep
  <2>2. P!current = MA!current /\ P!current' = MA!current'
    BY CurrentIs DEF P!current, P!Stored, MA!current, MA!Stored
  <2> QED BY <1>1, <2>1, <2>2 DEF MA!StoreStep, MA!Evolves, MA!GivenUp, P!GivenUp
<1>2. SharedInv /\ [Next]_vars =>
        [/\ P!GivenUp(P!current)
         /\ P!current'.uid = P!current.uid /\ P!current'.gen = P!current.gen
         => P!GivenUp(P!current')]_vars
  BY <1>1
<1>3. P!GivenUp(P!current)' <=> P!GivenUp(P!current')
  BY DEF P!GivenUp
<1> QED BY <1>2, <1>3, SharedCorrect, PTL DEF Spec, GivenUpIsFinal

(* Neither leader ends an instance but the recorded one of a resource that *)
(* is being deleted.                                                       *)
THEOREM ManagersTerminateIsWantedCorrect == Spec => TerminateIsWanted
<1>1. ASSUME SharedInv, [Next]_vars, NEW i \in InstanceIDs,
             \/ pcA = "terminate" /\ pcA' # "terminate"
             \/ pcB = "terminate" /\ pcB' # "terminate",
             oci[i].state \notin P!Ending, oci'[i].state \in P!Ending
      PROVE  P!current.id = i /\ P!current.deleting
  <2>0. /\ MA!SharedInv /\ MB!SharedInv
        /\ P!current = MA!current /\ P!current = MB!current
        /\ P!Ending = MA!Ending /\ P!Ending = MB!Ending
    BY <1>1, SharedIs, CurrentIs DEF P!Ending, MA!Ending, MB!Ending
  <2>1. CASE pcA = "terminate" /\ pcA' # "terminate"
    <3>1. ProcessA
      BY <1>1, <2>1 DEF Next, ProcessB, World, processA, vars
    <3> QED BY <1>1, <2>0, <2>1, <3>1, ProcessA_Is, MA!ProcessTerminates, BoundsAssumption,
               IDAssumption DEF ProcessA
  <2>2. CASE pcB = "terminate" /\ pcB' # "terminate"
    <3>1. ProcessB
      BY <1>1, <2>2 DEF Next, ProcessA, World, processB, vars
    <3> QED BY <1>1, <2>0, <2>2, <3>1, ProcessB_Is, MB!ProcessTerminates, BoundsAssumption,
               IDAssumption DEF ProcessB
  <2> QED BY <1>1, <2>1, <2>2
<1>2. SharedInv /\ [Next]_vars =>
        [\A i \in InstanceIDs :
           /\ \/ pcA = "terminate" /\ pcA' # "terminate"
              \/ pcB = "terminate" /\ pcB' # "terminate"
           /\ oci[i].state \notin P!Ending /\ oci'[i].state \in P!Ending
           => P!current.id = i /\ P!current.deleting]_vars
  BY <1>1
<1> QED BY <1>2, SharedCorrect, PTL DEF Spec, TerminateIsWanted

-----------------------------------------------------------------------------
(* A step of the claim and its instances, as the properties and as the     *)
(* proofs of each process put it.                                          *)
ContractStep ==
    P!Contract!Next \/ UNCHANGED <<P!ClaimOf(P!current), P!CloudOf(oci)>>

(* A step of A's.                                                          *)
LEMMA ContractA_Is == MA!ContractStep => ContractStep
BY DEF ContractStep, MA!ContractStep, MA!Contract!cvars, P!Contract!Next, MA!Contract!Next,
       P!Contract!Request, MA!Contract!Request, P!Contract!Withdraw, MA!Contract!Withdraw,
       P!Contract!Vanish, MA!Contract!Vanish, P!Contract!Protect, MA!Contract!Protect,
       P!Contract!Release, MA!Contract!Release, P!Contract!Provision, MA!Contract!Provision,
       P!Contract!Bind, MA!Contract!Bind, P!Contract!Terminate, MA!Contract!Terminate,
       P!ClaimOf, MA!ClaimOf, P!CloudOf, MA!CloudOf, P!SeenAs, MA!SeenAs, P!Ending, MA!Ending,
       P!current, MA!current, P!Stored, MA!Stored

(* A step of B's, which is decided on the resource as A sees it stored.    *)
LEMMA ContractB_Is ==
  ASSUME MA!current = MB!current, MA!current' = MB!current', MB!ContractStep
  PROVE  ContractStep
<1> DEFINE claim == MB!ClaimOf(MB!current)
           cloud == MB!CloudOf(oci)
<1>1. /\ P!ClaimOf(P!current) = claim /\ P!ClaimOf(P!current)' = claim'
      /\ P!CloudOf(oci) = cloud /\ P!CloudOf(oci)' = cloud'
  <2>1. P!current = MB!current /\ P!current' = MB!current'
    BY CurrentIs DEF P!current, P!Stored, MA!current, MA!Stored
  <2> QED BY <2>1 DEF P!ClaimOf, MB!ClaimOf, P!CloudOf, MB!CloudOf, P!SeenAs, MB!SeenAs, P!Ending,
                      MB!Ending
<1>2. CASE UNCHANGED <<claim, cloud>>
  <2> HIDE DEF claim, cloud
  <2> QED BY <1>1, <1>2 DEF ContractStep
<1>3. CASE MB!Contract!Next
  BY <1>1, <1>3 DEF ContractStep, P!Contract!Next, MB!Contract!Next, P!Contract!Request,
                       MB!Contract!Request, P!Contract!Withdraw, MB!Contract!Withdraw,
                       P!Contract!Vanish, MB!Contract!Vanish, P!Contract!Protect,
                       MB!Contract!Protect, P!Contract!Release, MB!Contract!Release,
                       P!Contract!Provision, MB!Contract!Provision, P!Contract!Bind,
                       MB!Contract!Bind, P!Contract!Terminate, MB!Contract!Terminate
<1> QED BY <1>2, <1>3 DEF MB!ContractStep, MB!Contract!cvars

(* What A does is that, or a stray launch; before the first fault it is    *)
(* that.                                                                   *)
LEMMA StraysA ==
  ASSUME SharedInv, ProcessA
  PROVE  ContractStep \/ \E i \in InstanceIDs : Stray(i)
<1>1. MA!SharedInv /\ MA!Process /\ P!current = MA!current /\ P!current' = MA!current'
  BY SharedIs, ProcessA_Is, CurrentIs DEF ProcessA, P!current, P!Stored, MA!current, MA!Stored
<1>2. faults \in Nat /\ faults <= MaxFaults /\ MaxFaults \in Nat
  BY <1>1, StreamTypes, BoundsAssumption DEF MA!SharedInv, SharedInv, FirstLeads
<1>3. CASE faults = MaxFaults
  <2>1. MA!LaunchesAlone
    BY <1>3, InvA_Is DEF SharedInv, FirstLeads
  <2> QED BY <1>1, <2>1, MA!ProcessRefines, ContractA_Is, BoundsAssumption, IDAssumption
<1>4. CASE faults < MaxFaults
  <2>1. \/ MA!ContractStep
        \/ /\ MA!current' = MA!current
           /\ \E i \in InstanceIDs : oci[i].state = "NONE" /\ oci'[i].state # "NONE"
    BY <1>1, MA!ProcessStrays, BoundsAssumption, IDAssumption
  <2> QED BY <1>1, <1>4, <2>1, ContractA_Is DEF Stray
<1> QED BY <1>2, <1>3, <1>4

(* B leads only after a fault.                                             *)
LEMMA StraysB ==
  ASSUME SharedInv, ProcessB, [Next]_vars
  PROVE  ContractStep \/ \E i \in InstanceIDs : Stray(i)
<1>1. /\ MB!SharedInv /\ MB!Process
      /\ MA!current = MB!current /\ MA!current' = MB!current'
      /\ P!current = MB!current /\ P!current' = MB!current'
  <2>1. MA!SharedInv /\ MB!SharedInv /\ MA!current = MB!current
    BY SharedIs
  <2>2. MA!current' = MB!current'
    BY <2>1, BothStep
  <2> QED BY <2>1, <2>2, ProcessB_Is, CurrentIs DEF ProcessB, P!current, P!Stored, MA!current,
                                                    MA!Stored
<1>2. faults < MaxFaults
  <2>1. faults \in Nat /\ faults <= MaxFaults /\ MaxFaults \in Nat
    BY SharedIs, StreamTypes, BoundsAssumption DEF MA!SharedInv, SharedInv, FirstLeads
  <2>2. faults # MaxFaults
    BY <1>1, MB!StandbyWaits, BoundsAssumption, IDAssumption DEF SharedInv, FirstLeads
  <2> QED BY <2>1, <2>2
<1>3. \/ MB!ContractStep
      \/ /\ MB!current' = MB!current
         /\ \E i \in InstanceIDs : oci[i].state = "NONE" /\ oci'[i].state # "NONE"
  BY <1>1, MB!ProcessStrays, BoundsAssumption, IDAssumption
<1> QED BY <1>1, <1>2, <1>3, ContractB_Is DEF Stray

(* Under a lapsed lease only launches stray from what a single leader that *)
(* decides on the resource as it is stored would do.                       *)
THEOREM OnlyLaunchesStrayCorrect == Spec => OnlyLaunchesStray
<1>1. ASSUME SharedInv, [Next]_vars
      PROVE  ContractStep \/ \E i \in InstanceIDs : Stray(i)
  <2>1. CASE World \/ UNCHANGED vars
    <3>1. MA!SharedInv /\ MA!SharedInv' /\ [MA!Next]_(MA!vars)
      BY <1>1, <2>1, SharedIs, BothStep, WorldIs DEF vars, processA, MA!vars
    <3>2. ~MA!Launch
      BY <2>1 DEF World, vars, processA, MA!Launch, MA!Proceed, MA!GiveUp
    <3>3. MA!TypeOK'
      BY <3>1 DEF MA!SharedInv
    <3> QED BY <3>1, <3>2, <3>3, MA!RefinementStep, ContractA_Is, BoundsAssumption, IDAssumption
  <2> QED BY <1>1, <2>1, StraysA, StraysB DEF Next
<1>2. SharedInv /\ [Next]_vars =>
        [P!Contract!Next \/ \E i \in InstanceIDs : Stray(i)]_<<P!ClaimOf(P!current), P!CloudOf(oci)>>
  BY <1>1 DEF ContractStep
<1> QED BY <1>2, SharedCorrect, PTL DEF Spec, OnlyLaunchesStray

-----------------------------------------------------------------------------
(* What an instance costs.  The names of the two processes' parts.         *)
LEMMA PartsAre ==
  ASSUME SharedInv
  PROVE  /\ \A o : Closed(o) <=> MA!Closed(o)
         /\ \A o : Closed(o) <=> MB!Closed(o)
         /\ \A o : MA!Awaited(o) => ~Closed(o)
         /\ \A o : MB!Awaited(o) => ~Closed(o)
         /\ MA!Outdated <=> OutdatedA
         /\ MB!Outdated <=> OutdatedB
         /\ Orphans = {i \in MA!Orphans : ~(pcB = "record" /\ objB.id = i)}
         /\ Orphans = {i \in MB!Orphans : ~(pcA = "record" /\ objA.id = i)}
         /\ P!current = MA!current /\ P!current = MB!current
<1>1. P!current = MA!current /\ P!current = MB!current
  BY CurrentIs DEF SharedInv, TypeOK
<1>2. /\ \A o : Closed(o) <=> MA!Closed(o)
      /\ \A o : Closed(o) <=> MB!Closed(o)
  BY DEF Closed, MA!Closed, MB!Closed, P!GivenUp, MA!GivenUp, MB!GivenUp
<1>3. /\ \A o : MA!Awaited(o) => ~Closed(o)
      /\ \A o : MB!Awaited(o) => ~Closed(o)
  BY DEF Closed, P!GivenUp, MA!Awaited, MB!Awaited
<1>4. (MA!Outdated <=> OutdatedA) /\ (MB!Outdated <=> OutdatedB)
  BY <1>1 DEF MA!Outdated, MB!Outdated, OutdatedA, OutdatedB
<1>5. /\ Orphans = {i \in MA!Orphans : ~(pcB = "record" /\ objB.id = i)}
      /\ Orphans = {i \in MB!Orphans : ~(pcA = "record" /\ objA.id = i)}
  BY <1>1 DEF Orphans, P!Orphans, P!Ending, MA!Orphans, MA!Ending, MB!Orphans, MB!Ending
<1> QED BY <1>1, <1>2, <1>3, <1>4, <1>5

(* The same after a step.                                                  *)
LEMMA PartsWillBe ==
  ASSUME SharedInv'
  PROVE  /\ MA!Outdated' <=> OutdatedA'
         /\ MB!Outdated' <=> OutdatedB'
         /\ Orphans' = {i \in MA!Orphans' : ~(pcB' = "record" /\ objB'.id = i)}
         /\ Orphans' = {i \in MB!Orphans' : ~(pcA' = "record" /\ objA'.id = i)}
         /\ P!current' = MA!current' /\ P!current' = MB!current'
<1>1. P!current' = MA!current' /\ P!current' = MB!current'
  <2>1. (SharedInv => P!current = MA!current /\ P!current = MB!current)'
    BY PartsAre, PTL
  <2> QED BY <2>1
<1>2. (MA!Outdated' <=> OutdatedA') /\ (MB!Outdated' <=> OutdatedB')
  BY <1>1 DEF MA!Outdated, MB!Outdated, OutdatedA, OutdatedB
<1>3. /\ Orphans' = {i \in MA!Orphans' : ~(pcB' = "record" /\ objB'.id = i)}
      /\ Orphans' = {i \in MB!Orphans' : ~(pcA' = "record" /\ objA'.id = i)}
  BY <1>1 DEF Orphans, P!Orphans, P!Ending, MA!Orphans, MA!Ending, MB!Orphans, MB!Ending
<1> QED BY <1>1, <1>2, <1>3

(* A set that does not grow, or grows by one element at most.              *)
LEMMA GrowsByOne ==
  ASSUME NEW S, IsFiniteSet(S), NEW T
  PROVE  /\ T \subseteq S =>
              IsFiniteSet(T) /\ Cardinality(T) \in Nat /\ Cardinality(T) <= Cardinality(S)
         /\ \A i : T \subseteq S \cup {i} =>
              IsFiniteSet(T) /\ Cardinality(T) \in Nat /\ Cardinality(T) <= Cardinality(S) + 1
<1>1. ASSUME T \subseteq S
      PROVE  IsFiniteSet(T) /\ Cardinality(T) \in Nat /\ Cardinality(T) <= Cardinality(S)
  BY <1>1, FS_Subset, FS_CardinalityType
<1>2. ASSUME NEW i, T \subseteq S \cup {i}
      PROVE  IsFiniteSet(T) /\ Cardinality(T) \in Nat /\ Cardinality(T) <= Cardinality(S) + 1
  <2>1. /\ IsFiniteSet(S \cup {i})
        /\ Cardinality(S \cup {i}) = IF i \in S THEN Cardinality(S) ELSE Cardinality(S) + 1
    BY FS_AddElement, Zenon
  <2>2. /\ IsFiniteSet(T) /\ Cardinality(T) <= Cardinality(S \cup {i})
        /\ Cardinality(T) \in Nat /\ Cardinality(S \cup {i}) \in Nat
        /\ Cardinality(S) \in Nat
    BY <1>2, <2>1, FS_Subset, FS_CardinalityType
  <2> QED BY <2>1, <2>2
<1> QED BY <1>1, <1>2

-----------------------------------------------------------------------------
(* A lapse adds one to the IDs that can be lost, the end of a process that *)
(* has lost the lease takes one off, and nothing else A does adds to them. *)
LEMMA RiskA ==
  ASSUME TypeOK, ProcessA
  PROVE  /\ Risk \in 0 .. 2 /\ Risk' \in 0 .. 2
         /\ MA!Lapse => Risk' <= Risk + 1
         /\ ~MA!Lapse => Risk' <= Risk
         /\ MA!LoseLease => Risk' + 1 <= Risk /\ ~MA!Lapse
         /\ MA!Work => Risk' = Risk /\ leadsA /\ ~MA!Lapse /\ ~MA!LoseLease
<1>0. /\ leadsB' = leadsB /\ MA!Process
      /\ leadsA \in BOOLEAN /\ leadsB \in BOOLEAN
      /\ holder \in {"nobody", "A", "B"}
  BY ProcessA_Is DEF ProcessA, processB, TypeOK
<1>1. CASE MA!Work
  <2>1. UNCHANGED <<holder, leadsA, leadsB>> /\ leadsA
    BY <1>0, <1>1 DEF MA!Work
  <2>2. ~MA!Lapse /\ ~MA!LoseLease
    BY <2>1 DEF MA!Lapse, MA!LoseLease, MA!Exit
  <2> QED BY <1>0, <2>1, <2>2 DEF Risk, Held, Count
<1>2. CASE MA!Lead
  <2>1. holder = "nobody" /\ holder' = "A" /\ ~leadsA /\ leadsA'
    BY <1>2 DEF MA!Lead
  <2>2. ~MA!Lapse /\ ~MA!LoseLease /\ ~MA!Work
    BY <2>1 DEF MA!Lapse, MA!LoseLease, MA!Exit, MA!Work
  <2> QED BY <1>0, <2>1, <2>2 DEF Risk, Held, Count
<1>3. CASE MA!Lapse
  <2>1. holder = "A" /\ holder' = "nobody" /\ leadsA' = leadsA
    BY <1>3 DEF MA!Lapse, MA!process
  <2>2. ~MA!LoseLease /\ ~MA!Work
    BY <2>1 DEF MA!LoseLease, MA!Work
  <2> QED BY <1>0, <1>3, <2>1, <2>2 DEF Risk, Held, Count
<1>4. CASE MA!Renew
  <2>1. holder = "nobody" /\ holder' = "A" /\ leadsA' = leadsA
    BY <1>4 DEF MA!Renew, MA!process
  <2>2. ~MA!Lapse /\ ~MA!LoseLease /\ ~MA!Work
    BY <2>1 DEF MA!Lapse, MA!LoseLease, MA!Work
  <2> QED BY <1>0, <2>1, <2>2 DEF Risk, Held, Count
<1>5. CASE MA!LoseLease
  <2>1. holder # "A" /\ leadsA /\ ~leadsA' /\ holder' = holder
    BY <1>5 DEF MA!LoseLease, MA!Exit
  <2>2. ~MA!Lapse /\ ~MA!Work
    BY <2>1 DEF MA!Lapse, MA!Work
  <2> QED BY <1>0, <2>1, <2>2 DEF Risk, Held, Count
<1>6. CASE MA!Crash /\ ~MA!LoseLease
  <2>1. leadsA /\ ~leadsA' /\ holder' = holder
    BY <1>6 DEF MA!Crash, MA!Exit
  <2>2. ~MA!Lapse /\ ~MA!Work
    BY <2>1 DEF MA!Lapse, MA!process, MA!Work
  <2> QED BY <1>0, <1>6, <2>1, <2>2 DEF Risk, Held, Count
<1>7. CASE MA!Expire
  <2>1. ~leadsA /\ holder = "A" /\ holder' = "nobody" /\ leadsA' = leadsA
    BY <1>7 DEF MA!Expire, MA!process
  <2>2. ~MA!Lapse /\ ~MA!LoseLease /\ ~MA!Work
    BY <2>1 DEF MA!Lapse, MA!LoseLease, MA!Exit, MA!Work
  <2> QED BY <1>0, <2>1, <2>2 DEF Risk, Held, Count
<1> QED BY <1>0, <1>1, <1>2, <1>3, <1>4, <1>5, <1>6, <1>7 DEF MA!Process

(* Nor does anything else that B does.                                     *)
LEMMA RiskB ==
  ASSUME TypeOK, ProcessB
  PROVE  /\ Risk \in 0 .. 2 /\ Risk' \in 0 .. 2
         /\ MB!Lapse => Risk' <= Risk + 1
         /\ ~MB!Lapse => Risk' <= Risk
         /\ MB!LoseLease => Risk' + 1 <= Risk /\ ~MB!Lapse
         /\ MB!Work => Risk' = Risk /\ leadsB /\ ~MB!Lapse /\ ~MB!LoseLease
<1>0. /\ leadsA' = leadsA /\ MB!Process
      /\ leadsA \in BOOLEAN /\ leadsB \in BOOLEAN
      /\ holder \in {"nobody", "A", "B"}
  BY ProcessB_Is DEF ProcessB, processA, TypeOK
<1>1. CASE MB!Work
  <2>1. UNCHANGED <<holder, leadsA, leadsB>> /\ leadsB
    BY <1>0, <1>1 DEF MB!Work
  <2>2. ~MB!Lapse /\ ~MB!LoseLease
    BY <2>1 DEF MB!Lapse, MB!LoseLease, MB!Exit
  <2> QED BY <1>0, <2>1, <2>2 DEF Risk, Held, Count
<1>2. CASE MB!Lead
  <2>1. holder = "nobody" /\ holder' = "B" /\ ~leadsB /\ leadsB'
    BY <1>2 DEF MB!Lead
  <2>2. ~MB!Lapse /\ ~MB!LoseLease /\ ~MB!Work
    BY <2>1 DEF MB!Lapse, MB!LoseLease, MB!Exit, MB!Work
  <2> QED BY <1>0, <2>1, <2>2 DEF Risk, Held, Count
<1>3. CASE MB!Lapse
  <2>1. holder = "B" /\ holder' = "nobody" /\ leadsB' = leadsB
    BY <1>3 DEF MB!Lapse, MB!process
  <2>2. ~MB!LoseLease /\ ~MB!Work
    BY <2>1 DEF MB!LoseLease, MB!Work
  <2> QED BY <1>0, <1>3, <2>1, <2>2 DEF Risk, Held, Count
<1>4. CASE MB!Renew
  <2>1. holder = "nobody" /\ holder' = "B" /\ leadsB' = leadsB
    BY <1>4 DEF MB!Renew, MB!process
  <2>2. ~MB!Lapse /\ ~MB!LoseLease /\ ~MB!Work
    BY <2>1 DEF MB!Lapse, MB!LoseLease, MB!Work
  <2> QED BY <1>0, <2>1, <2>2 DEF Risk, Held, Count
<1>5. CASE MB!LoseLease
  <2>1. holder # "B" /\ leadsB /\ ~leadsB' /\ holder' = holder
    BY <1>5 DEF MB!LoseLease, MB!Exit
  <2>2. ~MB!Lapse /\ ~MB!Work
    BY <2>1 DEF MB!Lapse, MB!Work
  <2> QED BY <1>0, <2>1, <2>2 DEF Risk, Held, Count
<1>6. CASE MB!Crash /\ ~MB!LoseLease
  <2>1. leadsB /\ ~leadsB' /\ holder' = holder
    BY <1>6 DEF MB!Crash, MB!Exit
  <2>2. ~MB!Lapse /\ ~MB!Work
    BY <2>1 DEF MB!Lapse, MB!process, MB!Work
  <2> QED BY <1>0, <1>6, <2>1, <2>2 DEF Risk, Held, Count
<1>7. CASE MB!Expire
  <2>1. ~leadsB /\ holder = "B" /\ holder' = "nobody" /\ leadsB' = leadsB
    BY <1>7 DEF MB!Expire, MB!process
  <2>2. ~MB!Lapse /\ ~MB!LoseLease /\ ~MB!Work
    BY <2>1 DEF MB!Lapse, MB!LoseLease, MB!Exit, MB!Work
  <2> QED BY <1>0, <2>1, <2>2 DEF Risk, Held, Count
<1> QED BY <1>0, <1>1, <1>2, <1>3, <1>4, <1>5, <1>6, <1>7 DEF MB!Process

-----------------------------------------------------------------------------
(* The IDs that are bound to be lost.                                      *)
LostA == Count(OutdatedA)
LostB == Count(OutdatedB)

(* The step is a lapse, which may cost one more; the step ends a process   *)
(* that may have an ID in its hands it could have recorded.                *)
LapsesA == Count(MA!Lapse)
LapsesB == Count(MB!Lapse)
StrandsA == Count(MA!LoseLease /\ MA!Awaited(P!current))
StrandsB == Count(MB!LoseLease /\ MB!Awaited(P!current))

(* What a closed resource takes off the risk.                              *)
LEMMA Counts == \A c : Count(c) \in {0, 1}
BY DEF Count

(* A count of two at most, less one where there is one to spare.           *)
Spared(c, r) == IF c /\ r > 0 THEN r - 1 ELSE r

(* What may happen to it when the count or the condition changes.          *)
LEMMA Spares ==
  \A r, s \in 0 .. 2 : \A c, d \in BOOLEAN :
    /\ Spared(c, r) \in 0 .. 2
    /\ c = d /\ s <= r + 1 => Spared(d, s) <= Spared(c, r) + 1
    /\ c = d /\ s <= r => Spared(d, s) <= Spared(c, r)
    /\ ~c /\ ~d /\ s + 1 <= r => Spared(d, s) + 1 <= Spared(c, r)
    /\ (c => d) /\ s = r => Spared(d, s) <= Spared(c, r)
    /\ ~c /\ d /\ s = r /\ r > 0 => Spared(d, s) + 1 <= Spared(c, r)
    /\ s = r => Spared(d, s) <= Spared(c, r) + 1
BY DEF Spared

(* What is exposed, before a step and after.                               *)
LEMMA ExposedIs ==
  ASSUME Risk \in 0 .. 2, Risk' \in 0 .. 2
  PROVE  /\ Exposed \in 0 .. 2 /\ Exposed' \in 0 .. 2
         /\ (Closed(P!current)' <=> Closed(P!current)) =>
              /\ Risk' <= Risk + 1 => Exposed' <= Exposed + 1
              /\ Risk' <= Risk => Exposed' <= Exposed
              /\ ~Closed(P!current) /\ Risk' + 1 <= Risk => Exposed' + 1 <= Exposed
         /\ Risk' = Risk =>
              /\ (Closed(P!current) => Closed(P!current)') => Exposed' <= Exposed
              /\ ~Closed(P!current) /\ Closed(P!current)' /\ Risk > 0
                    => Exposed' + 1 <= Exposed
              /\ Exposed' <= Exposed + 1
<1>1. Closed(P!current) \in BOOLEAN /\ Closed(P!current)' \in BOOLEAN
  BY DEF Closed
<1>2. /\ Exposed = Spared(Closed(P!current), Risk)
      /\ Exposed' = Spared(Closed(P!current)', Risk')
  BY DEF Exposed, Spared
<1>3. (Closed(P!current)' <=> Closed(P!current))
        => Closed(P!current)' = Closed(P!current)
  BY <1>1
<1> QED BY <1>1, <1>2, <1>3, Spares, Zenon

(* What one step can do to the sums below.                                 *)
LEMMA Sums ==
  \A e, f \in 0 .. 2 : \A l, m, k, s \in {0, 1} :
    /\ f <= e + 1 /\ m = l /\ k = 1 /\ s = 0 => f + m + s <= e + l + k
    /\ f <= e /\ m = l /\ s = 0 => f + m + s <= e + l + k
    /\ f <= e /\ m = 0 /\ l = 1 /\ s = 0 => f + m + s <= e + l + k
    /\ f + 1 <= e /\ m = l /\ s = 1 => f + m + s <= e + l + k
    /\ f + 1 <= e /\ m = 1 /\ l = 0 /\ s = 0 => f + m + s <= e + l + k
OBVIOUS

(* What A's step costs of what is still to be lost: when it outdates a     *)
(* copy of B's that was up to date it closes the resource.                 *)
LEMMA ExposedA ==
  ASSUME SharedInv, SharedInv', ProcessA
  PROVE  /\ Exposed \in 0 .. 2 /\ Exposed' \in 0 .. 2
         /\ LostB \in {0, 1} /\ LostB' \in {0, 1}
         /\ LapsesA \in {0, 1} /\ StrandsA \in {0, 1}
         /\ Exposed' + LostB' + StrandsA <= Exposed + LostB + LapsesA
<1>0. /\ Risk \in 0 .. 2 /\ Risk' \in 0 .. 2
      /\ MA!Lapse => Risk' <= Risk + 1
      /\ ~MA!Lapse => Risk' <= Risk
      /\ MA!LoseLease => Risk' + 1 <= Risk /\ ~MA!Lapse
      /\ MA!Work => Risk' = Risk /\ leadsA /\ ~MA!Lapse /\ ~MA!LoseLease
  BY RiskA DEF SharedInv
<1>1. /\ P!current = MA!current /\ P!current = MB!current
      /\ P!current' = MA!current' /\ P!current' = MB!current'
      /\ \A o : Closed(o) <=> MA!Closed(o)
      /\ \A o : MA!Awaited(o) => ~Closed(o)
      /\ \A o : MB!Awaited(o) => ~Closed(o)
      /\ Closed(P!current)' <=> Closed(P!current')
      /\ MB!Outdated <=> OutdatedB
  BY PartsAre, PartsWillBe DEF Closed, P!GivenUp
<1>2. MA!SharedInv /\ MB!SharedInv /\ MA!Process /\ UNCHANGED processB
  BY SharedIs, ProcessA_Is DEF ProcessA
<1>3. /\ Exposed \in 0 .. 2 /\ Exposed' \in 0 .. 2
      /\ LostB \in {0, 1} /\ LostB' \in {0, 1}
      /\ LapsesA \in {0, 1} /\ StrandsA \in {0, 1}
  BY <1>0, ExposedIs, Counts DEF LostB, LapsesA, StrandsA
<1>4. CASE P!current' = P!current
  <2>1. OutdatedB' <=> OutdatedB
    BY <1>2, <1>4 DEF OutdatedA, OutdatedB, processA, processB
  <2>2. LostB' = LostB
    BY <2>1 DEF LostB, Count
  <2>3. Closed(P!current)' <=> Closed(P!current)
    BY <1>1, <1>4
  <2>4. CASE MA!Lapse
    <3>1. LapsesA = 1 /\ StrandsA = 0
      BY <1>0, <2>4 DEF LapsesA, StrandsA, Count
    <3>2. Exposed' <= Exposed + 1
      BY <1>0, <2>3, <2>4, ExposedIs, Zenon
    <3> QED BY <1>3, <2>2, <3>1, <3>2, Sums, Zenon
  <2>5. CASE ~MA!Lapse /\ ~(MA!LoseLease /\ MA!Awaited(P!current))
    <3>1. LapsesA = 0 /\ StrandsA = 0
      BY <2>5 DEF LapsesA, StrandsA, Count
    <3>2. Exposed' <= Exposed
      BY <1>0, <2>3, <2>5, ExposedIs, Zenon
    <3> QED BY <1>3, <2>2, <3>1, <3>2, Sums, Zenon
  <2>6. CASE MA!LoseLease /\ MA!Awaited(P!current)
    <3>1. ~Closed(P!current) /\ LapsesA = 0 /\ StrandsA = 1
      BY <1>0, <1>1, <2>6 DEF LapsesA, StrandsA, Count
    <3>2. Exposed' + 1 <= Exposed
      BY <1>0, <2>3, <2>6, <3>1, ExposedIs, Zenon
    <3> QED BY <1>3, <2>2, <3>1, <3>2, Sums, Zenon
  <2> QED BY <2>4, <2>5, <2>6
<1>5. CASE P!current' # P!current
  <2>1. MA!TypeOK /\ MA!Work
    BY <1>1, <1>2, <1>5, MA!LeaseStep, BoundsAssumption, IDAssumption DEF MA!SharedInv
  <2>2. MA!Awaited(P!current) \/ Closed(P!current) => Closed(P!current)'
    BY <1>1, <1>2, <1>5, MA!ProcessCloses, BoundsAssumption, IDAssumption
  <2>3. leadsA /\ ~MA!LoseLease /\ ~MA!Lapse /\ Risk' = Risk
    BY <1>0, <2>1, Zenon
  <2>4. LapsesA = 0 /\ StrandsA = 0
    BY <2>3 DEF LapsesA, StrandsA, Count
  <2>5. Exposed' <= Exposed
    BY <1>0, <2>2, <2>3, ExposedIs, Zenon
  <2>6. CASE OutdatedB' /\ ~OutdatedB
    <3>1. pcB \in {"launch", "record"}
      BY <1>2, <2>6 DEF OutdatedB, processB
    <3>2. MB!Awaited(P!current)
      BY <1>1, <1>2, <2>6, <3>1, MB!FreshIsAwaited, BoundsAssumption, IDAssumption
    <3>3. ~Closed(P!current) /\ Closed(P!current)'
      BY <1>1, <2>2, <3>2 DEF MA!Awaited, MB!Awaited
    <3>4. leadsA /\ leadsB
      BY <2>3, <3>1 DEF SharedInv, LeadersWork
    <3>5. Risk > 0
      BY <3>4 DEF Risk, Count
    <3>6. Exposed' + 1 <= Exposed
      BY <1>0, <2>3, <3>3, <3>5, ExposedIs, Zenon
    <3>7. LostB' = 1 /\ LostB = 0
      BY <2>6 DEF LostB, Count
    <3> QED BY <1>3, <2>4, <3>6, <3>7, Sums, Zenon
  <2>7. CASE ~(OutdatedB' /\ ~OutdatedB)
    <3>1. LostB' = LostB \/ (LostB' = 0 /\ LostB = 1)
      BY <2>7 DEF LostB, Count
    <3> QED BY <1>3, <2>4, <2>5, <3>1, Sums, Zenon
  <2> QED BY <2>6, <2>7
<1> QED BY <1>3, <1>4, <1>5

(* The same the other way round.                                           *)
LEMMA ExposedB ==
  ASSUME SharedInv, SharedInv', ProcessB
  PROVE  /\ Exposed \in 0 .. 2 /\ Exposed' \in 0 .. 2
         /\ LostA \in {0, 1} /\ LostA' \in {0, 1}
         /\ LapsesB \in {0, 1} /\ StrandsB \in {0, 1}
         /\ Exposed' + LostA' + StrandsB <= Exposed + LostA + LapsesB
<1>0. /\ Risk \in 0 .. 2 /\ Risk' \in 0 .. 2
      /\ MB!Lapse => Risk' <= Risk + 1
      /\ ~MB!Lapse => Risk' <= Risk
      /\ MB!LoseLease => Risk' + 1 <= Risk /\ ~MB!Lapse
      /\ MB!Work => Risk' = Risk /\ leadsB /\ ~MB!Lapse /\ ~MB!LoseLease
  BY RiskB DEF SharedInv
<1>1. /\ P!current = MB!current /\ P!current = MA!current
      /\ P!current' = MB!current' /\ P!current' = MA!current'
      /\ \A o : Closed(o) <=> MB!Closed(o)
      /\ \A o : MB!Awaited(o) => ~Closed(o)
      /\ \A o : MA!Awaited(o) => ~Closed(o)
      /\ Closed(P!current)' <=> Closed(P!current')
      /\ MA!Outdated <=> OutdatedA
  BY PartsAre, PartsWillBe DEF Closed, P!GivenUp
<1>2. MB!SharedInv /\ MA!SharedInv /\ MB!Process /\ UNCHANGED processA
  BY SharedIs, ProcessB_Is DEF ProcessB
<1>3. /\ Exposed \in 0 .. 2 /\ Exposed' \in 0 .. 2
      /\ LostA \in {0, 1} /\ LostA' \in {0, 1}
      /\ LapsesB \in {0, 1} /\ StrandsB \in {0, 1}
  BY <1>0, ExposedIs, Counts DEF LostA, LapsesB, StrandsB
<1>4. CASE P!current' = P!current
  <2>1. OutdatedA' <=> OutdatedA
    BY <1>2, <1>4 DEF OutdatedA, OutdatedB, processA, processB
  <2>2. LostA' = LostA
    BY <2>1 DEF LostA, Count
  <2>3. Closed(P!current)' <=> Closed(P!current)
    BY <1>1, <1>4
  <2>4. CASE MB!Lapse
    <3>1. LapsesB = 1 /\ StrandsB = 0
      BY <1>0, <2>4 DEF LapsesB, StrandsB, Count
    <3>2. Exposed' <= Exposed + 1
      BY <1>0, <2>3, <2>4, ExposedIs, Zenon
    <3> QED BY <1>3, <2>2, <3>1, <3>2, Sums, Zenon
  <2>5. CASE ~MB!Lapse /\ ~(MB!LoseLease /\ MB!Awaited(P!current))
    <3>1. LapsesB = 0 /\ StrandsB = 0
      BY <2>5 DEF LapsesB, StrandsB, Count
    <3>2. Exposed' <= Exposed
      BY <1>0, <2>3, <2>5, ExposedIs, Zenon
    <3> QED BY <1>3, <2>2, <3>1, <3>2, Sums, Zenon
  <2>6. CASE MB!LoseLease /\ MB!Awaited(P!current)
    <3>1. ~Closed(P!current) /\ LapsesB = 0 /\ StrandsB = 1
      BY <1>0, <1>1, <2>6 DEF LapsesB, StrandsB, Count
    <3>2. Exposed' + 1 <= Exposed
      BY <1>0, <2>3, <2>6, <3>1, ExposedIs, Zenon
    <3> QED BY <1>3, <2>2, <3>1, <3>2, Sums, Zenon
  <2> QED BY <2>4, <2>5, <2>6
<1>5. CASE P!current' # P!current
  <2>1. MB!TypeOK /\ MB!Work
    BY <1>1, <1>2, <1>5, MB!LeaseStep, BoundsAssumption, IDAssumption DEF MB!SharedInv
  <2>2. MB!Awaited(P!current) \/ Closed(P!current) => Closed(P!current)'
    BY <1>1, <1>2, <1>5, MB!ProcessCloses, BoundsAssumption, IDAssumption
  <2>3. leadsB /\ ~MB!LoseLease /\ ~MB!Lapse /\ Risk' = Risk
    BY <1>0, <2>1, Zenon
  <2>4. LapsesB = 0 /\ StrandsB = 0
    BY <2>3 DEF LapsesB, StrandsB, Count
  <2>5. Exposed' <= Exposed
    BY <1>0, <2>2, <2>3, ExposedIs, Zenon
  <2>6. CASE OutdatedA' /\ ~OutdatedA
    <3>1. pcA \in {"launch", "record"}
      BY <1>2, <2>6 DEF OutdatedA, processA
    <3>2. MA!Awaited(P!current)
      BY <1>1, <1>2, <2>6, <3>1, MA!FreshIsAwaited, BoundsAssumption, IDAssumption
    <3>3. ~Closed(P!current) /\ Closed(P!current)'
      BY <1>1, <2>2, <3>2 DEF MA!Awaited, MB!Awaited
    <3>4. leadsA /\ leadsB
      BY <2>3, <3>1 DEF SharedInv, LeadersWork
    <3>5. Risk > 0
      BY <3>4 DEF Risk, Count
    <3>6. Exposed' + 1 <= Exposed
      BY <1>0, <2>3, <3>3, <3>5, ExposedIs, Zenon
    <3>7. LostA' = 1 /\ LostA = 0
      BY <2>6 DEF LostA, Count
    <3> QED BY <1>3, <2>4, <3>6, <3>7, Sums, Zenon
  <2>7. CASE ~(OutdatedA' /\ ~OutdatedA)
    <3>1. LostA' = LostA \/ (LostA' = 0 /\ LostA = 1)
      BY <2>7 DEF LostA, Count
    <3> QED BY <1>3, <2>4, <2>5, <3>1, Sums, Zenon
  <2> QED BY <2>6, <2>7
<1> QED BY <1>3, <1>4, <1>5

-----------------------------------------------------------------------------
(* What A's step does to the IDs that are lost or bound to be.             *)
LEMMA OrphansA ==
  ASSUME SharedInv, SharedInv', ProcessA, IsFiniteSet(Orphans)
  PROVE  /\ IsFiniteSet(Orphans')
         /\ Cardinality(Orphans) \in Nat /\ Cardinality(Orphans') \in Nat
         /\ \/ Cardinality(Orphans') <= Cardinality(Orphans) /\ LostA' <= LostA
            \/ /\ LostA' = 0 /\ Cardinality(Orphans') <= Cardinality(Orphans) + 1
               /\ (MA!Fault /\ ~MA!Lapse) \/ LostA = 1 \/ StrandsA = 1
<1>1. MA!SharedInv /\ MA!Process /\ UNCHANGED processB
  BY SharedIs, ProcessA_Is DEF ProcessA
<1>2. /\ MA!Outdated <=> OutdatedA
      /\ MA!Outdated' <=> OutdatedA'
      /\ Orphans = {i \in MA!Orphans : ~(pcB = "record" /\ objB.id = i)}
      /\ Orphans' = {i \in MA!Orphans' : ~(pcB = "record" /\ objB.id = i)}
      /\ P!current = MA!current
  BY <1>1, PartsAre, PartsWillBe DEF processB
<1>3. CASE MA!Orphans' \subseteq MA!Orphans /\ (MA!Outdated' => MA!Outdated)
  <2>1. Orphans' \subseteq Orphans
    BY <1>2, <1>3
  <2>2. LostA' <= LostA
    BY <1>2, <1>3 DEF LostA, Count
  <2> QED BY <2>1, <2>2, GrowsByOne, FS_CardinalityType
<1>4. CASE /\ ~MA!Outdated' /\ \E i : MA!Orphans' \subseteq MA!Orphans \cup {i}
           /\ \/ MA!Fault /\ ~MA!Lapse
              \/ MA!Outdated
              \/ MA!LoseLease /\ MA!Awaited(MA!current)
  <2>1. \E i : Orphans' \subseteq Orphans \cup {i}
    <3>1. PICK i : MA!Orphans' \subseteq MA!Orphans \cup {i}
      BY <1>4
    <3> QED BY <1>2, <3>1
  <2>2. LostA' = 0
    BY <1>2, <1>4 DEF LostA, Count
  <2>3. (MA!Fault /\ ~MA!Lapse) \/ LostA = 1 \/ StrandsA = 1
    BY <1>2, <1>4 DEF LostA, StrandsA, Count
  <2> QED BY <2>1, <2>2, <2>3, GrowsByOne, FS_CardinalityType
<1> QED BY <1>1, <1>3, <1>4, MA!ProcessOrphans, BoundsAssumption, IDAssumption

(* What B's does.                                                          *)
LEMMA OrphansB ==
  ASSUME SharedInv, SharedInv', ProcessB, IsFiniteSet(Orphans)
  PROVE  /\ IsFiniteSet(Orphans')
         /\ Cardinality(Orphans) \in Nat /\ Cardinality(Orphans') \in Nat
         /\ \/ Cardinality(Orphans') <= Cardinality(Orphans) /\ LostB' <= LostB
            \/ /\ LostB' = 0 /\ Cardinality(Orphans') <= Cardinality(Orphans) + 1
               /\ (MB!Fault /\ ~MB!Lapse) \/ LostB = 1 \/ StrandsB = 1
<1>1. MB!SharedInv /\ MB!Process /\ UNCHANGED processA
  BY SharedIs, ProcessB_Is DEF ProcessB
<1>2. /\ MB!Outdated <=> OutdatedB
      /\ MB!Outdated' <=> OutdatedB'
      /\ Orphans = {i \in MB!Orphans : ~(pcA = "record" /\ objA.id = i)}
      /\ Orphans' = {i \in MB!Orphans' : ~(pcA = "record" /\ objA.id = i)}
      /\ P!current = MB!current
  BY <1>1, PartsAre, PartsWillBe DEF processA
<1>3. CASE MB!Orphans' \subseteq MB!Orphans /\ (MB!Outdated' => MB!Outdated)
  <2>1. Orphans' \subseteq Orphans
    BY <1>2, <1>3
  <2>2. LostB' <= LostB
    BY <1>2, <1>3 DEF LostB, Count
  <2> QED BY <2>1, <2>2, GrowsByOne, FS_CardinalityType
<1>4. CASE /\ ~MB!Outdated' /\ \E i : MB!Orphans' \subseteq MB!Orphans \cup {i}
           /\ \/ MB!Fault /\ ~MB!Lapse
              \/ MB!Outdated
              \/ MB!LoseLease /\ MB!Awaited(MB!current)
  <2>1. \E i : Orphans' \subseteq Orphans \cup {i}
    <3>1. PICK i : MB!Orphans' \subseteq MB!Orphans \cup {i}
      BY <1>4
    <3> QED BY <1>2, <3>1
  <2>2. LostB' = 0
    BY <1>2, <1>4 DEF LostB, Count
  <2>3. (MB!Fault /\ ~MB!Lapse) \/ LostB = 1 \/ StrandsB = 1
    BY <1>2, <1>4 DEF LostB, StrandsB, Count
  <2> QED BY <2>1, <2>2, <2>3, GrowsByOne, FS_CardinalityType
<1> QED BY <1>1, <1>3, <1>4, MB!ProcessOrphans, BoundsAssumption, IDAssumption

-----------------------------------------------------------------------------
(* What the changes and faults so far may have cost grows with each.       *)
LEMMA AllowanceStep ==
  ASSUME SharedInv, SharedInv', [Next]_vars
  PROVE  /\ Allowance \in Nat /\ Allowance' \in Nat
         /\ Allowance <= Allowance'
         /\ faults' = faults - 1 => Allowance + 1 <= Allowance'
         /\ interventions' = interventions - 1 /\ faults = MaxFaults =>
              Allowance + 1 <= Allowance'
         /\ interventions' = interventions - 1 /\ faults # MaxFaults =>
              Allowance + 2 <= Allowance'
<1>1. /\ faults \in Nat /\ faults <= MaxFaults /\ MaxFaults \in Nat
      /\ interventions \in Nat /\ interventions <= MaxInterventions
      /\ MaxInterventions \in Nat
  BY SharedIs, StreamTypes, BoundsAssumption DEF SharedInv, FirstLeads, MA!SharedInv
<1>2. /\ faults' = faults \/ (faults > 0 /\ faults' = faults - 1)
      /\ \/ interventions' = interventions
         \/ interventions > 0 /\ interventions' = interventions - 1
  BY BudgetsStep
<1>3. CASE faults = MaxFaults
  BY <1>1, <1>2, <1>3 DEF Allowance
<1>4. CASE faults # MaxFaults
  <2>1. faults' # MaxFaults
    BY <1>1, <1>2, <1>4
  <2> QED BY <1>1, <1>2, <1>4, <2>1 DEF Allowance
<1> QED BY <1>3, <1>4

(* A step that costs nothing needs nothing.                                *)
LEMMA Nothing == \A v, w \in Nat : v <= w => v + 0 <= w
OBVIOUS

(* The sum that is kept: c IDs are lost, p of this process's and q of the  *)
(* other's are bound to be, e can be, and w have been paid for.            *)
Pays(c, p, q, e, w, c2, p2, q2, e2, w2, lapses, strands) ==
    /\ c \in Nat /\ c2 \in Nat /\ w \in Nat /\ w2 \in Nat
    /\ e \in 0 .. 2 /\ e2 \in 0 .. 2
    /\ p \in {0, 1} /\ p2 \in {0, 1} /\ q \in {0, 1} /\ q2 \in {0, 1}
    /\ lapses \in {0, 1} /\ strands \in {0, 1}
    /\ c + p + q + e <= w
    /\ e2 + q2 + strands <= e + q + lapses
    /\ w + lapses <= w2
    /\ \/ c2 <= c /\ p2 <= p
       \/ /\ p2 = 0 /\ c2 <= c + 1
          /\ ((lapses = 0 /\ w + 1 <= w2) \/ p = 1 \/ strands = 1)
    => c2 + p2 + q2 + e2 <= w2

(* It is.                                                                  *)
LEMMA PaysOff ==
  \A c, p, q, e, w, c2, p2, q2, e2, w2, lapses, strands :
    Pays(c, p, q, e, w, c2, p2, q2, e2, w2, lapses, strands)
BY DEF Pays

(* The order of the terms does not matter.                                 *)
LEMMA Swapped ==
  ASSUME IsFiniteSet(Orphans), Exposed \in 0 .. 2
  PROVE  Cardinality(Orphans) + LostA + LostB + Exposed
           = Cardinality(Orphans) + LostB + LostA + Exposed
<1>1. \A c \in Nat : \A p, q, e \in 0 .. 2 : c + p + q + e = c + q + p + e
  OBVIOUS
<1>2. Cardinality(Orphans) \in Nat /\ LostA \in 0 .. 2 /\ LostB \in 0 .. 2
  BY FS_CardinalityType, Counts DEF LostA, LostB
<1> QED BY <1>1, <1>2


(* A's step is paid for ...                                                *)
LEMMA PaidA ==
  ASSUME SharedInv, SharedInv', [Next]_vars, ProcessA, PaidFor
  PROVE  PaidFor'
<1>1. /\ Allowance \in Nat /\ Allowance' \in Nat
      /\ Allowance <= Allowance'
      /\ MA!Fault => Allowance + 1 <= Allowance'
  BY AllowanceStep DEF MA!Fault
<1>2. IsFiniteSet(Orphans) /\ Cardinality(Orphans) + LostA + LostB + Exposed <= Allowance
  BY Swapped, ExposedA DEF PaidFor, LostA, LostB
<1>3. /\ IsFiniteSet(Orphans')
      /\ Cardinality(Orphans) \in Nat /\ Cardinality(Orphans') \in Nat
      /\ \/ Cardinality(Orphans') <= Cardinality(Orphans) /\ LostA' <= LostA
         \/ /\ LostA' = 0 /\ Cardinality(Orphans') <= Cardinality(Orphans) + 1
            /\ (MA!Fault /\ ~MA!Lapse) \/ LostA = 1 \/ StrandsA = 1
  BY <1>2, OrphansA
<1>4. /\ Exposed \in 0 .. 2 /\ Exposed' \in 0 .. 2
      /\ LostB \in {0, 1} /\ LostB' \in {0, 1}
      /\ LapsesA \in {0, 1} /\ StrandsA \in {0, 1}
      /\ Exposed' + LostB' + StrandsA <= Exposed + LostB + LapsesA
  BY ExposedA
<1>5. LostA \in {0, 1} /\ LostA' \in {0, 1}
  BY Counts DEF LostA
<1>6. Allowance + LapsesA <= Allowance'
  <2>1. CASE MA!Lapse
    <3>1. LapsesA = 1 /\ MA!Fault
      BY <2>1 DEF LapsesA, Count, MA!Lapse
    <3> QED BY <1>1, <3>1
  <2>2. CASE ~MA!Lapse
    <3>1. LapsesA = 0
      BY <2>2 DEF LapsesA, Count
    <3> QED BY <1>1, <3>1, Nothing, Zenon
  <2> QED BY <2>1, <2>2
<1>7. ~MA!Lapse => LapsesA = 0
  BY DEF LapsesA, Count
<1>8. \/ Cardinality(Orphans') <= Cardinality(Orphans) /\ LostA' <= LostA
      \/ /\ LostA' = 0 /\ Cardinality(Orphans') <= Cardinality(Orphans) + 1
         /\ \/ LapsesA = 0 /\ Allowance + 1 <= Allowance'
            \/ LostA = 1 \/ StrandsA = 1
  BY <1>1, <1>3, <1>7, Zenon
<1>9. Pays(Cardinality(Orphans), LostA, LostB, Exposed, Allowance,
           Cardinality(Orphans'), LostA', LostB', Exposed', Allowance',
           LapsesA, StrandsA)
  BY PaysOff, Zenon
<1>10. Cardinality(Orphans') + LostA' + LostB' + Exposed' <= Allowance'
  BY <1>1, <1>2, <1>3, <1>4, <1>5, <1>6, <1>8, <1>9, Zenon DEF Pays
<1>11. (IsFiniteSet(Orphans) /\ Exposed \in 0 .. 2 =>
          Cardinality(Orphans) + LostA + LostB + Exposed
            = Cardinality(Orphans) + LostB + LostA + Exposed)'
  BY Swapped, PTL
<1>12. Cardinality(Orphans') + LostA' + LostB' + Exposed' <= Allowance'
  BY <1>3, <1>4, <1>10, <1>11, Zenon
<1> QED BY <1>3, <1>12, Zenon DEF PaidFor, LostA, LostB

(* ... and B's ...                                                         *)
LEMMA PaidB ==
  ASSUME SharedInv, SharedInv', [Next]_vars, ProcessB, PaidFor
  PROVE  PaidFor'
<1>1. /\ Allowance \in Nat /\ Allowance' \in Nat
      /\ Allowance <= Allowance'
      /\ MB!Fault => Allowance + 1 <= Allowance'
  BY AllowanceStep DEF MB!Fault
<1>2. IsFiniteSet(Orphans) /\ Cardinality(Orphans) + LostB + LostA + Exposed <= Allowance
  BY Swapped, ExposedB DEF PaidFor, LostA, LostB
<1>3. /\ IsFiniteSet(Orphans')
      /\ Cardinality(Orphans) \in Nat /\ Cardinality(Orphans') \in Nat
      /\ \/ Cardinality(Orphans') <= Cardinality(Orphans) /\ LostB' <= LostB
         \/ /\ LostB' = 0 /\ Cardinality(Orphans') <= Cardinality(Orphans) + 1
            /\ (MB!Fault /\ ~MB!Lapse) \/ LostB = 1 \/ StrandsB = 1
  BY <1>2, OrphansB
<1>4. /\ Exposed \in 0 .. 2 /\ Exposed' \in 0 .. 2
      /\ LostA \in {0, 1} /\ LostA' \in {0, 1}
      /\ LapsesB \in {0, 1} /\ StrandsB \in {0, 1}
      /\ Exposed' + LostA' + StrandsB <= Exposed + LostA + LapsesB
  BY ExposedB
<1>5. LostB \in {0, 1} /\ LostB' \in {0, 1}
  BY Counts DEF LostB
<1>6. Allowance + LapsesB <= Allowance'
  <2>1. CASE MB!Lapse
    <3>1. LapsesB = 1 /\ MB!Fault
      BY <2>1 DEF LapsesB, Count, MB!Lapse
    <3> QED BY <1>1, <3>1
  <2>2. CASE ~MB!Lapse
    <3>1. LapsesB = 0
      BY <2>2 DEF LapsesB, Count
    <3> QED BY <1>1, <3>1, Nothing, Zenon
  <2> QED BY <2>1, <2>2
<1>7. ~MB!Lapse => LapsesB = 0
  BY DEF LapsesB, Count
<1>8. \/ Cardinality(Orphans') <= Cardinality(Orphans) /\ LostB' <= LostB
      \/ /\ LostB' = 0 /\ Cardinality(Orphans') <= Cardinality(Orphans) + 1
         /\ \/ LapsesB = 0 /\ Allowance + 1 <= Allowance'
            \/ LostB = 1 \/ StrandsB = 1
  BY <1>1, <1>3, <1>7, Zenon
<1>9. Pays(Cardinality(Orphans), LostB, LostA, Exposed, Allowance,
           Cardinality(Orphans'), LostB', LostA', Exposed', Allowance',
           LapsesB, StrandsB)
  BY PaysOff, Zenon
<1>10. Cardinality(Orphans') + LostB' + LostA' + Exposed' <= Allowance'
  BY <1>1, <1>2, <1>3, <1>4, <1>5, <1>6, <1>8, <1>9, Zenon DEF Pays
<1>11. (IsFiniteSet(Orphans) /\ Exposed \in 0 .. 2 =>
          Cardinality(Orphans) + LostA + LostB + Exposed
            = Cardinality(Orphans) + LostB + LostA + Exposed)'
  BY Swapped, PTL
<1>12. Cardinality(Orphans') + LostA' + LostB' + Exposed' <= Allowance'
  BY <1>3, <1>4, <1>10, <1>11, Zenon
<1> QED BY <1>3, <1>12, Zenon DEF PaidFor, LostA, LostB

(* What users and OCI do orphans nothing at once ...                       *)
LEMMA OrphansWorld ==
  ASSUME SharedInv, SharedInv', World \/ UNCHANGED vars
  PROVE  Orphans' \subseteq Orphans
<1>1. /\ MA!SharedInv /\ [MA!Next]_(MA!vars)
      /\ \/ MA!Cloud \/ UNCHANGED MA!vars
         \/ MA!Runtime /\ UNCHANGED <<attemptA, clientA, oci>>
  BY SharedIs, WorldIs DEF vars, processA, MA!vars
<1>2. MA!Orphans' \subseteq MA!Orphans
  BY <1>1, MA!WorldOrphans, BoundsAssumption, IDAssumption
<1>3. UNCHANGED processB
  BY DEF World, vars
<1> QED BY <1>2, <1>3, PartsAre, PartsWillBe DEF processB

(* ... and outdates, for each of the two, a copy that was up to date only  *)
(* by changing a resource an instance was called for.                      *)
LEMMA LostWorld ==
  ASSUME SharedInv, SharedInv', World \/ UNCHANGED vars
  PROVE  /\ LostA \in {0, 1} /\ LostA' \in {0, 1}
         /\ LostB \in {0, 1} /\ LostB' \in {0, 1}
         /\ P!current' = P!current => LostA' = LostA /\ LostB' = LostB
         /\ ~P!current.live \/ Closed(P!current) => LostA' <= LostA /\ LostB' <= LostB
         /\ faults = MaxFaults => LostB' <= LostB
<1>1. LostA \in {0, 1} /\ LostA' \in {0, 1} /\ LostB \in {0, 1} /\ LostB' \in {0, 1}
  BY Counts DEF LostA, LostB
<1>2. UNCHANGED <<pcA, objA, pcB, objB>>
  BY DEF World, vars, processA, processB
<1>3. P!current' = P!current => (OutdatedA' <=> OutdatedA) /\ (OutdatedB' <=> OutdatedB)
  BY <1>2 DEF OutdatedA, OutdatedB
<1>4. /\ pcA \in {"launch", "record"} /\ ~OutdatedA => MA!Awaited(P!current)
      /\ pcB \in {"launch", "record"} /\ ~OutdatedB => MB!Awaited(P!current)
  BY SharedIs, PartsAre, MA!FreshIsAwaited, MB!FreshIsAwaited, BoundsAssumption, IDAssumption
<1>5. ~P!current.live \/ Closed(P!current) =>
        (OutdatedA' => OutdatedA) /\ (OutdatedB' => OutdatedB)
  BY <1>2, <1>4, PartsAre DEF OutdatedA, OutdatedB, MA!Awaited, MB!Awaited
<1>6. faults = MaxFaults => ~OutdatedB'
  BY <1>2 DEF SharedInv, FirstLeads, LeadersWork, OutdatedB
<1>7. (OutdatedA' => OutdatedA) => LostA' <= LostA
  BY DEF LostA, Count
<1>8. (OutdatedB' => OutdatedB) => LostB' <= LostB
  BY DEF LostB, Count
<1>9. /\ (OutdatedA' <=> OutdatedA) => LostA' = LostA
      /\ (OutdatedB' <=> OutdatedB) => LostB' = LostB
  BY DEF LostA, LostB, Count
<1> QED BY <1>1, <1>3, <1>5, <1>6, <1>7, <1>8, <1>9, Zenon

(* What can be lost it leaves as it was, or changes with the resource.     *)
LEMMA ExposedWorld ==
  ASSUME SharedInv, World \/ UNCHANGED vars
  PROVE  /\ Exposed \in 0 .. 2 /\ Exposed' \in 0 .. 2
         /\ P!current' = P!current \/ ~Closed(P!current) => Exposed' <= Exposed
         /\ Exposed' <= Exposed + 1
<1>1. UNCHANGED <<holder, leadsA, leadsB>>
  BY DEF World, vars, processA, processB
<1>2. Risk \in 0 .. 2 /\ Risk' \in 0 .. 2 /\ Risk' = Risk
  BY <1>1 DEF Risk, Held, Count
<1>3. P!current' = P!current => (Closed(P!current)' <=> Closed(P!current))
  BY DEF Closed, P!GivenUp
<1> QED BY <1>2, <1>3, ExposedIs, Zenon

(* A resource changes by a user's act, and but for its creation that is    *)
(* one that counts.                                                        *)
LEMMA ChangesCount ==
  ASSUME SharedInv, World, P!current' # P!current
  PROVE  faults' = faults /\ (~P!current.live \/ interventions' = interventions - 1)
<1>1. P!current = A!Stored(versionsA) /\ P!current' = A!Stored(versionsA')
  BY DEF P!current, P!Stored, A!Stored
<1>2. versionsA' # versionsA
  BY <1>1
<1>3. (A!Create \/ A!EditSpec \/ A!Delete) /\ UNCHANGED faults
  BY <1>2 DEF World, A!Progress, A!Purge
<1> QED BY <1>1, <1>3 DEF A!Create, A!EditSpec, A!Delete, A!Intervention

(* The same sum, for a step of neither process.                            *)
PaysTwo(c, p, q, e, w, c2, p2, q2, e2, w2) ==
    /\ c \in Nat /\ c2 \in Nat /\ w \in Nat /\ w2 \in Nat
    /\ e \in 0 .. 2 /\ e2 \in 0 .. 2
    /\ p \in {0, 1} /\ p2 \in {0, 1} /\ q \in {0, 1} /\ q2 \in {0, 1}
    /\ c2 <= c /\ c + p + q + e <= w
    /\ \/ p2 <= p /\ q2 <= q /\ e2 <= e /\ w <= w2
       \/ p2 <= p /\ q2 <= q /\ e2 <= e + 1 /\ w + 1 <= w2
       \/ q2 <= q /\ e2 <= e /\ w + 1 <= w2
       \/ e2 <= e /\ w + 2 <= w2
    => c2 + p2 + q2 + e2 <= w2

(* It is kept.                                                             *)
LEMMA PaysTwoOff ==
  \A c, p, q, e, w, c2, p2, q2, e2, w2 : PaysTwo(c, p, q, e, w, c2, p2, q2, e2, w2)
BY DEF PaysTwo

(* ... and theirs.                                                         *)
LEMMA PaidWorld ==
  ASSUME SharedInv, SharedInv', [Next]_vars, World \/ UNCHANGED vars, PaidFor
  PROVE  PaidFor'
<1>1. /\ Allowance \in Nat /\ Allowance' \in Nat
      /\ Allowance <= Allowance'
      /\ interventions' = interventions - 1 => Allowance + 1 <= Allowance'
      /\ interventions' = interventions - 1 /\ faults # MaxFaults =>
           Allowance + 2 <= Allowance'
  <2>1. Allowance + 2 <= Allowance' => Allowance + 1 <= Allowance'
    <3>1. \A v, w \in Nat : v + 2 <= w => v + 1 <= w
      OBVIOUS
    <3> QED BY <3>1, AllowanceStep, Zenon
  <2> QED BY <2>1, AllowanceStep, Zenon
<1>2. IsFiniteSet(Orphans) /\ Cardinality(Orphans) + LostA + LostB + Exposed <= Allowance
  BY DEF PaidFor, LostA, LostB
<1>3. /\ IsFiniteSet(Orphans')
      /\ Cardinality(Orphans) \in Nat /\ Cardinality(Orphans') \in Nat
      /\ Cardinality(Orphans') <= Cardinality(Orphans)
  BY <1>2, OrphansWorld, GrowsByOne, FS_CardinalityType
<1>4. /\ Exposed \in 0 .. 2 /\ Exposed' \in 0 .. 2
      /\ P!current' = P!current \/ ~Closed(P!current) => Exposed' <= Exposed
      /\ Exposed' <= Exposed + 1
  BY ExposedWorld
<1>5. /\ LostA \in {0, 1} /\ LostA' \in {0, 1}
      /\ LostB \in {0, 1} /\ LostB' \in {0, 1}
      /\ P!current' = P!current => LostA' = LostA /\ LostB' = LostB
      /\ ~P!current.live \/ Closed(P!current) => LostA' <= LostA /\ LostB' <= LostB
      /\ faults = MaxFaults => LostB' <= LostB
  BY LostWorld
<1>6. P!current' # P!current =>
        ~P!current.live \/ interventions' = interventions - 1
  BY ChangesCount DEF vars, P!current, P!Stored
<1>7. ~P!current.live => ~Closed(P!current)
  BY DEF Closed
<1>8. \/ LostA' <= LostA /\ LostB' <= LostB /\ Exposed' <= Exposed /\ Allowance <= Allowance'
      \/ /\ LostA' <= LostA /\ LostB' <= LostB /\ Exposed' <= Exposed + 1
         /\ Allowance + 1 <= Allowance'
      \/ LostB' <= LostB /\ Exposed' <= Exposed /\ Allowance + 1 <= Allowance'
      \/ Exposed' <= Exposed /\ Allowance + 2 <= Allowance'
  <2>1. CASE P!current' = P!current
    <3>1. \A v, w \in {0, 1} : w = v => w <= v
      OBVIOUS
    <3> QED BY <1>1, <1>4, <1>5, <2>1, <3>1, Zenon
  <2>2. CASE ~P!current.live
    BY <1>1, <1>4, <1>5, <1>7, <2>2, Zenon
  <2>3. CASE interventions' = interventions - 1 /\ Closed(P!current)
    BY <1>1, <1>4, <1>5, <2>3, Zenon
  <2>4. CASE interventions' = interventions - 1 /\ ~Closed(P!current)
    BY <1>1, <1>4, <1>5, <2>4, Zenon
  <2> QED BY <1>6, <2>1, <2>2, <2>3, <2>4
<1>9. PaysTwo(Cardinality(Orphans), LostA, LostB, Exposed, Allowance,
              Cardinality(Orphans'), LostA', LostB', Exposed', Allowance')
  BY PaysTwoOff, Zenon
<1>10. Cardinality(Orphans') + LostA' + LostB' + Exposed' <= Allowance'
  BY <1>1, <1>2, <1>3, <1>4, <1>5, <1>8, <1>9, Zenon DEF PaysTwo
<1> QED BY <1>3, <1>10, Zenon DEF PaidFor, LostA, LostB

-----------------------------------------------------------------------------
(* At first nothing is lost, and nothing can be.                           *)
LEMMA PaidInit == Init => PaidFor
<1> SUFFICES ASSUME Init PROVE PaidFor
  OBVIOUS
<1>1. /\ oci = [i \in InstanceIDs |-> [state |-> "NONE", uid |-> 0, gen |-> 0]]
      /\ pcA = "idle" /\ pcB = "idle"
      /\ interventions = MaxInterventions /\ faults = MaxFaults
  BY DEF Init, A!Init, A!RuntimeInit, B!Init, B!RuntimeInit
<1>2. Orphans = {}
  BY <1>1 DEF Orphans, P!Orphans
<1>3. Count(OutdatedA) = 0 /\ Count(OutdatedB) = 0
  BY <1>1 DEF OutdatedA, OutdatedB, Count
<1>4. Risk = 0
  BY DEF Init, Risk, Held, Count
<1>5. Exposed = 0
  BY <1>4 DEF Exposed
<1>6. Allowance = 0
  BY <1>1, BoundsAssumption DEF Allowance
<1> QED BY <1>2, <1>3, <1>5, <1>6, FS_EmptySet DEF PaidFor

(* The inductive invariant of the two processes: what each holds is an old *)
(* truth about the store, and every ID that is lost, is bound to be or can *)
(* be has been paid for, by a change, a lapse or a crash.                  *)
THEOREM ManagersInvCorrect == Spec => []IInv
<1>1. Init => IInv
  BY SharedInit, PaidInit DEF IInv
<1>2. IInv /\ [Next]_vars => IInv'
  <2> SUFFICES ASSUME IInv, [Next]_vars PROVE IInv'
    OBVIOUS
  <2>1. SharedInv /\ SharedInv' /\ PaidFor
    BY SharedStep DEF IInv
  <2>2. ProcessA \/ ProcessB \/ World \/ UNCHANGED vars
    BY DEF Next
  <2> QED BY <2>1, <2>2, PaidA, PaidB, PaidWorld DEF IInv
<1> QED BY <1>1, <1>2, PTL DEF Spec

(* A change costs at most one instance for each process that works on the  *)
(* resource, a lapse of the lease or a crash one.                          *)
THEOREM ManagersOrphansArePaidForCorrect == Spec => []OrphansArePaidFor
<1>1. IInv => OrphansArePaidFor
  <2> SUFFICES ASSUME IInv PROVE OrphansArePaidFor
    OBVIOUS
  <2>1. Cardinality(Orphans) \in Nat
    BY FS_CardinalityType DEF IInv, PaidFor
  <2>2. Risk \in 0 .. 2
    BY DEF Risk, Count
  <2>3. Exposed \in 0 .. 2
    BY <2>2 DEF Exposed
  <2>4. Count(OutdatedA) \in {0, 1} /\ Count(OutdatedB) \in {0, 1}
    BY Counts
  <2>5. Allowance \in Nat
    <3>1. /\ faults \in Nat /\ faults <= MaxFaults /\ MaxFaults \in Nat
          /\ interventions \in Nat /\ interventions <= MaxInterventions
          /\ MaxInterventions \in Nat
      BY SharedIs, StreamTypes, BoundsAssumption DEF IInv, SharedInv, FirstLeads, MA!SharedInv
    <3> QED BY <3>1 DEF Allowance
  <2>6. Cardinality(Orphans) + Count(OutdatedA) + Count(OutdatedB) + Exposed <= Allowance
    BY DEF IInv, PaidFor
  <2> QED BY <2>1, <2>3, <2>4, <2>5, <2>6 DEF OrphansArePaidFor
<1> QED BY <1>1, ManagersInvCorrect, PTL
=============================================================================
