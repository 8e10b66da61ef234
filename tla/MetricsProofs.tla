--------------------------- MODULE MetricsProofs ---------------------------
(***************************************************************************)
(* Proofs about the counters of metrics.go, for any set of OCIDs and any   *)
(* bounds, on the invariant of the reconciler that drives them.            *)
(***************************************************************************)
EXTENDS MetricsProperties, OCIInstanceProofs

-----------------------------------------------------------------------------
(* Counting.                                                               *)
LEMMA Incremented ==
  ASSUME NEW S, NEW counter \in [S -> Nat], NEW labels
  PROVE  /\ Increment(counter, labels) \in [S -> Nat]
         /\ \A l \in S : Increment(counter, labels)[l] =
                           counter[l] + IF l \in labels THEN 1 ELSE 0
BY DEF Increment

(* The counters that FailuresShow compares are numbers.                    *)
LEMMA CountsAreNumbers ==
  ASSUME MeteredTypeOK
  PROVE  apiErrors \in Nat /\ reconcileTotal["error"] \in Nat /\ entered["Failed"] \in Nat
<1>1. reconcileTotal["error"] \in 0 .. MaxReconciles
  BY DEF MeteredTypeOK
<1>2. "Failed" \in Phases
  BY DEF Phases
<1> QED BY <1>1, <1>2, ReconcilesAssumption DEF MeteredTypeOK

-----------------------------------------------------------------------------
(* The worker.                                                             *)

(* From which call the worker comes to which.                              *)
LEMMA WorkerMoves ==
  ASSUME Worker
  PROVE  /\ pc' = "syncStatus" => pc = "getInstance"
         /\ pc' = "refetch" => pc \in {"launch", "idle"}
         /\ pc' = "setFailed" => pc = "refetch"
         /\ pc = "getInstance" => pc' \in {"syncStatus", "idle"}
         /\ pc = "launch" => pc' \in {"record", "refetch"}
         /\ pc = "terminate" => pc' \in {"removeFinalizer", "idle"}
         /\ pc = "refetch" => pc' \in {"setFailed", "idle"}
         /\ pc \in {"syncStatus", "setFailed"} => pc' = "idle"
         /\ pc = "markProvisioning" => pc' \in {"launch", "idle"}
<1>1. CASE ReconcileNothing \/ HandleDeletion \/ EnsureFinalizer \/ ReconcileInstance
  BY <1>1 DEF ReconcileNothing, HandleDeletion, EnsureFinalizer, ReconcileInstance,
              Dequeue, Proceed
<1>2. CASE AddFinalizer \/ RemoveFinalizer \/ RecordInstance \/ SyncStatus \/ SetFailed
  BY <1>2 DEF AddFinalizer, RemoveFinalizer, RecordInstance, SyncStatus, SetFailed, Write,
              WriteFails, Return
<1>3. CASE MarkProvisioning
  BY <1>3 DEF MarkProvisioning, Write, WriteFails, Return, Proceed
<1>4. CASE Terminate \/ GetInstance
  BY <1>4 DEF Terminate, GetInstance, Return, Proceed
<1>5. CASE Launch
  BY <1>5 DEF Launch, GiveUp, Proceed
<1>6. CASE Refetch
  BY <1>6 DEF Refetch, Return, Proceed
<1> QED BY <1>1, <1>2, <1>3, <1>4, <1>5, <1>6 DEF Worker

(* A committed update gives the resource the phase of the handler's copy.  *)
LEMMA WrittenPhase ==
  ASSUME TypeOK, NEW o \in Objects, Writes(o) \/ WriteFails(o)
  PROVE  /\ Phase' # Phase => obj.rv = current.rv /\ Phase' = o.phase
         /\ Writes(o) => Phase' = o.phase
<1>1. Phase = current.phase /\ Phase' = current'.phase
  BY DEF Phase, current
<1>2. CASE versions' = versions
  <2>1. current' = current
    BY <1>2 DEF current
  <2>2. Writes(o) => o = current
    BY <1>2, WriteStore
  <2> QED BY <1>1, <2>1, <2>2
<1>3. CASE versions' # versions
  <2>1. /\ obj.rv = current.rv
        /\ current' = [o EXCEPT !.rv = current.rv + 1, !.live = ~Gone(o)]
    BY <1>3, WriteStore
  <2> QED BY <1>1, <2>1 DEF Objects, Object
<1> QED BY <1>2, <1>3

(* The updates by which the stored resource enters a phase.                *)
LEMMA PhaseEntered ==
  ASSUME IInv, Worker
  PROVE  /\ Phase' # Phase => \/ pc = "markProvisioning" /\ Phase' = "Provisioning"
                              \/ pc = "syncStatus" /\ Phase' = obj.phase
                              \/ pc = "setFailed" /\ Phase' = "Failed"
         /\ pc = "setFailed" => UpdateFails \/ Phase' = "Failed"
<1>0. TypeOK /\ obj \in Objects /\ current \in Objects /\ Phase = current.phase
  BY StoreTyped DEF IInv, SharedInv, Phase, current
<1>1. CASE AddFinalizer \/ RemoveFinalizer
  <2>1. /\ pc # "setFailed"
        /\ obj.rv = current.rv => obj = current
    BY <1>1 DEF IInv, SharedInv, HandReads, HandDeletes, Known, AddFinalizer, RemoveFinalizer, Write
  <2>2. PICK o \in {[obj EXCEPT !.fin = TRUE], [obj EXCEPT !.fin = FALSE]} :
          Writes(o) \/ WriteFails(o)
    BY <1>1 DEF AddFinalizer, RemoveFinalizer, Write
  <2>3. o \in Objects /\ o.phase = obj.phase
    <3>1. CASE o = [obj EXCEPT !.fin = TRUE]
      BY <1>0, <3>1 DEF Objects, Object
    <3>2. CASE o = [obj EXCEPT !.fin = FALSE]
      BY <1>0, <3>2 DEF Objects, Object
    <3> QED BY <2>2, <3>1, <3>2
  <2> QED BY <1>0, <2>1, <2>2, <2>3, WrittenPhase
<1>2. CASE MarkProvisioning
  <2> DEFINE o == [obj EXCEPT !.phase = "Provisioning"]
  <2>1. o \in Objects /\ o.phase = "Provisioning"
    BY <1>0 DEF Objects, Object, Phases
  <2>2. pc = "markProvisioning" /\ (Writes(o) \/ WriteFails(o))
    BY <1>2 DEF MarkProvisioning, Write
  <2> HIDE DEF o
  <2> QED BY <1>0, <2>1, <2>2, WrittenPhase
<1>3. CASE RecordInstance
  <2>1. pc = "record" /\ (Writes(obj) \/ WriteFails(obj))
    BY <1>3 DEF RecordInstance, Write
  <2>2. obj.rv = current.rv => obj.phase = current.phase
    <3>1. /\ current.phase = "Provisioning"
          /\ obj.rv = current.rv => obj = Recorded(current, obj.id)
      BY <2>1 DEF IInv, SharedInv, HandLaunches, LaunchesAlone
    <3>2. Recorded(current, obj.id).phase = "Provisioning"
      BY <1>0 DEF Recorded, SetObservedGeneration, Objects, Object
    <3> QED BY <3>1, <3>2
  <2> QED BY <1>0, <2>1, <2>2, WrittenPhase
<1>4. CASE SyncStatus
  BY <1>0, <1>4, WrittenPhase DEF SyncStatus, Write
<1>5. CASE SetFailed
  <2>1. MarkedFailed(obj) \in Objects /\ MarkedFailed(obj).phase = "Failed"
    BY <1>0, CopyType DEF MarkedFailed, SetFailedStatus, SetObservedGeneration, Objects, Object
  <2>2. pc = "setFailed" /\ (Writes(MarkedFailed(obj)) \/ WriteFails(MarkedFailed(obj)))
    BY <1>5 DEF SetFailed
  <2>3. WriteFails(MarkedFailed(obj)) => UpdateFails
    BY <1>0 DEF WriteFails, Fault, UpdateFails, TypeOK
  <2> QED BY <1>0, <2>1, <2>2, <2>3, WrittenPhase
<1>6. CASE \/ ReconcileNothing \/ HandleDeletion \/ EnsureFinalizer \/ ReconcileInstance
           \/ Terminate \/ Launch \/ GetInstance \/ Refetch
  <2>1. UNCHANGED versions /\ pc # "setFailed"
    BY <1>6 DEF ReconcileNothing, HandleDeletion, EnsureFinalizer, ReconcileInstance, Dequeue,
                Terminate, Launch, GetInstance, Refetch
  <2> QED BY <2>1 DEF Phase
<1> QED BY <1>1, <1>2, <1>3, <1>4, <1>5, <1>6 DEF Worker

-----------------------------------------------------------------------------
(* One step of the worker, counter by counter.                             *)
LEMMA CountersStep ==
  ASSUME MeteredIInv, MeteredWorker
  PROVE  /\ MeteredTypeOK' /\ ReconcilesAreBounded'
         /\ \A p \in Phases :
              /\ phaseTransitions'[p] = phaseTransitions[p] + IF p \in Counted THEN 1 ELSE 0
              /\ entered'[p] = entered[p] + IF Phase' # Phase /\ p = Phase' THEN 1 ELSE 0
         /\ reconcileTotal'["error"] = reconcileTotal["error"]
              + IF pc' = "idle" /\ ReturnsError THEN 1 ELSE 0
         /\ \/ apiErrors' = apiErrors
            \/ /\ apiErrors' = apiErrors + 1
               /\ pc \in {"terminate", "launch", "getInstance"} /\ pc' \in {"idle", "refetch"}
         /\ unbuilt' = unbuilt + IF pc = "idle" /\ pc' = "refetch" THEN 1 ELSE 0
<1> DEFINE Results == {"success", "error"}
<1>0. MeteredTypeOK /\ ReconcilesAreBounded /\ MaxReconciles \in Nat /\ TypeOK
  BY ReconcilesAssumption DEF MeteredIInv, MeteredTypeOK
<1>1. TypeOK'
  BY <1>0, TypeStep DEF MeteredWorker, Next
<1>2. /\ phaseTransitions' \in [Phases -> Nat] /\ entered' \in [Phases -> Nat]
      /\ \A p \in Phases :
           /\ phaseTransitions'[p] = phaseTransitions[p] + IF p \in Counted THEN 1 ELSE 0
           /\ entered'[p] = entered[p] + IF Phase' # Phase /\ p = Phase' THEN 1 ELSE 0
  <2>1. phaseTransitions \in [Phases -> Nat] /\ entered \in [Phases -> Nat]
    BY <1>0 DEF MeteredTypeOK
  <2>2. /\ phaseTransitions' = Increment(phaseTransitions, Counted)
        /\ entered' = Increment(entered, IF Phase' = Phase THEN {} ELSE {Phase'})
    BY DEF MeteredWorker
  <2> QED BY <2>1, <2>2, Incremented
<1>3. /\ apiErrors' \in Nat
      /\ \/ apiErrors' = apiErrors
         \/ /\ apiErrors' = apiErrors + 1
            /\ pc \in {"terminate", "launch", "getInstance"} /\ pc' \in {"idle", "refetch"}
  BY <1>0 DEF MeteredTypeOK, MeteredWorker, CountsCall
<1>4. /\ unbuilt' \in Nat
      /\ unbuilt' = unbuilt + IF pc = "idle" /\ pc' = "refetch" THEN 1 ELSE 0
  BY <1>0 DEF MeteredTypeOK, MeteredWorker
<1>5. /\ reconcileTotal \in [Results -> Nat]
      /\ pc = "idle" => reconcileTotal["success"] + reconcileTotal["error"] < MaxReconciles
      /\ reconcileTotal["success"] + reconcileTotal["error"]
           + (IF pc = "idle" THEN 0 ELSE 1) <= MaxReconciles
  BY <1>0 DEF MeteredTypeOK, MeteredWorker, ReconcilesAreBounded
<1>6. /\ reconcileTotal' \in [Results -> 0 .. MaxReconciles]
      /\ reconcileTotal'["error"] = reconcileTotal["error"]
           + IF pc' = "idle" /\ ReturnsError THEN 1 ELSE 0
      /\ reconcileTotal'["success"] + reconcileTotal'["error"]
           + (IF pc' = "idle" THEN 0 ELSE 1) <= MaxReconciles
  <2>1. CASE pc' # "idle"
    BY <1>0, <1>5, <2>1 DEF MeteredWorker, CountsReconcile, MeteredTypeOK
  <2>2. CASE pc' = "idle"
    <3>1. reconcileTotal' = Increment(reconcileTotal, {IF ReturnsError THEN "error" ELSE "success"})
      BY <2>2 DEF MeteredWorker, CountsReconcile
    <3>2. /\ reconcileTotal' \in [Results -> Nat]
          /\ reconcileTotal'["error"] = reconcileTotal["error"] + IF ReturnsError THEN 1 ELSE 0
          /\ reconcileTotal'["success"] = reconcileTotal["success"]
               + IF ReturnsError THEN 0 ELSE 1
      BY <1>5, <3>1, Incremented
    <3>3. /\ reconcileTotal'["success"] + reconcileTotal'["error"] =
               reconcileTotal["success"] + reconcileTotal["error"] + 1
          /\ reconcileTotal["success"] \in Nat /\ reconcileTotal["error"] \in Nat
          /\ reconcileTotal'["success"] \in Nat /\ reconcileTotal'["error"] \in Nat
      BY <1>5, <3>2
    <3>4. reconcileTotal'["success"] + reconcileTotal'["error"] <= MaxReconciles
      BY <1>0, <1>5, <3>3
    <3>5. \A l \in Results : reconcileTotal'[l] \in 0 .. MaxReconciles
      BY <1>0, <3>3, <3>4
    <3> QED BY <2>2, <3>2, <3>3, <3>4, <3>5
  <2> QED BY <2>1, <2>2
<1> QED BY <1>1, <1>2, <1>3, <1>4, <1>6 DEF MeteredTypeOK, ReconcilesAreBounded

(* A phase is counted before, or together with, the update that enters it. *)
LEMMA EntriesStep ==
  ASSUME MeteredIInv, MeteredWorker
  PROVE  CountedAhead'
<1>0. IInv /\ Worker
  BY DEF MeteredIInv, MeteredWorker
<1> SUFFICES ASSUME NEW p \in Phases
             PROVE  entered'[p] + (IF AboutToEnter(p)' THEN 1 ELSE 0) <=
                      phaseTransitions'[p] + (IF p = "Failed" THEN unbuilt' ELSE 0)
  BY DEF CountedAhead
<1>1. /\ entered[p] \in Nat /\ phaseTransitions[p] \in Nat /\ unbuilt \in Nat
      /\ entered[p] + (IF AboutToEnter(p) THEN 1 ELSE 0) <=
           phaseTransitions[p] + (IF p = "Failed" THEN unbuilt ELSE 0)
  BY DEF MeteredIInv, MeteredTypeOK, CountedAhead
<1>2. /\ phaseTransitions'[p] = phaseTransitions[p] + IF p \in Counted THEN 1 ELSE 0
      /\ entered'[p] = entered[p] + IF Phase' # Phase /\ p = Phase' THEN 1 ELSE 0
      /\ unbuilt' = unbuilt + IF pc = "idle" /\ pc' = "refetch" THEN 1 ELSE 0
  BY CountersStep
<1>3. CASE Phase' # Phase /\ p = Phase'
  <2>1. ~AboutToEnter(p)'
    BY <1>0, <1>3, PhaseEntered, WorkerMoves DEF AboutToEnter
  <2>2. AboutToEnter(p) \/ p \in Counted
    BY <1>0, <1>3, PhaseEntered DEF AboutToEnter, Counted
  <2> QED BY <1>1, <1>2, <2>1, <2>2
<1>4. CASE ~(Phase' # Phase /\ p = Phase') /\ AboutToEnter(p)'
  <2>1. \/ AboutToEnter(p) \/ p \in Counted
        \/ p = "Failed" /\ pc = "idle" /\ pc' = "refetch"
    BY <1>0, <1>4, WorkerMoves DEF AboutToEnter, Counted
  <2> QED BY <1>1, <1>2, <1>4, <2>1
<1>5. CASE ~(Phase' # Phase /\ p = Phase') /\ ~AboutToEnter(p)'
  BY <1>1, <1>2, <1>5
<1> QED BY <1>3, <1>4, <1>5

(* A failed call ends its reconcile with an error, or leads to the update  *)
(* that enters phase Failed.                                               *)
LEMMA FailuresStep ==
  ASSUME MeteredIInv, MeteredWorker
  PROVE  FailuresAreDue'
<1>0. IInv /\ Worker /\ Phase = current.phase
  BY DEF MeteredIInv, MeteredWorker, Phase, current
<1>1. /\ entered["Failed"] \in Nat /\ reconcileTotal["error"] \in Nat /\ apiErrors \in Nat
      /\ apiErrors <= reconcileTotal["error"] + entered["Failed"]
                        + (IF AboutToFail THEN 1 ELSE 0)
  BY CountsAreNumbers DEF MeteredIInv, FailuresAreDue
<1>2. /\ entered'["Failed"] = entered["Failed"]
           + IF Phase' # Phase /\ Phase' = "Failed" THEN 1 ELSE 0
      /\ reconcileTotal'["error"] = reconcileTotal["error"]
           + IF pc' = "idle" /\ ReturnsError THEN 1 ELSE 0
  BY CountersStep DEF Phases
<1>3. CASE apiErrors' = apiErrors /\ ~AboutToFail
  BY <1>1, <1>2, <1>3 DEF FailuresAreDue
<1>4. CASE apiErrors' = apiErrors /\ AboutToFail
  <2>1. \/ pc' = "idle" /\ ReturnsError
        \/ Phase' # Phase /\ Phase' = "Failed"
        \/ AboutToFail'
    BY <1>0, <1>4, WorkerMoves, PhaseEntered DEF AboutToFail, ReturnsError
  <2> QED BY <1>1, <1>2, <1>4, <2>1 DEF FailuresAreDue
<1>5. CASE /\ apiErrors' = apiErrors + 1
           /\ pc \in {"terminate", "launch", "getInstance"} /\ pc' \in {"idle", "refetch"}
  <2>1. ~AboutToFail
    BY <1>5 DEF AboutToFail
  <2>2. (pc' = "idle" /\ ReturnsError) \/ AboutToFail'
    <3>1. pc = "launch" => Phase = "Provisioning" /\ pc' = "refetch"
      BY <1>0, <1>5, WorkerMoves DEF IInv, LaunchesAlone
    <3> QED BY <1>0, <1>5, <3>1, WorkerMoves, PhaseEntered DEF AboutToFail, ReturnsError
  <2> QED BY <1>1, <1>2, <1>5, <2>1, <2>2 DEF FailuresAreDue
<1> QED BY <1>3, <1>4, <1>5, CountersStep

-----------------------------------------------------------------------------
(* A new incarnation has no phase yet.                                     *)
LEMMA CreatedPhase ==
  ASSUME TypeOK, Create
  PROVE  current'.phase = ""
<1>1. PICK h \in BOOLEAN : versions' = NewVersion(versions, Created(current, h))
  BY DEF Create, current
<1>2. current \in Objects /\ Created(current, h) \in Objects
  BY StoreTyped, CopyType
<1>3. Created(current, h).phase = ""
  BY DEF Created, NoObject
<1>4. current' = [Created(current, h) EXCEPT !.rv = current.rv + 1,
                                             !.live = ~Gone(Created(current, h))]
  BY <1>1, <1>2, NewStored
<1> QED BY <1>2, <1>3, <1>4 DEF Objects, Object

(* The phase of the stored resource becomes Failed by the worker only.     *)
LEMMA WorldPhase ==
  ASSUME IInv, Cloud \/ Runtime \/ UNCHANGED vars
  PROVE  Phase' = "Failed" => Phase = "Failed"
<1>0. TypeOK /\ versions \in Streams /\ Phase = current.phase /\ Phase' = current'.phase
  BY StoreTyped DEF IInv, SharedInv, Phase, current
<1>1. CASE Users
  <2>1. CASE Create
    BY <1>0, <2>1, CreatedPhase
  <2>2. CASE current.live
    BY <1>0, <1>1, <2>2, UsersStep DEF UserStep
  <2>3. Create \/ current.live
    BY <1>1 DEF Users, EditSpec, Touch, Delete, ReleaseHold, current
  <2> QED BY <2>1, <2>2, <2>3
<1>2. CASE Deliver
  BY <1>0, <1>2, TailStream DEF Deliver, current
<1>3. CASE Cloud \/ TimerFires \/ Resync \/ UNCHANGED vars
  BY <1>3 DEF Cloud, Progress, Purge, Console, TimerFires, Resync, vars, Phase
<1> QED BY <1>1, <1>2, <1>3 DEF Runtime

(* Every step keeps the invariant ...                                      *)
LEMMA MeteredStep ==
  ASSUME MeteredIInv, [MeteredNext]_<<vars, counters>>
  PROVE  MeteredIInv'
<1>0. IInv /\ MeteredTypeOK
  BY DEF MeteredIInv
<1>1. [Next]_vars
  BY DEF MeteredNext, MeteredWorker, Next
<1>2. IInv'
  BY <1>0, <1>1, InvStep
<1>3. CASE MeteredWorker
  BY <1>2, <1>3, CountersStep, EntriesStep, FailuresStep DEF MeteredIInv
<1>4. CASE \/ Cloud /\ UNCHANGED counters
           \/ Runtime /\ UNCHANGED <<attempt, client, oci, counters>>
           \/ UNCHANGED <<vars, counters>>
  <2>1. UNCHANGED counters /\ UNCHANGED <<pc, obj>>
    BY <1>4 DEF Cloud, Progress, Purge, Console, Runtime, Deliver, TimerFires, Resync, Users,
                workerVars, vars
  <2>2. UNCHANGED <<reconcileTotal, apiErrors, phaseTransitions, entered, unbuilt>>
    BY <2>1 DEF counters
  <2>3. Phase' = "Failed" => Phase = "Failed"
    BY <1>0, <1>4, WorldPhase
  <2>4. MeteredTypeOK'
    BY <1>0, <1>2, <2>2 DEF MeteredTypeOK, IInv, SharedInv
  <2>5. CountedAhead' /\ ReconcilesAreBounded'
    BY <2>1, <2>2 DEF MeteredIInv, CountedAhead, AboutToEnter, ReconcilesAreBounded
  <2>6. FailuresAreDue'
    <3>1. AboutToFail => AboutToFail'
      BY <2>1, <2>3 DEF AboutToFail
    <3> QED BY <1>0, <2>2, <3>1, CountsAreNumbers DEF MeteredIInv, FailuresAreDue
  <2> QED BY <1>2, <2>4, <2>5, <2>6 DEF MeteredIInv
<1>5. CASE Restart /\ Reset
  <2>1. pc' = "idle"
    BY <1>5 DEF Restart, RuntimeRestart
  <2>2. /\ reconcileTotal' = [result \in {"success", "error"} |-> 0]
        /\ apiErrors' = 0 /\ unbuilt' = 0
        /\ phaseTransitions' = [p \in Phases |-> 0]
        /\ entered' = [p \in Phases |-> 0]
    BY <1>5 DEF Reset
  <2>3. MeteredTypeOK'
    BY <1>2, <2>2, ReconcilesAssumption DEF MeteredTypeOK, IInv, SharedInv
  <2>4. CountedAhead'
    BY <2>1, <2>2 DEF CountedAhead, AboutToEnter
  <2>5. entered'["Failed"] = 0
    BY <2>2 DEF Phases
  <2>6. ReconcilesAreBounded' /\ FailuresAreDue'
    BY <2>1, <2>2, <2>5, ReconcilesAssumption
       DEF ReconcilesAreBounded, FailuresAreDue, AboutToFail
  <2> QED BY <1>2, <2>3, <2>4, <2>6 DEF MeteredIInv
<1> QED BY <1>3, <1>4, <1>5 DEF MeteredNext

(* ... which holds of a process that has just started.                     *)
LEMMA MeteredInitial == MeteredInit => MeteredIInv
<1> SUFFICES ASSUME MeteredInit PROVE MeteredIInv
  OBVIOUS
<1>1. IInv /\ pc = "idle"
  BY InvInit DEF MeteredInit, Init, RuntimeInit
<1>2. /\ reconcileTotal = [result \in {"success", "error"} |-> 0]
      /\ apiErrors = 0 /\ unbuilt = 0
      /\ phaseTransitions = [p \in Phases |-> 0]
      /\ entered = [p \in Phases |-> 0]
  BY DEF MeteredInit, Zero
<1>3. MeteredTypeOK
  BY <1>1, <1>2, ReconcilesAssumption DEF MeteredTypeOK, IInv, SharedInv
<1>4. CountedAhead
  BY <1>1, <1>2 DEF CountedAhead, AboutToEnter
<1>5. entered["Failed"] = 0
  BY <1>2 DEF Phases
<1>6. ReconcilesAreBounded /\ FailuresAreDue
  BY <1>1, <1>2, <1>5, ReconcilesAssumption
     DEF ReconcilesAreBounded, FailuresAreDue, AboutToFail
<1> QED BY <1>1, <1>3, <1>4, <1>6 DEF MeteredIInv

(* The invariant of the reconciler and of its counters together.           *)
THEOREM MeteredInvCorrect == MeteredSpec => []MeteredIInv
BY MeteredInitial, MeteredStep, PTL DEF MeteredSpec

(* The counters are well typed: reconciles are counted once each.          *)
THEOREM MeteredTypeCorrect == MeteredSpec => []MeteredTypeOK
BY MeteredInvCorrect, PTL DEF MeteredIInv

(* No phase that the resource enters is missed, but for a Failed that a    *)
(* client that cannot be built brings about.                               *)
THEOREM EntriesAreCountedCorrect == MeteredSpec => []EntriesAreCounted
<1>1. MeteredIInv => EntriesAreCounted
  <2> SUFFICES ASSUME MeteredIInv, NEW p \in Phases
               PROVE  entered[p] <= phaseTransitions[p] + IF p = "Failed" THEN unbuilt ELSE 0
    BY DEF EntriesAreCounted
  <2> QED BY DEF MeteredIInv, MeteredTypeOK, CountedAhead
<1> QED BY <1>1, MeteredInvCorrect, PTL

(* Between two reconciles there have been no more failed calls than        *)
(* reconciles with an error and entries into phase Failed.                 *)
THEOREM FailuresShowCorrect == MeteredSpec => []FailuresShow
<1>1. MeteredIInv => FailuresShow
  <2> SUFFICES ASSUME MeteredIInv, pc = "idle"
               PROVE  apiErrors <= reconcileTotal["error"] + entered["Failed"]
    BY DEF FailuresShow
  <2> QED BY CountsAreNumbers DEF MeteredIInv, FailuresAreDue, AboutToFail
<1> QED BY <1>1, MeteredInvCorrect, PTL
=============================================================================
