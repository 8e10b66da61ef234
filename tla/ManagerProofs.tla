--------------------------- MODULE ManagerProofs ---------------------------
(***************************************************************************)
(* Proofs about one process of the operator while others may work on the   *)
(* same resource: what its steps do, and what the others' steps leave of   *)
(* what it holds, for any set of OCIDs and any bounds.                     *)
(***************************************************************************)
EXTENDS Manager, OCIInstanceContract

-----------------------------------------------------------------------------
(* A process that starts finds any version that is on the watch.           *)
LEMMA SubStream ==
  ASSUME NEW v \in Streams, NEW k \in 1 .. Len(v)
  PROVE  /\ SubSeq(v, k, Len(v)) \in Streams
         /\ Stored(SubSeq(v, k, Len(v))) = Stored(v)
         /\ \A n \in 1 .. Len(SubSeq(v, k, Len(v))) :
              \E j \in 1 .. Len(v) : SubSeq(v, k, Len(v))[n] = v[j]
<1>1. Len(v) \in Nat \ {0} /\ v \in Seq(Objects)
  BY StreamRange DEF Streams
<1>2. /\ SubSeq(v, k, Len(v)) \in Seq(Objects)
      /\ Len(SubSeq(v, k, Len(v))) = Len(v) - k + 1
      /\ \A n \in 1 .. Len(v) - k + 1 : SubSeq(v, k, Len(v))[n] = v[k + n - 1]
  BY <1>1
<1> QED BY <1>1, <1>2 DEF Streams, Stored

(* The worker of a leader is the reconciler's.                             *)
LEMMA WorkIsNext ==
  ASSUME Work
  PROVE  Next /\ leads /\ leads' = leads
BY DEF Work, Next, Runtime

(* A process that leads does its work; all else it does is about the lease *)
(* and touches neither the store nor OCI.                                  *)
LEMMA LeaseStep ==
  ASSUME TypeOK, Process, ~Work
  PROVE  /\ TypeOK'
         /\ UNCHANGED <<oci, interventions>> /\ current' = current
         /\ StreamGoesOn
         /\ pc' = "idle" \/ UNCHANGED <<pc, obj>>
<1>0. /\ versions \in Streams /\ faults \in Nat
      /\ Cached(versions).live \in BOOLEAN /\ NoObject \in Objects
  BY StoreTyped DEF TypeOK, Objects, Object, NoObject, Phases
<1>1. CASE Lead
  <2>1. PICK k \in 1 .. Len(versions) : versions' = SubSeq(versions, k, Len(versions))
    BY <1>1 DEF Lead
  <2>2. /\ versions' \in Streams /\ current' = current
        /\ \A n \in 1 .. Len(versions') : \E j \in 1 .. Len(versions) : versions'[n] = versions[j]
    BY <1>0, <2>1, SubStream DEF current
  <2>3. queued' = Cached(versions').live
    BY <1>1 DEF Lead
  <2>4. queued' \in BOOLEAN
    BY <2>2, <2>3, StreamRange DEF Objects, Object
  <2>5. UNCHANGED <<timer, pc, obj, attempt, client, oci, interventions, faults>>
    BY <1>1 DEF Lead, workerVars
  <2>6. TypeOK'
    BY <2>2, <2>4, <2>5 DEF TypeOK, Streams, Objects
  <2> QED BY <2>2, <2>5, <2>6 DEF StreamGoesOn
<1>2. CASE Lapse \/ Renew \/ Expire
  <2>1. /\ UNCHANGED <<versions, queued, timer, pc, obj, attempt, client, oci, interventions>>
        /\ faults' \in Nat
    BY <1>0, <1>2 DEF Lapse, Renew, Expire, process, Fault
  <2> QED BY <2>1 DEF TypeOK, current, StreamGoesOn
<1>3. CASE LoseLease \/ Crash
  <2>1. Exit /\ faults' \in Nat
    BY <1>0, <1>3 DEF LoseLease, Crash, Fault
  <2>2. /\ UNCHANGED <<versions, oci, interventions>>
        /\ queued' = FALSE /\ timer' = FALSE /\ pc' = "idle" /\ obj' = NoObject
        /\ attempt' = 0 /\ client' = FALSE
    BY <2>1 DEF Exit
  <2> QED BY <1>0, <2>1, <2>2 DEF TypeOK, current, StreamGoesOn, Steps, Objects
<1> QED BY <1>1, <1>2, <1>3 DEF Process

(* Whoever else works on the resource, a step of a process keeps what      *)
(* holds of it, and changes the store only as an accepted update does.     *)
LEMMA ProcessStep ==
  ASSUME SharedInv, Process
  PROVE  SharedInv' /\ StoreStep
<1>1. CASE Work
  BY <1>1, WorkIsNext, SharedStep
<1>2. CASE ~Work
  <2>0. TypeOK /\ TypeOK' /\ current \in Objects /\ Sound(current, oci)
    BY <1>2, LeaseStep, StoreTyped, StoreSound DEF SharedInv
  <2>1. /\ UNCHANGED <<oci, interventions>> /\ current' = current /\ StreamGoesOn
        /\ pc' = "idle" \/ UNCHANGED <<pc, obj>>
    BY <1>2, <2>0, LeaseStep
  <2>2. StoreStep
    BY <2>0, <2>1, OCIKept DEF StoreStep, Evolves
  <2>3. StreamIsKnown'
    BY <2>0, <2>1, <2>2, StreamStaysKnown DEF StoreStep
  <2>4. (HandDeletes /\ HandReads /\ HandLaunches /\ HandSyncs)'
    BY <2>0, <2>1, <2>2, IdleHands, HandsKept DEF StoreStep
  <2> QED BY <2>0, <2>2, <2>3, <2>4, StoreSoundNext DEF SharedInv, StoreStep
<1> QED BY <1>1, <1>2

(* What others do, in the store and in OCI, leaves what this process holds *)
(* as old as it is, but no less true.                                      *)
LEMMA OthersStep ==
  ASSUME SharedInv,
         UNCHANGED <<queued, timer, pc, obj, attempt, client>>,
         versions' = versions \/ versions' = Append(versions, current'),
         interventions' \in Nat, faults' \in Nat, oci' \in [InstanceIDs -> OCIRecord],
         current' \in Objects, StoreStep
  PROVE  SharedInv'
<1>0. TypeOK /\ versions \in Streams
  BY StoreTyped DEF SharedInv
<1>1. versions' \in Streams /\ StreamGoesOn
  <2>1. CASE versions' = versions
    BY <1>0, <2>1 DEF StreamGoesOn
  <2>2. CASE versions' = Append(versions, current')
    <3> DEFINE c == current'
    <3>1. c \in Objects /\ versions \in Seq(Objects)
      BY <1>0 DEF Streams
    <3> HIDE DEF c
    <3>2. /\ Append(versions, c) \in Seq(Objects)
          /\ Len(Append(versions, c)) = Len(versions) + 1
          /\ \A j \in 1 .. Len(versions) : Append(versions, c)[j] = versions[j]
          /\ Append(versions, c)[Len(versions) + 1] = c
      BY <3>1
    <3>3. versions' = Append(versions, c)
      BY <2>2 DEF c
    <3>4. versions' \in Streams
      BY <1>0, <3>2, <3>3 DEF Streams
    <3>5. ASSUME NEW k \in 1 .. Len(versions')
          PROVE  versions'[k] = c \/ \E j \in 1 .. Len(versions) : versions'[k] = versions[j]
      BY <1>0, <3>2, <3>3, StreamRange
    <3> QED BY <3>4, <3>5 DEF StreamGoesOn, c
  <2> QED BY <2>1, <2>2
<1>2. TypeOK'
  BY <1>0, <1>1 DEF TypeOK, Streams, Objects
<1>3. StreamIsKnown'
  BY <1>1, <1>2, StreamStaysKnown DEF StoreStep
<1>4. (HandDeletes /\ HandReads /\ HandLaunches /\ HandSyncs)'
  BY <1>2, HandsKept DEF StoreStep
<1> QED BY <1>2, <1>3, <1>4, StoreSoundNext DEF SharedInv, StoreStep

-----------------------------------------------------------------------------
(* A process leaves the users' budget alone, and draws on that of the      *)
(* faults by one at most.                                                  *)
LEMMA ProcessBudgets ==
  ASSUME Process
  PROVE  UNCHANGED interventions /\ (faults' = faults \/ Fault)
<1>1. CASE Work
  <2>1. faults' = faults \/ Fault
    BY <1>1, WorkIsNext, Budgets
  <2>2. UNCHANGED interventions
    BY <1>1 DEF Work, Worker, ReconcileNothing, HandleDeletion, EnsureFinalizer,
                ReconcileInstance, AddFinalizer, Terminate, RemoveFinalizer, MarkProvisioning,
                Launch, RecordInstance, GetInstance, SyncStatus, Refetch, SetFailed, Write,
                Deliver, TimerFires
  <2> QED BY <2>1, <2>2
<1>2. CASE Lead \/ Lapse \/ Renew \/ LoseLease \/ Crash \/ Expire
  BY <1>2 DEF Lead, Lapse, Renew, LoseLease, Crash, Expire, Exit
<1> QED BY <1>1, <1>2 DEF Process

(* The controllers of a process do all its work, and the lease goes from   *)
(* one process to another only when it has run out.                        *)
LEMMA LeaseMoves ==
  ASSUME Process, leads \in BOOLEAN, leads \/ pc = "idle"
  PROVE  /\ leads' \in BOOLEAN /\ (leads' \/ pc' = "idle")
         /\ holder' \in {holder, Self, Nobody}
         /\ holder' = Self /\ holder # Self => holder = Nobody
<1>1. CASE Work
  BY <1>1 DEF Work
<1>2. CASE Lead \/ Lapse \/ Renew \/ LoseLease \/ Expire
  BY <1>2 DEF Lead, Lapse, Renew, LoseLease, Expire, Exit, process
<1>3. CASE Crash
  BY <1>3 DEF Crash, Exit
<1> QED BY <1>1, <1>2, <1>3 DEF Process

(* Without a fault the leader goes on, and so does what its launches rest  *)
(* on ...                                                                  *)
LEMMA LeaderStays ==
  ASSUME IInv, SharedInv', Process, leads, holder = Self, Self # Nobody, ~Fault
  PROVE  LaunchesAlone' /\ leads' /\ holder' = Self
<1>1. Work
  BY DEF Process, Lead, Lapse, Renew, LoseLease, Crash, Expire
<1>2. leads' /\ holder' = Self
  BY <1>1 DEF Work
<1> QED BY <1>1, <1>2, WorkIsNext, AloneStep

(* ... and whoever waits for the lease waits.                              *)
LEMMA StandbyWaits ==
  ASSUME ~leads, holder # Self, holder # Nobody
  PROVE  ~Process
BY DEF Process, Lead, Work, Lapse, Renew, LoseLease, Crash, Expire, Exit

-----------------------------------------------------------------------------
(* A step of a process is a step of the claim and its instances, or none,  *)
(* when its launches rest on what they do if it is alone ...               *)
LEMMA ProcessRefines ==
  ASSUME SharedInv, Process, Launch => LaunchesAlone
  PROVE  ContractStep
<1>1. CASE Work
  <2>1. TypeOK'
    BY <1>1, WorkIsNext, SharedStep DEF SharedInv
  <2> QED BY <1>1, <2>1, WorkIsNext, RefinementStep
<1>2. CASE ~Work
  <2>1. UNCHANGED oci /\ current' = current
    BY <1>2, LeaseStep DEF SharedInv
  <2> QED BY <2>1, Stutter
<1> QED BY <1>1, <1>2

(* ... and whoever else works on the resource, it is that or a launch that *)
(* leaves the resource as it is.                                           *)
LEMMA ProcessStrays ==
  ASSUME SharedInv, Process
  PROVE  \/ ContractStep
         \/ /\ current' = current
            /\ \E i \in InstanceIDs : oci[i].state = "NONE" /\ oci'[i].state # "NONE"
<1>1. CASE ~Launch
  BY <1>1, ProcessRefines
<1>2. CASE Launch
  <2>0. oci \in [InstanceIDs -> OCIRecord]
    BY StoreTyped DEF SharedInv
  <2>1. current' = current
    BY <1>2 DEF Launch, current
  <2>2. CASE oci' = oci
    BY <2>1, <2>2, Stutter
  <2>3. CASE oci' # oci
    <3>1. PICK i \in InstanceIDs :
            /\ oci[i].state = "NONE"
            /\ oci' = [oci EXCEPT ![i] = [state |-> "PROVISIONING", uid |-> obj.uid,
                                          gen |-> obj.gen]]
      BY <1>2, <2>3 DEF Launch
    <3>2. oci'[i].state # "NONE"
      BY <2>0, <3>1
    <3> QED BY <2>1, <3>1, <3>2
  <2> QED BY <2>2, <2>3
<1> QED BY <1>1, <1>2

(* A process terminates the instance its resource records, as it is        *)
(* stored, and only once the resource is being deleted.                    *)
LEMMA ProcessTerminates ==
  ASSUME SharedInv, Process, NEW i \in InstanceIDs, pc = "terminate",
         oci[i].state \notin Ending, oci'[i].state \in Ending
  PROVE  current.id = i /\ current.deleting
<1>0. TypeOK /\ oci \in [InstanceIDs -> OCIRecord]
  BY StoreTyped DEF SharedInv
<1>1. oci' # oci
  OBVIOUS
<1>2. Terminate
  <2>1. Work
    BY <1>0, <1>1, LeaseStep
  <2> QED BY <1>1, <2>1 DEF Work, Worker, ReconcileNothing, HandleDeletion, EnsureFinalizer,
                            ReconcileInstance, AddFinalizer, RemoveFinalizer,
                            MarkProvisioning, Launch, RecordInstance, GetInstance, SyncStatus,
                            Refetch, SetFailed, Write
<1>3. obj.id = i
  BY <1>0, <1>2 DEF Terminate, Terminated
<1>4. Known(obj, current, oci) /\ obj.deleting /\ obj.id # NoID
  BY DEF SharedInv, HandDeletes
<1> QED BY <1>3, <1>4 DEF Known

-----------------------------------------------------------------------------
(* A launch may be under way with an up-to-date copy ...                   *)
Awaited(c) ==
    c.live /\ ~c.deleting /\ c.fin /\ c.id = NoID /\ c.phase = "Provisioning"

(* ... only for such a resource, and none is called for any more when it   *)
(* stands and records an instance or has been given up.                    *)
Closed(c) == c.live /\ ~c.deleting /\ (c.id # NoID \/ GivenUp(c))

(* The resource a launch that is up to date is for.                        *)
LEMMA FreshIsAwaited ==
  ASSUME SharedInv, pc \in {"launch", "record"}, ~Outdated
  PROVE  Awaited(current)
BY DEF SharedInv, HandLaunches, Outdated, Awaited

(* The two exclude each other.                                             *)
LEMMA AwaitedIsNotClosed == \A c : Awaited(c) => ~Closed(c)
BY DEF Awaited, Closed, GivenUp

(* An update of a resource somebody may be launching for records an        *)
(* instance or gives it up ...                                             *)
LEMMA UpdateCloses ==
  ASSUME SharedInv, current' # current, Awaited(current) \/ Closed(current),
         AddFinalizer \/ RemoveFinalizer \/ MarkProvisioning \/ RecordInstance
           \/ SyncStatus \/ (SetFailed /\ UNCHANGED <<client, oci>>)
  PROVE  Closed(current')
<1>0. TypeOK /\ obj \in Objects /\ current \in Objects /\ oci \in [InstanceIDs -> OCIRecord]
  BY StoreTyped DEF SharedInv
<1>1. ASSUME NEW o \in Objects, Writes(o) \/ WriteFails(o)
      PROVE  /\ obj.rv = current.rv /\ current.live /\ o # current
             /\ current'.live = ~Gone(o) /\ current'.deleting = o.deleting
             /\ current'.id = o.id /\ current'.phase = o.phase
             /\ current'.gen = o.gen /\ current'.obsGen = o.obsGen
  <2>1. versions' # versions
    BY DEF current
  <2>2. /\ obj.rv = current.rv /\ current.live
        /\ current' = [o EXCEPT !.rv = current.rv + 1, !.live = ~Gone(o)]
    BY <1>0, <1>1, <2>1, WriteStore
  <2>3. o # current
    BY <1>1, <2>1 DEF Writes, WriteFails, Commit, current
  <2> QED BY <2>2, <2>3 DEF Objects, Object
<1>2. /\ current.live /\ ~current.deleting
      /\ current.id # NoID \/ GivenUp(current) \/ (current.fin /\ current.phase = "Provisioning")
  BY DEF Awaited, Closed
<1>3. CASE AddFinalizer
  <2> DEFINE o == [obj EXCEPT !.fin = TRUE]
  <2>1. pc = "addFinalizer" /\ (Writes(o) \/ WriteFails(o)) /\ o \in Objects
    BY <1>0, <1>3, CopyType, Zenon DEF AddFinalizer, Write
  <2>2. obj.rv = current.rv => obj = current
    BY <2>1 DEF SharedInv, HandReads, Known
  <2>3. /\ o.deleting = obj.deleting /\ o.id = obj.id /\ o.phase = obj.phase
        /\ o.gen = obj.gen /\ o.obsGen = obj.obsGen /\ o.fin /\ (obj.fin => o = obj)
    BY <1>0 DEF Objects, Object
  <2> HIDE DEF o
  <2> QED BY <1>1, <1>2, <2>1, <2>2, <2>3 DEF Closed, GivenUp, Gone, Awaited
<1>4. CASE RemoveFinalizer
  <2> DEFINE o == [obj EXCEPT !.fin = FALSE]
  <2>1. pc = "removeFinalizer" /\ (Writes(o) \/ WriteFails(o)) /\ o \in Objects
    BY <1>0, <1>4, CopyType, Zenon DEF RemoveFinalizer, Write
  <2>2. obj.deleting /\ (obj.rv = current.rv => obj = current)
    BY <2>1 DEF SharedInv, HandDeletes, Known
  <2> HIDE DEF o
  <2> QED BY <1>1, <1>2, <2>1, <2>2
<1>5. CASE MarkProvisioning
  <2> DEFINE o == [obj EXCEPT !.phase = "Provisioning"]
  <2>1. pc = "markProvisioning" /\ (Writes(o) \/ WriteFails(o)) /\ o \in Objects
    BY <1>0, <1>5, CopyType DEF MarkProvisioning, Write
  <2>2. obj.id = NoID /\ ~GivenUp(obj) /\ (obj.rv = current.rv => obj = current)
    BY <2>1 DEF SharedInv, HandReads, Known
  <2>3. obj.phase = "Provisioning" => o = obj
    BY <1>0 DEF Objects, Object
  <2> HIDE DEF o
  <2> QED BY <1>1, <1>2, <2>1, <2>2, <2>3
<1>6. CASE RecordInstance
  <2>1. pc = "record" /\ (Writes(obj) \/ WriteFails(obj))
    BY <1>6 DEF RecordInstance, Write
  <2>2. obj.id # NoID /\ (obj.rv = current.rv => obj = Recorded(current, obj.id))
    BY <2>1 DEF SharedInv, HandLaunches
  <2>3. Recorded(current, obj.id).deleting = current.deleting
    BY <1>0 DEF Recorded, SetObservedGeneration, Objects, Object
  <2> QED BY <1>0, <1>1, <1>2, <2>1, <2>2, <2>3 DEF Closed, Gone
<1>7. CASE SyncStatus
  <2>1. pc = "syncStatus" /\ (Writes(obj) \/ WriteFails(obj))
    BY <1>7 DEF SyncStatus, Write
  <2>2. /\ obj.id # NoID
        /\ obj.rv = current.rv =>
             obj = [current EXCEPT !.phase = obj.phase, !.obsGen = obj.obsGen]
    BY <2>1 DEF SharedInv, HandSyncs
  <2>3. obj.rv = current.rv => obj.deleting = current.deleting
    BY <1>0, <2>2 DEF Objects, Object
  <2> QED BY <1>0, <1>1, <1>2, <2>1, <2>2, <2>3 DEF Closed, Gone
<1>8. CASE SetFailed /\ UNCHANGED <<client, oci>>
  <2> DEFINE o == MarkedFailed(obj)
  <2>1. pc = "setFailed" /\ (Writes(o) \/ WriteFails(o)) /\ o \in Objects
    BY <1>0, <1>8, CopyType DEF SetFailed
  <2>2. obj.rv = current.rv => obj = current
    BY <2>1 DEF SharedInv, HandReads, Known
  <2>3. /\ o.deleting = obj.deleting /\ o.phase = "Failed" /\ o.gen = obj.gen
        /\ o.obsGen = obj.gen
    BY <1>0 DEF MarkedFailed, SetFailedStatus, SetObservedGeneration, Objects, Object, Phases
  <2> HIDE DEF o
  <2> QED BY <1>1, <1>2, <2>1, <2>2, <2>3 DEF Closed, GivenUp, Gone
<1> QED BY <1>3, <1>4, <1>5, <1>6, <1>7, <1>8

(* ... and so does any step of a process that changes such a resource.     *)
LEMMA ProcessCloses ==
  ASSUME SharedInv, Process, current' # current, Awaited(current) \/ Closed(current)
  PROVE  Closed(current') /\ Work
<1>1. TypeOK /\ versions \in Streams
  BY StoreTyped DEF SharedInv
<1>2. Work
  BY <1>1, LeaseStep
<1>3. versions' # versions
  BY DEF current
<1>4. ~Deliver
  BY <1>1, TailStream DEF Deliver, current
<1>5. AddFinalizer \/ RemoveFinalizer \/ MarkProvisioning \/ RecordInstance
        \/ SyncStatus \/ (SetFailed /\ UNCHANGED <<client, oci>>)
  BY <1>2, <1>3, <1>4 DEF Work, Worker, TimerFires, ReconcileNothing, HandleDeletion,
       EnsureFinalizer, ReconcileInstance, Terminate, Launch, GetInstance, Refetch
<1> QED BY <1>2, <1>5, UpdateCloses

(* What a process does with an ID it is about to record.  It orphans one   *)
(* at most, by a fault, with a copy that was out of date before, or by     *)
(* ending, at the loss of the lease, while its launch was called for.      *)
LEMMA ProcessOrphans ==
  ASSUME SharedInv, Process
  PROVE  \/ Orphans' \subseteq Orphans /\ (Outdated' => Outdated)
         \/ /\ ~Outdated' /\ \E i : Orphans' \subseteq Orphans \cup {i}
            /\ \/ Fault /\ ~Lapse
               \/ Outdated
               \/ LoseLease /\ Awaited(current)
<1>0. TypeOK /\ interventions \in Nat /\ versions \in Streams
  BY StoreTyped DEF SharedInv, TypeOK
<1>1. CASE Work
  <2>1. ~Intervention
    BY <1>0, <1>1, ProcessBudgets DEF Intervention
  <2>2. Lapse => Orphans' = Orphans /\ (Outdated' <=> Outdated)
    BY DEF Lapse, process, Orphans, Outdated, current
  <2>3. \/ Orphans' \subseteq Orphans /\ (Outdated' => Outdated)
        \/ /\ Fault \/ Outdated
           /\ ~Outdated'
           /\ \E i : Orphans' \subseteq Orphans \cup {i}
    BY <1>1, <2>1, WorkIsNext, OrphanStep
  <2> QED BY <2>2, <2>3
<1>2. CASE Lead \/ Lapse \/ Renew \/ Expire
  <2>1. UNCHANGED <<pc, obj, oci>>
    BY <1>2 DEF Lead, Lapse, Renew, Expire, process, workerVars
  <2>2. current' = current
    <3>1. CASE Lead
      BY <1>0, <3>1, SubStream DEF Lead, current
    <3>2. CASE Lapse \/ Renew \/ Expire
      BY <3>2 DEF Lapse, Renew, Expire, current
    <3> QED BY <1>2, <3>1, <3>2
  <2> QED BY <2>1, <2>2 DEF Orphans, Outdated
<1>3. CASE LoseLease \/ Crash
  <2>1. pc' = "idle" /\ UNCHANGED <<oci, versions>>
    BY <1>3 DEF LoseLease, Crash, Exit
  <2>2. ~Outdated' /\ current' = current
    BY <2>1 DEF Outdated, current
  <2>3. CASE pc = "record"
    <3>1. Orphans' \subseteq Orphans \cup {obj.id}
      BY <2>1, <2>2 DEF Orphans
    <3>2. CASE Outdated
      BY <2>2, <3>1, <3>2
    <3>3. CASE ~Outdated
      <4>1. Awaited(current)
        BY <2>3, <3>3, FreshIsAwaited
      <4>2. Crash => Fault /\ ~Lapse
        BY <2>1, <2>3 DEF Crash, Lapse, process
      <4> QED BY <1>3, <2>2, <3>1, <4>1, <4>2
    <3> QED BY <3>2, <3>3
  <2>4. CASE pc # "record"
    BY <2>1, <2>2, <2>4 DEF Orphans
  <2> QED BY <2>3, <2>4
<1> QED BY <1>1, <1>2, <1>3 DEF Process
=============================================================================
