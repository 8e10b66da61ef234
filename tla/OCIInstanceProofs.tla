------------------------- MODULE OCIInstanceProofs -------------------------
(***************************************************************************)
(* Proofs of the safety properties of the OCIInstance reconciler, for any  *)
(* set of OCIDs and any bounds.                                            *)
(***************************************************************************)
EXTENDS OCIInstanceProperties, TLAPS

Objects == Object(InstanceIDs, Phases)
Streams == {v \in Seq(Objects) : Len(v) > 0}

-----------------------------------------------------------------------------
(* The watch stream: what its operators return.                            *)

(* A stored object is an object, and so is a cached one.                   *)
LEMMA StreamRange ==
  ASSUME NEW v \in Streams
  PROVE  Len(v) \in Nat \ {0} /\ Stored(v) \in Objects /\ Cached(v) \in Objects
BY DEF Streams, Stored, Cached

(* A new version becomes the stored object and leaves the others in place. *)
LEMMA NewVersionStream ==
  ASSUME NEW v \in Streams, NEW o \in Objects
  PROVE  /\ NewVersion(v, o) \in Streams
         /\ Len(NewVersion(v, o)) = Len(v) + 1
         /\ Stored(NewVersion(v, o)) =
              [o EXCEPT !.rv = Stored(v).rv + 1, !.live = ~Gone(o)]
         /\ \A k \in 1 .. Len(v) : NewVersion(v, o)[k] = v[k]
<1> DEFINE new == [o EXCEPT !.rv = Stored(v).rv + 1, !.live = ~Gone(o)]
<1>1. new \in Objects
  <2>1. Stored(v).rv + 1 \in Nat
    BY StreamRange DEF Objects, Object
  <2>2. (~Gone(o)) \in BOOLEAN
    BY Zenon DEF Gone
  <2> QED BY <2>1, <2>2 DEF Objects, Object
<1>2. NewVersion(v, o) = Append(v, new)
  BY DEF NewVersion
<1> HIDE DEF new
<1>3. Append(v, new) \in Seq(Objects) /\ Len(Append(v, new)) = Len(v) + 1
  BY <1>1 DEF Streams
<1>4. Append(v, new)[Len(v) + 1] = new /\ \A k \in 1 .. Len(v) : Append(v, new)[k] = v[k]
  BY <1>1 DEF Streams
<1> QED BY <1>2, <1>3, <1>4, StreamRange DEF Streams, Stored, new

(* When the informer moves on, the store is as it was.                     *)
LEMMA TailStream ==
  ASSUME NEW v \in Streams, Len(v) > 1
  PROVE  /\ Tail(v) \in Streams
         /\ Len(Tail(v)) = Len(v) - 1
         /\ Stored(Tail(v)) = Stored(v)
         /\ \A k \in 1 .. Len(v) - 1 : Tail(v)[k] = v[k + 1]
<1>1. Tail(v) \in Seq(Objects) /\ Len(Tail(v)) = Len(v) - 1
  BY DEF Streams
<1>2. \A k \in 1 .. Len(v) - 1 : Tail(v)[k] = v[k + 1]
  BY DEF Streams
<1> QED BY <1>1, <1>2, StreamRange DEF Streams, Stored

-----------------------------------------------------------------------------
(* Type correctness.                                                       *)

(* The store commits an object, or finds that nothing changed.             *)
LEMMA CommitStream ==
  ASSUME NEW v \in Streams, NEW o \in Objects
  PROVE  Commit(v, o) \in Streams
BY NewVersionStream DEF Commit

(* An update keeps the types, whether it succeeds or fails.                *)
LEMMA WriteType ==
  ASSUME TypeOK, NEW o \in Objects, Writes(o) \/ WriteFails(o)
  PROVE  versions' \in Streams /\ faults' \in Nat
<1>1. versions \in Streams /\ faults \in Nat
  BY DEF TypeOK, Streams, Objects
<1>2. Commit(versions, o) \in Streams
  BY <1>1, CommitStream
<1>3. CASE Writes(o)
  BY <1>1, <1>2, <1>3 DEF Writes
<1>4. CASE WriteFails(o)
  BY <1>1, <1>2, <1>4 DEF WriteFails, Fault
<1> QED BY <1>3, <1>4

(* The copies the handlers write, and the objects users make.              *)
LEMMA CopyType ==
  ASSUME NEW o \in Objects
  PROVE  /\ [o EXCEPT !.fin = TRUE] \in Objects
         /\ [o EXCEPT !.fin = FALSE] \in Objects
         /\ [o EXCEPT !.phase = "Provisioning"] \in Objects
         /\ MarkedFailed(o) \in Objects
         /\ \A i \in InstanceIDs : Recorded(o, i) \in Objects
         /\ \A s \in States : Synced(o, s) \in Objects
         /\ \A h \in BOOLEAN : Created(o, h) \in Objects
         /\ Edited(o) \in Objects /\ Deleted(o) \in Objects /\ Released(o) \in Objects
<1>1. /\ [o EXCEPT !.fin = TRUE] \in Objects
      /\ [o EXCEPT !.fin = FALSE] \in Objects
      /\ [o EXCEPT !.phase = "Provisioning"] \in Objects
  BY DEF Objects, Object, Phases
<1>2. MarkedFailed(o) \in Objects
  BY DEF Objects, Object, Phases, MarkedFailed, SetFailedStatus, SetObservedGeneration
<1>3. \A i \in InstanceIDs : Recorded(o, i) \in Objects
  BY DEF Objects, Object, Phases, Recorded, SetObservedGeneration
<1>4. \A s \in States : PhaseOf(s) \in Phases
  BY DEF States, Phases, PhaseOf
<1>5. \A s \in States : Synced(o, s) \in Objects
  BY <1>4 DEF Objects, Object, Synced, SetObservedGeneration
<1>6. NoObject \in Objects
  BY DEF NoObject, Objects, Object, Phases
<1>7. \A h \in BOOLEAN : Created(o, h) \in Objects
  <2>1. o.uid + 1 \in Nat
    BY DEF Objects, Object
  <2> QED BY <1>6, <2>1 DEF Objects, Object, Created
<1>8. Edited(o) \in Objects /\ Deleted(o) \in Objects /\ Released(o) \in Objects
  <2>1. o.gen + 1 \in Nat
    BY DEF Objects, Object
  <2>2. Edited(o) \in Objects /\ Deleted(o) \in Objects
    BY <2>1 DEF Objects, Object, Edited, Deleted
  <2>3. Released(o) \in Objects
    BY DEF Objects, Object, Released
  <2> QED BY <2>2, <2>3
<1> QED BY <1>1, <1>2, <1>3, <1>5, <1>7, <1>8

(* Ending a handler, or taking it to a further call, keeps its types.      *)
LEMMA HandlerType ==
  ASSUME TypeOK, NEW step \in Steps, NEW o \in Objects,
         NEW b \in BOOLEAN, Proceed(step, o) \/ Return(b)
  PROVE  pc' \in Steps /\ obj' \in Objects /\ timer' \in BOOLEAN
<1>1. NoObject \in Objects
  BY DEF NoObject, Objects, Object, Phases
<1> QED BY <1>1 DEF TypeOK, Proceed, Return, Steps

(* The manager starts well typed.                                          *)
THEOREM TypeInit == Init => TypeOK
<1> SUFFICES ASSUME Init PROVE TypeOK
  OBVIOUS
<1>1. NoObject \in Object(InstanceIDs, Phases)
  BY DEF NoObject, Object, Phases
<1>2. versions \in Seq(Object(InstanceIDs, Phases)) /\ Len(versions) > 0
  BY <1>1 DEF Init, RuntimeInit
<1>3. oci \in [InstanceIDs -> OCIRecord]
  BY DEF Init, OCIRecord, States
<1> QED BY <1>1, <1>2, <1>3, BoundsAssumption DEF TypeOK, Init, RuntimeInit, Steps

(* Every step keeps the types.                                             *)
LEMMA TypeStep ==
  ASSUME TypeOK, [Next]_vars
  PROVE  TypeOK'
<1> USE DEF Objects, Streams
<1>0. /\ versions \in Streams /\ obj \in Objects /\ Cached(versions) \in Objects
      /\ Stored(versions) \in Objects
  BY StreamRange DEF TypeOK
<1>a. Fault => faults' \in Nat
  BY DEF TypeOK, Fault
<1>b. UNCHANGED faults => faults' \in Nat
  BY DEF TypeOK
<1>c. /\ oci \in [InstanceIDs -> OCIRecord]
      /\ \A i : \A s \in States : [oci EXCEPT ![i].state = s] \in [InstanceIDs -> OCIRecord]
      /\ "TERMINATING" \in States
  BY DEF TypeOK, OCIRecord, States
<1>1. CASE UNCHANGED vars
  BY <1>1 DEF TypeOK, vars
<1>2. CASE ReconcileNothing
  BY <1>2 DEF TypeOK, ReconcileNothing, Dequeue
<1>3. CASE HandleDeletion
  BY <1>0, <1>3 DEF TypeOK, HandleDeletion, Dequeue, Proceed, Steps
<1>4. CASE EnsureFinalizer
  BY <1>0, <1>4 DEF TypeOK, EnsureFinalizer, Dequeue, Proceed, Steps
<1>5. CASE ReconcileInstance
  <2>1. Cached(versions).gen \in Nat
    BY <1>0 DEF Object
  <2>2. attempt' \in Nat /\ faults' \in Nat
    BY <2>1, <1>5 DEF TypeOK, ReconcileInstance, Fault
  <2>4. client' \in BOOLEAN
    BY <1>5, Zenon DEF TypeOK, ReconcileInstance
  <2>3. pc' \in Steps /\ obj' \in Objects /\ timer' \in BOOLEAN
    BY <1>0, <1>5 DEF TypeOK, ReconcileInstance, Proceed, Steps
  <2> QED BY <1>5, <2>2, <2>3, <2>4 DEF TypeOK, ReconcileInstance, Dequeue
<1>6. ASSUME NEW step \in Steps, NEW o \in Objects, NEW ACTION Then,
             Write(step, o, Then),
             Then => pc' \in Steps /\ obj' \in Objects /\ timer' \in BOOLEAN
      PROVE  TypeOK'
  <2>1. versions' \in Streams /\ faults' \in Nat
    BY <1>6, WriteType DEF Write
  <2>2. pc' \in Steps /\ obj' \in Objects /\ timer' \in BOOLEAN
    BY <1>6, HandlerType DEF Write, WriteFails
  <2> QED BY <1>6, <2>1, <2>2 DEF TypeOK, Write
<1>7. CASE AddFinalizer
  BY <1>0, <1>6, <1>7, CopyType, HandlerType DEF AddFinalizer, Steps
<1>8. CASE RemoveFinalizer
  BY <1>0, <1>6, <1>8, CopyType, HandlerType DEF RemoveFinalizer, Steps
<1>9. CASE MarkProvisioning
  <2>1. versions' \in Streams
    BY <1>0, <1>9, CopyType, WriteType DEF MarkProvisioning, Write
  <2>2. Stored(versions') \in Objects
    BY <2>1, StreamRange
  <2>3. Proceed("launch", Stored(versions')) =>
          pc' \in Steps /\ obj' \in Objects /\ timer' \in BOOLEAN
    BY <2>2, HandlerType DEF Steps
  <2> QED BY <1>0, <1>6, <1>9, <2>3, CopyType DEF MarkProvisioning, Steps
<1>10. CASE RecordInstance
  BY <1>0, <1>6, <1>10, HandlerType DEF RecordInstance, Steps
<1>11. CASE SyncStatus
  BY <1>0, <1>6, <1>11, HandlerType DEF SyncStatus, Steps
<1>12. CASE Terminate
  <2>1. oci' \in [InstanceIDs -> OCIRecord]
    <3>1. oci' = oci \/ oci' = [oci EXCEPT ![obj.id].state = "TERMINATING"]
      BY <1>12 DEF Terminate, Terminated
    <3> QED BY <1>c, <3>1
  <2>2. faults' \in Nat
    BY <1>a, <1>b, <1>12, Zenon DEF Terminate
  <2>3. pc' \in Steps /\ obj' \in Objects /\ timer' \in BOOLEAN
    BY <1>0, <1>12, HandlerType DEF Terminate, Steps
  <2> QED BY <1>12, <2>1, <2>2, <2>3 DEF TypeOK, Terminate
<1>13. CASE Launch
  <2>1. obj.gen \in Nat /\ obj.uid \in Nat
    BY <1>0 DEF Object
  <2>2. oci' \in [InstanceIDs -> OCIRecord]
    BY <1>13, <2>1 DEF TypeOK, Launch, OCIRecord, States
  <2>3. faults' \in Nat /\ attempt' \in Nat
    BY <1>a, <1>b, <1>13, <2>1 DEF TypeOK, Launch, GiveUp
  <2>4. pc' \in Steps /\ obj' \in Objects /\ timer' \in BOOLEAN
    BY <1>0, <1>13, HandlerType, CopyType DEF Launch, GiveUp, Steps
  <2> QED BY <1>13, <2>2, <2>3, <2>4 DEF TypeOK, Launch
<1>14. CASE GetInstance
  <2>1. PhaseOf(oci[obj.id].state) \in Phases
    BY DEF PhaseOf, Phases
  <2>2. Synced(obj, oci[obj.id].state) \in Objects
    BY <1>0, <2>1 DEF Synced, SetObservedGeneration, Object
  <2>3. pc' \in Steps /\ obj' \in Objects /\ timer' \in BOOLEAN
    BY <1>14, <2>2, HandlerType DEF GetInstance, Steps
  <2>4. faults' \in Nat
    BY <1>a, <1>b, <1>14, Zenon DEF GetInstance
  <2> QED BY <1>14, <2>3, <2>4 DEF TypeOK, GetInstance
<1>15. CASE Refetch /\ UNCHANGED <<client, oci>>
  <2>1. pc' \in Steps /\ obj' \in Objects /\ timer' \in BOOLEAN
    BY <1>0, <1>15, HandlerType DEF Refetch, Steps
  <2>2. attempt' \in Nat
    <3>1. 0 \in Nat
      OBVIOUS
    <3> QED BY <1>15, <3>1, Zenon DEF TypeOK, Refetch
  <2> QED BY <1>15, <2>1, <2>2 DEF TypeOK, Refetch
<1>16. CASE SetFailed /\ UNCHANGED <<client, oci>>
  <2>1. versions' \in Streams /\ faults' \in Nat
    BY <1>0, <1>16, WriteType, CopyType DEF SetFailed
  <2>2. pc' \in Steps /\ obj' \in Objects /\ timer' \in BOOLEAN
    BY <1>0, <1>16, HandlerType DEF SetFailed, WriteFails, Steps
  <2> QED BY <1>16, <2>1, <2>2 DEF TypeOK, SetFailed
<1>17. CASE Cloud
  <2>1. oci' \in [InstanceIDs -> OCIRecord]
    <3>1. PICK i \in InstanceIDs :
            oci' \in {[oci EXCEPT ![i].state = s] : s \in States}
      BY <1>17 DEF Cloud, Progress, Purge, Console, States
    <3> QED BY <1>c, <3>1
  <2>2. interventions' \in Nat
    BY <1>17 DEF TypeOK, Cloud, Progress, Purge, Console, Intervention
  <2>3. UNCHANGED <<versions, queued, timer, pc, obj, faults, attempt, client>>
    BY <1>17 DEF Cloud, Progress, Purge, Console, workerVars
  <2> QED BY <2>1, <2>2, <2>3 DEF TypeOK
<1>18. CASE Runtime /\ UNCHANGED <<attempt, client, oci>>
  <2>1. CASE Deliver
    BY <1>0, <1>18, <2>1, TailStream DEF TypeOK, Deliver, workerVars
  <2>2. CASE TimerFires \/ Resync
    BY <1>18, <2>2 DEF TypeOK, TimerFires, Resync, workerVars
  <2>3. CASE Users
    <3>1. \E o \in Objects : versions' = NewVersion(versions, o)
      BY <1>0, <2>3, CopyType DEF Users, Create, EditSpec, Touch, Delete, ReleaseHold
    <3>2. interventions' \in Nat
      BY <2>3 DEF TypeOK, Users, Create, EditSpec, Touch, Delete, ReleaseHold, Intervention
    <3> QED BY <1>0, <1>18, <2>3, <3>1, <3>2, NewVersionStream DEF TypeOK, Users, workerVars
  <2> QED BY <1>18, <2>1, <2>2, <2>3 DEF Runtime
<1>19. CASE Restart
  <2>1. NoObject \in Objects /\ Cached(versions).live \in BOOLEAN
    BY <1>0 DEF NoObject, Object, Phases
  <2>2. queued' \in BOOLEAN
    BY <1>19, <2>1, Zenon DEF Restart, RuntimeRestart
  <2> QED BY <1>a, <1>19, <2>1, <2>2 DEF TypeOK, Restart, RuntimeRestart, Steps
<1> QED
  BY <1>1, <1>2, <1>3, <1>4, <1>5, <1>7, <1>8, <1>9, <1>10, <1>11, <1>12, <1>13,
     <1>14, <1>15, <1>16, <1>17, <1>18, <1>19 DEF Next, Worker

(* Every state of the reconciler, its runtime and OCI is well typed.       *)
THEOREM TypeCorrect == Spec => []TypeOK
BY TypeInit, TypeStep, PTL DEF Spec

-----------------------------------------------------------------------------
(* The inductive invariant.  First, how the store and OCI change: what the *)
(* invariant needs of any step, with the values before and after as        *)
(* parameters.                                                             *)

Sound(c, cloud) ==
    /\ c.live \/ ~c.fin
    /\ c.obsGen <= c.gen
    /\ c.id # NoID => /\ cloud[c.id].state # "NONE"
                      /\ cloud[c.id].uid = c.uid
                      /\ cloud[c.id].gen <= c.gen
    /\ c.id # NoID /\ ~c.fin => cloud[c.id].state \in Ending

(* The stored object goes from c to d: within an incarnation a recorded    *)
(* ID, a deletion and a given-up generation stay and observedGeneration    *)
(* grows, and a new incarnation follows a removal only.                    *)
Evolves(c, d) ==
    \/ d = c
    \/ /\ d.rv > c.rv
       /\ \/ /\ d.uid = c.uid
             /\ c.id # NoID => d.id = c.id
             /\ c.deleting => d.deleting
             /\ c.obsGen <= d.obsGen /\ d.obsGen <= d.gen
             /\ GivenUp(c) /\ d.gen = c.gen => GivenUp(d)
          \/ ~c.live /\ d.uid # c.uid

(* What users do to the stored object.                                     *)
UserStep(c, d) ==
    /\ d.rv = c.rv + 1
    /\ \/ /\ c.live
          /\ d.uid = c.uid /\ d.fin = c.fin
          /\ d.id = c.id /\ d.phase = c.phase /\ d.obsGen = c.obsGen
          /\ d.gen >= c.gen
          /\ c.deleting => d.deleting
          /\ d.live \/ ~d.fin
       \/ /\ ~c.live
          /\ d.live /\ ~d.fin /\ d.id = NoID /\ d.uid # c.uid
          /\ d.obsGen <= d.gen

(* OCI never unlaunches an instance, gives it away or undoes its end.      *)
OCIKeeps(old, new) ==
    \A i \in InstanceIDs :
      /\ old[i].state # "NONE" => /\ new[i].state # "NONE"
                                  /\ new[i].uid = old[i].uid
                                  /\ new[i].gen = old[i].gen
      /\ old[i].state \in Ending => new[i].state \in Ending

(* What is known of an old copy stays known.                               *)
LEMMA KnownKept ==
  ASSUME NEW w \in Objects, NEW c \in Objects, NEW d \in Objects, NEW old, NEW new,
         Known(w, c, old), Sound(c, old), Evolves(c, d), OCIKeeps(old, new)
  PROVE  Known(w, d, new)
<1>1. w.rv <= d.rv /\ (w.rv = d.rv => w = d)
  BY DEF Known, Evolves, Objects, Object
<1>2. ASSUME w.id # NoID
      PROVE  new[w.id].state \in Ending \/ (d.id = w.id /\ (w.deleting => d.deleting))
  <2>1. w.id \in InstanceIDs
    BY <1>2 DEF Objects, Object
  <2>2. CASE old[w.id].state \in Ending
    BY <2>1, <2>2 DEF OCIKeeps
  <2>3. CASE old[w.id].state \notin Ending
    <3>1. c.id = w.id /\ (w.deleting => c.deleting)
      BY <1>2, <2>3 DEF Known
    <3>2. c.live
      BY <1>2, <2>3, <3>1 DEF Sound
    <3> QED BY <1>2, <3>1, <3>2 DEF Evolves
  <2> QED BY <2>2, <2>3
<1> QED BY <1>1, <1>2 DEF Known

(* The store stays sound while OCI goes on ...                             *)
LEMMA SoundUnderOCI ==
  ASSUME NEW c \in Objects, NEW old, NEW new, Sound(c, old), OCIKeeps(old, new)
  PROVE  Sound(c, new)
<1>1. c.id # NoID => c.id \in InstanceIDs
  BY DEF Objects, Object
<1> QED BY <1>1 DEF Sound, OCIKeeps

(* ... and while users change the resource.                                *)
LEMMA SoundUnderUsers ==
  ASSUME NEW c \in Objects, NEW d \in Objects, NEW cloud \in [InstanceIDs -> OCIRecord],
         Sound(c, cloud), UserStep(c, d)
  PROVE  Sound(d, cloud) /\ Evolves(c, d)
<1>1. c.live => c.obsGen <= d.obsGen /\ d.obsGen <= d.gen
  BY DEF UserStep, Sound, Objects, Object
<1>6. Evolves(c, d)
  BY <1>1 DEF UserStep, Evolves, GivenUp, Objects, Object
<1>2. c.gen \in Nat /\ d.gen \in Nat /\ c.obsGen \in Nat /\ d.obsGen \in Nat
  BY DEF Objects, Object
<1>3. d.id # NoID => cloud[d.id].gen \in Nat
  BY DEF Objects, Object, OCIRecord
<1>4. CASE c.live
  <2>1. d.obsGen <= d.gen
    BY <1>1, <1>4
  <2>2. d.id # NoID => cloud[d.id].gen <= d.gen
    BY <1>2, <1>3, <1>4 DEF Sound, UserStep
  <2> QED BY <1>4, <1>6, <2>1, <2>2 DEF Sound, UserStep
<1>5. CASE ~c.live
  BY <1>5, <1>6 DEF Sound, UserStep
<1> QED BY <1>4, <1>5

-----------------------------------------------------------------------------
(* The invariant's parts, said of the stored object.                       *)
LEMMA StoreTyped ==
  ASSUME TypeOK
  PROVE  /\ versions \in Streams /\ current \in Objects /\ Cached(versions) \in Objects
         /\ obj \in Objects /\ oci \in [InstanceIDs -> OCIRecord]
BY StreamRange DEF TypeOK, Streams, Objects, current

(* The store's part of the invariant, said of current and oci ...          *)
LEMMA StoreSound == StoreIsSound <=> Sound(current, oci)
BY DEF StoreIsSound, Sound, RecordedIsOwn, ReleasedIsEnding

(* ... and the same after a step.                                          *)
LEMMA StoreSoundNext == StoreIsSound' <=> Sound(current', oci')
BY DEF StoreIsSound, Sound, RecordedIsOwn, ReleasedIsEnding

(* What a new version is made of.                                          *)
LEMMA NewStored ==
  ASSUME TypeOK, NEW o \in Objects, versions' = NewVersion(versions, o)
  PROVE  /\ current' \in Objects
         /\ current' = [o EXCEPT !.rv = current.rv + 1, !.live = ~Gone(o)]
BY StoreTyped, NewVersionStream, StreamRange DEF current

(* Whatever users do is a step of UserStep.                                *)
LEMMA UsersStep ==
  ASSUME TypeOK, Users
  PROVE  UserStep(current, current') /\ current' \in Objects
<1>0. current \in Objects
  BY StoreTyped
<1>1. CASE Create
  <2>1. PICK h \in BOOLEAN : versions' = NewVersion(versions, Created(current, h))
    BY <1>1 DEF Create, current
  <2>2. Created(current, h) \in Objects
    BY <1>0, CopyType
  <2>3. /\ current' \in Objects
        /\ current' = [Created(current, h) EXCEPT !.rv = current.rv + 1,
                                                  !.live = ~Gone(Created(current, h))]
    BY <2>1, <2>2, NewStored
  <2>4. ~current.live
    BY <1>1 DEF Create, current
  <2>5. /\ ~Created(current, h).deleting /\ ~Created(current, h).fin
        /\ Created(current, h).id = NoID /\ Created(current, h).uid = current.uid + 1
        /\ Created(current, h).obsGen = 0 /\ Created(current, h).gen = 1
    BY <1>0 DEF Created, NoObject
  <2>6. ~Gone(Created(current, h))
    BY <2>5 DEF Gone
  <2>7. /\ current'.rv = current.rv + 1 /\ current'.live /\ ~current'.fin
        /\ current'.id = NoID /\ current'.uid = current.uid + 1
        /\ current'.obsGen = 0 /\ current'.gen = 1
    BY <2>2, <2>3, <2>5, <2>6 DEF Objects, Object
  <2>8. current'.uid # current.uid
    BY <1>0, <2>7 DEF Objects, Object
  <2> QED BY <2>3, <2>4, <2>7, <2>8 DEF UserStep
<1>2. ASSUME NEW o \in Objects, versions' = NewVersion(versions, o), current.live,
             o.uid = current.uid, o.fin = current.fin, o.id = current.id,
             o.phase = current.phase, o.obsGen = current.obsGen, o.gen >= current.gen,
             current.deleting => o.deleting
      PROVE  UserStep(current, current') /\ current' \in Objects
  <2>1. /\ current' \in Objects
        /\ current' = [o EXCEPT !.rv = current.rv + 1, !.live = ~Gone(o)]
    BY <1>2, NewStored
  <2>2. current'.live \/ ~current'.fin
    BY <1>2, <2>1 DEF Gone, Objects, Object
  <2>3. /\ current'.rv = current.rv + 1
        /\ current'.uid = o.uid /\ current'.fin = o.fin /\ current'.id = o.id
        /\ current'.phase = o.phase /\ current'.obsGen = o.obsGen
        /\ current'.gen = o.gen /\ current'.deleting = o.deleting
    BY <1>2, <2>1 DEF Objects, Object
  <2> QED BY <1>2, <2>1, <2>2, <2>3 DEF UserStep
<1>3. CASE EditSpec \/ Touch \/ Delete \/ ReleaseHold
  <2>1. PICK o \in {Edited(current), current, Deleted(current), Released(current)} :
          versions' = NewVersion(versions, o) /\ current.live
    BY <1>3 DEF EditSpec, Touch, Delete, ReleaseHold, current
  <2>2. o \in Objects
    BY <1>0, <2>1, CopyType
  <2>3. current.gen \in Nat
    BY <1>0 DEF Objects, Object
  <2>4. /\ o.uid = current.uid /\ o.fin = current.fin /\ o.id = current.id
        /\ o.phase = current.phase /\ o.obsGen = current.obsGen /\ o.gen >= current.gen
        /\ current.deleting => o.deleting
    <3>1. CASE o = current
      BY <2>3, <3>1
    <3>2. CASE o = Edited(current)
      BY <1>0, <2>3, <3>2 DEF Edited, Objects, Object
    <3>3. CASE o = Deleted(current)
      BY <1>0, <2>3, <3>3 DEF Deleted, Objects, Object
    <3>4. CASE o = Released(current)
      BY <1>0, <2>3, <3>4 DEF Released, Objects, Object
    <3> QED BY <2>1, <3>1, <3>2, <3>3, <3>4
  <2> QED BY <1>2, <2>1, <2>2, <2>4
<1> QED BY <1>1, <1>3 DEF Users

(* While a handler waits for its next call, the world around it moves.     *)
LEMMA HandsKept ==
  ASSUME SharedInv, TypeOK', UNCHANGED <<pc, obj>>,
         Evolves(current, current'), OCIKeeps(oci, oci')
  PROVE  (HandDeletes /\ HandReads /\ HandLaunches /\ HandSyncs)'
<1>0. TypeOK /\ Sound(current, oci)
  BY StoreSound DEF SharedInv
<1>1. /\ current \in Objects /\ current' \in Objects /\ obj \in Objects
      /\ oci \in [InstanceIDs -> OCIRecord]
  BY <1>0, StoreTyped, StreamRange DEF TypeOK, Streams, Objects, current
<1>2. obj.id # NoID => obj.id \in InstanceIDs
  BY <1>1 DEF Objects, Object
<1>3. Known(obj, current, oci) => Known(obj, current', oci')
  BY <1>0, <1>1, KnownKept
<1>4. HandDeletes'
  BY <1>2, <1>3 DEF SharedInv, HandDeletes, OCIKeeps
<1>5. HandReads'
  BY <1>3 DEF SharedInv, HandReads, GivenUp
<1>6. obj.rv <= current.rv =>
        obj.rv <= current'.rv /\ (current' = current \/ obj.rv # current'.rv)
  BY <1>1 DEF Evolves, Objects, Object
<1>7. HandLaunches'
  <2> SUFFICES ASSUME pc \in {"launch", "record"}
               PROVE  HandLaunches'
    BY DEF HandLaunches
  <2>1. obj.rv <= current'.rv /\ (current' = current \/ obj.rv # current'.rv)
    BY <1>6 DEF SharedInv, HandLaunches
  <2>2. pc = "record" => /\ obj.id # NoID /\ oci'[obj.id].state # "NONE"
                         /\ oci'[obj.id].uid = obj.uid /\ oci'[obj.id].gen = obj.gen
    BY <1>2 DEF SharedInv, HandLaunches, OCIKeeps
  <2> QED BY <2>1, <2>2 DEF SharedInv, HandLaunches, Recorded
<1>8. HandSyncs'
  <2> SUFFICES ASSUME pc = "syncStatus"
               PROVE  HandSyncs'
    BY DEF HandSyncs
  <2>1. obj.rv <= current'.rv /\ (current' = current \/ obj.rv # current'.rv)
    BY <1>6 DEF SharedInv, HandSyncs
  <2> QED BY <2>1 DEF SharedInv, HandSyncs, GivenUp
<1> QED BY <1>4, <1>5, <1>7, <1>8

-----------------------------------------------------------------------------
(* The reconciler's writes.  An update either leaves the store as it is or *)
(* replaces the very version the handler's copy was read from.             *)
LEMMA WriteStore ==
  ASSUME TypeOK, NEW o \in Objects, Writes(o) \/ WriteFails(o)
  PROVE  /\ \/ versions' = versions
            \/ /\ obj.rv = current.rv /\ current.live
               /\ versions' = NewVersion(versions, o)
               /\ current' \in Objects
               /\ current' = [o EXCEPT !.rv = current.rv + 1, !.live = ~Gone(o)]
         /\ Writes(o) => /\ obj.rv = current.rv /\ current.live
                         /\ versions' = versions => o = current
<1>1. Accepts(versions, obj) => obj.rv = current.rv /\ current.live
  BY DEF Accepts, current
<1>2. ASSUME Accepts(versions, obj), versions' = Commit(versions, o)
      PROVE  \/ versions' = versions /\ o = current
             \/ /\ versions' = NewVersion(versions, o)
                /\ versions' # versions
                /\ current' \in Objects
                /\ current' = [o EXCEPT !.rv = current.rv + 1, !.live = ~Gone(o)]
  <2>1. CASE o = current
    BY <1>2, <2>1 DEF Commit, current
  <2>2. CASE o # current
    <3>1. versions' = NewVersion(versions, o)
      BY <1>2, <2>2 DEF Commit, current
    <3>2. Len(versions') = Len(versions) + 1 /\ Len(versions) \in Nat
      BY <3>1, StoreTyped, NewVersionStream, StreamRange
    <3>3. versions' # versions
      BY <3>2
    <3>4. /\ current' \in Objects
          /\ current' = [o EXCEPT !.rv = current.rv + 1, !.live = ~Gone(o)]
      BY <3>1, NewStored
    <3> QED BY <3>1, <3>3, <3>4
  <2> QED BY <2>1, <2>2
<1> QED BY <1>1, <1>2 DEF Writes, WriteFails

(* A write that respects what Evolves asks, and leaves a sound object.     *)
SafeWrite(c, o, cloud) ==
    /\ o.uid = c.uid
    /\ c.id # NoID => o.id = c.id
    /\ c.deleting => o.deleting
    /\ c.obsGen <= o.obsGen /\ o.obsGen <= o.gen
    /\ GivenUp(c) /\ o.gen = c.gen => GivenUp(o)
    /\ o.id # NoID => /\ cloud[o.id].state # "NONE"
                      /\ cloud[o.id].uid = o.uid
                      /\ cloud[o.id].gen <= o.gen
    /\ o.id # NoID /\ ~o.fin => cloud[o.id].state \in Ending

(* A safe write of a handler leaves the store sound.                       *)
LEMMA SafeWriteSound ==
  ASSUME SharedInv, NEW o \in Objects, Writes(o) \/ WriteFails(o), UNCHANGED oci,
         obj.rv = current.rv /\ current.live => SafeWrite(current, o, oci)
  PROVE  Sound(current', oci') /\ Evolves(current, current')
<1>1. TypeOK /\ Sound(current, oci) /\ current \in Objects
  BY StoreSound, StoreTyped DEF SharedInv
<1>2. CASE versions' = versions
  BY <1>1, <1>2 DEF Evolves, current
<1>3. CASE versions' # versions
  <2>1. /\ obj.rv = current.rv /\ current.live /\ current' \in Objects
        /\ current' = [o EXCEPT !.rv = current.rv + 1, !.live = ~Gone(o)]
    BY <1>1, <1>3, WriteStore
  <2>2. SafeWrite(current, o, oci)
    BY <2>1
  <2>3. /\ current'.uid = o.uid /\ current'.id = o.id /\ current'.fin = o.fin
        /\ current'.deleting = o.deleting /\ current'.obsGen = o.obsGen
        /\ current'.gen = o.gen /\ current'.rv = current.rv + 1
        /\ current'.phase = o.phase /\ current'.live = ~Gone(o)
    BY <2>1 DEF Objects, Object
  <2>4. current'.rv > current.rv
    BY <1>1, <2>3 DEF Objects, Object
  <2>5. current'.live \/ ~current'.fin
    BY <2>3 DEF Gone
  <2> QED BY <2>2, <2>3, <2>4, <2>5 DEF Sound, Evolves, SafeWrite, GivenUp
<1> QED BY <1>2, <1>3

(* A version in the stream is the one now stored or was in it before.      *)
StreamGoesOn ==
    \A k \in 1 .. Len(versions') :
      \/ versions'[k] = current'
      \/ \E j \in 1 .. Len(versions) : versions'[k] = versions[j]

(* So it is when something is written or delivered.                        *)
LEMMA StreamMoves ==
  ASSUME TypeOK, TypeOK',
         \/ versions' = versions
         \/ \E o \in Objects : versions' = NewVersion(versions, o)
         \/ Len(versions) > 1 /\ versions' = Tail(versions)
  PROVE  StreamGoesOn
<1>0. versions \in Streams /\ versions' \in Streams
  BY DEF TypeOK, Streams, Objects
<1> SUFFICES ASSUME NEW k \in 1 .. Len(versions')
             PROVE  \/ versions'[k] = current'
                    \/ \E j \in 1 .. Len(versions) : versions'[k] = versions[j]
  BY DEF StreamGoesOn
<1>1. CASE versions' = versions
  BY <1>1
<1>2. CASE \E o \in Objects : versions' = NewVersion(versions, o)
  <2>1. PICK o \in Objects : versions' = NewVersion(versions, o)
    BY <1>2
  <2>2. /\ Len(versions') = Len(versions) + 1
        /\ \A j \in 1 .. Len(versions) : versions'[j] = versions[j]
    <3>1. /\ Len(NewVersion(versions, o)) = Len(versions) + 1
          /\ \A j \in 1 .. Len(versions) : NewVersion(versions, o)[j] = versions[j]
      BY <1>0, NewVersionStream
    <3> QED BY <2>1, <3>1
  <2>3. k \in 1 .. Len(versions) \/ k = Len(versions')
    BY <1>0, <2>2, StreamRange
  <2> QED BY <2>2, <2>3 DEF Stored, current
<1>3. CASE Len(versions) > 1 /\ versions' = Tail(versions)
  BY <1>0, <1>3, TailStream, StreamRange
<1> QED BY <1>1, <1>2, <1>3

(* The informer's and the cache's copies stay known.                       *)
LEMMA StreamStaysKnown ==
  ASSUME SharedInv, TypeOK', Evolves(current, current'), OCIKeeps(oci, oci'),
         StreamGoesOn
  PROVE  StreamIsKnown'
<1>0. TypeOK /\ Sound(current, oci) /\ StreamIsKnown
  BY StoreSound DEF SharedInv
<1>1. /\ versions \in Streams /\ versions' \in Streams
      /\ current \in Objects /\ current' \in Objects
  BY <1>0, StreamRange DEF TypeOK, Streams, Objects, current
<1>2. \A k \in 1 .. Len(versions) : versions[k] \in Objects
  BY <1>1 DEF Streams
<1>3. \A k \in 1 .. Len(versions) : Known(versions[k], current', oci')
  BY <1>0, <1>1, <1>2, KnownKept DEF StreamIsKnown
<1>4. Known(current', current', oci')
  BY <1>1 DEF Known, Objects, Object
<1>5. \A k \in 1 .. Len(versions') : Known(versions'[k], current', oci')
  BY <1>3, <1>4 DEF StreamGoesOn
<1> QED BY <1>5 DEF StreamIsKnown

-----------------------------------------------------------------------------
(* Every step.  StoreStep says what a step does to the store and to OCI,   *)
(* and that the store it leaves is sound; the hands of the worker follow.  *)
StoreStep ==
    /\ Evolves(current, current')
    /\ OCIKeeps(oci, oci')
    /\ Sound(current', oci')

(* Steps of the worker that read, decide or call OCI leave the store.      *)
LEMMA ReadOnly ==
  ASSUME SharedInv, UNCHANGED versions, OCIKeeps(oci, oci')
  PROVE  StoreStep /\ current' = current
BY StoreSound, StoreTyped, SoundUnderOCI DEF SharedInv, StoreStep, Evolves, current

(* OCI evolves lawfully when nothing happens in it.                        *)
LEMMA OCIKept == oci' = oci => OCIKeeps(oci, oci')
BY DEF OCIKeeps

(* What the worker takes from the cache is known.                          *)
LEMMA CacheKnown ==
  ASSUME SharedInv
  PROVE  Known(Cached(versions), current, oci)
BY StoreTyped, StreamRange DEF SharedInv, StreamIsKnown, Cached

(* A handler that returns has nothing in its hands.                        *)
LEMMA IdleHands ==
  ASSUME pc' = "idle"
  PROVE  (HandDeletes /\ HandReads /\ HandLaunches /\ HandSyncs)'
BY DEF HandDeletes, HandReads, HandLaunches, HandSyncs

(* An update commits what the handler's copy, the stored object itself,    *)
(* has been changed into.                                                  *)
LEMMA UpdateStep ==
  ASSUME SharedInv, AddFinalizer \/ RemoveFinalizer \/ MarkProvisioning \/ RecordInstance
               \/ SyncStatus \/ (SetFailed /\ UNCHANGED <<client, oci>>)
  PROVE  StoreStep
<1> USE DEF SafeWrite, GivenUp
<1>0. /\ TypeOK /\ Sound(current, oci)
      /\ obj \in Objects /\ current \in Objects /\ oci \in [InstanceIDs -> OCIRecord]
  BY StoreSound, StoreTyped DEF SharedInv
<1>1. current.obsGen \in Nat /\ current.gen \in Nat
  BY <1>0 DEF Objects, Object
<1>2. ASSUME NEW o \in Objects, Writes(o) \/ WriteFails(o), UNCHANGED oci,
             obj.rv = current.rv => SafeWrite(current, o, oci)
      PROVE  StoreStep
  BY <1>2, SafeWriteSound, OCIKept DEF StoreStep
<1>3. CASE AddFinalizer
  <2>1. pc = "addFinalizer" /\ UNCHANGED oci
    BY <1>3 DEF AddFinalizer, Write
  <2>2. obj.rv = current.rv => obj = current
    BY <2>1 DEF SharedInv, HandReads, Known
  <2>3. obj.rv = current.rv => SafeWrite(current, [obj EXCEPT !.fin = TRUE], oci)
    BY <1>0, <1>1, <2>2 DEF Sound, Objects, Object
  <2> QED BY <1>0, <1>2, <1>3, <2>1, <2>3, CopyType DEF AddFinalizer, Write
<1>4. CASE RemoveFinalizer
  <2>1. pc = "removeFinalizer" /\ UNCHANGED oci
    BY <1>4 DEF RemoveFinalizer, Write
  <2>2. /\ obj.rv = current.rv => obj = current
        /\ obj.id # NoID => oci[obj.id].state \in Ending
    BY <2>1 DEF SharedInv, HandDeletes, Known
  <2>3. obj.rv = current.rv => SafeWrite(current, [obj EXCEPT !.fin = FALSE], oci)
    BY <1>0, <1>1, <2>2 DEF Sound, Objects, Object
  <2> QED BY <1>0, <1>2, <1>4, <2>1, <2>3, CopyType DEF RemoveFinalizer, Write
<1>5. CASE MarkProvisioning
  <2>1. pc = "markProvisioning" /\ UNCHANGED oci
    BY <1>5 DEF MarkProvisioning, Write
  <2>2. /\ obj.rv = current.rv => obj = current
        /\ obj.id = NoID /\ ~GivenUp(obj)
    BY <2>1 DEF SharedInv, HandReads, Known
  <2>3. obj.rv = current.rv => SafeWrite(current, [obj EXCEPT !.phase = "Provisioning"], oci)
    BY <1>0, <1>1, <2>2 DEF Sound, Objects, Object
  <2> QED BY <1>0, <1>2, <1>5, <2>1, <2>3, CopyType DEF MarkProvisioning, Write
<1>6. CASE RecordInstance
  <2>1. pc = "record" /\ UNCHANGED oci
    BY <1>6 DEF RecordInstance, Write
  <2>2. /\ obj.rv = current.rv => /\ current.fin /\ current.id = NoID
                                 /\ current.phase = "Provisioning"
                                 /\ obj = Recorded(current, obj.id)
        /\ obj.id # NoID /\ oci[obj.id].state # "NONE"
        /\ oci[obj.id].uid = obj.uid /\ oci[obj.id].gen = obj.gen
    BY <2>1 DEF SharedInv, HandLaunches
  <2>3. ASSUME obj.rv = current.rv
        PROVE  SafeWrite(current, obj, oci)
    <3>1. /\ obj.uid = current.uid /\ obj.fin = current.fin /\ obj.gen = current.gen
          /\ obj.deleting = current.deleting /\ obj.obsGen = current.gen
      BY <1>0, <2>2, <2>3 DEF Recorded, SetObservedGeneration, Objects, Object
    <3> QED BY <1>0, <1>1, <2>2, <2>3, <3>1 DEF Sound
  <2> QED BY <1>0, <1>2, <1>6, <2>1, <2>3 DEF RecordInstance, Write
<1>7. CASE SyncStatus
  <2>1. pc = "syncStatus" /\ UNCHANGED oci
    BY <1>7 DEF SyncStatus, Write
  <2>2. ASSUME obj.rv = current.rv
        PROVE  SafeWrite(current, obj, oci)
    <3>1. /\ obj = [current EXCEPT !.phase = obj.phase, !.obsGen = obj.obsGen]
          /\ obj.obsGen \in {current.obsGen, current.gen}
          /\ ~GivenUp(current)
      BY <2>1, <2>2 DEF SharedInv, HandSyncs
    <3>2. /\ obj.uid = current.uid /\ obj.fin = current.fin /\ obj.gen = current.gen
          /\ obj.deleting = current.deleting /\ obj.id = current.id
      BY <1>0, <3>1 DEF Objects, Object
    <3> QED BY <1>0, <1>1, <3>1, <3>2 DEF Sound
  <2> QED BY <1>0, <1>2, <1>7, <2>1, <2>2 DEF SyncStatus, Write
<1>8. CASE SetFailed /\ UNCHANGED <<client, oci>>
  <2>1. pc = "setFailed" /\ UNCHANGED oci
    BY <1>8 DEF SetFailed
  <2>2. obj.rv = current.rv => obj = current
    BY <2>1 DEF SharedInv, HandReads, Known
  <2>3. obj.rv = current.rv => SafeWrite(current, MarkedFailed(obj), oci)
    BY <1>0, <1>1, <2>2
       DEF Sound, Objects, Object, MarkedFailed, SetFailedStatus, SetObservedGeneration
  <2> QED BY <1>0, <1>2, <1>8, <2>1, <2>3, CopyType DEF SetFailed
<1> QED BY <1>3, <1>4, <1>5, <1>6, <1>7, <1>8

(* After an update the handler has returned, or it goes on to the launch   *)
(* with the copy the API server answered with.                             *)
LEMMA UpdateHands ==
  ASSUME SharedInv, TypeOK',
         AddFinalizer \/ RemoveFinalizer \/ MarkProvisioning \/ RecordInstance
           \/ SyncStatus \/ (SetFailed /\ UNCHANGED <<client, oci>>)
  PROVE  (HandDeletes /\ HandReads /\ HandLaunches /\ HandSyncs)'
<1>0. TypeOK /\ obj \in Objects /\ current \in Objects
  BY StoreTyped DEF SharedInv
<1>1. CASE ~MarkProvisioning
  <2>1. pc' = "idle"
    BY <1>1 DEF AddFinalizer, RemoveFinalizer, RecordInstance, SyncStatus, SetFailed, Write,
                WriteFails, Return
  <2> QED BY <2>1, IdleHands
<1>2. CASE MarkProvisioning
  <2> DEFINE o == [obj EXCEPT !.phase = "Provisioning"]
  <2>1. pc = "markProvisioning" /\ ((Writes(o) /\ Proceed("launch", current')) \/ WriteFails(o))
    BY <1>2 DEF MarkProvisioning, Write, current
  <2>2. CASE WriteFails(o)
    BY <2>2, IdleHands DEF WriteFails, Return
  <2>3. CASE Writes(o) /\ Proceed("launch", current')
    <3>1. /\ o \in Objects /\ ~o.deleting /\ o.fin /\ o.id = NoID
          /\ o.phase = "Provisioning"
      BY <1>0, <2>1 DEF SharedInv, HandReads, Objects, Object, Phases
    <3>2. /\ current.live
          /\ \/ versions' = versions /\ o = current
             \/ current' = [o EXCEPT !.rv = current.rv + 1, !.live = ~Gone(o)]
      BY <1>0, <2>3, <3>1, WriteStore
    <3> HIDE DEF o
    <3>3. /\ current'.live /\ ~current'.deleting /\ current'.fin /\ current'.id = NoID
          /\ current'.phase = "Provisioning"
      <4>1. CASE versions' = versions /\ o = current
        BY <3>1, <3>2, <4>1 DEF current
      <4>2. CASE current' = [o EXCEPT !.rv = current.rv + 1, !.live = ~Gone(o)]
        BY <3>1, <4>2 DEF Gone, Objects, Object
      <4> QED BY <3>2, <4>1, <4>2
    <3>4. pc' = "launch" /\ obj' = current'
      BY <2>3 DEF Proceed
    <3>5. current'.rv <= current'.rv
      BY <3>4 DEF TypeOK, Object
    <3>6. HandLaunches'
      BY <3>3, <3>4, <3>5 DEF HandLaunches
    <3> QED BY <3>4, <3>6 DEF HandDeletes, HandReads, HandSyncs
  <2> QED BY <2>1, <2>2, <2>3
<1> QED BY <1>1, <1>2

(* The worker begins a reconcile from the cache ...                        *)
LEMMA BeginStep ==
  ASSUME SharedInv, HandleDeletion \/ EnsureFinalizer \/ ReconcileInstance
               \/ (Refetch /\ UNCHANGED <<client, oci>>)
  PROVE  /\ StoreStep /\ UNCHANGED versions
         /\ (HandDeletes /\ HandReads /\ HandLaunches /\ HandSyncs)'
<1>1. UNCHANGED <<versions, oci>>
  BY DEF HandleDeletion, EnsureFinalizer, ReconcileInstance, Refetch
<1>2. StoreStep /\ current' = current
  BY <1>1, ReadOnly, OCIKept
<1>3. Known(Cached(versions), current', oci')
  BY <1>1, <1>2, CacheKnown
<1>4. CASE HandleDeletion
  BY <1>1, <1>2, <1>3, <1>4 DEF HandleDeletion, Proceed, HandDeletes, HandReads, HandLaunches, HandSyncs
<1>5. CASE EnsureFinalizer \/ ReconcileInstance
  BY <1>1, <1>2, <1>3, <1>5 DEF EnsureFinalizer, ReconcileInstance, Proceed, HandDeletes, HandReads,
                                HandLaunches, HandSyncs, GivenUp
<1>6. CASE Refetch
  BY <1>1, <1>2, <1>3, <1>6, IdleHands DEF Refetch, Proceed, Return, HandDeletes, HandReads,
                                           HandLaunches, HandSyncs
<1> QED BY <1>1, <1>2, <1>4, <1>5, <1>6

(* ... and calls OCI with what it then holds.                              *)
LEMMA CallStep ==
  ASSUME SharedInv, Terminate \/ Launch \/ GetInstance
  PROVE  /\ StoreStep /\ UNCHANGED versions
         /\ (HandDeletes /\ HandReads /\ HandLaunches /\ HandSyncs)'
<1>0. /\ TypeOK /\ Sound(current, oci)
      /\ obj \in Objects /\ current \in Objects /\ oci \in [InstanceIDs -> OCIRecord]
  BY StoreSound, StoreTyped DEF SharedInv
<1>1. UNCHANGED versions
  BY DEF Terminate, Launch, GetInstance
<1>2. CASE Terminate
  <2>1. OCIKeeps(oci, oci')
    <3>1. \/ oci' = oci
          \/ /\ oci[obj.id].state # "PURGED"
             /\ oci' = [oci EXCEPT ![obj.id].state = "TERMINATING"]
      BY <1>2 DEF Terminate, Terminated
    <3> QED BY <1>0, <3>1 DEF OCIKeeps, OCIRecord, Ending
  <2>2. StoreStep /\ current' = current
    BY <1>1, <2>1, ReadOnly
  <2>3. CASE pc' = "idle"
    BY <1>1, <2>2, <2>3, IdleHands
  <2>4. CASE pc' # "idle"
    <3>1. /\ pc = "terminate" /\ pc' = "removeFinalizer" /\ obj' = obj
          /\ oci' = Terminated(obj.id)
      BY <1>2, <2>4 DEF Terminate, Return, Proceed
    <3>2. Known(obj, current, oci) /\ obj.deleting /\ obj.id # NoID
      BY <3>1 DEF SharedInv, HandDeletes
    <3>3. Known(obj, current', oci')
      BY <1>0, <2>1, <2>2, <3>2, KnownKept DEF StoreStep
    <3>4. oci'[obj.id].state \in Ending
      BY <1>0, <3>1, <3>2 DEF Terminated, Ending, Objects, Object, OCIRecord
    <3>5. HandDeletes'
      BY <3>1, <3>2, <3>3, <3>4 DEF HandDeletes
    <3> QED BY <1>1, <2>2, <3>1, <3>5 DEF HandReads, HandLaunches, HandSyncs
  <2> QED BY <2>3, <2>4
<1>3. CASE Launch
  <2>1. OCIKeeps(oci, oci')
    <3>1. \/ oci' = oci
          \/ \E i \in InstanceIDs :
               /\ oci[i].state = "NONE"
               /\ \A j \in InstanceIDs \ {i} : oci'[j] = oci[j]
      BY <1>0, <1>3 DEF Launch
    <3> QED BY <3>1 DEF OCIKeeps, Ending
  <2>2. StoreStep /\ current' = current
    BY <1>1, <2>1, ReadOnly
  <2>3. /\ pc = "launch" /\ obj.rv <= current.rv /\ obj.id = NoID
        /\ obj.rv = current.rv =>
             /\ obj = current
             /\ current.live /\ ~current.deleting /\ current.fin /\ current.id = NoID
             /\ current.phase = "Provisioning"
    BY <1>3 DEF Launch, SharedInv, HandLaunches
  <2>4. CASE pc' = "record"
    <3>1. PICK i \in InstanceIDs :
            /\ obj' = Recorded(obj, i)
            /\ oci' = [oci EXCEPT ![i] = [state |-> "PROVISIONING", uid |-> obj.uid, gen |-> obj.gen]]
      BY <1>3, <2>4 DEF Launch, Proceed, GiveUp
    <3>2. /\ obj'.rv = obj.rv /\ obj'.uid = obj.uid /\ obj'.gen = obj.gen /\ obj'.id = i
      BY <1>0, <3>1 DEF Recorded, SetObservedGeneration, Objects, Object
    <3>3. /\ oci'[i].state = "PROVISIONING" /\ oci'[i].uid = obj.uid /\ oci'[i].gen = obj.gen
      BY <1>0, <3>1
    <3>4. i # NoID
      BY IDAssumption
    <3>5. obj'.rv = current'.rv =>
            /\ current'.live /\ ~current'.deleting /\ current'.fin /\ current'.id = NoID
            /\ current'.phase = "Provisioning"
            /\ obj' = Recorded(current', obj'.id)
      BY <2>2, <2>3, <3>1, <3>2
    <3>6. HandLaunches'
      BY <2>2, <2>3, <2>4, <3>2, <3>3, <3>4, <3>5 DEF HandLaunches
    <3> QED BY <1>1, <2>2, <2>4, <3>6 DEF HandDeletes, HandReads, HandSyncs
  <2>5. CASE pc' = "refetch"
    <3>1. obj' = obj
      BY <1>3, <2>5 DEF Launch, Proceed, GiveUp
    <3>2. obj.rv <= current'.rv /\ (obj.rv = current'.rv => obj = current') /\ obj.id = NoID
      BY <2>2, <2>3
    <3>3. HandReads'
      BY <2>5, <3>1, <3>2 DEF HandReads, Known
    <3> QED BY <1>1, <2>2, <2>5, <3>3 DEF HandDeletes, HandLaunches, HandSyncs
  <2> QED BY <1>3, <2>4, <2>5 DEF Launch, GiveUp, Proceed
<1>4. CASE GetInstance
  <2>1. StoreStep /\ current' = current
    BY <1>1, <1>4, ReadOnly, OCIKept DEF GetInstance
  <2>2. CASE pc' = "idle"
    BY <1>1, <2>1, <2>2, IdleHands
  <2>3. CASE pc' # "idle"
    <3>1. pc = "getInstance" /\ pc' = "syncStatus" /\ obj' = Synced(obj, oci[obj.id].state)
      BY <1>4, <2>3 DEF GetInstance, Return, Proceed
    <3>2. Known(obj, current, oci) /\ ~GivenUp(obj) /\ obj.id # NoID
      BY <3>1 DEF SharedInv, HandReads
    <3>3. /\ obj'.rv = obj.rv /\ obj'.id = obj.id
          /\ obj' = [obj EXCEPT !.phase = obj'.phase, !.obsGen = obj'.obsGen]
          /\ obj'.obsGen \in {obj.obsGen, obj.gen}
      BY <1>0, <3>1 DEF Synced, SetObservedGeneration, Objects, Object
    <3>4. HandSyncs'
      BY <2>1, <3>1, <3>2, <3>3 DEF HandSyncs, Known, GivenUp
    <3> QED BY <1>1, <2>1, <3>1, <3>4 DEF HandDeletes, HandReads, HandLaunches
  <2> QED BY <2>2, <2>3
<1> QED BY <1>2, <1>3, <1>4

(* The world around the worker: users, OCI, the informer, timers, crashes. *)
LEMMA WorldStep ==
  ASSUME SharedInv, TypeOK',
         \/ ReconcileNothing \/ Cloud \/ Restart \/ UNCHANGED vars
         \/ Runtime /\ UNCHANGED <<attempt, client, oci>>
  PROVE  /\ StoreStep
         /\ \/ versions' = versions
            \/ \E o \in Objects : versions' = NewVersion(versions, o)
            \/ Len(versions) > 1 /\ versions' = Tail(versions)
         /\ (HandDeletes /\ HandReads /\ HandLaunches /\ HandSyncs)'
<1>0. /\ TypeOK /\ Sound(current, oci) /\ versions \in Streams
      /\ current \in Objects /\ oci \in [InstanceIDs -> OCIRecord]
  BY StoreSound, StoreTyped DEF SharedInv
<1>1. CASE ReconcileNothing \/ UNCHANGED vars
  <2>1. UNCHANGED <<versions, pc, obj, oci>>
    BY <1>1 DEF ReconcileNothing, vars
  <2>2. StoreStep /\ current' = current
    BY <2>1, ReadOnly, OCIKept
  <2> QED BY <2>1, <2>2, HandsKept DEF StoreStep
<1>2. CASE Cloud
  <2>1. UNCHANGED <<versions, pc, obj>>
    BY <1>2 DEF Cloud, Progress, Purge, Console, workerVars
  <2>2. OCIKeeps(oci, oci')
    BY <1>0, <1>2 DEF Cloud, Progress, Purge, Console, OCIKeeps, OCIRecord, Ending
  <2>3. StoreStep /\ current' = current
    BY <2>1, <2>2, ReadOnly
  <2> QED BY <2>1, <2>3, HandsKept DEF StoreStep
<1>3. CASE Restart
  <2>1. UNCHANGED <<versions, oci>> /\ pc' = "idle"
    BY <1>3 DEF Restart, RuntimeRestart
  <2> QED BY <2>1, ReadOnly, OCIKept, IdleHands
<1>4. CASE Deliver /\ UNCHANGED <<attempt, client, oci>>
  <2>1. UNCHANGED <<pc, obj, oci>> /\ Len(versions) > 1 /\ versions' = Tail(versions)
    BY <1>4 DEF Deliver, workerVars
  <2>2. current' = current
    BY <1>0, <2>1, TailStream DEF current
  <2>3. StoreStep
    BY <1>0, <2>1, <2>2, OCIKept DEF StoreStep, Evolves
  <2> QED BY <2>1, <2>2, <2>3, HandsKept DEF StoreStep
<1>5. CASE (TimerFires \/ Resync) /\ UNCHANGED <<attempt, client, oci>>
  <2>1. UNCHANGED <<versions, pc, obj, oci>>
    BY <1>5 DEF TimerFires, Resync, workerVars
  <2>2. StoreStep /\ current' = current
    BY <2>1, ReadOnly, OCIKept
  <2> QED BY <2>1, <2>2, HandsKept DEF StoreStep
<1>6. CASE Users /\ UNCHANGED <<attempt, client, oci>>
  <2>1. UNCHANGED <<pc, obj, oci>>
    BY <1>6 DEF Users, workerVars
  <2>2. UserStep(current, current') /\ current' \in Objects
    BY <1>0, <1>6, UsersStep
  <2>3. StoreStep
    BY <1>0, <2>1, <2>2, SoundUnderUsers, OCIKept DEF StoreStep
  <2>4. \E o \in Objects : versions' = NewVersion(versions, o)
    BY <1>0, <1>6, CopyType DEF Users, Create, EditSpec, Touch, Delete, ReleaseHold, current
  <2> QED BY <2>1, <2>2, <2>3, <2>4, HandsKept DEF StoreStep
<1> QED BY <1>1, <1>2, <1>3, <1>4, <1>5, <1>6 DEF Runtime

-----------------------------------------------------------------------------
(* Every step of the system keeps what holds of a process that may not be  *)
(* alone ...                                                               *)
LEMMA SharedStep ==
  ASSUME SharedInv, [Next]_vars
  PROVE  SharedInv' /\ StoreStep
<1>0. TypeOK /\ TypeOK'
  BY TypeStep DEF SharedInv
<1>1. CASE AddFinalizer \/ RemoveFinalizer \/ MarkProvisioning \/ RecordInstance
             \/ SyncStatus \/ (SetFailed /\ UNCHANGED <<client, oci>>)
  <2>1. StoreStep /\ (HandDeletes /\ HandReads /\ HandLaunches /\ HandSyncs)'
    BY <1>0, <1>1, UpdateStep, UpdateHands
  <2>2. \/ versions' = versions
        \/ \E o \in Objects : versions' = NewVersion(versions, o)
    <3>1. \E o \in Objects : Writes(o) \/ WriteFails(o)
      BY <1>0, <1>1, StoreTyped, CopyType
         DEF AddFinalizer, RemoveFinalizer, MarkProvisioning, RecordInstance, SyncStatus,
             SetFailed, Write
    <3> QED BY <1>0, <3>1, WriteStore
  <2>3. StreamIsKnown'
    BY <1>0, <2>1, <2>2, StreamMoves, StreamStaysKnown DEF StoreStep
  <2> QED BY <1>0, <2>1, <2>3, StoreSoundNext DEF SharedInv, StoreStep
<1>2. CASE \/ HandleDeletion \/ EnsureFinalizer \/ ReconcileInstance
           \/ (Refetch /\ UNCHANGED <<client, oci>>)
           \/ Terminate \/ Launch \/ GetInstance
  <2>1. /\ StoreStep /\ UNCHANGED versions
        /\ (HandDeletes /\ HandReads /\ HandLaunches /\ HandSyncs)'
    <3>1. CASE \/ HandleDeletion \/ EnsureFinalizer \/ ReconcileInstance
               \/ (Refetch /\ UNCHANGED <<client, oci>>)
      BY <3>1, BeginStep
    <3>2. CASE Terminate \/ Launch \/ GetInstance
      BY <3>2, CallStep
    <3> QED BY <1>2, <3>1, <3>2
  <2>2. StreamIsKnown'
    BY <1>0, <2>1, StreamMoves, StreamStaysKnown DEF StoreStep
  <2> QED BY <1>0, <2>1, <2>2, StoreSoundNext DEF SharedInv, StoreStep
<1>3. CASE \/ ReconcileNothing \/ Cloud \/ Restart \/ UNCHANGED vars
           \/ Runtime /\ UNCHANGED <<attempt, client, oci>>
  <2>1. /\ StoreStep
        /\ \/ versions' = versions
           \/ \E o \in Objects : versions' = NewVersion(versions, o)
           \/ Len(versions) > 1 /\ versions' = Tail(versions)
        /\ (HandDeletes /\ HandReads /\ HandLaunches /\ HandSyncs)'
    BY <1>0, <1>3, WorldStep
  <2>2. StreamIsKnown'
    BY <1>0, <2>1, StreamMoves, StreamStaysKnown DEF StoreStep
  <2> QED BY <1>0, <2>1, <2>2, StoreSoundNext DEF SharedInv, StoreStep
<1> QED BY <1>1, <1>2, <1>3 DEF Next, Worker

(* ... and, when it is, what a launch relies on ...                        *)
LEMMA AloneStep ==
  ASSUME IInv, SharedInv', [Next]_vars
  PROVE  LaunchesAlone'
<1> SUFFICES ASSUME pc' \in {"launch", "record"}
             PROVE  LaunchesAlone'
  BY DEF LaunchesAlone
<1>0. /\ TypeOK /\ TypeOK' /\ versions \in Streams
      /\ obj \in Objects /\ current \in Objects
  BY StoreTyped DEF IInv, SharedInv
<1>1. CASE MarkProvisioning
  <2>1. pc' = "launch" /\ obj' = current'
    BY <1>1 DEF MarkProvisioning, Write, WriteFails, Return, Proceed, current
  <2> QED BY <2>1 DEF SharedInv, HandLaunches, LaunchesAlone
<1>2. CASE Launch
  <2>1. pc = "launch" /\ current' = current
    BY <1>2 DEF Launch, current
  <2>2. obj'.uid = obj.uid
    BY <1>0, <1>2 DEF Launch, Proceed, GiveUp, Recorded, SetObservedGeneration, Objects, Object
  <2> QED BY <2>1, <2>2 DEF IInv, LaunchesAlone
<1>3. CASE \/ ReconcileNothing \/ Cloud \/ UNCHANGED vars
           \/ Runtime /\ UNCHANGED <<attempt, client, oci>>
  <2>1. UNCHANGED <<pc, obj>>
    BY <1>3 DEF ReconcileNothing, Cloud, Progress, Purge, Console, Runtime, Deliver, TimerFires,
                Resync, Users, workerVars, vars
  <2>2. LaunchesAlone /\ pc \in {"launch", "record"}
    BY <2>1 DEF IInv
  <2>3. current' = current \/ UserStep(current, current')
    <3>1. CASE Users
      BY <1>0, <3>1, UsersStep
    <3>2. CASE Deliver
      BY <1>0, <3>2, TailStream DEF Deliver, current
    <3>3. CASE ReconcileNothing \/ Cloud \/ TimerFires \/ Resync \/ UNCHANGED vars
      BY <3>3 DEF ReconcileNothing, Cloud, Progress, Purge, Console, TimerFires, Resync, vars,
                  current
    <3> QED BY <1>3, <3>1, <3>2, <3>3 DEF Runtime
  <2> QED BY <2>1, <2>2, <2>3 DEF LaunchesAlone, UserStep
<1>4. CASE \/ HandleDeletion \/ EnsureFinalizer \/ ReconcileInstance \/ Terminate
           \/ AddFinalizer \/ RemoveFinalizer \/ RecordInstance \/ SyncStatus \/ GetInstance
           \/ Refetch \/ SetFailed \/ Restart
  BY <1>4 DEF HandleDeletion, EnsureFinalizer, ReconcileInstance, Terminate, AddFinalizer,
              RemoveFinalizer, RecordInstance, SyncStatus, GetInstance, Refetch, SetFailed,
              Restart, RuntimeRestart, Write, WriteFails, Proceed, Return
<1> QED BY <1>1, <1>2, <1>3, <1>4 DEF Next, Worker

(* ... so that the inductive invariant is kept ...                         *)
LEMMA InvStep ==
  ASSUME IInv, [Next]_vars
  PROVE  IInv' /\ StoreStep
BY SharedStep, AloneStep DEF IInv

(* ... which holds when the manager starts on an empty name.               *)
LEMMA InvInit == Init => IInv
<1> SUFFICES ASSUME Init PROVE IInv
  OBVIOUS
<1>1. TypeOK
  BY TypeInit
<1>2. versions = <<NoObject>> /\ pc = "idle"
  BY DEF Init, RuntimeInit
<1>3. current = NoObject /\ Len(versions) = 1 /\ versions[1] = NoObject
  BY <1>2 DEF current, Stored
<1>a. NoObject.id = NoID /\ NoObject.rv = 0 /\ ~NoObject.fin
      /\ NoObject.obsGen = 0 /\ NoObject.gen = 0
  BY DEF NoObject
<1>4. StreamIsKnown
  <2>1. Known(NoObject, NoObject, oci)
    BY <1>a DEF Known
  <2>2. \A k \in 1 .. Len(versions) : k = 1
    BY <1>3
  <2> QED BY <1>3, <2>1, <2>2 DEF StreamIsKnown
<1>5. StoreIsSound
  BY <1>3, <1>a DEF StoreIsSound, RecordedIsOwn, ReleasedIsEnding
<1> QED BY <1>1, <1>2, <1>4, <1>5 DEF IInv, SharedInv, HandDeletes, HandReads, HandLaunches,
                                      HandSyncs, LaunchesAlone

(* The inductive invariant: what a handler and the cache hold is an old    *)
(* truth about the store, never a false one.                               *)
THEOREM InvCorrect == Spec => []IInv
BY InvInit, InvStep, PTL DEF Spec

-----------------------------------------------------------------------------
(* The safety properties.                                                  *)

(* The recorded instance is the resource's own.                            *)
THEOREM RecordedIsOwnCorrect == Spec => []RecordedIsOwn
<1>1. IInv => RecordedIsOwn
  BY DEF IInv, SharedInv, StoreIsSound
<1> QED BY <1>1, InvCorrect, PTL

(* The finalizer goes only once the recorded instance is ending.           *)
THEOREM ReleasedIsEndingCorrect == Spec => []ReleasedIsEnding
<1>1. IInv => ReleasedIsEnding
  BY DEF IInv, SharedInv, StoreIsSound
<1> QED BY <1>1, InvCorrect, PTL

(* status.instanceId is written once per incarnation.                      *)
THEOREM RecordedIDIsKeptCorrect == Spec => RecordedIDIsKept
<1>1. IInv /\ [Next]_vars =>
        [current.id # NoID /\ current'.uid = current.uid => current'.id = current.id]_vars
  BY InvStep DEF StoreStep, Evolves
<1> QED BY <1>1, InvCorrect, PTL DEF Spec, RecordedIDIsKept

(* status.observedGeneration grows towards the generation.                 *)
THEOREM ObservedGenerationGrowsCorrect == Spec => ObservedGenerationGrows
<1>1. ASSUME IInv, [Next]_vars, current'.uid = current.uid
      PROVE  current.obsGen <= current'.obsGen /\ current'.obsGen <= current'.gen
  <2>1. Evolves(current, current') /\ current.obsGen <= current.gen
    BY <1>1, InvStep DEF StoreStep, IInv, SharedInv, StoreIsSound
  <2>2. current.obsGen \in Nat
    BY <1>1, StoreTyped DEF IInv, SharedInv, Objects, Object
  <2> QED BY <1>1, <2>1, <2>2 DEF Evolves
<1>2. IInv /\ [Next]_vars =>
        [current'.uid = current.uid =>
           current.obsGen <= current'.obsGen /\ current'.obsGen <= current'.gen]_vars
  BY <1>1
<1> QED BY <1>2, InvCorrect, PTL DEF Spec, ObservedGenerationGrows

(* A generation given up stays given up.                                   *)
THEOREM GivenUpIsFinalCorrect == Spec => GivenUpIsFinal
<1>1. ASSUME IInv, [Next]_vars, GivenUp(current), current'.uid = current.uid,
             current'.gen = current.gen
      PROVE  GivenUp(current')
  BY <1>1, InvStep DEF StoreStep, Evolves
<1>2. IInv /\ [Next]_vars =>
        [GivenUp(current) /\ current'.uid = current.uid /\ current'.gen = current.gen
           => GivenUp(current')]_vars
  BY <1>1
<1>3. GivenUp(current)' <=> GivenUp(current')
  BY DEF GivenUp
<1> QED BY <1>2, <1>3, InvCorrect, PTL DEF Spec, GivenUpIsFinal

(* OCI's state of an instance changes through a launch, a termination or   *)
(* OCI itself.                                                             *)
LEMMA OCISteps ==
  ASSUME [Next]_vars, oci' # oci
  PROVE  Launch \/ Terminate \/ Cloud
BY DEF Next, Worker, Restart, ReconcileNothing, HandleDeletion, EnsureFinalizer,
       ReconcileInstance, AddFinalizer, RemoveFinalizer, MarkProvisioning, RecordInstance,
       GetInstance, SyncStatus, Write, vars

(* A launch is for the resource that exists, unclaimed and not given up.   *)
THEOREM LaunchIsSafeCorrect == Spec => LaunchIsSafe
<1>1. ASSUME IInv, [Next]_vars, NEW i \in InstanceIDs,
             oci[i].state = "NONE", oci'[i].state # "NONE"
      PROVE  /\ current.live /\ current.fin /\ current.uid = oci'[i].uid
             /\ current.id = NoID
             /\ ~GivenUp(current)
  <2>0. /\ TypeOK /\ Sound(current, oci)
        /\ obj \in Objects /\ oci \in [InstanceIDs -> OCIRecord]
    BY <1>1, StoreSound, StoreTyped DEF IInv, SharedInv
  <2>1. Launch \/ Terminate \/ Cloud
    BY <1>1, OCISteps
  <2>2. ~Cloud
    BY <1>1, <2>0 DEF Cloud, Progress, Purge, Console, OCIRecord
  <2>3. ASSUME Terminate PROVE FALSE
    <3>1. /\ pc = "terminate" /\ obj.id = i
      BY <1>1, <2>0, <2>3 DEF Terminate, Terminated
    <3>2. Known(obj, current, oci) /\ obj.id # NoID
      BY <1>1, <3>1 DEF IInv, SharedInv, HandDeletes
    <3>3. current.id = i
      BY <1>1, <3>1, <3>2 DEF Known, Ending
    <3> QED BY <1>1, <2>0, <3>1, <3>2, <3>3 DEF Sound
  <2>4. CASE Launch
    <3>1. pc = "launch" /\ oci'[i].uid = obj.uid
      BY <1>1, <2>0, <2>4 DEF Launch
    <3>2. /\ current.live /\ current.fin /\ current.id = NoID
          /\ current.uid = obj.uid /\ current.phase = "Provisioning"
      BY <1>1, <3>1 DEF IInv, LaunchesAlone
    <3> QED BY <3>1, <3>2 DEF GivenUp
  <2> QED BY <2>1, <2>2, <2>3, <2>4
<1>2. IInv /\ [Next]_vars =>
        [\A i \in InstanceIDs :
           oci[i].state = "NONE" /\ oci'[i].state # "NONE" =>
             /\ current.live /\ current.fin /\ current.uid = oci'[i].uid
             /\ current.id = NoID
             /\ ~GivenUp(current)]_vars
  BY <1>1
<1> QED BY <1>2, InvCorrect, PTL DEF Spec, LaunchIsSafe

(* The reconciler ends only the instance of a resource being deleted.      *)
THEOREM TerminateIsWantedCorrect == Spec => TerminateIsWanted
<1>1. ASSUME IInv, [Next]_vars, NEW i \in InstanceIDs,
             pc = "terminate", pc' # "terminate",
             oci[i].state \notin Ending, oci'[i].state \in Ending
      PROVE  current.id = i /\ current.deleting
  <2>0. TypeOK /\ oci \in [InstanceIDs -> OCIRecord]
    BY <1>1, StoreTyped DEF IInv, SharedInv
  <2>1. Terminate
    BY <1>1, OCISteps DEF Launch, Cloud, Progress, Purge, Console, workerVars
  <2>2. obj.id = i
    BY <1>1, <2>0, <2>1 DEF Terminate, Terminated
  <2>3. Known(obj, current, oci) /\ obj.deleting /\ obj.id # NoID
    BY <1>1 DEF IInv, SharedInv, HandDeletes
  <2> QED BY <1>1, <2>2, <2>3 DEF Known
<1>2. IInv /\ [Next]_vars =>
        [\A i \in InstanceIDs :
           /\ pc = "terminate" /\ pc' # "terminate"
           /\ oci[i].state \notin Ending /\ oci'[i].state \in Ending
           => current.id = i /\ current.deleting]_vars
  BY <1>1
<1> QED BY <1>2, InvCorrect, PTL DEF Spec, TerminateIsWanted
=============================================================================
