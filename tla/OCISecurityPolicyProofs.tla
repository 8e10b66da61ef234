---------------------- MODULE OCISecurityPolicyProofs ----------------------
(***************************************************************************)
(* Proofs of the safety properties of the OCISecurityPolicy reconciler, for any  *)
(* set of OCIDs and any bounds.                                            *)
(***************************************************************************)
EXTENDS OCISecurityPolicyProperties, TLAPS

Objects == Object(ListIDs, Phases)
Streams == {v \in Seq(Objects) : Len(v) > 0}

-----------------------------------------------------------------------------
(* The watch stream: what its operators return.                            *)

(* A stored object is an object, and so is a cached one.                   *)
LEMMA StreamRange ==
  ASSUME NEW v \in Streams
  PROVE  Len(v) \in Nat \ {0} /\ Stored(v) \in Objects /\ Cached(v) \in Objects
BY DEF Streams, Stored, Cached

(* A new version becomes the stored object and leaves the others in place. *)
LEMMA NewVersionStream ==
  ASSUME NEW v \in Streams, NEW o \in Objects
  PROVE  /\ NewVersion(v, o) \in Streams
         /\ Len(NewVersion(v, o)) = Len(v) + 1
         /\ Stored(NewVersion(v, o)) =
              [o EXCEPT !.rv = Stored(v).rv + 1, !.live = ~Gone(o)]
         /\ \A k \in 1 .. Len(v) : NewVersion(v, o)[k] = v[k]
<1> DEFINE new == [o EXCEPT !.rv = Stored(v).rv + 1, !.live = ~Gone(o)]
<1>1. new \in Objects
  <2>1. Stored(v).rv + 1 \in Nat
    BY StreamRange DEF Objects, Object
  <2>2. (~Gone(o)) \in BOOLEAN
    BY Zenon DEF Gone
  <2> QED BY <2>1, <2>2 DEF Objects, Object
<1>2. NewVersion(v, o) = Append(v, new)
  BY DEF NewVersion
<1> HIDE DEF new
<1>3. Append(v, new) \in Seq(Objects) /\ Len(Append(v, new)) = Len(v) + 1
  BY <1>1 DEF Streams
<1>4. Append(v, new)[Len(v) + 1] = new /\ \A k \in 1 .. Len(v) : Append(v, new)[k] = v[k]
  BY <1>1 DEF Streams
<1> QED BY <1>2, <1>3, <1>4, StreamRange DEF Streams, Stored, new

(* When the informer moves on, the store is as it was.                     *)
LEMMA TailStream ==
  ASSUME NEW v \in Streams, Len(v) > 1
  PROVE  /\ Tail(v) \in Streams
         /\ Len(Tail(v)) = Len(v) - 1
         /\ Stored(Tail(v)) = Stored(v)
         /\ \A k \in 1 .. Len(v) - 1 : Tail(v)[k] = v[k + 1]
<1>1. Tail(v) \in Seq(Objects) /\ Len(Tail(v)) = Len(v) - 1
  BY DEF Streams
<1>2. \A k \in 1 .. Len(v) - 1 : Tail(v)[k] = v[k + 1]
  BY DEF Streams
<1> QED BY <1>1, <1>2, StreamRange DEF Streams, Stored

-----------------------------------------------------------------------------
(* Type correctness.                                                       *)

(* The store commits an object, or finds that nothing changed.             *)
LEMMA CommitStream ==
  ASSUME NEW v \in Streams, NEW o \in Objects
  PROVE  Commit(v, o) \in Streams
BY NewVersionStream DEF Commit

(* An update keeps the types, whether it succeeds or fails.                *)
LEMMA WriteType ==
  ASSUME TypeOK, NEW o \in Objects, Writes(o) \/ WriteFails(o)
  PROVE  versions' \in Streams /\ faults' \in Nat
<1>1. versions \in Streams /\ faults \in Nat
  BY DEF TypeOK, Streams, Objects
<1>2. Commit(versions, o) \in Streams
  BY <1>1, CommitStream
<1>3. CASE Writes(o)
  BY <1>1, <1>2, <1>3 DEF Writes
<1>4. CASE WriteFails(o)
  BY <1>1, <1>2, <1>4 DEF WriteFails, Fault
<1> QED BY <1>3, <1>4

(* The copies the handlers write, and the objects users make.              *)
LEMMA CopyType ==
  ASSUME NEW o \in Objects
  PROVE  /\ [o EXCEPT !.fin = TRUE] \in Objects
         /\ [o EXCEPT !.fin = FALSE] \in Objects
         /\ [o EXCEPT !.phase = "Creating"] \in Objects
         /\ MarkedFailed(o) \in Objects
         /\ \A i \in ListIDs : Recorded(o, i) \in Objects
         /\ \A s \in States : Synced(o, s) \in Objects
         /\ \A h \in BOOLEAN : Created(o, h) \in Objects
         /\ Edited(o) \in Objects /\ Deleted(o) \in Objects /\ Released(o) \in Objects
<1>1. /\ [o EXCEPT !.fin = TRUE] \in Objects
      /\ [o EXCEPT !.fin = FALSE] \in Objects
      /\ [o EXCEPT !.phase = "Creating"] \in Objects
  BY DEF Objects, Object, Phases
<1>2. MarkedFailed(o) \in Objects
  BY DEF Objects, Object, Phases, MarkedFailed, SetFailedStatus, SetObservedGeneration
<1>3. \A i \in ListIDs : Recorded(o, i) \in Objects
  BY DEF Objects, Object, Phases, Recorded, SetObservedGeneration
<1>4. \A s \in States : PhaseOf(s) \in Phases
  BY DEF States, Phases, PhaseOf
<1>5. \A s \in States : Synced(o, s) \in Objects
  BY <1>4 DEF Objects, Object, Synced, SetObservedGeneration
<1>6. NoObject \in Objects
  BY DEF NoObject, Objects, Object, Phases
<1>7. \A h \in BOOLEAN : Created(o, h) \in Objects
  <2>1. o.uid + 1 \in Nat
    BY DEF Objects, Object
  <2> QED BY <1>6, <2>1 DEF Objects, Object, Created
<1>8. Edited(o) \in Objects /\ Deleted(o) \in Objects /\ Released(o) \in Objects
  <2>1. o.gen + 1 \in Nat
    BY DEF Objects, Object
  <2>2. Edited(o) \in Objects /\ Deleted(o) \in Objects
    BY <2>1 DEF Objects, Object, Edited, Deleted
  <2>3. Released(o) \in Objects
    BY DEF Objects, Object, Released
  <2> QED BY <2>2, <2>3
<1> QED BY <1>1, <1>2, <1>3, <1>5, <1>7, <1>8

(* Ending a handler, or taking it to a further call, keeps its types.      *)
LEMMA HandlerType ==
  ASSUME TypeOK, NEW step \in Steps, NEW o \in Objects,
         NEW b \in BOOLEAN, Proceed(step, o) \/ Return(b)
  PROVE  pc' \in Steps /\ obj' \in Objects /\ timer' \in BOOLEAN
<1>1. NoObject \in Objects
  BY DEF NoObject, Objects, Object, Phases
<1> QED BY <1>1 DEF TypeOK, Proceed, Return, Steps

(* The manager starts well typed.                                          *)
THEOREM TypeInit == Init => TypeOK
<1> SUFFICES ASSUME Init PROVE TypeOK
  OBVIOUS
<1>1. NoObject \in Object(ListIDs, Phases)
  BY DEF NoObject, Object, Phases
<1>2. versions \in Seq(Object(ListIDs, Phases)) /\ Len(versions) > 0
  BY <1>1 DEF Init, RuntimeInit
<1>3. lists \in [ListIDs -> ListRecord]
  BY DEF Init, ListRecord, States
<1> QED BY <1>1, <1>2, <1>3, BoundsAssumption DEF TypeOK, Init, RuntimeInit, Steps

(* Every step keeps the types.                                             *)
LEMMA TypeStep ==
  ASSUME TypeOK, [Next]_vars
  PROVE  TypeOK'
<1> USE DEF Objects, Streams
<1>0. /\ versions \in Streams /\ obj \in Objects /\ Cached(versions) \in Objects
      /\ Stored(versions) \in Objects
  BY StreamRange DEF TypeOK
<1>a. Fault => faults' \in Nat
  BY DEF TypeOK, Fault
<1>b. UNCHANGED faults => faults' \in Nat
  BY DEF TypeOK
<1>c. /\ lists \in [ListIDs -> ListRecord]
      /\ \A i : \A s \in States : [lists EXCEPT ![i].state = s] \in [ListIDs -> ListRecord]
      /\ \A i : [lists EXCEPT ![i].gen = 0] \in [ListIDs -> ListRecord]
      /\ "TERMINATING" \in States
  BY DEF TypeOK, ListRecord, States
<1>1. CASE UNCHANGED vars
  BY <1>1 DEF TypeOK, vars
<1>2. CASE ReconcileNothing
  BY <1>2 DEF TypeOK, ReconcileNothing, Dequeue
<1>3. CASE HandleDeletion
  BY <1>0, <1>3 DEF TypeOK, HandleDeletion, Dequeue, Proceed, Steps
<1>4. CASE EnsureFinalizer
  BY <1>0, <1>4 DEF TypeOK, EnsureFinalizer, Dequeue, Proceed, Steps
<1>5. CASE ReconcilePolicy
  <2>1. Cached(versions).gen \in Nat
    BY <1>0 DEF Object
  <2>2. attempt' \in Nat /\ faults' \in Nat
    BY <2>1, <1>5 DEF TypeOK, ReconcilePolicy, Fault
  <2>4. client' \in BOOLEAN
    BY <1>5, Zenon DEF TypeOK, ReconcilePolicy
  <2>3. pc' \in Steps /\ obj' \in Objects /\ timer' \in BOOLEAN
    BY <1>0, <1>5 DEF TypeOK, ReconcilePolicy, Proceed, Steps
  <2> QED BY <1>5, <2>2, <2>3, <2>4 DEF TypeOK, ReconcilePolicy, Dequeue
<1>6. ASSUME NEW step \in Steps, NEW o \in Objects, NEW ACTION Then,
             Write(step, o, Then),
             Then => pc' \in Steps /\ obj' \in Objects /\ timer' \in BOOLEAN
      PROVE  TypeOK'
  <2>1. versions' \in Streams /\ faults' \in Nat
    BY <1>6, WriteType DEF Write
  <2>2. pc' \in Steps /\ obj' \in Objects /\ timer' \in BOOLEAN
    BY <1>6, HandlerType DEF Write, WriteFails
  <2> QED BY <1>6, <2>1, <2>2 DEF TypeOK, Write
<1>7. CASE AddFinalizer
  BY <1>0, <1>6, <1>7, CopyType, HandlerType DEF AddFinalizer, Steps
<1>8. CASE RemoveFinalizer
  BY <1>0, <1>6, <1>8, CopyType, HandlerType DEF RemoveFinalizer, Steps
<1>9. CASE MarkCreating
  <2>1. versions' \in Streams
    BY <1>0, <1>9, CopyType, WriteType DEF MarkCreating, Write
  <2>2. Stored(versions') \in Objects
    BY <2>1, StreamRange
  <2>3. Proceed("create", Stored(versions')) =>
          pc' \in Steps /\ obj' \in Objects /\ timer' \in BOOLEAN
    BY <2>2, HandlerType DEF Steps
  <2> QED BY <1>0, <1>6, <1>9, <2>3, CopyType DEF MarkCreating, Steps
<1>10. CASE RecordList
  BY <1>0, <1>6, <1>10, HandlerType DEF RecordList, Steps
<1>11. CASE SyncStatus
  BY <1>0, <1>6, <1>11, HandlerType DEF SyncStatus, Steps
<1>12. CASE DeleteList
  <2>1. lists' \in [ListIDs -> ListRecord]
    <3>1. lists' = lists \/ lists' = [lists EXCEPT ![obj.id].state = "TERMINATING"]
      BY <1>12 DEF DeleteList, Deletes
    <3> QED BY <1>c, <3>1
  <2>2. faults' \in Nat
    BY <1>a, <1>b, <1>12, Zenon DEF DeleteList
  <2>3. pc' \in Steps /\ obj' \in Objects /\ timer' \in BOOLEAN
    BY <1>0, <1>12, HandlerType DEF DeleteList, Steps
  <2> QED BY <1>12, <2>1, <2>2, <2>3 DEF TypeOK, DeleteList
<1>13. CASE CreateList
  <2>1. obj.gen \in Nat /\ obj.uid \in Nat
    BY <1>0 DEF Object
  <2>2. lists' \in [ListIDs -> ListRecord]
    BY <1>13, <2>1 DEF TypeOK, CreateList, ListRecord, States
  <2>3. faults' \in Nat /\ attempt' \in Nat
    BY <1>a, <1>b, <1>13, <2>1 DEF TypeOK, CreateList, GiveUp
  <2>4. pc' \in Steps /\ obj' \in Objects /\ timer' \in BOOLEAN
    BY <1>0, <1>13, HandlerType, CopyType DEF CreateList, GiveUp, Steps
  <2> QED BY <1>13, <2>2, <2>3, <2>4 DEF TypeOK, CreateList
<1>14. CASE GetList
  <2>1. PhaseOf(lists[obj.id].state) \in Phases
    BY DEF PhaseOf, Phases
  <2>2. Synced(obj, lists[obj.id].state) \in Objects
    BY <1>0, <2>1 DEF Synced, SetObservedGeneration, Object
  <2>3. pc' \in Steps /\ obj' \in Objects /\ timer' \in BOOLEAN
    BY <1>14, <2>2, HandlerType DEF GetList, Steps
  <2>4. faults' \in Nat
    BY <1>a, <1>b, <1>14, Zenon DEF GetList
  <2> QED BY <1>14, <2>3, <2>4 DEF TypeOK, GetList
<1>15. CASE Refetch /\ UNCHANGED <<client, lists>>
  <2>1. pc' \in Steps /\ obj' \in Objects /\ timer' \in BOOLEAN
    BY <1>0, <1>15, HandlerType DEF Refetch, Steps
  <2>2. attempt' \in Nat
    <3>1. 0 \in Nat
      OBVIOUS
    <3> QED BY <1>15, <3>1, Zenon DEF TypeOK, Refetch
  <2> QED BY <1>15, <2>1, <2>2 DEF TypeOK, Refetch
<1>16. CASE SetFailed /\ UNCHANGED <<client, lists>>
  <2>1. versions' \in Streams /\ faults' \in Nat
    BY <1>0, <1>16, WriteType, CopyType DEF SetFailed
  <2>2. pc' \in Steps /\ obj' \in Objects /\ timer' \in BOOLEAN
    BY <1>0, <1>16, HandlerType DEF SetFailed, WriteFails, Steps
  <2> QED BY <1>16, <2>1, <2>2 DEF TypeOK, SetFailed
<1>17. CASE Cloud
  <2>1. lists' \in [ListIDs -> ListRecord]
    <3>1. PICK i \in ListIDs :
            lists' \in {[lists EXCEPT ![i].state = s] : s \in States}
                       \cup {[lists EXCEPT ![i].gen = 0]}
      BY <1>17 DEF Cloud, Progress, Purge, Console, States
    <3> QED BY <1>c, <3>1
  <2>2. interventions' \in Nat
    BY <1>17 DEF TypeOK, Cloud, Progress, Purge, Console, Intervention
  <2>3. UNCHANGED <<versions, queued, timer, pc, obj, faults, attempt, client>>
    BY <1>17 DEF Cloud, Progress, Purge, Console, workerVars
  <2> QED BY <2>1, <2>2, <2>3 DEF TypeOK
<1>18. CASE Runtime /\ UNCHANGED <<attempt, client, lists>>
  <2>1. CASE Deliver
    BY <1>0, <1>18, <2>1, TailStream DEF TypeOK, Deliver, workerVars
  <2>2. CASE TimerFires \/ Resync
    BY <1>18, <2>2 DEF TypeOK, TimerFires, Resync, workerVars
  <2>3. CASE Users
    <3>1. \E o \in Objects : versions' = NewVersion(versions, o)
      BY <1>0, <2>3, CopyType DEF Users, Create, EditSpec, Touch, Delete, ReleaseHold
    <3>2. interventions' \in Nat
      BY <2>3 DEF TypeOK, Users, Create, EditSpec, Touch, Delete, ReleaseHold, Intervention
    <3> QED BY <1>0, <1>18, <2>3, <3>1, <3>2, NewVersionStream DEF TypeOK, Users, workerVars
  <2> QED BY <1>18, <2>1, <2>2, <2>3 DEF Runtime
<1>19. CASE Restart
  <2>1. NoObject \in Objects /\ Cached(versions).live \in BOOLEAN
    BY <1>0 DEF NoObject, Object, Phases
  <2>2. queued' \in BOOLEAN
    BY <1>19, <2>1, Zenon DEF Restart, RuntimeRestart
  <2> QED BY <1>a, <1>19, <2>1, <2>2 DEF TypeOK, Restart, RuntimeRestart, Steps
<1> QED
  BY <1>1, <1>2, <1>3, <1>4, <1>5, <1>7, <1>8, <1>9, <1>10, <1>11, <1>12, <1>13,
     <1>14, <1>15, <1>16, <1>17, <1>18, <1>19 DEF Next, Worker

(* Every state of the reconciler, its runtime and OCI is well typed.       *)
THEOREM TypeCorrect == Spec => []TypeOK
BY TypeInit, TypeStep, PTL DEF Spec

-----------------------------------------------------------------------------
(* The inductive invariant.  First, how the store and OCI change: what the *)
(* invariant needs of any step, with the values before and after as        *)
(* parameters.                                                             *)

(* The stored object goes from c to d: within an incarnation a recorded    *)
(* ID, a deletion and a given-up generation stay and observedGeneration    *)
(* grows, and a new incarnation follows a removal only.                    *)
Evolves(c, d) ==
    \/ d = c
    \/ /\ d.rv > c.rv
       /\ \/ /\ d.uid = c.uid
             /\ c.id # NoID => d.id = c.id
             /\ c.deleting => d.deleting
             /\ c.obsGen <= d.obsGen /\ d.obsGen <= d.gen
             /\ GivenUp(c) /\ d.gen = c.gen => GivenUp(d)
          \/ ~c.live /\ d.uid # c.uid

(* What users do to the stored object.                                     *)
UserStep(c, d) ==
    /\ d.rv = c.rv + 1
    /\ \/ /\ c.live
          /\ d.uid = c.uid /\ d.fin = c.fin
          /\ d.id = c.id /\ d.phase = c.phase /\ d.obsGen = c.obsGen
          /\ d.gen >= c.gen
          /\ c.deleting => d.deleting
          /\ d.live \/ ~d.fin
       \/ /\ ~c.live
          /\ d.live /\ ~d.fin /\ d.id = NoID /\ d.uid # c.uid
          /\ d.obsGen <= d.gen

(* OCI never undoes the creation of a list or its end, nor gives it away;  *)
(* whose rules a list has is known, or they are someone else's.            *)
OCIKeeps(old, new) ==
    \A i \in ListIDs :
      /\ old[i].state # "NONE" => /\ new[i].state # "NONE"
                                  /\ new[i].uid = old[i].uid
                                  /\ new[i].gen \in {0, old[i].gen}
      /\ old[i].state \in Ending => new[i].state \in Ending

(* What is known of an old copy stays known.                               *)
LEMMA KnownKept ==
  ASSUME NEW w \in Objects, NEW c \in Objects, NEW d \in Objects, NEW old, NEW new,
         Known(w, c, old), Sound(c, old), Evolves(c, d), OCIKeeps(old, new)
  PROVE  Known(w, d, new)
<1>1. w.rv <= d.rv /\ (w.rv = d.rv => w = d)
  BY DEF Known, Evolves, Objects, Object
<1>2. ASSUME w.id # NoID
      PROVE  new[w.id].state \in Ending \/ (d.id = w.id /\ (w.deleting => d.deleting))
  <2>1. w.id \in ListIDs
    BY <1>2 DEF Objects, Object
  <2>2. CASE old[w.id].state \in Ending
    BY <2>1, <2>2 DEF OCIKeeps
  <2>3. CASE old[w.id].state \notin Ending
    <3>1. c.id = w.id /\ (w.deleting => c.deleting)
      BY <1>2, <2>3 DEF Known
    <3>2. c.live
      BY <1>2, <2>3, <3>1 DEF Sound
    <3> QED BY <1>2, <3>1, <3>2 DEF Evolves
  <2> QED BY <2>2, <2>3
<1> QED BY <1>1, <1>2 DEF Known

(* The store stays sound while OCI goes on ...                             *)
LEMMA SoundUnderOCI ==
  ASSUME NEW c \in Objects, NEW old, NEW new, Sound(c, old), OCIKeeps(old, new)
  PROVE  Sound(c, new)
<1>1. (c.id # NoID => c.id \in ListIDs) /\ c.gen \in Nat
  BY DEF Objects, Object
<1> QED BY <1>1 DEF Sound, OCIKeeps

(* ... and while users change the resource.                                *)
LEMMA SoundUnderUsers ==
  ASSUME NEW c \in Objects, NEW d \in Objects, NEW cloud \in [ListIDs -> ListRecord],
         Sound(c, cloud), UserStep(c, d)
  PROVE  Sound(d, cloud) /\ Evolves(c, d)
<1>1. c.live => c.obsGen <= d.obsGen /\ d.obsGen <= d.gen
  BY DEF UserStep, Sound, Objects, Object
<1>6. Evolves(c, d)
  BY <1>1 DEF UserStep, Evolves, GivenUp, Objects, Object
<1>2. c.gen \in Nat /\ d.gen \in Nat /\ c.obsGen \in Nat /\ d.obsGen \in Nat
  BY DEF Objects, Object
<1>3. d.id # NoID => cloud[d.id].gen \in Nat
  BY DEF Objects, Object, ListRecord
<1>4. CASE c.live
  <2>1. d.obsGen <= d.gen
    BY <1>1, <1>4
  <2>2. d.id # NoID => cloud[d.id].gen <= d.gen
    BY <1>2, <1>3, <1>4 DEF Sound, UserStep
  <2> QED BY <1>4, <1>6, <2>1, <2>2 DEF Sound, UserStep
<1>5. CASE ~c.live
  BY <1>5, <1>6 DEF Sound, UserStep
<1> QED BY <1>4, <1>5

-----------------------------------------------------------------------------
(* The invariant's parts, said of the stored object.                       *)
LEMMA StoreTyped ==
  ASSUME TypeOK
  PROVE  /\ versions \in Streams /\ current \in Objects /\ Cached(versions) \in Objects
         /\ obj \in Objects /\ lists \in [ListIDs -> ListRecord]
BY StreamRange DEF TypeOK, Streams, Objects, current

(* The store's part of the invariant after a step.                         *)
LEMMA SoundNext == Sound(current, lists)' <=> Sound(current', lists')
BY DEF Sound, Ending

(* What a new version is made of.                                          *)
LEMMA NewStored ==
  ASSUME TypeOK, NEW o \in Objects, versions' = NewVersion(versions, o)
  PROVE  /\ current' \in Objects
         /\ current' = [o EXCEPT !.rv = current.rv + 1, !.live = ~Gone(o)]
BY StoreTyped, NewVersionStream, StreamRange DEF current

(* Whatever users do is a step of UserStep.                                *)
LEMMA UsersStep ==
  ASSUME TypeOK, Users
  PROVE  UserStep(current, current') /\ current' \in Objects
<1>0. current \in Objects
  BY StoreTyped
<1>1. CASE Create
  <2>1. PICK h \in BOOLEAN : versions' = NewVersion(versions, Created(current, h))
    BY <1>1 DEF Create, current
  <2>2. Created(current, h) \in Objects
    BY <1>0, CopyType
  <2>3. /\ current' \in Objects
        /\ current' = [Created(current, h) EXCEPT !.rv = current.rv + 1,
                                                  !.live = ~Gone(Created(current, h))]
    BY <2>1, <2>2, NewStored
  <2>4. ~current.live
    BY <1>1 DEF Create, current
  <2>5. /\ ~Created(current, h).deleting /\ ~Created(current, h).fin
        /\ Created(current, h).id = NoID /\ Created(current, h).uid = current.uid + 1
        /\ Created(current, h).obsGen = 0 /\ Created(current, h).gen = 1
    BY <1>0 DEF Created, NoObject
  <2>6. ~Gone(Created(current, h))
    BY <2>5 DEF Gone
  <2>7. /\ current'.rv = current.rv + 1 /\ current'.live /\ ~current'.fin
        /\ current'.id = NoID /\ current'.uid = current.uid + 1
        /\ current'.obsGen = 0 /\ current'.gen = 1
    BY <2>2, <2>3, <2>5, <2>6 DEF Objects, Object
  <2>8. current'.uid # current.uid
    BY <1>0, <2>7 DEF Objects, Object
  <2> QED BY <2>3, <2>4, <2>7, <2>8 DEF UserStep
<1>2. ASSUME NEW o \in Objects, versions' = NewVersion(versions, o), current.live,
             o.uid = current.uid, o.fin = current.fin, o.id = current.id,
             o.phase = current.phase, o.obsGen = current.obsGen, o.gen >= current.gen,
             current.deleting => o.deleting
      PROVE  UserStep(current, current') /\ current' \in Objects
  <2>1. /\ current' \in Objects
        /\ current' = [o EXCEPT !.rv = current.rv + 1, !.live = ~Gone(o)]
    BY <1>2, NewStored
  <2>2. current'.live \/ ~current'.fin
    BY <1>2, <2>1 DEF Gone, Objects, Object
  <2>3. /\ current'.rv = current.rv + 1
        /\ current'.uid = o.uid /\ current'.fin = o.fin /\ current'.id = o.id
        /\ current'.phase = o.phase /\ current'.obsGen = o.obsGen
        /\ current'.gen = o.gen /\ current'.deleting = o.deleting
    BY <1>2, <2>1 DEF Objects, Object
  <2> QED BY <1>2, <2>1, <2>2, <2>3 DEF UserStep
<1>3. CASE EditSpec \/ Touch \/ Delete \/ ReleaseHold
  <2>1. PICK o \in {Edited(current), current, Deleted(current), Released(current)} :
          versions' = NewVersion(versions, o) /\ current.live
    BY <1>3 DEF EditSpec, Touch, Delete, ReleaseHold, current
  <2>2. o \in Objects
    BY <1>0, <2>1, CopyType
  <2>3. current.gen \in Nat
    BY <1>0 DEF Objects, Object
  <2>4. /\ o.uid = current.uid /\ o.fin = current.fin /\ o.id = current.id
        /\ o.phase = current.phase /\ o.obsGen = current.obsGen /\ o.gen >= current.gen
        /\ current.deleting => o.deleting
    <3>1. CASE o = current
      BY <2>3, <3>1
    <3>2. CASE o = Edited(current)
      BY <1>0, <2>3, <3>2 DEF Edited, Objects, Object
    <3>3. CASE o = Deleted(current)
      BY <1>0, <2>3, <3>3 DEF Deleted, Objects, Object
    <3>4. CASE o = Released(current)
      BY <1>0, <2>3, <3>4 DEF Released, Objects, Object
    <3> QED BY <2>1, <3>1, <3>2, <3>3, <3>4
  <2> QED BY <1>2, <2>1, <2>2, <2>4
<1> QED BY <1>1, <1>3 DEF Users

(* While a handler waits for its next call, the world around it moves.     *)
LEMMA HandsKept ==
  ASSUME IInv, TypeOK', UNCHANGED <<pc, obj>>,
         current' = current \/ UserStep(current, current'),
         Evolves(current, current'), OCIKeeps(lists, lists')
  PROVE  (HandDeletes /\ HandReads /\ HandCreates /\ HandSyncs)'
<1>0. TypeOK /\ Sound(current, lists)
  BY DEF IInv
<1>1. /\ current \in Objects /\ current' \in Objects /\ obj \in Objects
      /\ lists \in [ListIDs -> ListRecord]
  BY <1>0, StoreTyped, StreamRange DEF TypeOK, Streams, Objects, current
<1>2. obj.id # NoID => obj.id \in ListIDs
  BY <1>1 DEF Objects, Object
<1>3. Known(obj, current, lists) => Known(obj, current', lists')
  BY <1>0, <1>1, KnownKept
<1>4. HandDeletes'
  BY <1>2, <1>3 DEF IInv, HandDeletes, OCIKeeps
<1>5. HandReads'
  BY <1>3 DEF IInv, HandReads, GivenUp
<1>6. HandCreates'
  <2> SUFFICES ASSUME pc \in {"create", "record"}
               PROVE  HandCreates'
    BY DEF HandCreates
  <2>1. /\ obj.rv <= current.rv /\ current.live /\ current.fin /\ current.id = NoID
        /\ current.uid = obj.uid /\ current.phase = "Creating"
    BY DEF IInv, HandCreates
  <2>2. /\ obj.rv <= current'.rv /\ current'.live /\ current'.fin /\ current'.id = NoID
        /\ current'.uid = obj.uid /\ current'.phase = "Creating"
        /\ current' = current \/ obj.rv # current'.rv
    <3>1. CASE current' = current
      BY <2>1, <3>1
    <3>2. CASE UserStep(current, current')
      <4>1. /\ current'.rv = current.rv + 1 /\ current'.live /\ current'.fin
            /\ current'.id = NoID /\ current'.uid = obj.uid
            /\ current'.phase = "Creating"
        BY <2>1, <3>2 DEF UserStep
      <4>2. obj.rv \in Nat /\ current.rv \in Nat
        BY <1>1 DEF Objects, Object
      <4> QED BY <2>1, <4>1, <4>2
    <3> QED BY <3>1, <3>2
  <2>3. pc = "record" => /\ obj.id # NoID /\ lists'[obj.id].state # "NONE"
                         /\ lists'[obj.id].uid = obj.uid /\ lists'[obj.id].gen \in {0, obj.gen}
    BY <1>2 DEF IInv, HandCreates, OCIKeeps
  <2> QED BY <2>2, <2>3 DEF IInv, HandCreates, Recorded
<1>7. HandSyncs'
  <2> SUFFICES ASSUME pc = "syncStatus"
               PROVE  HandSyncs'
    BY DEF HandSyncs
  <2>1. obj.rv <= current'.rv /\ (current' = current \/ obj.rv # current'.rv)
    BY <1>1 DEF IInv, HandSyncs, UserStep, Objects, Object
  <2> QED BY <2>1 DEF IInv, HandSyncs, GivenUp
<1> QED BY <1>4, <1>5, <1>6, <1>7

-----------------------------------------------------------------------------
(* The reconciler's writes.  An update either leaves the store as it is or *)
(* replaces the very version the handler's copy was read from.             *)
LEMMA WriteStore ==
  ASSUME TypeOK, NEW o \in Objects, Writes(o) \/ WriteFails(o)
  PROVE  /\ \/ versions' = versions
            \/ /\ obj.rv = current.rv /\ current.live
               /\ versions' = NewVersion(versions, o)
               /\ current' \in Objects
               /\ current' = [o EXCEPT !.rv = current.rv + 1, !.live = ~Gone(o)]
         /\ Writes(o) => /\ obj.rv = current.rv /\ current.live
                         /\ versions' = versions => o = current
<1>1. Accepts(versions, obj) => obj.rv = current.rv /\ current.live
  BY DEF Accepts, current
<1>2. ASSUME Accepts(versions, obj), versions' = Commit(versions, o)
      PROVE  \/ versions' = versions /\ o = current
             \/ /\ versions' = NewVersion(versions, o)
                /\ versions' # versions
                /\ current' \in Objects
                /\ current' = [o EXCEPT !.rv = current.rv + 1, !.live = ~Gone(o)]
  <2>1. CASE o = current
    BY <1>2, <2>1 DEF Commit, current
  <2>2. CASE o # current
    <3>1. versions' = NewVersion(versions, o)
      BY <1>2, <2>2 DEF Commit, current
    <3>2. Len(versions') = Len(versions) + 1 /\ Len(versions) \in Nat
      BY <3>1, StoreTyped, NewVersionStream, StreamRange
    <3>3. versions' # versions
      BY <3>2
    <3>4. /\ current' \in Objects
          /\ current' = [o EXCEPT !.rv = current.rv + 1, !.live = ~Gone(o)]
      BY <3>1, NewStored
    <3> QED BY <3>1, <3>3, <3>4
  <2> QED BY <2>1, <2>2
<1> QED BY <1>1, <1>2 DEF Writes, WriteFails

(* A write that respects what Evolves asks, and leaves a sound object.     *)
SafeWrite(c, o, cloud) ==
    /\ o.uid = c.uid
    /\ c.id # NoID => o.id = c.id
    /\ c.deleting => o.deleting
    /\ c.obsGen <= o.obsGen /\ o.obsGen <= o.gen
    /\ GivenUp(c) /\ o.gen = c.gen => GivenUp(o)
    /\ o.id # NoID => /\ cloud[o.id].state # "NONE"
                      /\ cloud[o.id].uid = o.uid
                      /\ cloud[o.id].gen <= o.gen
    /\ o.id # NoID /\ ~o.fin => cloud[o.id].state \in Ending

(* A safe write of a handler leaves the store sound.                       *)
LEMMA SafeWriteSound ==
  ASSUME IInv, NEW o \in Objects, Writes(o) \/ WriteFails(o), UNCHANGED lists,
         obj.rv = current.rv /\ current.live => SafeWrite(current, o, lists)
  PROVE  Sound(current', lists') /\ Evolves(current, current')
<1>1. TypeOK /\ Sound(current, lists) /\ current \in Objects
  BY StoreTyped DEF IInv
<1>2. CASE versions' = versions
  BY <1>1, <1>2 DEF Evolves, current
<1>3. CASE versions' # versions
  <2>1. /\ obj.rv = current.rv /\ current.live /\ current' \in Objects
        /\ current' = [o EXCEPT !.rv = current.rv + 1, !.live = ~Gone(o)]
    BY <1>1, <1>3, WriteStore
  <2>2. SafeWrite(current, o, lists)
    BY <2>1
  <2>3. /\ current'.uid = o.uid /\ current'.id = o.id /\ current'.fin = o.fin
        /\ current'.deleting = o.deleting /\ current'.obsGen = o.obsGen
        /\ current'.gen = o.gen /\ current'.rv = current.rv + 1
        /\ current'.phase = o.phase /\ current'.live = ~Gone(o)
    BY <2>1 DEF Objects, Object
  <2>4. current'.rv > current.rv
    BY <1>1, <2>3 DEF Objects, Object
  <2>5. current'.live \/ ~current'.fin
    BY <2>3 DEF Gone
  <2> QED BY <2>2, <2>3, <2>4, <2>5 DEF Sound, Evolves, SafeWrite, GivenUp
<1> QED BY <1>2, <1>3

(* The informer's and the cache's copies stay known.                       *)
LEMMA StreamStaysKnown ==
  ASSUME IInv, TypeOK', Evolves(current, current'), OCIKeeps(lists, lists'),
         \/ versions' = versions
         \/ \E o \in Objects : versions' = NewVersion(versions, o)
         \/ Len(versions) > 1 /\ versions' = Tail(versions)
  PROVE  StreamIsKnown'
<1>0. TypeOK /\ Sound(current, lists) /\ StreamIsKnown
  BY DEF IInv
<1>1. /\ versions \in Streams /\ versions' \in Streams
      /\ current \in Objects /\ current' \in Objects
  BY <1>0, StreamRange DEF TypeOK, Streams, Objects, current
<1>2. \A k \in 1 .. Len(versions) : versions[k] \in Objects
  BY <1>1 DEF Streams
<1>3. \A k \in 1 .. Len(versions) : Known(versions[k], current', lists')
  BY <1>0, <1>1, <1>2, KnownKept DEF StreamIsKnown
<1>4. Known(current', current', lists')
  BY <1>1 DEF Known, Objects, Object
<1>5. ASSUME NEW k \in 1 .. Len(versions')
      PROVE  \/ versions'[k] = current'
             \/ \E j \in 1 .. Len(versions) : versions'[k] = versions[j]
  <2>1. CASE versions' = versions
    BY <1>5, <2>1
  <2>2. CASE \E o \in Objects : versions' = NewVersion(versions, o)
    <3>1. PICK o \in Objects : versions' = NewVersion(versions, o)
      BY <2>2
    <3>2. /\ Len(versions') = Len(versions) + 1
          /\ \A j \in 1 .. Len(versions) : versions'[j] = versions[j]
      <4>1. /\ Len(NewVersion(versions, o)) = Len(versions) + 1
            /\ \A j \in 1 .. Len(versions) : NewVersion(versions, o)[j] = versions[j]
        BY <1>1, NewVersionStream
      <4> QED BY <3>1, <4>1
    <3>3. k \in 1 .. Len(versions) \/ k = Len(versions')
      BY <1>1, <1>5, <3>2, StreamRange
    <3> QED BY <3>2, <3>3 DEF Stored, current
  <2>3. CASE Len(versions) > 1 /\ versions' = Tail(versions)
    BY <1>1, <1>5, <2>3, TailStream, StreamRange
  <2> QED BY <2>1, <2>2, <2>3
<1>6. \A k \in 1 .. Len(versions') : Known(versions'[k], current', lists')
  BY <1>3, <1>4, <1>5
<1> QED BY <1>6 DEF StreamIsKnown

-----------------------------------------------------------------------------
(* Every step.  StoreStep says what a step does to the store and to OCI,   *)
(* and that the store it leaves is sound; the hands of the worker follow.  *)
StoreStep ==
    /\ Evolves(current, current')
    /\ OCIKeeps(lists, lists')
    /\ Sound(current', lists')

(* Steps of the worker that read, decide or call OCI leave the store.      *)
LEMMA ReadOnly ==
  ASSUME IInv, UNCHANGED versions, OCIKeeps(lists, lists')
  PROVE  StoreStep /\ current' = current
BY StoreTyped, SoundUnderOCI DEF IInv, StoreStep, Evolves, current

(* OCI evolves lawfully when nothing happens in it.                        *)
LEMMA OCIKept == lists' = lists => OCIKeeps(lists, lists')
BY DEF OCIKeeps

(* What the worker takes from the cache is known.                          *)
LEMMA CacheKnown ==
  ASSUME IInv
  PROVE  Known(Cached(versions), current, lists)
BY StoreTyped, StreamRange DEF IInv, StreamIsKnown, Cached

(* A handler that returns has nothing in its hands.                        *)
LEMMA IdleHands ==
  ASSUME pc' = "idle"
  PROVE  (HandDeletes /\ HandReads /\ HandCreates /\ HandSyncs)'
BY DEF HandDeletes, HandReads, HandCreates, HandSyncs

(* An update commits what the handler's copy, the stored object itself,    *)
(* has been changed into.                                                  *)
LEMMA UpdateStep ==
  ASSUME IInv, AddFinalizer \/ RemoveFinalizer \/ MarkCreating \/ RecordList
               \/ SyncStatus \/ (SetFailed /\ UNCHANGED <<client, lists>>)
  PROVE  StoreStep
<1> USE DEF SafeWrite, GivenUp
<1>0. /\ TypeOK /\ Sound(current, lists)
      /\ obj \in Objects /\ current \in Objects /\ lists \in [ListIDs -> ListRecord]
  BY StoreTyped DEF IInv
<1>1. current.obsGen \in Nat /\ current.gen \in Nat
  BY <1>0 DEF Objects, Object
<1>2. ASSUME NEW o \in Objects, Writes(o) \/ WriteFails(o), UNCHANGED lists,
             obj.rv = current.rv => SafeWrite(current, o, lists)
      PROVE  StoreStep
  BY <1>2, SafeWriteSound, OCIKept DEF StoreStep
<1>3. CASE AddFinalizer
  <2>1. pc = "addFinalizer" /\ UNCHANGED lists
    BY <1>3 DEF AddFinalizer, Write
  <2>2. obj.rv = current.rv => obj = current
    BY <2>1 DEF IInv, HandReads, Known
  <2>3. obj.rv = current.rv => SafeWrite(current, [obj EXCEPT !.fin = TRUE], lists)
    BY <1>0, <1>1, <2>2 DEF Sound, Objects, Object
  <2> QED BY <1>0, <1>2, <1>3, <2>1, <2>3, CopyType DEF AddFinalizer, Write
<1>4. CASE RemoveFinalizer
  <2>1. pc = "removeFinalizer" /\ UNCHANGED lists
    BY <1>4 DEF RemoveFinalizer, Write
  <2>2. /\ obj.rv = current.rv => obj = current
        /\ obj.id # NoID => lists[obj.id].state \in Ending
    BY <2>1 DEF IInv, HandDeletes, Known
  <2>3. obj.rv = current.rv => SafeWrite(current, [obj EXCEPT !.fin = FALSE], lists)
    BY <1>0, <1>1, <2>2 DEF Sound, Objects, Object
  <2> QED BY <1>0, <1>2, <1>4, <2>1, <2>3, CopyType DEF RemoveFinalizer, Write
<1>5. CASE MarkCreating
  <2>1. pc = "markCreating" /\ UNCHANGED lists
    BY <1>5 DEF MarkCreating, Write
  <2>2. /\ obj.rv = current.rv => obj = current
        /\ obj.id = NoID /\ ~GivenUp(obj)
    BY <2>1 DEF IInv, HandReads, Known
  <2>3. obj.rv = current.rv => SafeWrite(current, [obj EXCEPT !.phase = "Creating"], lists)
    BY <1>0, <1>1, <2>2 DEF Sound, Objects, Object
  <2> QED BY <1>0, <1>2, <1>5, <2>1, <2>3, CopyType DEF MarkCreating, Write
<1>6. CASE RecordList
  <2>1. pc = "record" /\ UNCHANGED lists
    BY <1>6 DEF RecordList, Write
  <2>2. /\ current.fin /\ current.id = NoID /\ current.phase = "Creating"
        /\ obj.rv = current.rv => obj = Recorded(current, obj.id)
        /\ obj.id # NoID /\ lists[obj.id].state # "NONE"
        /\ lists[obj.id].uid = obj.uid /\ lists[obj.id].gen \in {0, obj.gen}
    BY <2>1 DEF IInv, HandCreates
  <2>3. ASSUME obj.rv = current.rv
        PROVE  SafeWrite(current, obj, lists)
    <3>1. /\ obj.uid = current.uid /\ obj.fin = current.fin /\ obj.gen = current.gen
          /\ obj.deleting = current.deleting /\ obj.obsGen = current.gen
      BY <1>0, <2>2, <2>3 DEF Recorded, SetObservedGeneration, Objects, Object
    <3> QED BY <1>0, <1>1, <2>2, <3>1 DEF Sound
  <2> QED BY <1>0, <1>2, <1>6, <2>1, <2>3 DEF RecordList, Write
<1>7. CASE SyncStatus
  <2>1. pc = "syncStatus" /\ UNCHANGED lists
    BY <1>7 DEF SyncStatus, Write
  <2>2. ASSUME obj.rv = current.rv
        PROVE  SafeWrite(current, obj, lists)
    <3>1. /\ obj = [current EXCEPT !.phase = obj.phase, !.obsGen = obj.obsGen]
          /\ obj.obsGen \in {current.obsGen, current.gen}
          /\ ~GivenUp(current)
      BY <2>1, <2>2 DEF IInv, HandSyncs
    <3>2. /\ obj.uid = current.uid /\ obj.fin = current.fin /\ obj.gen = current.gen
          /\ obj.deleting = current.deleting /\ obj.id = current.id
      BY <1>0, <3>1 DEF Objects, Object
    <3> QED BY <1>0, <1>1, <3>1, <3>2 DEF Sound
  <2> QED BY <1>0, <1>2, <1>7, <2>1, <2>2 DEF SyncStatus, Write
<1>8. CASE SetFailed /\ UNCHANGED <<client, lists>>
  <2>1. pc = "setFailed" /\ UNCHANGED lists
    BY <1>8 DEF SetFailed
  <2>2. obj.rv = current.rv => obj = current
    BY <2>1 DEF IInv, HandReads, Known
  <2>3. obj.rv = current.rv => SafeWrite(current, MarkedFailed(obj), lists)
    BY <1>0, <1>1, <2>2
       DEF Sound, Objects, Object, MarkedFailed, SetFailedStatus, SetObservedGeneration
  <2> QED BY <1>0, <1>2, <1>8, <2>1, <2>3, CopyType DEF SetFailed
<1> QED BY <1>3, <1>4, <1>5, <1>6, <1>7, <1>8

(* After an update the handler has returned, or it goes on to the creation *)
(* with the copy the API server answered with.                             *)
LEMMA UpdateHands ==
  ASSUME IInv, TypeOK',
         AddFinalizer \/ RemoveFinalizer \/ MarkCreating \/ RecordList
           \/ SyncStatus \/ (SetFailed /\ UNCHANGED <<client, lists>>)
  PROVE  (HandDeletes /\ HandReads /\ HandCreates /\ HandSyncs)'
<1>0. TypeOK /\ obj \in Objects /\ current \in Objects
  BY StoreTyped DEF IInv
<1>1. CASE ~MarkCreating
  <2>1. pc' = "idle"
    BY <1>1 DEF AddFinalizer, RemoveFinalizer, RecordList, SyncStatus, SetFailed, Write,
                WriteFails, Return
  <2> QED BY <2>1, IdleHands
<1>2. CASE MarkCreating
  <2> DEFINE o == [obj EXCEPT !.phase = "Creating"]
  <2>1. pc = "markCreating" /\ ((Writes(o) /\ Proceed("create", current')) \/ WriteFails(o))
    BY <1>2 DEF MarkCreating, Write, current
  <2>2. CASE WriteFails(o)
    BY <2>2, IdleHands DEF WriteFails, Return
  <2>3. CASE Writes(o) /\ Proceed("create", current')
    <3>1. /\ o \in Objects /\ o.fin /\ o.id = NoID
          /\ o.phase = "Creating"
      BY <1>0, <2>1 DEF IInv, HandReads, Objects, Object, Phases
    <3>2. /\ current.live
          /\ \/ versions' = versions /\ o = current
             \/ current' = [o EXCEPT !.rv = current.rv + 1, !.live = ~Gone(o)]
      BY <1>0, <2>3, <3>1, WriteStore
    <3> HIDE DEF o
    <3>3. current'.live /\ current'.fin /\ current'.id = NoID
          /\ current'.phase = "Creating"
      <4>1. CASE versions' = versions /\ o = current
        BY <3>1, <3>2, <4>1 DEF current
      <4>2. CASE current' = [o EXCEPT !.rv = current.rv + 1, !.live = ~Gone(o)]
        BY <3>1, <4>2 DEF Gone, Objects, Object
      <4> QED BY <3>2, <4>1, <4>2
    <3>4. pc' = "create" /\ obj' = current'
      BY <2>3 DEF Proceed
    <3>5. current'.rv <= current'.rv
      BY <3>4 DEF TypeOK, Object
    <3>6. HandCreates'
      BY <3>3, <3>4, <3>5 DEF HandCreates
    <3> QED BY <3>4, <3>6 DEF HandDeletes, HandReads, HandSyncs
  <2> QED BY <2>1, <2>2, <2>3
<1> QED BY <1>1, <1>2

(* The worker begins a reconcile from the cache ...                        *)
LEMMA BeginStep ==
  ASSUME IInv, HandleDeletion \/ EnsureFinalizer \/ ReconcilePolicy
               \/ (Refetch /\ UNCHANGED <<client, lists>>)
  PROVE  /\ StoreStep /\ UNCHANGED versions
         /\ (HandDeletes /\ HandReads /\ HandCreates /\ HandSyncs)'
<1>1. UNCHANGED <<versions, lists>>
  BY DEF HandleDeletion, EnsureFinalizer, ReconcilePolicy, Refetch
<1>2. StoreStep /\ current' = current
  BY <1>1, ReadOnly, OCIKept
<1>3. Known(Cached(versions), current', lists')
  BY <1>1, <1>2, CacheKnown
<1>4. CASE HandleDeletion
  BY <1>1, <1>2, <1>3, <1>4 DEF HandleDeletion, Proceed, HandDeletes, HandReads, HandCreates, HandSyncs
<1>5. CASE EnsureFinalizer \/ ReconcilePolicy
  BY <1>1, <1>2, <1>3, <1>5 DEF EnsureFinalizer, ReconcilePolicy, Proceed, HandDeletes, HandReads,
                                HandCreates, HandSyncs, GivenUp
<1>6. CASE Refetch
  BY <1>1, <1>2, <1>3, <1>6, IdleHands DEF Refetch, Proceed, Return, HandDeletes, HandReads,
                                           HandCreates, HandSyncs
<1> QED BY <1>1, <1>2, <1>4, <1>5, <1>6

(* ... and calls OCI with what it then holds.                              *)
LEMMA CallStep ==
  ASSUME IInv, DeleteList \/ CreateList \/ GetList
  PROVE  /\ StoreStep /\ UNCHANGED versions
         /\ (HandDeletes /\ HandReads /\ HandCreates /\ HandSyncs)'
<1>0. /\ TypeOK /\ Sound(current, lists)
      /\ obj \in Objects /\ current \in Objects /\ lists \in [ListIDs -> ListRecord]
  BY StoreTyped DEF IInv
<1>1. UNCHANGED versions
  BY DEF DeleteList, CreateList, GetList
<1>2. CASE DeleteList
  <2>1. OCIKeeps(lists, lists')
    <3>1. \/ lists' = lists
          \/ /\ lists[obj.id].state # "PURGED"
             /\ lists' = [lists EXCEPT ![obj.id].state = "TERMINATING"]
      BY <1>2 DEF DeleteList, Deletes
    <3> QED BY <1>0, <3>1 DEF OCIKeeps, ListRecord, Ending
  <2>2. StoreStep /\ current' = current
    BY <1>1, <2>1, ReadOnly
  <2>3. CASE pc' = "idle"
    BY <1>1, <2>2, <2>3, IdleHands
  <2>4. CASE pc' # "idle"
    <3>1. /\ pc = "delete" /\ pc' = "removeFinalizer" /\ obj' = obj
          /\ lists' = Deletes(obj.id)
      BY <1>2, <2>4 DEF DeleteList, Return, Proceed
    <3>2. Known(obj, current, lists) /\ obj.deleting /\ obj.id # NoID
      BY <3>1 DEF IInv, HandDeletes
    <3>3. Known(obj, current', lists')
      BY <1>0, <2>1, <2>2, <3>2, KnownKept DEF StoreStep
    <3>4. lists'[obj.id].state \in Ending
      BY <1>0, <3>1, <3>2 DEF Deletes, Ending, Objects, Object, ListRecord
    <3>5. HandDeletes'
      BY <3>1, <3>2, <3>3, <3>4 DEF HandDeletes
    <3> QED BY <1>1, <2>2, <3>1, <3>5 DEF HandReads, HandCreates, HandSyncs
  <2> QED BY <2>3, <2>4
<1>3. CASE CreateList
  <2>1. OCIKeeps(lists, lists')
    <3>1. \/ lists' = lists
          \/ \E i \in ListIDs :
               /\ lists[i].state = "NONE"
               /\ \A j \in ListIDs \ {i} : lists'[j] = lists[j]
      BY <1>0, <1>3 DEF CreateList
    <3> QED BY <3>1 DEF OCIKeeps, Ending
  <2>2. StoreStep /\ current' = current
    BY <1>1, <2>1, ReadOnly
  <2>3. /\ pc = "create" /\ obj.rv <= current.rv
        /\ current.live /\ current.fin /\ current.id = NoID
        /\ current.uid = obj.uid /\ current.phase = "Creating"
        /\ obj.rv = current.rv => obj = current
        /\ obj.id = NoID
    BY <1>3 DEF CreateList, IInv, HandCreates
  <2>4. CASE pc' = "record"
    <3>1. PICK i \in ListIDs :
            /\ obj' = Recorded(obj, i)
            /\ lists' = [lists EXCEPT ![i] = [state |-> "PROVISIONING", uid |-> obj.uid, gen |-> obj.gen]]
      BY <1>3, <2>4 DEF CreateList, Proceed, GiveUp
    <3>2. /\ obj'.rv = obj.rv /\ obj'.uid = obj.uid /\ obj'.gen = obj.gen /\ obj'.id = i
      BY <1>0, <3>1 DEF Recorded, SetObservedGeneration, Objects, Object
    <3>3. /\ lists'[i].state = "PROVISIONING" /\ lists'[i].uid = obj.uid /\ lists'[i].gen = obj.gen
      BY <1>0, <3>1
    <3>4. i # NoID
      BY ListIDAssumption
    <3>5. obj'.rv = current'.rv => obj' = Recorded(current', obj'.id)
      BY <2>2, <2>3, <3>1, <3>2
    <3>6. HandCreates'
      BY <2>2, <2>3, <2>4, <3>2, <3>3, <3>4, <3>5 DEF HandCreates
    <3> QED BY <1>1, <2>2, <2>4, <3>6 DEF HandDeletes, HandReads, HandSyncs
  <2>5. CASE pc' = "refetch"
    <3>1. obj' = obj
      BY <1>3, <2>5 DEF CreateList, Proceed, GiveUp
    <3>2. obj.rv <= current'.rv /\ (obj.rv = current'.rv => obj = current') /\ obj.id = NoID
      BY <2>2, <2>3
    <3>3. HandReads'
      BY <2>5, <3>1, <3>2 DEF HandReads, Known
    <3> QED BY <1>1, <2>2, <2>5, <3>3 DEF HandDeletes, HandCreates, HandSyncs
  <2> QED BY <1>3, <2>4, <2>5 DEF CreateList, GiveUp, Proceed
<1>4. CASE GetList
  <2>1. StoreStep /\ current' = current
    BY <1>1, <1>4, ReadOnly, OCIKept DEF GetList
  <2>2. CASE pc' = "idle"
    BY <1>1, <2>1, <2>2, IdleHands
  <2>3. CASE pc' # "idle"
    <3>1. pc = "getList" /\ pc' = "syncStatus" /\ obj' = Synced(obj, lists[obj.id].state)
      BY <1>4, <2>3 DEF GetList, Return, Proceed
    <3>2. Known(obj, current, lists) /\ ~GivenUp(obj)
      BY <3>1 DEF IInv, HandReads
    <3>3. /\ obj'.rv = obj.rv
          /\ obj' = [obj EXCEPT !.phase = obj'.phase, !.obsGen = obj'.obsGen]
          /\ obj'.obsGen \in {obj.obsGen, obj.gen}
      BY <1>0, <3>1 DEF Synced, SetObservedGeneration, Objects, Object
    <3>4. HandSyncs'
      BY <2>1, <3>1, <3>2, <3>3 DEF HandSyncs, Known, GivenUp
    <3> QED BY <1>1, <2>1, <3>1, <3>4 DEF HandDeletes, HandReads, HandCreates
  <2> QED BY <2>2, <2>3
<1> QED BY <1>2, <1>3, <1>4

(* The world around the worker: users, OCI, the informer, timers, crashes. *)
LEMMA WorldStep ==
  ASSUME IInv, TypeOK',
         \/ ReconcileNothing \/ Cloud \/ Restart \/ UNCHANGED vars
         \/ Runtime /\ UNCHANGED <<attempt, client, lists>>
  PROVE  /\ StoreStep
         /\ \/ versions' = versions
            \/ \E o \in Objects : versions' = NewVersion(versions, o)
            \/ Len(versions) > 1 /\ versions' = Tail(versions)
         /\ (HandDeletes /\ HandReads /\ HandCreates /\ HandSyncs)'
<1>0. /\ TypeOK /\ Sound(current, lists) /\ versions \in Streams
      /\ current \in Objects /\ lists \in [ListIDs -> ListRecord]
  BY StoreTyped DEF IInv
<1>1. CASE ReconcileNothing \/ UNCHANGED vars
  <2>1. UNCHANGED <<versions, pc, obj, lists>>
    BY <1>1 DEF ReconcileNothing, vars
  <2>2. StoreStep /\ current' = current
    BY <2>1, ReadOnly, OCIKept
  <2> QED BY <2>1, <2>2, HandsKept DEF StoreStep
<1>2. CASE Cloud
  <2>1. UNCHANGED <<versions, pc, obj>>
    BY <1>2 DEF Cloud, Progress, Purge, Console, workerVars
  <2>2. OCIKeeps(lists, lists')
    BY <1>0, <1>2 DEF Cloud, Progress, Purge, Console, OCIKeeps, ListRecord, Ending
  <2>3. StoreStep /\ current' = current
    BY <2>1, <2>2, ReadOnly
  <2> QED BY <2>1, <2>3, HandsKept DEF StoreStep
<1>3. CASE Restart
  <2>1. UNCHANGED <<versions, lists>> /\ pc' = "idle"
    BY <1>3 DEF Restart, RuntimeRestart
  <2> QED BY <2>1, ReadOnly, OCIKept, IdleHands
<1>4. CASE Deliver /\ UNCHANGED <<attempt, client, lists>>
  <2>1. UNCHANGED <<pc, obj, lists>> /\ Len(versions) > 1 /\ versions' = Tail(versions)
    BY <1>4 DEF Deliver, workerVars
  <2>2. current' = current
    BY <1>0, <2>1, TailStream DEF current
  <2>3. StoreStep
    BY <1>0, <2>1, <2>2, OCIKept DEF StoreStep, Evolves
  <2> QED BY <2>1, <2>2, <2>3, HandsKept DEF StoreStep
<1>5. CASE (TimerFires \/ Resync) /\ UNCHANGED <<attempt, client, lists>>
  <2>1. UNCHANGED <<versions, pc, obj, lists>>
    BY <1>5 DEF TimerFires, Resync, workerVars
  <2>2. StoreStep /\ current' = current
    BY <2>1, ReadOnly, OCIKept
  <2> QED BY <2>1, <2>2, HandsKept DEF StoreStep
<1>6. CASE Users /\ UNCHANGED <<attempt, client, lists>>
  <2>1. UNCHANGED <<pc, obj, lists>>
    BY <1>6 DEF Users, workerVars
  <2>2. UserStep(current, current') /\ current' \in Objects
    BY <1>0, <1>6, UsersStep
  <2>3. StoreStep
    BY <1>0, <2>1, <2>2, SoundUnderUsers, OCIKept DEF StoreStep
  <2>4. \E o \in Objects : versions' = NewVersion(versions, o)
    BY <1>0, <1>6, CopyType DEF Users, Create, EditSpec, Touch, Delete, ReleaseHold, current
  <2> QED BY <2>1, <2>2, <2>3, <2>4, HandsKept DEF StoreStep
<1> QED BY <1>1, <1>2, <1>3, <1>4, <1>5, <1>6 DEF Runtime

-----------------------------------------------------------------------------
(* Every step of the system keeps the inductive invariant ...              *)
LEMMA InvStep ==
  ASSUME IInv, [Next]_vars
  PROVE  IInv' /\ StoreStep
<1>0. TypeOK /\ TypeOK'
  BY TypeStep DEF IInv
<1>1. CASE AddFinalizer \/ RemoveFinalizer \/ MarkCreating \/ RecordList
             \/ SyncStatus \/ (SetFailed /\ UNCHANGED <<client, lists>>)
  <2>1. StoreStep /\ (HandDeletes /\ HandReads /\ HandCreates /\ HandSyncs)'
    BY <1>0, <1>1, UpdateStep, UpdateHands
  <2>2. \/ versions' = versions
        \/ \E o \in Objects : versions' = NewVersion(versions, o)
    <3>1. \E o \in Objects : Writes(o) \/ WriteFails(o)
      BY <1>0, <1>1, StoreTyped, CopyType
         DEF AddFinalizer, RemoveFinalizer, MarkCreating, RecordList, SyncStatus,
             SetFailed, Write
    <3> QED BY <1>0, <3>1, WriteStore
  <2>3. StreamIsKnown'
    BY <1>0, <2>1, <2>2, StreamStaysKnown DEF StoreStep
  <2> QED BY <1>0, <2>1, <2>3, SoundNext DEF IInv, StoreStep
<1>2. CASE \/ HandleDeletion \/ EnsureFinalizer \/ ReconcilePolicy
           \/ (Refetch /\ UNCHANGED <<client, lists>>)
           \/ DeleteList \/ CreateList \/ GetList
  <2>1. /\ StoreStep /\ UNCHANGED versions
        /\ (HandDeletes /\ HandReads /\ HandCreates /\ HandSyncs)'
    <3>1. CASE \/ HandleDeletion \/ EnsureFinalizer \/ ReconcilePolicy
               \/ (Refetch /\ UNCHANGED <<client, lists>>)
      BY <3>1, BeginStep
    <3>2. CASE DeleteList \/ CreateList \/ GetList
      BY <3>2, CallStep
    <3> QED BY <1>2, <3>1, <3>2
  <2>2. StreamIsKnown'
    BY <1>0, <2>1, StreamStaysKnown DEF StoreStep
  <2> QED BY <1>0, <2>1, <2>2, SoundNext DEF IInv, StoreStep
<1>3. CASE \/ ReconcileNothing \/ Cloud \/ Restart \/ UNCHANGED vars
           \/ Runtime /\ UNCHANGED <<attempt, client, lists>>
  <2>1. /\ StoreStep
        /\ \/ versions' = versions
           \/ \E o \in Objects : versions' = NewVersion(versions, o)
           \/ Len(versions) > 1 /\ versions' = Tail(versions)
        /\ (HandDeletes /\ HandReads /\ HandCreates /\ HandSyncs)'
    BY <1>0, <1>3, WorldStep
  <2>2. StreamIsKnown'
    BY <1>0, <2>1, StreamStaysKnown DEF StoreStep
  <2> QED BY <1>0, <2>1, <2>2, SoundNext DEF IInv, StoreStep
<1> QED BY <1>1, <1>2, <1>3 DEF Next, Worker

(* ... which holds when the manager starts on an empty name.               *)
LEMMA InvInit == Init => IInv
<1> SUFFICES ASSUME Init PROVE IInv
  OBVIOUS
<1>1. TypeOK
  BY TypeInit
<1>2. versions = <<NoObject>> /\ pc = "idle"
  BY DEF Init, RuntimeInit
<1>3. current = NoObject /\ Len(versions) = 1 /\ versions[1] = NoObject
  BY <1>2 DEF current, Stored
<1>a. NoObject.id = NoID /\ NoObject.rv = 0 /\ ~NoObject.fin
      /\ NoObject.obsGen = 0 /\ NoObject.gen = 0
  BY DEF NoObject
<1>4. StreamIsKnown
  <2>1. Known(NoObject, NoObject, lists)
    BY <1>a DEF Known
  <2>2. \A k \in 1 .. Len(versions) : k = 1
    BY <1>3
  <2> QED BY <1>3, <2>1, <2>2 DEF StreamIsKnown
<1>5. Sound(current, lists)
  BY <1>3, <1>a DEF Sound
<1> QED BY <1>1, <1>2, <1>4, <1>5 DEF IInv, HandDeletes, HandReads, HandCreates, HandSyncs

(* The inductive invariant: what a handler and the cache hold is an old    *)
(* truth about the store, never a false one.                               *)
THEOREM InvCorrect == Spec => []IInv
BY InvInit, InvStep, PTL DEF Spec

-----------------------------------------------------------------------------
(* The safety properties.                                                  *)

(* The worker's other writes leave the ID and the generation alone.        *)
LEMMA WorkKeeps ==
  ASSUME IInv, Worker, ~RecordList
  PROVE  current'.id = current.id /\ current'.gen = current.gen
<1>0. TypeOK /\ obj \in Objects /\ current \in Objects
  BY StoreTyped DEF IInv
<1>1. ASSUME NEW o \in Objects, Writes(o) \/ WriteFails(o),
             obj.rv = current.rv => o.id = current.id /\ o.gen = current.gen
      PROVE  current'.id = current.id /\ current'.gen = current.gen
  <2>1. CASE versions' = versions
    BY <2>1 DEF current
  <2>2. CASE versions' # versions
    <3>1. /\ obj.rv = current.rv
          /\ current' = [o EXCEPT !.rv = current.rv + 1, !.live = ~Gone(o)]
      BY <1>0, <1>1, <2>2, WriteStore
    <3> QED BY <1>1, <3>1 DEF Objects, Object
  <2> QED BY <2>1, <2>2
<1>2. CASE AddFinalizer \/ RemoveFinalizer \/ MarkCreating
  <2>1. obj.rv = current.rv => obj = current
    BY <1>2 DEF IInv, HandReads, HandDeletes, Known, AddFinalizer, RemoveFinalizer,
                MarkCreating, Write
  <2>2. PICK o \in {[obj EXCEPT !.fin = TRUE], [obj EXCEPT !.fin = FALSE],
                    [obj EXCEPT !.phase = "Creating"]} : Writes(o) \/ WriteFails(o)
    BY <1>2 DEF AddFinalizer, RemoveFinalizer, MarkCreating, Write
  <2>3. o \in Objects /\ o.id = obj.id /\ o.gen = obj.gen
    <3>1. CASE o = [obj EXCEPT !.fin = TRUE]
      BY <1>0, <3>1 DEF Objects, Object
    <3>2. CASE o = [obj EXCEPT !.fin = FALSE]
      BY <1>0, <3>2 DEF Objects, Object
    <3>3. CASE o = [obj EXCEPT !.phase = "Creating"]
      BY <1>0, <3>3 DEF Objects, Object, Phases
    <3> QED BY <2>2, <3>1, <3>2, <3>3
  <2> QED BY <1>1, <2>1, <2>2, <2>3
<1>3. CASE SyncStatus
  <2>1. obj.rv = current.rv => obj.id = current.id /\ obj.gen = current.gen
    <3>1. obj.rv = current.rv =>
            obj = [current EXCEPT !.phase = obj.phase, !.obsGen = obj.obsGen]
      BY <1>3 DEF IInv, HandSyncs, SyncStatus, Write
    <3> QED BY <1>0, <3>1 DEF Objects, Object
  <2> QED BY <1>0, <1>1, <1>3, <2>1 DEF SyncStatus, Write
<1>4. CASE SetFailed
  <2>1. obj.rv = current.rv => obj = current
    BY <1>4 DEF IInv, HandReads, Known, SetFailed
  <2>2. /\ MarkedFailed(obj) \in Objects
        /\ MarkedFailed(obj).id = obj.id /\ MarkedFailed(obj).gen = obj.gen
    BY <1>0, CopyType DEF MarkedFailed, SetFailedStatus, SetObservedGeneration, Objects, Object
  <2> QED BY <1>1, <1>4, <2>1, <2>2 DEF SetFailed
<1>5. CASE \/ ReconcileNothing \/ HandleDeletion \/ EnsureFinalizer \/ ReconcilePolicy
           \/ DeleteList \/ CreateList \/ GetList \/ Refetch
  BY <1>5 DEF ReconcileNothing, HandleDeletion, EnsureFinalizer, ReconcilePolicy,
              DeleteList, CreateList, GetList, Refetch, current
<1> QED BY <1>2, <1>3, <1>4, <1>5 DEF Worker

(* Only the write of a new list's ID records one.                          *)
LEMMA OnlyRecordBinds ==
  ASSUME IInv, [Next]_vars, current.id = NoID, current'.id # NoID
  PROVE  RecordList
<1>0. TypeOK /\ versions \in Streams
  BY StoreTyped DEF IInv
<1>1. current' # current /\ versions' # versions
  BY DEF current
<1>2. CASE Worker
  BY <1>2, WorkKeeps
<1>3. CASE Runtime
  <2>1. ~Users
    BY <1>0, UsersStep DEF UserStep
  <2>2. ~Deliver
    BY <1>0, <1>1, TailStream DEF Deliver, current
  <2> QED BY <1>1, <1>3, <2>1, <2>2 DEF Runtime, TimerFires, Resync
<1>4. CASE Cloud \/ Restart \/ UNCHANGED vars
  BY <1>1, <1>4 DEF Cloud, Progress, Purge, Console, Restart, RuntimeRestart, vars
<1> QED BY <1>2, <1>3, <1>4 DEF Next

(* The list that is recorded has the rules of the generation that is       *)
(* reported as observed with it, unless someone changed them in between.   *)
THEOREM RecordedRulesAreCurrentCorrect == Spec => RecordedRulesAreCurrent
<1>1. ASSUME IInv, [Next]_vars, current.id = NoID, current'.id # NoID
      PROVE  /\ lists[current'.id].gen \in {0, current'.gen}
             /\ current'.obsGen = current'.gen
  <2>0. TypeOK /\ obj \in Objects /\ current \in Objects
    BY <1>1, StoreTyped DEF IInv
  <2>1. RecordList
    BY <1>1, OnlyRecordBinds
  <2>2. pc = "record" /\ (Writes(obj) \/ WriteFails(obj))
    BY <2>1 DEF RecordList, Write
  <2>3. versions' # versions
    BY <1>1 DEF current
  <2>4. /\ obj.rv = current.rv
        /\ current' = [obj EXCEPT !.rv = current.rv + 1, !.live = ~Gone(obj)]
    BY <2>0, <2>2, <2>3, WriteStore
  <2>5. /\ obj = Recorded(current, obj.id)
        /\ lists[obj.id].gen \in {0, obj.gen}
    BY <1>1, <2>2, <2>4 DEF IInv, HandCreates
  <2>6. obj.obsGen = obj.gen
    BY <2>0, <2>5 DEF Recorded, SetObservedGeneration, Objects, Object
  <2>7. /\ current'.id = obj.id /\ current'.gen = obj.gen
        /\ current'.obsGen = obj.obsGen
    BY <2>0, <2>4 DEF Objects, Object
  <2> QED BY <2>5, <2>6, <2>7
<1>2. IInv /\ [Next]_vars =>
        [current.id = NoID /\ current'.id # NoID =>
           /\ lists[current'.id].gen \in {0, current'.gen}
           /\ current'.obsGen = current'.gen]_vars
  BY <1>1
<1> QED BY <1>2, InvCorrect, PTL DEF Spec, RecordedRulesAreCurrent

(* OCI's state of a list changes through its creation, its deletion or OCI *)
(* itself.                                                                 *)
LEMMA OCISteps ==
  ASSUME [Next]_vars, lists' # lists
  PROVE  CreateList \/ DeleteList \/ Cloud
BY DEF Next, Worker, Restart, ReconcileNothing, HandleDeletion, EnsureFinalizer,
       ReconcilePolicy, AddFinalizer, RemoveFinalizer, MarkCreating, RecordList,
       GetList, SyncStatus, Write, vars

(* Only CreateSecurityList brings a list into being.                       *)
LEMMA OnlyCreate ==
  ASSUME IInv, [Next]_vars, NEW i \in ListIDs,
         lists[i].state = "NONE", lists'[i].state # "NONE"
  PROVE  CreateList
<1>0. /\ Sound(current, lists) /\ obj \in Objects /\ lists \in [ListIDs -> ListRecord]
  BY StoreTyped DEF IInv
<1>1. CreateList \/ DeleteList \/ Cloud
  BY OCISteps
<1>2. ~Cloud
  BY <1>0 DEF Cloud, Progress, Purge, Console, ListRecord
<1>3. ASSUME DeleteList PROVE FALSE
  <2>1. pc = "delete" /\ obj.id = i
    BY <1>0, <1>3 DEF DeleteList, Deletes
  <2>2. Known(obj, current, lists) /\ obj.id # NoID
    BY <2>1 DEF IInv, HandDeletes
  <2> QED BY <1>0, <2>1, <2>2 DEF Known, Sound, Ending
<1> QED BY <1>1, <1>2, <1>3

(* A generation given up stays given up, and no list is created for it.    *)
THEOREM GivenUpIsFinalCorrect == Spec => GivenUpIsFinal
<1>1. ASSUME IInv, [Next]_vars, GivenUp(current), current'.uid = current.uid,
             current'.gen = current.gen
      PROVE  /\ GivenUp(current')
             /\ \A i \in ListIDs : lists[i].state = "NONE" => lists'[i].state = "NONE"
  <2>1. GivenUp(current')
    BY <1>1, InvStep DEF StoreStep, Evolves
  <2>2. ASSUME NEW i \in ListIDs, lists[i].state = "NONE", lists'[i].state # "NONE"
        PROVE  FALSE
    <3>1. CreateList
      BY <1>1, <2>2, OnlyCreate
    <3>2. current.phase = "Creating"
      BY <1>1, <3>1 DEF CreateList, IInv, HandCreates
    <3> QED BY <1>1, <3>2 DEF GivenUp
  <2> QED BY <2>1, <2>2
<1>2. IInv /\ [Next]_vars =>
        [GivenUp(current) /\ current'.uid = current.uid /\ current'.gen = current.gen
           => /\ GivenUp(current')
              /\ \A i \in ListIDs : lists[i].state = "NONE" => lists'[i].state = "NONE"]_vars
  BY <1>1
<1>3. GivenUp(current)' <=> GivenUp(current')
  BY DEF GivenUp
<1> QED BY <1>2, <1>3, InvCorrect, PTL DEF Spec, GivenUpIsFinal
=============================================================================
