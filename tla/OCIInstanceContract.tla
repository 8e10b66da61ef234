------------------------ MODULE OCIInstanceContract ------------------------
(***************************************************************************)
(* Proofs that the OCIInstance reconciler implements ManagedResource, each *)
(* of its steps being a step, or none, of the claim as it is stored, and   *)
(* that every orphaned instance is paid for, for any set of OCIDs and any  *)
(* bounds.                                                                 *)
(***************************************************************************)
EXTENDS OCIInstanceProofs, FiniteSetTheorems

Claims == [uid: Nat, live: BOOLEAN, deleting: BOOLEAN, fin: BOOLEAN,
           id: InstanceIDs \cup {NoID}]

Clouds == [InstanceIDs -> [is: {"none", "up", "ending"}, uid: Nat]]

(* A step of the claim and its instances, or none.                         *)
ContractStep == [Contract!Next]_(Contract!cvars)

-----------------------------------------------------------------------------
(* The claim of a resource, field by field.                                *)
LEMMA ClaimFields ==
  ASSUME NEW o \in Objects
  PROVE  /\ ClaimOf(o) \in Claims
         /\ ClaimOf(o).uid = o.uid /\ ClaimOf(o).live = o.live
         /\ ClaimOf(o).deleting = o.deleting /\ ClaimOf(o).fin = o.fin
         /\ ClaimOf(o).id = o.id
BY DEF ClaimOf, Claims, Objects, Object

(* What is seen of the instances OCI runs.                                 *)
LEMMA CloudFields ==
  ASSUME NEW r \in [InstanceIDs -> OCIRecord]
  PROVE  /\ CloudOf(r) \in Clouds
         /\ \A i \in InstanceIDs :
              /\ CloudOf(r)[i].uid = r[i].uid
              /\ CloudOf(r)[i].is = SeenAs(r[i].state)
<1>1. \A s : SeenAs(s) \in {"none", "up", "ending"}
  BY DEF SeenAs
<1> QED BY <1>1 DEF CloudOf, Clouds, OCIRecord

(* The three ways an instance is seen.                                     *)
LEMMA Seen ==
  /\ SeenAs("NONE") = "none"
  /\ \A s \in Ending : SeenAs(s) = "ending"
  /\ \A s : s # "NONE" /\ s \notin Ending => SeenAs(s) = "up"
BY DEF SeenAs, Ending

(* The claim and its instances as they are after a step.                   *)
LEMMA Mapped ==
  /\ ClaimOf(current)' = ClaimOf(current')
  /\ CloudOf(oci)' = CloudOf(oci')
BY DEF ClaimOf, CloudOf, SeenAs, Ending

-----------------------------------------------------------------------------
(* Nothing happens to the claim when neither the store nor what OCI is     *)
(* seen to run changes.                                                    *)
LEMMA Stutter ==
  ASSUME current' = current, CloudOf(oci') = CloudOf(oci)
  PROVE  ContractStep
BY Mapped DEF ContractStep, Contract!cvars

(* A change of something else than the claim leaves it alone, or removes   *)
(* the resource because no finalizer holds it any more.                    *)
LEMMA SameClaim ==
  ASSUME UNCHANGED oci, current \in Objects, current' \in Objects,
         current.live,
         current'.uid = current.uid, current'.deleting = current.deleting,
         current'.fin = current.fin, current'.id = current.id,
         current'.live \/ (current.deleting /\ ~current.fin)
  PROVE  ContractStep
<1>1. CASE current'.live
  <2>1. ClaimOf(current') = ClaimOf(current)
    BY <1>1, ClaimFields DEF Claims
  <2> QED BY <2>1, Mapped DEF ContractStep, Contract!cvars
<1>2. CASE ~current'.live
  <2>1. ClaimOf(current') = [ClaimOf(current) EXCEPT !.live = FALSE]
    BY <1>2, ClaimFields DEF Claims
  <2>2. ClaimOf(current).live /\ ClaimOf(current).deleting /\ ~ClaimOf(current).fin
    BY <1>2, ClaimFields
  <2>3. Contract!Vanish
    BY <2>1, <2>2, Mapped DEF Contract!Vanish
  <2> QED BY <2>3 DEF ContractStep, Contract!Next
<1> QED BY <1>1, <1>2

(* What users do to the resource.                                          *)
LEMMA UsersRefine ==
  ASSUME TypeOK, Sound(current, oci), Users, UNCHANGED oci
  PROVE  ContractStep
<1>0. current \in Objects /\ current' \in Objects
  BY StoreTyped, UsersStep
<1>1. CASE Create
  <2>1. PICK h \in BOOLEAN : versions' = NewVersion(versions, Created(current, h))
    BY <1>1 DEF Create, current
  <2>2. Created(current, h) \in Objects
    BY <1>0, CopyType
  <2>3. current' = [Created(current, h) EXCEPT !.rv = current.rv + 1,
                                               !.live = ~Gone(Created(current, h))]
    BY <2>1, <2>2, NewStored
  <2>4. /\ ~Created(current, h).deleting /\ ~Created(current, h).fin
        /\ Created(current, h).id = NoID /\ Created(current, h).uid = current.uid + 1
    BY <1>0 DEF Created, NoObject
  <2>5. ~Gone(Created(current, h))
    BY <2>4 DEF Gone
  <2>6. /\ current'.live /\ ~current'.deleting /\ ~current'.fin
        /\ current'.id = NoID /\ current'.uid = current.uid + 1
    BY <2>2, <2>3, <2>4, <2>5 DEF Objects, Object
  <2>7. ~current.live
    BY <1>1 DEF Create, current
  <2>8. Contract!Request
    <3>1. ClaimOf(current') = [uid |-> ClaimOf(current).uid + 1, live |-> TRUE,
                               deleting |-> FALSE, fin |-> FALSE, id |-> NoID]
      BY <1>0, <2>6, ClaimFields DEF Claims
    <3>2. ~ClaimOf(current).live
      BY <1>0, <2>7, ClaimFields
    <3> QED BY <3>1, <3>2, Mapped DEF Contract!Request
  <2> QED BY <2>8 DEF ContractStep, Contract!Next
<1>2. CASE Delete
  <2>1. /\ versions' = NewVersion(versions, Deleted(current))
        /\ current.live /\ ~current.deleting
    BY <1>2 DEF Delete, current
  <2>2. Deleted(current) \in Objects
    BY <1>0, CopyType
  <2>3. current' = [Deleted(current) EXCEPT !.rv = current.rv + 1,
                                            !.live = ~Gone(Deleted(current))]
    BY <2>1, <2>2, NewStored
  <2>4. /\ Deleted(current).deleting /\ Deleted(current).fin = current.fin
        /\ Deleted(current).id = current.id /\ Deleted(current).uid = current.uid
    BY <1>0 DEF Deleted, Objects, Object
  <2>5. /\ current'.deleting /\ current'.fin = current.fin
        /\ current'.id = current.id /\ current'.uid = current.uid
        /\ current'.live \/ ~current.fin
    BY <2>2, <2>3, <2>4 DEF Gone, Objects, Object
  <2>6. Contract!Withdraw
    <3> DEFINE c == ClaimOf(current)
               d == ClaimOf(current')
    <3>1. /\ c \in Claims /\ d \in Claims
          /\ c.live /\ ~c.deleting
          /\ d.deleting /\ d.uid = c.uid /\ d.fin = c.fin /\ d.id = c.id
          /\ d.live \/ ~c.fin
      BY <1>0, <2>1, <2>5, ClaimFields
    <3>2. d = [c EXCEPT !.deleting = TRUE, !.live = d.live] /\ d.live \in {TRUE, c.fin}
      <4> HIDE DEF c, d
      <4> QED BY <3>1 DEF Claims
    <3> QED BY <3>1, <3>2, Mapped DEF Contract!Withdraw
  <2> QED BY <2>6 DEF ContractStep, Contract!Next
<1>3. CASE EditSpec \/ Touch \/ ReleaseHold
  <2>1. PICK o \in {Edited(current), current, Released(current)} :
          versions' = NewVersion(versions, o) /\ current.live
    BY <1>3 DEF EditSpec, Touch, ReleaseHold, current
  <2>2. o \in Objects
    BY <1>0, <2>1, CopyType
  <2>3. /\ o.uid = current.uid /\ o.fin = current.fin /\ o.id = current.id
        /\ o.deleting = current.deleting
    <3>1. CASE o = current
      BY <3>1
    <3>2. CASE o = Edited(current)
      BY <1>0, <3>2 DEF Edited, Objects, Object
    <3>3. CASE o = Released(current)
      BY <1>0, <3>3 DEF Released, Objects, Object
    <3> QED BY <2>1, <3>1, <3>2, <3>3
  <2>4. current' = [o EXCEPT !.rv = current.rv + 1, !.live = ~Gone(o)]
    BY <2>1, <2>2, NewStored
  <2>5. /\ current'.uid = current.uid /\ current'.deleting = current.deleting
        /\ current'.fin = current.fin /\ current'.id = current.id
        /\ current'.live \/ (current.deleting /\ ~current.fin)
    BY <2>2, <2>3, <2>4 DEF Gone, Objects, Object
  <2> QED BY <1>0, <2>1, <2>5, SameClaim
<1> QED BY <1>1, <1>2, <1>3 DEF Users

-----------------------------------------------------------------------------
(* What an update leaves in the store, said of the copy it writes.         *)
LEMMA Written ==
  ASSUME TypeOK, NEW o \in Objects, Writes(o) \/ WriteFails(o)
  PROVE  \/ current' = current
         \/ /\ obj.rv = current.rv /\ current.live /\ current' \in Objects
            /\ current'.uid = o.uid /\ current'.deleting = o.deleting
            /\ current'.fin = o.fin /\ current'.id = o.id
            /\ current'.live \/ (o.deleting /\ ~o.fin)
<1>1. CASE versions' = versions
  BY <1>1 DEF current
<1>2. CASE versions' # versions
  <2>1. /\ obj.rv = current.rv /\ current.live /\ current' \in Objects
        /\ current' = [o EXCEPT !.rv = current.rv + 1, !.live = ~Gone(o)]
    BY <1>2, WriteStore
  <2> QED BY <2>1 DEF Gone, Objects, Object
<1> QED BY <1>1, <1>2

(* An update of the phase or of observedGeneration is no step of the claim *)
(* but, at most, its removal.                                              *)
LEMMA StatusRefines ==
  ASSUME TypeOK, UNCHANGED oci, NEW o \in Objects, Writes(o) \/ WriteFails(o),
         obj.rv = current.rv => /\ o.uid = current.uid /\ o.id = current.id
                                /\ o.deleting = current.deleting /\ o.fin = current.fin
  PROVE  ContractStep
<1>1. current \in Objects
  BY StoreTyped
<1>2. CASE current' = current
  BY <1>2, Stutter DEF CloudOf
<1>3. CASE current' # current
  <2>1. /\ obj.rv = current.rv /\ current.live /\ current' \in Objects
        /\ current'.uid = o.uid /\ current'.deleting = o.deleting
        /\ current'.fin = o.fin /\ current'.id = o.id
        /\ current'.live \/ (o.deleting /\ ~o.fin)
    BY <1>3, Written
  <2> QED BY <1>1, <2>1, SameClaim
<1> QED BY <1>2, <1>3

(* The updates that set the status only.                                   *)
LEMMA StatusUpdatesRefine ==
  ASSUME SharedInv, MarkProvisioning \/ SyncStatus \/ (SetFailed /\ UNCHANGED <<client, oci>>)
  PROVE  ContractStep
<1>0. TypeOK /\ obj \in Objects /\ current \in Objects
  BY StoreTyped DEF SharedInv
<1>1. CASE MarkProvisioning
  <2>1. pc = "markProvisioning" /\ UNCHANGED oci
    BY <1>1 DEF MarkProvisioning, Write
  <2>2. obj.rv = current.rv => obj = current
    BY <2>1 DEF SharedInv, HandReads, Known
  <2> DEFINE o == [obj EXCEPT !.phase = "Provisioning"]
  <2>3. /\ o \in Objects
        /\ Writes(o) \/ WriteFails(o)
    BY <1>0, <1>1, CopyType DEF MarkProvisioning, Write
  <2>4. /\ o.uid = obj.uid /\ o.id = obj.id
        /\ o.deleting = obj.deleting /\ o.fin = obj.fin
    BY <1>0 DEF Objects, Object
  <2> HIDE DEF o
  <2> QED BY <1>0, <2>1, <2>2, <2>3, <2>4, StatusRefines
<1>2. CASE SyncStatus
  <2>1. pc = "syncStatus" /\ UNCHANGED oci
    BY <1>2 DEF SyncStatus, Write
  <2>2. obj.rv = current.rv =>
          obj = [current EXCEPT !.phase = obj.phase, !.obsGen = obj.obsGen]
    BY <2>1 DEF SharedInv, HandSyncs
  <2>3. obj.rv = current.rv => /\ obj.uid = current.uid /\ obj.id = current.id
                               /\ obj.deleting = current.deleting /\ obj.fin = current.fin
    BY <1>0, <2>2 DEF Objects, Object
  <2> QED BY <1>0, <1>2, <2>1, <2>3, StatusRefines DEF SyncStatus, Write
<1>3. CASE SetFailed /\ UNCHANGED <<client, oci>>
  <2>1. pc = "setFailed"
    BY <1>3 DEF SetFailed
  <2>2. obj.rv = current.rv => obj = current
    BY <2>1 DEF SharedInv, HandReads, Known
  <2>3. /\ MarkedFailed(obj).uid = obj.uid /\ MarkedFailed(obj).id = obj.id
        /\ MarkedFailed(obj).deleting = obj.deleting /\ MarkedFailed(obj).fin = obj.fin
    BY <1>0 DEF MarkedFailed, SetFailedStatus, SetObservedGeneration, Objects, Object
  <2> QED BY <1>0, <1>3, <2>2, <2>3, CopyType, StatusRefines DEF SetFailed
<1> QED BY <1>1, <1>2, <1>3

(* The finalizer is added to a claim that stands.                          *)
LEMMA AddFinalizerRefines ==
  ASSUME SharedInv, AddFinalizer
  PROVE  ContractStep
<1>0. TypeOK /\ obj \in Objects /\ current \in Objects
  BY StoreTyped DEF SharedInv
<1> DEFINE o == [obj EXCEPT !.fin = TRUE]
           c == ClaimOf(current)
           d == ClaimOf(current')
<1>1. /\ pc = "addFinalizer" /\ UNCHANGED oci
      /\ Writes(o) \/ WriteFails(o)
  BY DEF AddFinalizer, Write
<1>2. ~obj.deleting /\ (obj.rv = current.rv => obj = current)
  BY <1>1 DEF SharedInv, HandReads, Known
<1>3. CASE current' = current
  BY <1>1, <1>3, Stutter DEF CloudOf
<1>4. CASE current' # current
  <2>0. o \in Objects
    BY <1>0, CopyType, Zenon
  <2>1. /\ o \in Objects /\ o.uid = obj.uid /\ o.deleting = obj.deleting
        /\ o.fin /\ o.id = obj.id
    BY <1>0, <2>0 DEF Objects, Object
  <2> HIDE DEF o
  <2>2. /\ obj.rv = current.rv /\ current.live /\ current' \in Objects
        /\ current'.uid = o.uid /\ current'.deleting = o.deleting
        /\ current'.fin = o.fin /\ current'.id = o.id
        /\ current'.live \/ (o.deleting /\ ~o.fin)
    BY <1>0, <1>1, <1>4, <2>1, Written
  <2>3. /\ c \in Claims /\ d \in Claims
        /\ c.live /\ ~c.deleting
        /\ d.uid = c.uid /\ d.live /\ ~d.deleting /\ d.fin /\ d.id = c.id
    BY <1>0, <1>2, <2>1, <2>2, ClaimFields
  <2>4. d = [c EXCEPT !.fin = TRUE]
    <3> HIDE DEF c, d
    <3> QED BY <2>3 DEF Claims
  <2>5. Contract!Protect
    BY <1>1, <2>3, <2>4, Mapped DEF Contract!Protect, CloudOf
  <2> QED BY <2>5 DEF ContractStep, Contract!Next
<1> QED BY <1>3, <1>4

(* It is taken off a withdrawn claim whose instance, if any, is ending.    *)
LEMMA RemoveFinalizerRefines ==
  ASSUME SharedInv, RemoveFinalizer
  PROVE  ContractStep
<1>0. /\ TypeOK /\ obj \in Objects /\ current \in Objects
      /\ oci \in [InstanceIDs -> OCIRecord]
  BY StoreTyped DEF SharedInv
<1> DEFINE o == [obj EXCEPT !.fin = FALSE]
           c == ClaimOf(current)
           d == ClaimOf(current')
<1>1. /\ pc = "removeFinalizer" /\ UNCHANGED oci
      /\ Writes(o) \/ WriteFails(o)
  BY DEF RemoveFinalizer, Write
<1>2. /\ obj.deleting /\ (obj.rv = current.rv => obj = current)
      /\ obj.id # NoID => oci[obj.id].state \in Ending
  BY <1>1 DEF SharedInv, HandDeletes, Known
<1>3. CASE current' = current
  BY <1>1, <1>3, Stutter DEF CloudOf
<1>4. CASE current' # current
  <2>0. o \in Objects
    BY <1>0, CopyType, Zenon
  <2>1. /\ o \in Objects /\ o.uid = obj.uid /\ o.deleting = obj.deleting
        /\ ~o.fin /\ o.id = obj.id
    BY <1>0, <2>0 DEF Objects, Object
  <2> HIDE DEF o
  <2>2. /\ obj.rv = current.rv /\ current.live /\ current' \in Objects
        /\ current'.uid = o.uid /\ current'.deleting = o.deleting
        /\ current'.fin = o.fin /\ current'.id = o.id
    BY <1>0, <1>1, <1>4, <2>1, Written
  <2>3. /\ c \in Claims /\ d \in Claims
        /\ c.live /\ c.deleting
        /\ d.uid = c.uid /\ d.deleting /\ ~d.fin /\ d.id = c.id
    BY <1>0, <1>2, <2>1, <2>2, ClaimFields
  <2>4. d = [c EXCEPT !.fin = FALSE, !.live = d.live] /\ d.live \in BOOLEAN
    <3> HIDE DEF c, d
    <3> QED BY <2>3 DEF Claims
  <2>5. c.id # NoID => CloudOf(oci)[c.id].is = "ending"
    <3>1. c.id = obj.id /\ c.id \in InstanceIDs \cup {NoID}
      BY <1>0, <1>2, <2>2, ClaimFields DEF Objects, Object
    <3> HIDE DEF c
    <3> QED BY <1>0, <1>2, <3>1, CloudFields, Seen
  <2>6. Contract!Release
    BY <1>1, <2>3, <2>4, <2>5, Mapped DEF Contract!Release, CloudOf
  <2> QED BY <2>6 DEF ContractStep, Contract!Next
<1> QED BY <1>3, <1>4

-----------------------------------------------------------------------------
(* The instance a handler records is one that was launched for the claim.  *)
LEMMA RecordRefines ==
  ASSUME SharedInv, RecordInstance
  PROVE  ContractStep
<1>0. /\ TypeOK /\ obj \in Objects /\ current \in Objects
      /\ oci \in [InstanceIDs -> OCIRecord]
  BY StoreTyped DEF SharedInv
<1> DEFINE c == ClaimOf(current)
           d == ClaimOf(current')
<1>1. /\ pc = "record" /\ UNCHANGED oci
      /\ Writes(obj) \/ WriteFails(obj)
  BY DEF RecordInstance, Write
<1>2. /\ obj.rv = current.rv => /\ current.live /\ current.fin /\ current.id = NoID
                               /\ obj = Recorded(current, obj.id)
      /\ obj.id # NoID /\ oci[obj.id].state # "NONE" /\ oci[obj.id].uid = obj.uid
  BY <1>1 DEF SharedInv, HandLaunches
<1>3. CASE current' = current
  BY <1>1, <1>3, Stutter DEF CloudOf
<1>4. CASE current' # current
  <2>1. /\ obj.rv = current.rv /\ current' \in Objects
        /\ current'.uid = obj.uid /\ current'.deleting = obj.deleting
        /\ current'.fin = obj.fin /\ current'.id = obj.id
        /\ current'.live \/ (obj.deleting /\ ~obj.fin)
    BY <1>0, <1>1, <1>4, Written
  <2>2. /\ current.live /\ current.fin /\ current.id = NoID /\ current.uid = obj.uid
        /\ obj.fin /\ obj.deleting = current.deleting
    BY <1>0, <1>2, <2>1 DEF Recorded, SetObservedGeneration, Objects, Object
  <2>3. /\ c \in Claims /\ d \in Claims
        /\ c.live /\ c.fin /\ c.id = NoID /\ c.uid = current.uid
        /\ d.uid = c.uid /\ d.live /\ d.deleting = c.deleting /\ d.fin /\ d.id = obj.id
    BY <1>0, <1>2, <2>1, <2>2, ClaimFields
  <2>4. obj.id \in InstanceIDs
    BY <1>0, <1>2 DEF Objects, Object
  <2>5. d = [c EXCEPT !.id = obj.id]
    <3> HIDE DEF c, d
    <3> QED BY <2>3 DEF Claims
  <2>6. CloudOf(oci)[obj.id].is # "none" /\ CloudOf(oci)[obj.id].uid = c.uid
    <3> HIDE DEF c
    <3> QED BY <1>0, <1>2, <2>2, <2>3, <2>4, CloudFields, Seen
  <2>7. Contract!Bind(obj.id)
    BY <1>1, <2>3, <2>5, <2>6, Mapped DEF Contract!Bind, CloudOf
  <2> QED BY <2>4, <2>7 DEF ContractStep, Contract!Next
<1> QED BY <1>3, <1>4

-----------------------------------------------------------------------------
(* What is seen of the instances is what it was, but for one of them.      *)
LEMMA SeenLaunched ==
  ASSUME NEW r \in [InstanceIDs -> OCIRecord], NEW q \in [InstanceIDs -> OCIRecord],
         NEW i \in InstanceIDs, \A j \in InstanceIDs \ {i} : q[j] = r[j]
  PROVE  CloudOf(q) = [CloudOf(r) EXCEPT ![i] = [is |-> SeenAs(q[i].state),
                                                 uid |-> q[i].uid]]
BY DEF CloudOf, OCIRecord

(* An instance is launched for a protected claim that records none.        *)
LEMMA LaunchRefines ==
  ASSUME SharedInv, LaunchesAlone, TypeOK', Launch
  PROVE  ContractStep
<1>0. /\ current \in Objects
      /\ oci \in [InstanceIDs -> OCIRecord] /\ oci' \in [InstanceIDs -> OCIRecord]
  BY StoreTyped DEF SharedInv, TypeOK
<1>1. pc = "launch" /\ current' = current
  BY DEF Launch, current
<1>2. /\ current.live /\ current.fin /\ current.id = NoID /\ current.uid = obj.uid
  BY <1>1 DEF LaunchesAlone
<1>3. CASE oci' = oci
  BY <1>1, <1>3, Stutter
<1>4. CASE oci' # oci
  <2>1. PICK i \in InstanceIDs :
          /\ oci[i].state = "NONE"
          /\ oci' = [oci EXCEPT ![i] = [state |-> "PROVISIONING", uid |-> obj.uid,
                                        gen |-> obj.gen]]
    BY <1>4 DEF Launch
  <2>2. /\ oci'[i].state = "PROVISIONING" /\ oci'[i].uid = current.uid
        /\ \A j \in InstanceIDs \ {i} : oci'[j] = oci[j]
    BY <1>0, <1>2, <2>1
  <2>3. SeenAs("PROVISIONING") = "up"
    BY Seen DEF Ending
  <2>4. CloudOf(oci') = [CloudOf(oci) EXCEPT ![i] = [is |-> "up", uid |-> current.uid]]
    BY <1>0, <2>2, <2>3, SeenLaunched
  <2>5. CloudOf(oci)[i].is = "none"
    BY <1>0, <2>1, CloudFields, Seen
  <2>6. /\ ClaimOf(current).live /\ ClaimOf(current).fin
        /\ ClaimOf(current).id = NoID /\ ClaimOf(current).uid = current.uid
    BY <1>0, <1>2, ClaimFields
  <2>7. Contract!Provision(i)
    BY <1>1, <2>4, <2>5, <2>6, Mapped DEF Contract!Provision
  <2> QED BY <2>7 DEF ContractStep, Contract!Next
<1> QED BY <1>3, <1>4

(* An instance goes from one state to another: it begins to end, or what   *)
(* is seen of it does not change.                                          *)
LEMMA CloudRefines ==
  ASSUME TypeOK, TypeOK', UNCHANGED versions, NEW i \in InstanceIDs, NEW s \in States,
         oci' = [oci EXCEPT ![i].state = s],
         oci[i].state # "NONE", s # "NONE", oci[i].state \in Ending => s \in Ending
  PROVE  ContractStep
<1>0. oci \in [InstanceIDs -> OCIRecord] /\ oci' \in [InstanceIDs -> OCIRecord]
  BY DEF TypeOK
<1>1. current' = current
  BY DEF current
<1>2. /\ oci'[i].state = s /\ oci'[i].uid = oci[i].uid
      /\ \A j \in InstanceIDs \ {i} : oci'[j] = oci[j]
  BY <1>0 DEF OCIRecord
<1> DEFINE k == CloudOf(oci)
           l == CloudOf(oci')
<1>3. /\ k \in Clouds /\ l \in Clouds
      /\ l[i].is = SeenAs(s) /\ l[i].uid = k[i].uid /\ k[i].is = SeenAs(oci[i].state)
      /\ \A j \in InstanceIDs \ {i} : l[j].is = k[j].is /\ l[j].uid = k[j].uid
  BY <1>0, <1>2, CloudFields
<1>4. CASE SeenAs(s) = SeenAs(oci[i].state)
  <2>1. l = k
    <3> HIDE DEF k, l
    <3> QED BY <1>3, <1>4 DEF Clouds
  <2> QED BY <1>1, <2>1, Stutter
<1>5. CASE SeenAs(s) # SeenAs(oci[i].state)
  <2>1. SeenAs(s) = "ending" /\ SeenAs(oci[i].state) = "up"
    BY <1>5, Seen
  <2>2. l = [k EXCEPT ![i].is = "ending"]
    <3> HIDE DEF k, l
    <3> QED BY <1>3, <2>1 DEF Clouds
  <2>3. Contract!Terminate(i)
    BY <1>1, <1>3, <2>1, <2>2, Mapped DEF Contract!Terminate
  <2> QED BY <2>3 DEF ContractStep, Contract!Next
<1> QED BY <1>4, <1>5

(* The handler of a deletion terminates the instance the resource records. *)
LEMMA TerminateRefines ==
  ASSUME SharedInv, TypeOK', Terminate
  PROVE  ContractStep
<1>0. /\ TypeOK /\ Sound(current, oci) /\ obj \in Objects
      /\ oci \in [InstanceIDs -> OCIRecord]
  BY StoreSound, StoreTyped DEF SharedInv
<1>1. pc = "terminate" /\ UNCHANGED versions
  BY DEF Terminate
<1>2. CASE oci' = oci
  BY <1>1, <1>2, Stutter DEF current
<1>3. CASE oci' # oci
  <2>1. /\ Known(obj, current, oci) /\ obj.id # NoID /\ obj.id \in InstanceIDs
    BY <1>0, <1>1 DEF SharedInv, HandDeletes, Objects, Object
  <2>2. oci' = [oci EXCEPT ![obj.id].state = "TERMINATING"]
    BY <1>3 DEF Terminate, Terminated
  <2>3. oci[obj.id].state # "NONE"
    BY <1>0, <2>1 DEF Known, Sound, Ending
  <2>4. "TERMINATING" \in States /\ "TERMINATING" \in Ending
    BY DEF States, Ending
  <2> QED BY <1>0, <1>1, <2>1, <2>2, <2>3, <2>4, CloudRefines
<1> QED BY <1>2, <1>3

-----------------------------------------------------------------------------
(* Every step of the reconciler, its runtime, its users and OCI is a step  *)
(* of the claim and its instances, or none, even under another leader, if  *)
(* it is not a launch ...                                                  *)
LEMMA RefinementStep ==
  ASSUME SharedInv, TypeOK', [Next]_vars, Launch => LaunchesAlone
  PROVE  ContractStep
<1>0. TypeOK /\ Sound(current, oci) /\ versions \in Streams
  BY StoreSound, StoreTyped DEF SharedInv
<1>1. CASE AddFinalizer \/ RemoveFinalizer \/ RecordInstance \/ Launch \/ Terminate
  BY <1>1, AddFinalizerRefines, RemoveFinalizerRefines, RecordRefines, LaunchRefines,
     TerminateRefines
<1>2. CASE MarkProvisioning \/ SyncStatus \/ (SetFailed /\ UNCHANGED <<client, oci>>)
  BY <1>2, StatusUpdatesRefine
<1>3. CASE Users /\ UNCHANGED <<attempt, client, oci>>
  BY <1>0, <1>3, UsersRefine
<1>4. CASE Cloud
  <2>1. PICK i \in InstanceIDs : Progress(i) \/ Purge(i) \/ Console(i)
    BY <1>4 DEF Cloud
  <2>2. PICK s \in States :
          /\ oci' = [oci EXCEPT ![i].state = s]
          /\ oci[i].state # "NONE" /\ s # "NONE"
          /\ oci[i].state \in Ending => s \in Ending
    BY <2>1 DEF Progress, Purge, Console, States, Ending
  <2>3. UNCHANGED versions
    BY <2>1 DEF Progress, Purge, Console
  <2> QED BY <1>0, <2>2, <2>3, CloudRefines
<1>5. CASE Deliver /\ UNCHANGED <<attempt, client, oci>>
  <2>1. current' = current
    BY <1>0, <1>5, TailStream DEF Deliver, current
  <2> QED BY <1>5, <2>1, Stutter
<1>6. CASE \/ ReconcileNothing \/ HandleDeletion \/ EnsureFinalizer \/ ReconcileInstance
           \/ (Refetch /\ UNCHANGED <<client, oci>>) \/ GetInstance \/ Restart
           \/ ((TimerFires \/ Resync) /\ UNCHANGED <<attempt, client, oci>>)
           \/ UNCHANGED vars
  <2>1. UNCHANGED versions /\ UNCHANGED oci
    BY <1>6 DEF ReconcileNothing, HandleDeletion, EnsureFinalizer, ReconcileInstance,
                Refetch, GetInstance, Restart, RuntimeRestart, TimerFires, Resync, vars
  <2>2. current' = current
    BY <2>1 DEF current
  <2> QED BY <2>1, <2>2, Stutter
<1> QED BY <1>1, <1>2, <1>3, <1>4, <1>5, <1>6 DEF Next, Worker, Runtime

(* ... and it starts with a name nobody has claimed and an empty tenancy.  *)
LEMMA RefinementInit == Init => Contract!Init
<1> SUFFICES ASSUME Init PROVE Contract!Init
  OBVIOUS
<1>1. current = NoObject
  BY DEF Init, RuntimeInit, current, Stored
<1>2. ClaimOf(NoObject) = [uid |-> 0, live |-> FALSE, deleting |-> FALSE, fin |-> FALSE,
                           id |-> NoID]
  BY DEF ClaimOf, NoObject
<1>3. CloudOf(oci) = [i \in InstanceIDs |-> [is |-> "none", uid |-> 0]]
  BY Seen DEF Init, CloudOf
<1> QED BY <1>1, <1>2, <1>3 DEF Contract!Init

(* Stale reads, conflicts, lost answers, retries and restarts amount to    *)
(* steps decided on the resource as it is stored.                          *)
THEOREM Refinement == Spec => ImplementsManagedResource
<1>1. IInv /\ [Next]_vars => [Contract!Next]_(Contract!cvars)
  <2> SUFFICES ASSUME IInv, [Next]_vars PROVE ContractStep
    BY DEF ContractStep
  <2>1. TypeOK'
    BY TypeStep DEF IInv, SharedInv
  <2> QED BY <2>1, RefinementStep DEF IInv
<1> QED BY <1>1, RefinementInit, InvCorrect, PTL
       DEF Spec, ImplementsManagedResource, Contract!Spec

-----------------------------------------------------------------------------
(* Changes, faults and crashes so far.                                     *)
Spent == (MaxInterventions - interventions) + (MaxFaults - faults)

(* Somebody has changed the resource since the handler's copy of it was    *)
(* written: the write of the instance's ID is bound to fail.               *)
Outdated == pc \in {"launch", "record"} /\ obj.rv # current.rv

(* The inductive strengthening: an ID that is bound to be lost has been    *)
(* paid for already, by the change that outdated the handler's copy.       *)
PaidFor ==
    /\ IsFiniteSet(Orphans)
    /\ Cardinality(Orphans) + (IF Outdated THEN 1 ELSE 0) <= Spent

-----------------------------------------------------------------------------
(* The budgets are numbers.                                                *)
LEMMA SpentType ==
  ASSUME TypeOK, TypeOK'
  PROVE  Spent \in Int /\ Spent' \in Int
BY BoundsAssumption DEF TypeOK, Spent

(* A step that orphans nothing.                                            *)
LEMMA NoneOrphaned ==
  ASSUME TypeOK, TypeOK', PaidFor, Orphans' \subseteq Orphans, Spent <= Spent',
         Outdated' => Outdated \/ Spent < Spent'
  PROVE  PaidFor'
<1>1. IsFiniteSet(Orphans') /\ Cardinality(Orphans') <= Cardinality(Orphans)
  BY FS_Subset DEF PaidFor
<1>2. Cardinality(Orphans) \in Nat /\ Cardinality(Orphans') \in Nat
  BY <1>1, FS_CardinalityType DEF PaidFor
<1> QED BY <1>1, <1>2, SpentType DEF PaidFor

(* A step that orphans one instance: it is paid for now, or has been.      *)
LEMMA OneOrphaned ==
  ASSUME TypeOK, TypeOK', PaidFor, NEW i, Orphans' \subseteq Orphans \cup {i},
         Spent <= Spent', ~Outdated', Outdated \/ Spent < Spent'
  PROVE  PaidFor'
<1>0. IsFiniteSet(Orphans) /\ Cardinality(Orphans) \in Nat
  BY FS_CardinalityType DEF PaidFor
<1>1. /\ IsFiniteSet(Orphans \cup {i})
      /\ Cardinality(Orphans \cup {i}) <= Cardinality(Orphans) + 1
  <2>1. /\ IsFiniteSet(Orphans \cup {i})
        /\ Cardinality(Orphans \cup {i}) =
             IF i \in Orphans THEN Cardinality(Orphans) ELSE Cardinality(Orphans) + 1
    BY <1>0, FS_AddElement, Zenon
  <2> QED BY <1>0, <2>1
<1>2. IsFiniteSet(Orphans') /\ Cardinality(Orphans') <= Cardinality(Orphans \cup {i})
  BY <1>1, FS_Subset
<1>3. Cardinality(Orphans') \in Nat /\ Cardinality(Orphans \cup {i}) \in Nat
  BY <1>1, <1>2, FS_CardinalityType
<1> QED BY <1>0, <1>1, <1>2, <1>3, SpentType DEF PaidFor

-----------------------------------------------------------------------------
(* Only LaunchInstance brings an instance into being.                      *)
LEMMA OnlyLaunch ==
  ASSUME SharedInv, [Next]_vars, NEW i \in InstanceIDs,
         oci[i].state = "NONE", oci'[i].state # "NONE"
  PROVE  Launch
<1>0. /\ Sound(current, oci) /\ obj \in Objects /\ oci \in [InstanceIDs -> OCIRecord]
  BY StoreSound, StoreTyped DEF SharedInv
<1>1. Launch \/ Terminate \/ Cloud
  BY OCISteps
<1>2. ~Cloud
  BY <1>0 DEF Cloud, Progress, Purge, Console, OCIRecord
<1>3. ASSUME Terminate PROVE FALSE
  <2>1. pc = "terminate" /\ obj.id = i
    BY <1>0, <1>3 DEF Terminate, Terminated
  <2>2. Known(obj, current, oci) /\ obj.id # NoID
    BY <2>1 DEF SharedInv, HandDeletes
  <2> QED BY <1>0, <2>1, <2>2 DEF Known, Sound, Ending
<1> QED BY <1>1, <1>2, <1>3

(* An instance is orphaned by the launch of it, or while a handler is      *)
(* about to record it; a resource that records it never lets go of it.     *)
LEMMA NewOrphan ==
  ASSUME SharedInv, [Next]_vars, NEW i \in InstanceIDs, i \in Orphans', i \notin Orphans
  PROVE  Launch \/ (pc = "record" /\ obj.id = i)
<1>0. /\ Sound(current, oci) /\ StoreStep /\ current \in Objects
      /\ oci \in [InstanceIDs -> OCIRecord]
  BY SharedStep, StoreSound, StoreTyped DEF SharedInv
<1>1. oci'[i].state \notin {"NONE"} \cup Ending /\ current'.id # i
  BY DEF Orphans
<1>2. oci[i].state \notin Ending
  BY <1>0, <1>1 DEF StoreStep, OCIKeeps
<1>3. CASE oci[i].state = "NONE"
  BY <1>1, <1>3, OnlyLaunch
<1>4. CASE oci[i].state # "NONE"
  <2>1. current.id # i
    <3> SUFFICES ASSUME current.id = i PROVE FALSE
      OBVIOUS
    <3>1. i # NoID
      BY IDAssumption
    <3>2. current.live
      BY <1>0, <1>2, <3>1 DEF Sound
    <3> QED BY <1>0, <1>1, <3>1, <3>2 DEF StoreStep, Evolves
  <2> QED BY <1>2, <1>4, <2>1 DEF Orphans
<1> QED BY <1>3, <1>4

(* What is left of two budgets shrinks, what is spent of them grows.       *)
LEMMA SpentSum ==
  ASSUME NEW a \in Nat, NEW b \in Nat, NEW i \in Nat, NEW f \in Nat,
         NEW j \in Nat, NEW g \in Nat, j <= i, g <= f
  PROVE  /\ (a - i) + (b - f) <= (a - j) + (b - g)
         /\ j < i \/ g < f => (a - i) + (b - f) < (a - j) + (b - g)
OBVIOUS

(* A step draws on a budget or leaves it alone.                            *)
LEMMA Budgets ==
  ASSUME [Next]_vars
  PROVE  /\ interventions' = interventions \/ Intervention
         /\ faults' = faults \/ Fault
<1>1. interventions' = interventions \/ Intervention
  <2>1. CASE Worker \/ Restart \/ UNCHANGED vars
    BY <2>1 DEF Worker, ReconcileNothing, HandleDeletion, EnsureFinalizer, ReconcileInstance,
                AddFinalizer, Terminate, RemoveFinalizer, MarkProvisioning, Launch,
                RecordInstance, GetInstance, SyncStatus, Refetch, SetFailed, Write,
                Restart, RuntimeRestart, vars
  <2>2. CASE Cloud
    BY <2>2 DEF Cloud, Progress, Purge, Console
  <2>3. CASE Runtime
    BY <2>3 DEF Runtime, Deliver, TimerFires, Resync, Users, Create, EditSpec, Touch,
                Delete, ReleaseHold
  <2> QED BY <2>1, <2>2, <2>3 DEF Next
<1>2. faults' = faults \/ Fault
  <2>1. \A o : Writes(o) \/ WriteFails(o) => faults' = faults \/ Fault
    BY DEF Writes, WriteFails
  <2>2. CASE \/ AddFinalizer \/ RemoveFinalizer \/ MarkProvisioning \/ RecordInstance
             \/ SyncStatus \/ SetFailed
    BY <2>1, <2>2 DEF AddFinalizer, RemoveFinalizer, MarkProvisioning, RecordInstance,
                      SyncStatus, SetFailed, Write
  <2>3. CASE \/ ReconcileNothing \/ HandleDeletion \/ EnsureFinalizer \/ ReconcileInstance
             \/ Refetch \/ UNCHANGED vars
    BY <2>3 DEF ReconcileNothing, HandleDeletion, EnsureFinalizer, ReconcileInstance, Refetch,
                vars
  <2>4. CASE Terminate \/ GetInstance \/ Restart
    BY <2>4, Zenon DEF Terminate, GetInstance, Restart, RuntimeRestart
  <2>5. CASE Launch
    BY <2>5, Zenon DEF Launch
  <2>6. CASE Cloud \/ Runtime
    BY <2>6 DEF Cloud, Progress, Purge, Console, Runtime, Deliver, TimerFires, Resync, Users
  <2> QED BY <2>2, <2>3, <2>4, <2>5, <2>6 DEF Next, Worker
<1> QED BY <1>1, <1>2

(* No step gives back what has been spent.                                 *)
LEMMA SpentGrows ==
  ASSUME TypeOK, TypeOK', [Next]_vars
  PROVE  Spent <= Spent' /\ (Fault \/ Intervention => Spent < Spent')
<1>1. /\ interventions \in Nat /\ interventions' \in Nat /\ faults \in Nat /\ faults' \in Nat
      /\ MaxInterventions \in Nat /\ MaxFaults \in Nat
  BY BoundsAssumption DEF TypeOK
<1>2. /\ interventions' <= interventions /\ (Intervention => interventions' < interventions)
      /\ faults' <= faults /\ (Fault => faults' < faults)
  BY <1>1, Budgets DEF Intervention, Fault
<1> QED BY <1>1, <1>2, SpentSum DEF Spent

-----------------------------------------------------------------------------
(* The launch: its instance is in the handler's hands, or the answer was   *)
(* lost to a fault.                                                        *)
LEMMA LaunchOrphans ==
  ASSUME SharedInv, Launch
  PROVE  \/ Orphans' \subseteq Orphans /\ (Outdated' => Outdated)
         \/ Fault /\ ~Outdated' /\ \E i : Orphans' \subseteq Orphans \cup {i}
<1>0. obj \in Objects /\ oci \in [InstanceIDs -> OCIRecord]
  BY StoreTyped DEF SharedInv
<1>1. pc = "launch" /\ current' = current
  BY DEF Launch, current
<1>2. Orphans = {i \in InstanceIDs : /\ oci[i].state \notin {"NONE"} \cup Ending
                                     /\ current.id # i}
  BY <1>1 DEF Orphans
<1>3. CASE pc' = "record"
  <2>1. PICK i \in InstanceIDs :
          /\ obj' = Recorded(obj, i)
          /\ oci' = [oci EXCEPT ![i] = [state |-> "PROVISIONING", uid |-> obj.uid,
                                        gen |-> obj.gen]]
    BY <1>3 DEF Launch, Proceed, GiveUp
  <2>2. obj'.id = i /\ obj'.rv = obj.rv
    BY <1>0, <2>1 DEF Recorded, SetObservedGeneration, Objects, Object
  <2>3. Orphans' \subseteq Orphans
    <3> SUFFICES ASSUME NEW j \in InstanceIDs, j \in Orphans' PROVE j \in Orphans
      BY DEF Orphans
    <3>1. j # i /\ oci'[j] = oci[j]
      BY <1>0, <1>3, <2>1, <2>2 DEF Orphans
    <3> QED BY <1>1, <1>2, <3>1 DEF Orphans
  <2>4. Outdated' => Outdated
    BY <1>1, <2>2 DEF Outdated
  <2> QED BY <2>3, <2>4
<1>4. CASE pc' = "refetch"
  <2>1. ~Outdated'
    BY <1>4 DEF Outdated
  <2>2. CASE UNCHANGED oci
    BY <1>1, <1>2, <1>4, <2>1, <2>2 DEF Orphans
  <2>3. CASE oci' # oci
    <3>1. PICK i \in InstanceIDs :
            /\ oci' = [oci EXCEPT ![i] = [state |-> "PROVISIONING", uid |-> obj.uid,
                                          gen |-> obj.gen]]
            /\ Fault
      BY <1>4, <2>3 DEF Launch, Proceed
    <3>2. Orphans' \subseteq Orphans \cup {i}
      BY <1>0, <1>1, <1>2, <3>1 DEF Orphans
    <3> QED BY <2>1, <3>1, <3>2
  <2> QED BY <2>2, <2>3
<1> QED BY <1>3, <1>4 DEF Launch, Proceed, GiveUp

(* The record of the ID: it succeeds, or fails for a fault or because the  *)
(* handler's copy is out of date.                                          *)
LEMMA RecordOrphans ==
  ASSUME SharedInv, [Next]_vars, RecordInstance
  PROVE  /\ ~Outdated'
         /\ \/ Orphans' \subseteq Orphans
            \/ (Fault \/ Outdated) /\ \E i : Orphans' \subseteq Orphans \cup {i}
<1>0. TypeOK /\ obj \in Objects /\ current \in Objects
  BY StoreTyped DEF SharedInv
<1>1. pc = "record" /\ pc' = "idle"
  BY DEF RecordInstance, Write, WriteFails, Return
<1>2. obj.id # NoID /\ (obj.rv = current.rv => current.live /\ current.id = NoID)
  BY <1>1 DEF SharedInv, HandLaunches
<1>3. ~Outdated'
  BY <1>1 DEF Outdated
<1>4. Orphans' \subseteq Orphans \cup {obj.id}
  BY <1>1, NewOrphan DEF Launch, Orphans
<1>5. CASE Writes(obj)
  <2>1. current'.id = obj.id
    <3>1. \/ versions' = versions
          \/ /\ versions' = NewVersion(versions, obj)
             /\ current' = [obj EXCEPT !.rv = current.rv + 1, !.live = ~Gone(obj)]
      BY <1>0, <1>5, WriteStore
    <3>2. obj.rv = current.rv /\ (versions' = versions => obj = current)
      BY <1>0, <1>5, WriteStore
    <3> QED BY <1>0, <1>2, <3>1, <3>2 DEF Objects, Object
  <2> QED BY <1>3, <1>4, <2>1 DEF Orphans
<1>6. CASE WriteFails(obj)
  <2>1. Fault \/ Outdated
    BY <1>1, <1>2, <1>6 DEF WriteFails, Outdated, Accepts, current
  <2> QED BY <1>3, <1>4, <2>1
<1> QED BY <1>5, <1>6 DEF RecordInstance, Write

(* A crash loses the ID in the handler's hands, and is itself a fault.     *)
LEMMA RestartOrphans ==
  ASSUME Restart
  PROVE  Fault /\ ~Outdated' /\ \E i : Orphans' \subseteq Orphans \cup {i}
<1>1. pc' = "idle" /\ Fault /\ UNCHANGED <<oci, versions>>
  BY DEF Restart, RuntimeRestart
<1>2. Orphans' \subseteq Orphans \cup {obj.id}
  BY <1>1 DEF Orphans, current
<1> QED BY <1>1, <1>2 DEF Outdated

(* Other work orphans nothing, and a launch begins with an up-to-date      *)
(* copy.                                                                   *)
LEMMA WorkOrphans ==
  ASSUME SharedInv, [Next]_vars,
         \/ HandleDeletion \/ EnsureFinalizer \/ ReconcileInstance
         \/ AddFinalizer \/ Terminate \/ RemoveFinalizer
         \/ MarkProvisioning \/ GetInstance \/ SyncStatus
         \/ (Refetch \/ SetFailed) /\ UNCHANGED <<client, oci>>
  PROVE  Orphans' \subseteq Orphans /\ ~Outdated'
<1>1. pc \notin {"launch", "record"}
  BY DEF HandleDeletion, EnsureFinalizer, ReconcileInstance, Dequeue, AddFinalizer,
         Terminate, RemoveFinalizer, MarkProvisioning, GetInstance, SyncStatus, Refetch,
         SetFailed, Write
<1>2. ~Outdated'
  <2>1. CASE MarkProvisioning
    BY <2>1 DEF MarkProvisioning, Write, WriteFails, Return, Proceed, Outdated, current
  <2>2. CASE AddFinalizer \/ RemoveFinalizer \/ SyncStatus \/ SetFailed
    BY <2>2 DEF AddFinalizer, RemoveFinalizer, SyncStatus, SetFailed, Write, WriteFails,
                Return, Outdated
  <2>3. CASE \/ HandleDeletion \/ EnsureFinalizer \/ ReconcileInstance \/ Terminate
             \/ GetInstance \/ Refetch
    BY <2>3 DEF HandleDeletion, EnsureFinalizer, ReconcileInstance, Terminate, GetInstance,
                Refetch, Return, Proceed, Outdated
  <2> QED BY <2>1, <2>2, <2>3
<1>3. Orphans' \subseteq Orphans
  <2> SUFFICES ASSUME NEW i \in InstanceIDs, i \in Orphans', i \notin Orphans
               PROVE  FALSE
    BY DEF Orphans
  <2> QED BY <1>1, NewOrphan DEF Launch
<1> QED BY <1>2, <1>3

(* While the worker stands still only users outdate its copy, by a change  *)
(* that is counted.                                                        *)
LEMMA WorldOrphans ==
  ASSUME SharedInv, [Next]_vars,
         \/ ReconcileNothing \/ Cloud \/ UNCHANGED vars
         \/ Runtime /\ UNCHANGED <<attempt, client, oci>>
  PROVE  /\ Orphans' \subseteq Orphans
         /\ Outdated' /\ ~Outdated => Intervention
<1>0. versions \in Streams
  BY StoreTyped DEF SharedInv
<1>1. UNCHANGED <<pc, obj>>
  BY DEF ReconcileNothing, Cloud, Progress, Purge, Console, Runtime, Deliver, TimerFires,
         Resync, Users, workerVars, vars
<1>2. Orphans' \subseteq Orphans
  <2> SUFFICES ASSUME NEW i \in InstanceIDs, i \in Orphans', i \notin Orphans
               PROVE  FALSE
    BY DEF Orphans
  <2>1. (pc = "record" /\ obj.id = i) \/ Launch
    BY NewOrphan
  <2>2. ~Launch
    BY <1>1 DEF Launch, Proceed, GiveUp
  <2> QED BY <1>1, <2>1, <2>2 DEF Orphans
<1>3. ASSUME Outdated', ~Outdated PROVE Intervention
  <2>1. current.live /\ current' # current
    BY <1>1, <1>3 DEF Outdated, SharedInv, HandLaunches
  <2>2. Users
    <3>1. Deliver => current' = current
      BY <1>0, TailStream DEF Deliver, current
    <3>2. ReconcileNothing \/ Cloud \/ TimerFires \/ Resync \/ UNCHANGED vars
            => UNCHANGED versions
      BY DEF ReconcileNothing, Cloud, Progress, Purge, Console, TimerFires, Resync, vars
    <3>3. UNCHANGED versions => current' = current
      BY DEF current
    <3> QED BY <2>1, <3>1, <3>2, <3>3 DEF Runtime
  <2> QED BY <2>1, <2>2 DEF Users, Create, EditSpec, Touch, Delete, ReleaseHold, current
<1> QED BY <1>2, <1>3

(* A step orphans one instance at most, by a fault or with a copy that was *)
(* out of date before; and only a change makes a copy so.                  *)
LEMMA OrphanStep ==
  ASSUME SharedInv, [Next]_vars
  PROVE  \/ Orphans' \subseteq Orphans /\ (Outdated' => Outdated \/ Intervention)
         \/ /\ Fault \/ Outdated
            /\ ~Outdated'
            /\ \E i : Orphans' \subseteq Orphans \cup {i}
BY LaunchOrphans, RecordOrphans, RestartOrphans, WorkOrphans, WorldOrphans DEF Next, Worker

-----------------------------------------------------------------------------
(* Nothing is orphaned at the start, and every step is accounted for.      *)
LEMMA PaidInit == Init => PaidFor
<1> SUFFICES ASSUME Init PROVE PaidFor
  OBVIOUS
<1>1. Orphans = {} /\ ~Outdated /\ Spent = 0
  BY BoundsAssumption DEF Init, RuntimeInit, Orphans, Outdated, Spent
<1> QED BY <1>1, FS_EmptySet DEF PaidFor

(* A change and a fault are counted.                                       *)
LEMMA PaidStep ==
  ASSUME IInv, [Next]_vars, PaidFor
  PROVE  PaidFor'
<1>0. SharedInv /\ TypeOK /\ TypeOK'
  BY TypeStep DEF IInv, SharedInv
<1>1. Spent <= Spent' /\ (Fault \/ Intervention => Spent < Spent')
  BY <1>0, SpentGrows
<1> QED BY <1>0, <1>1, OrphanStep, NoneOrphaned, OneOrphaned

(* However many incarnations, retries and restarts there are, the          *)
(* instances nobody will ever delete are at most as many as the changes,   *)
(* faults and crashes that there were.                                     *)
THEOREM OrphansArePaidForCorrect == Spec => []OrphansArePaidFor
<1>1. IInv /\ PaidFor => OrphansArePaidFor
  <2> SUFFICES ASSUME TypeOK, PaidFor PROVE OrphansArePaidFor
    BY DEF IInv, SharedInv
  <2>1. Cardinality(Orphans) \in Nat
    BY FS_CardinalityType DEF PaidFor
  <2> QED BY <2>1, BoundsAssumption DEF PaidFor, OrphansArePaidFor, Spent, TypeOK
<1> QED BY <1>1, PaidInit, PaidStep, InvCorrect, PTL DEF Spec
=============================================================================
