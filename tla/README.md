# OCI compute operator: TLA+ specifications and proofs

This directory specifies the two reconcilers of the OCI compute operator as state machines,
model-checks them with TLC, and proves their safety properties with TLAPS for any number
of instances, edits, faults and crashes. Line numbers refer to the sources one directory up.

## 1. The system

| Component | State it keeps | Operations | Modelled in |
|---|---|---|---|
| OCIInstance reconciler (`internal/controller/ociinstance_controller.go`) | the lazily built compute client; during a reconcile, its copy of the resource | Reconcile, handleDeletion, reconcileNew, reconcileExisting | `OCIInstance` |
| OCISecurityPolicy reconciler (`ocisecuritypolicy_controller.go`) | the lazily built network client; its copy | the same four, and convertRules | `OCISecurityPolicy`, `SecurityRules` |
| setFailedStatus (`failable_resource.go`) | none | fetch again, mark Failed, update the status | `FailableResource` |
| API types (`api/v1alpha1`) | spec, status, metadata of the resources | setters | `APIServer` (the record `Object`) |
| Manager (`cmd/main.go`) | the two reconcilers, one client and cache; whether it leads | start, campaign for the lease, end on losing it; crash, restart | `Manager`, `Managers`; `ControllerRuntime`, `Restart` |
| Kubernetes (external) | the stored resource, the informer cache, the work queue | conflict check, finalizers, watch, resync, requeue, backoff | `APIServer`, `ControllerRuntime` |
| OCI (external; seen through `oci_client.go`) | instances and security lists | launch, get, terminate; create, get, delete; console changes | `OCIInstance`, `OCISecurityPolicy` |
| Metrics (`metrics.go`) | counters of reconciles, OCI calls and phases | Inc, measureOCICall | `Metrics` |
| Mocks, deepcopy, manifests, monitoring | see section 8 | | not modelled |

**How they interact.** Users change a resource in the API server. The informer moves its cache
along the watch stream and puts the resource's key on a queue, which holds it at most once. The one
worker of a controller takes a key, *reads the cache*, and then calls the API server and OCI
several times with the copy it read. Nothing is locked: the stored object, the cloud and the
cache go on changing between any two calls. The only protection is the API server's refusal of an
update whose `resourceVersion` is not the stored one. A reconcile that fails, or asks for it, comes
back through a delayed addition to the queue; nothing else is remembered between reconciles but
the client object and what was written to the resource. Several processes of the operator may run;
with `--leader-elect`, as `config/manager/manager.yaml` sets it, only the one named by a lease runs its
controllers. The lease does not fence: nothing stops a leader that has lost it without noticing.

**What is hard.** Reads are stale by an unknown number of versions; the resource is edited,
deleted, released by other controllers and created again under its name while a handler runs; any
call can fail before or after it took effect; the process can die between two calls; a conflict
aborts a handler half-way, after OCI has already acted; OCI changes and forgets resources on its
own; a second leader starts, with a cache of its own, while the first is still in a handler. `PROJECT.json` lists these hazards at the lines where they bite.

**What makes each component correct.**
The reconcilers: no launch without a claim that is live, protected by the finalizer, unrecorded
and not given up; a recorded ID is the incarnation's own and stays; observedGeneration only grows;
a generation given up stays given up; only the instance of a deleted resource is terminated, and
the finalizer goes only after that; a disturbance costs at most one orphan; deletion completes and
the status settles. The conversion: every rule once, in order, with its own data, admitting what
was asked. setFailedStatus: it never undoes what another write recorded. The manager: two leaders
over one resource do no harm but to launch twice for it, which costs an instance for a lapse, and one
for each of them when the resource is changed. The metrics: no phase entered
goes uncounted, and failed calls show as failed reconciles or failed resources.

## 2. Modules

| Module | Content |
|---|---|
| `APIServer` | one resource name: the watch stream from the cached version to the stored one; updates, finalizers, generation (operators only) |
| `ControllerRuntime` | queue, timers, worker, watch, resync, crash, and the users' actions; the outcomes of an update |
| `FailableResource` | setFailedStatus: `Refetch` and `SetFailed` |
| `OCIInstance` | the OCIInstance reconciler and the instances OCI has |
| `OCIInstanceProperties` | its properties, its inductive invariant `IInv`, and the claims of the documentation |
| `OCIInstanceProofs` | its inductive invariant and safety properties, proved |
| `OCIInstanceContract` | proofs of the contract with the user: that it implements `ManagedResource`, and what an orphan costs |
| `OCISecurityPolicy`, `OCISecurityPolicyProperties`, `OCISecurityPolicyProofs`, `OCISecurityPolicyContract` | the same for the other reconciler |
| `ManagedResource` | abstract specification both reconcilers implement: a claim and the cloud resources provisioned for it, without cache, queue, worker or faults |
| `Manager` | one process run with `--leader-elect`: `OCIInstance` as its controller, and the lease |
| `ManagerProofs` | what one process does and what the steps of others leave of its invariant, proved |
| `Managers`, `ManagersProperties` | two such processes over one resource, and what survives when their leaderships overlap |
| `ManagersProofs` | all of that, proved, by `ManagerProofs` for each of the two |
| `Metrics`, `MetricsProperties`, `MetricsProofs` | `OCIInstance` with the counters of `metrics.go`, what may be concluded from them, and the proofs |
| `SecurityRules`, `SecurityRulesProperties`, `SecurityRulesProofs` | the loop of convertRules, what OCI admits, and the proofs |
| `MC...` | the instances for TLC, with the symmetry of OCIDs |

Each `EXTENDS` the one before it: `APIServer` <- `ControllerRuntime` <- `FailableResource` <-
`OCIInstance` and `OCISecurityPolicy`. `Manager` and `Metrics` extend `OCIInstance`; `Managers` instantiates
`Manager` twice. A definition introduced by `Variation:` is a plausible bug
in the definition after it; it is not part of any specification and serves to show that a
property would notice that bug.

### State and code

`versions` is the watch stream: `Cached(versions)` is what `r.Get` answers, `Stored(versions)` what
etcd holds, and the versions between them are those the informer has not delivered yet. An object
keeps resourceVersion (`rv`), incarnation (`uid`), existence (`live`), deletionTimestamp
(`deleting`), this operator's finalizer (`fin`), somebody else's (`held`), generation (`gen`) and
the status: `id`, `phase` and `obsGen`. Nothing reads failureReason, so it is left out. The spec is
abstracted to the generation, so an instance in `oci` remembers the resource (`uid`) and the spec
(`gen`) it was launched for. `obj` is the handler's local variable `instance` or `policy`, `pc` the
external call it is about to make, `client` the field `ComputeClient` or `VirtualNetworkClient`.
`attempt` is a history variable: the generation whose failure setFailedStatus is recording.

An action is the code from one external call to the next. Reads of the cache and all branches that
follow up to the next call are one action, because nothing else can be seen in between:

| Action | Code (`ociinstance_controller.go`) |
|---|---|
| `ReconcileNothing` | not found (69-74); deleted without finalizer (127-130); Failed guard (97-101) |
| `HandleDeletion`, `Terminate`, `RemoveFinalizer` | 80-82 and 124-137; 138-156; 163-169 |
| `EnsureFinalizer`, `AddFinalizer` | 85-87; 88-93 |
| `ReconcileInstance` | 97-120, with the client's construction and its failure (104-111) |
| `MarkProvisioning`, `Launch`, `RecordInstance` | 178-183; 186-232; 234-242 |
| `GetInstance`, `SyncStatus` | 252-290; 275-278 and 292-304 |
| `Refetch`, `SetFailed` | `failable_resource.go` 41-44; 46-54 |

The policy's actions correspond to the same places of `ocisecuritypolicy_controller.go`
(`DeleteList` 129-151, `MarkCreating` 173-178, `CreateList` 181-208, `RecordList` 210-216,
`GetList` 226-260, `SyncStatus` 245-248 and 262-268). It differs in its phases, in `Recorded`, which
says Active at once (206), and in its console, where users may change a list's rules (`gen = 0`).

An update (`Writes`, `WriteFails`) succeeds when the versions match, is refused when they do not,
or meets a fault, before or after the API server applied it. An update that changes nothing
creates no version and so no event: that is why `Settles` depends on the requeue. A fault in
`Terminate` stands for a client that cannot be built (139-144) as well as a lost request or answer.
An OCI call for an instance that OCI has forgotten (`PURGED`) fails, at every retry: the deletion of such a
resource never ends, and `DeletionCompletes` and `Settles` leave it out by name (`Forgotten`).

**Two processes.** `Managers` gives each process its own queue, timer, worker, copy and client, and its
own `versions`: both watch streams end in the stored version (`Follows`, and `TypeOK` checks it), and
each begins where that process's cache is. They share OCI and the lease, `holder`. `Lead` is the point
where the controllers of `main.go` 181-194 start: the lease is free or has run out, the cache is at any
version that is on the watch, and what it lists is enqueued. `Lapse` is a fault: the lease of
a leader that is paused or cut off runs out while its worker works on. That leader then takes it again
(`Renew`), or notices (`LoseLease`: `mgr.Start` returns an error and the process exits, 207-210).
LeaderElectionReleaseOnCancel is not set (164-174): `Crash` leaves the lease as it is, naming a process
that is no more, until it runs out (`Expire`). The process started in its place campaigns with an identity
of its own and waits for that as the other one does.
What `OCIInstance` alone already shows is left out of this composition: touches, holds, the console
and the resync. By symmetry A is the first leader.

**Metrics.** `MeteredWorker` is a step of the worker with the counters it moves: the deferred function of
`Reconcile` (57-65), `measureOCICall`, and `phaseTransitions`, which is incremented before the update
that enters the phase (179, 225, 269-287). `apiErrors` is the number of observations of
`ociAPICallDuration` with result error; the latencies themselves are left out. `entered` and `unbuilt`
are history variables: what the stored resource really went through since the process started, and
how often a client could not be built. A restart sets all of them to zero.

## 3. Runs

| Run | Bounds | Shows |
|---|---|---|
| `InstanceSafety` | 2 OCIDs, 2 incarnations, 2 interventions, 2 faults | `TypeOK`, `IInv`, `RecordedIsOwn`, `ReleasedIsEnding`, `OrphansArePaidFor`, `LaunchIsSafe`, `RecordedIDIsKept`, `ObservedGenerationGrows`, `GivenUpIsFinal`, `TerminateIsWanted`, `ImplementsManagedResource` |
| `InstanceLiveness` | 2, 1, 2, 1 | `DeletionCompletes`, `Settles` |
| `PolicySafety` | 2, 2, 2, 1 | `TypeOK`, `IInv`, `OrphansAndDriftArePaidFor`, `RecordedRulesAreCurrent`, `GivenUpIsFinal`, `ImplementsManagedResource` |
| `PolicyLiveness` | 1, 1, 2, 1 | `DeletionCompletes`, `Settles` |
| `RuleConversion` | all lists of 1 or 2 rules over 3 ports, 2 CIDRs, 3 protocols | `TypeOK`, `IInv`, `KeepsOrder`, `AdmitsWhatIsAsked` |
| `LeaseLapse` | 2 processes, 3 OCIDs, 1 incarnation, 1 intervention and 2 faults, at most 2 of them together | `TypeOK`, `IInv`, `OrphansArePaidFor`, `OnlyLaunchesStray`, `GivenUpIsFinal`, `TerminateIsWanted` |
| `Counters` | 1 OCID, 1 incarnation, 1 intervention, 1 fault, 6 reconciles of one process | `MeteredTypeOK`, `MeteredIInv`, `EntriesAreCounted`, `FailuresShow` |

The other runs each check one sentence of the documentation and are violated; see section 5.

**Bounds.** `MaxCreates` bounds incarnations, `MaxInterventions` the changes by users of the
cluster (edit, touch, delete, release) and of OCI's console, `MaxFaults` failed calls, lost answers
and crashes, `MaxRules` the rule list. Everything else is unbounded, and finite because of these:
versions come from changes, and a reconcile writes only when something changed. Two OCIDs are
needed for a second launch, an orphan, and a spent quota; two incarnations for a copy of the old
one to meet the new; two interventions for a delete followed by a release or an edit within a
handler; two faults for a lost answer followed by a crash. Three interventions with two faults
were explored for the OCIInstance reconciler as well (9.8 million states), without a new
behaviour; the theorems cover the rest. Two rules are enough to confuse two rules of the same
list, or to put one into the wrong list. In `LeaseLapse` a lapse is one of the faults; `MaxDisturbances`
leaves beside it an edit, a deletion, a failed call, a crash or a second lapse, so that each can fall
anywhere in the overlap. Three OCIDs let a lapse and one change cost all that they may, three instances;
with two, a bound of one instance for each disturbance holds only because the OCIDs run out. The theorems
cover longer sequences. `MaxReconciles`
bounds the counters: six reconciles are enough to add the finalizer, launch, see a running or stopped
instance, delete it, and repeat two of these after an error.

**Two leaders.** `LaunchIsSafe` and `ImplementsManagedResource` hold for one leader only: a leader
whose write of Provisioning succeeded goes on to launch although the other one has recorded an instance since.
`OnlyLaunchesStray` says that this is all: every other step of the two leaders, on the finalizer, on
the recorded ID or on an instance, is a step of `ManagedResource`, decided on the stored resource. These
rest on the API server's conflict check, not on the lease, as the mutant shows that drops the check. Of
two leaders that launched, the first to record makes the other's update fail, and `OrphansArePaidFor`
charges the instance lost to the lapse. A change that falls while both launch makes both updates fail;
both come back, launch, and race again: one edit can cost two instances besides the one the lapse costs,
where under a single leader it costs one. `Allowance` says so: two for a change once
there has been a fault, one before. Without leader election, the default of the flag
(`cmd/main.go:68`), a second process overlaps for as long as it runs, and loses an instance
without any fault: that is the mutant `LeadAtOnce`.

**Metrics and failures.** `EntriesAreCounted` holds because the counter moves before the update and not
after it: an update that was applied although its answer was lost is counted. `FailuresShow` holds although
setFailedStatus turns the error of a launch into a reconcile without one: the failure is then on the
resource, or its update has failed and the reconcile with it. It compares totals: refused updates are
reconciles with an error as well, so a history with many conflicts leaves it slack.

The runs set `CHECK_DEADLOCK FALSE`: with the resource deleted, the instances gone and the budgets
spent the system really stops, and so does the conversion loop after the last rule.

**Symmetry.** OCIDs are interchangeable, nothing compares or orders them, so the safety runs use
their permutations; the liveness runs do not.

## 4. Fairness

`FairSpec` assumes weak fairness of the worker, of the informer's delivery, of pending timers and
of OCI finishing what it started (`Progress`). The Go scheduler runs the one worker goroutine and
the informer's; a RequeueAfter or a backoff is a timer that fires; provisioning and terminating
end. Users, console actions, faults and the purge of terminated instances are never required, and
neither is the periodic resync: its default period is hours, and `Settles` should not depend on it.
Faults are bounded, so a call that is retried does succeed in the end; without that no controller
makes progress. `WF(Worker)` suffices since the worker is never blocked and at most one of its
actions is enabled, apart from choices of the environment.

## 5. Where code and documentation disagree

Each of these is a run that TLC refutes; `PROJECT.json` quotes the sentence.

| Run | Claim | What happens |
|---|---|---|
| `OrphanedInstance` | `README.md:65`, no orphans | any conflict, fault or crash between LaunchInstance and the write of the OCID loses the instance |
| `UntriedSpecFailed` | `README.md:67`, retry when the spec changes | a spec corrected while a client cannot be built or a launch is failing is marked failed without being tried |
| `StoppedForGood` | `README.md:63`, self-healing | stopped in the console and started again, it stays Failed; `README.md:67` documents the guard that does this, against loops on persistent errors |
| `SpecDrift` | `README.md:63`, spec compared with OCI | edits are observed and never applied |
| `MinPortAlone` | `ocisecuritypolicy_types.go:52`, minimum port | minPort alone has no effect; nor has a range on a rule that is not TCP |

Read beside these, without a run of their own:

- The finalizer goes when OCI has accepted the termination, while the instance is still terminating
  (`ociinstance_controller.go:163`), against its comment (37-38) and `README.md:65`. `ReleasedIsEnding` is
  what holds.
- The second fetch of setFailedStatus reads the cache, which may be older than the copy in hand, and
  right after the write of Provisioning usually is (`failable_resource.go:41`, against 34-36 and 40). The
  update then conflicts and the reconcile is retried; `RecordedIDIsKept` is what holds.
- A stopped instance is Failed with an empty failureReason (`ociinstance_controller.go:286`, against
  `ociinstance_types.go:137`).
- A policy's rules drift as an instance's spec does (`ocisecuritypolicy_controller.go:260`);
  `OrphansAndDriftArePaidFor` is what holds.
- A UDP rule's range is sent as TCP options (`ocisecuritypolicy_controller.go:288`). What OCI makes of
  them is not visible here; the model lets them narrow TCP traffic only. `AdmitsWhatIsAsked` is exact for
  ranges of TCP rules, and for the others says that nothing asked for is refused.
- `phaseTransitions` counts a phase at every resync of its unchanged status, every five minutes for a
  running instance (`ociinstance_controller.go:269`), and does not count Failed when a client cannot be
  built (109), against `metrics.go:44`, "counts how many times each lifecycle phase is entered".

None of them contradicts a passing property. `OrphansArePaidFor` is what remains true of the first:
the number of orphans never exceeds the number of disturbances, because the retry's write of
Provisioning fails until the cache shows what the store holds.

## 6. What is proved

Every invariant and every action property of the passing runs is a theorem, for every set of OCIDs and
every bound:

| Module | Theorems |
|---|---|
| `OCIInstanceProofs` | `TypeCorrect`, `InvCorrect`, `RecordedIsOwnCorrect`, `ReleasedIsEndingCorrect`, `RecordedIDIsKeptCorrect`, `ObservedGenerationGrowsCorrect`, `GivenUpIsFinalCorrect`, `LaunchIsSafeCorrect`, `TerminateIsWantedCorrect` |
| `OCIInstanceContract` | `Refinement`, `OrphansArePaidForCorrect` |
| `OCISecurityPolicyProofs` | `TypeCorrect`, `InvCorrect`, `RecordedRulesAreCurrentCorrect`, `GivenUpIsFinalCorrect` |
| `OCISecurityPolicyContract` | `Refinement`, `OrphansAndDriftArePaidForCorrect` |
| `ManagersProofs` | `ManagersTypeCorrect`, `ManagersInvCorrect`, `ManagersOrphansArePaidForCorrect`, `OnlyLaunchesStrayCorrect`, `ManagersGivenUpIsFinalCorrect`, `ManagersTerminateIsWantedCorrect` |
| `MetricsProofs` | `MeteredTypeCorrect`, `MeteredInvCorrect`, `EntriesAreCountedCorrect`, `FailuresShowCorrect` |
| `SecurityRulesProofs` | `TypeCorrect`, `InvCorrect`, `KeepsOrderCorrect`, `AdmitsWhatIsAskedCorrect` |

The assumptions are those the modules name: the bounds are natural numbers, no OCID is the empty
string, and ports are positive, as the CRD's minimum of 1 says.

**The inductive invariant.** None of the reconciler's properties is inductive: `LaunchIsSafe` speaks of the
store at the moment of a launch, which was decided on an old copy. `IInv` adds what a copy says
about the store:

- *A copy is an old truth* (`Known`): its version is not above the stored one; with the stored
  version it is the stored object; and its instance is ending, or is still the recorded one and
  deletion is not undone. Every version in the stream is known (`StreamIsKnown`), so every handler
  begins with a known copy.
- *The store is sound* (`StoreIsSound`): a recorded instance was launched for this incarnation, a
  released one is ending, observedGeneration is not ahead.
- *What a handler has established* at each call (`HandDeletes`, `HandReads`, `HandLaunches`,
  `HandSyncs`), as long as its copy has the stored version.
- *What it knows when it works alone* (`LaunchesAlone`): after the write of Provisioning succeeded, and
  until the handler returns, the stored object is live, has the finalizer, has no instance and is in
  phase Provisioning, although users may edit it or mark it deleted meanwhile. Only a worker could
  change that, and the worker is here.

All but the last make `SharedInv`, which a process keeps whoever else works on the resource.

**The argument.** `NewVersionStream`, `TailStream` and `CommitStream` say what a write and a delivery do to
the stream. `KnownKept` shows that an old truth stays one as the store and OCI evolve (`Evolves`,
`OCIKeeps`). A step of the worker is a read (`BeginStep`), a call to OCI (`CallStep`) or an update
(`UpdateStep`); an accepted update was made from the stored object itself, since the versions match,
so it preserves soundness (`SafeWriteSound`); a refused one leaves the store alone. A step of the
world leaves the hands alone or empties them (`WorldStep`). `InvStep` puts them together, and the
properties follow from the invariant and the shape of a step (`StoreStep`).

**The refinement.** `Contract` reads the claim off the stored object and the cloud off `oci`. Everything
that touches neither is a stutter: deliveries, timers, restarts, reads of the cache. An update of
the status is one too, unless it removes a resource nobody holds (`Vanish`). The others map one to one:
`AddFinalizer` to `Protect`, `RemoveFinalizer` to `Release`, `Launch` to `Provision`,
`RecordInstance` to `Bind`, `Terminate` and the console to `Terminate`. `IInv` gives each
step its guard, for the store as it is and not as the handler's copy has it.

**The orphans.** `OrphansArePaidFor` is not inductive: an update of the ID that is refused orphans an
instance without a fault. `PaidFor` counts it before: while a handler launches or records with a copy
somebody has outdated, there is already one disturbance more than there are orphans. `NewOrphan`
shows where orphans come from, by `InvStep`; the lemmas after it go through launch, record, crash, the
world and the rest of the worker. `PaidFor` also says that the orphans are finitely many, so the
set of OCIDs need not be.

**The policy.** The same invariant and the same mapping, for the other calls; a console that changes
rules touches nothing the contract speaks of. `OrphansAndDriftArePaidFor` counts, beside the orphans, a
recorded list whose rules are not those of the spec. Its `PaidFor` therefore owes one disturbance
(`Owed`) when the handler's copy is out of date, or when the list it has created, or the one that is
recorded, has other rules than its spec. It owes no two: a list recorded by an update that
was accepted is the handler's, and a copy that is out of date is never recorded. `RecordedRulesAreCurrent`
follows from what `HandCreates` says of the list in hand.

**The rules.** The loop invariant says that each list holds as many requests as the loop has passed rules of
its direction, and at place j that of the j-th of them (`Holds`, `Request`); the place of a rule is the number
of the rules of its direction up to it (`Given`). A rule appends to one list (`Appended`) and leaves the other
(`Passed`). `KeepsOrder` is that invariant after the last rule.
`RequestAdmits` compares one request with what its rule asks for, `ListAdmits` a list with its rules, and
`AdmitsWhatIsAsked` takes both lists together.

**The metrics.** `MeteredIInv` joins `IInv`. A handler about to write a phase has counted
it already (`AboutToEnter`), so that `phaseTransitions` is one ahead whether the update succeeds, is
applied without an answer, or fails; a handler on its way through setFailedStatus has a failed call that
no reconcile has counted (`AboutToFail`), and the update that marks the resource, or the error of that
update, settles it. The proof needs `IInv` because a phase is entered only by an update made from the
stored object (`PhaseEntered`).

**Two leaders.** `ManagerProofs` has one process and somebody else: `ProcessStep` says that the process keeps
`SharedInv`, and `OthersStep` that it survives any change of store and OCI that evolves as `StoreStep`
says, with the new version appended to the stream. Each process's step is such a change for the other
(`FollowA`, `FollowB`), so both keep theirs, without any assumption about the lease; `GivenUpIsFinal`,
`TerminateIsWanted` and `OnlyLaunchesStray` follow as for one process, but that a launch may stray. Before
the first fault A leads alone (`FirstLeads`), keeps `LaunchesAlone`, and nothing strays.

For the orphans, `PaidFor` adds to those there are the IDs bound to be lost, one for each handler with
an outdated copy (`OutdatedA`, `OutdatedB`), and those that can be lost for no further change or fault
(`Exposed`): one when both processes lead, and one more while no leader holds the lease, because it has
run out or names a process that died (`Held`, `Risk`). One less when the resource is `Closed`, having recorded an instance or been given up: any copy in a launching
hand is then outdated and counted there, and no new launch begins. This is what makes the sum inductive. When
a leader's update outdates the copy of the other, it records or gives up, that is, closes the
resource: the other's ID moves from `Exposed` to the outdated ones (`ProcessCloses`, `ExposedA`). A process
that ends with an ID in hand, because it lost its lease, takes itself out of the risk. A lapse adds
to the risk and is paid for by itself, and a change that outdates both copies by the two it is allowed
(`PaidWorld`).

## 7. What is only model-checked

Liveness (`DeletionCompletes`, `Settles`), which is beyond the proof system. It is checked for one
process with restarts, not for two: with one OCID, one change and one fault the fair composition already
takes TLC too long. The claims of section 5 are refuted by TLC and need no proof.

## 8. What is not modelled

- The durations in `ociAPICallDuration`, and the counters as the policy reconciler drives them, in the same
  places as the other one.
- The contents of the launch request: OCPU and memory strings, tags, VNIC details. They are copied or
  parsed one by one (`ociinstance_controller.go` 185-213) and decide nothing afterwards.
- Several resources of a kind: they share only the queue, the worker and the client object.
- Two leaders over a policy: they differ from two leaders over an instance only as the reconcilers do.
- The manager's flags, TLS options and probes (`cmd/main.go` 60-155, 197-204): no state of the program depends on them.
- An error of a cached `r.Get` other than not found (`ociinstance_controller.go` 75-76, `failable_resource.go`
  41-44): the handler returns it, has changed nothing, and is retried.
- CRD validation: values that it rejects never reach a reconciler.
- Mocks, generated deepcopy code, manifests, RBAC, the monitoring stack, tests.

## 9. Plan

Done: the runtime, both reconcilers, the abstract specification, rule conversion, two overlapping
processes, the metrics, and the proofs of all their safety properties. What is left:

1. The metrics of the policy reconciler, as a second instance of `Metrics` over `OCISecurityPolicy`.
2. `Managers` over the policy, for which `ManagerProofs` would have to be stated for either reconciler.
3. Liveness of two leaders, if an abstraction of `Managers` small enough for TLC can be shown to suffice.
