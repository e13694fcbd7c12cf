# A TLA+ development for fileblock-csi

fileblock-csi is a CSI driver that serves each Kubernetes volume from one sparse
`.img` file on a shared backing store (an NFS export, or a local directory). The
controller makes, grows and removes the files; on the node that runs the pod the
node plugin attaches the file to a loop device, optionally opens a LUKS mapping
over it, mounts the ext4 inside on a staging path and binds that into pods.

This directory models the driver's own logic: what it does to the node's kernel,
to the images and to its mounts, in which order, and what is left behind when a
step fails, a deadline passes, or a process dies. `PROJECT.json` lists the runs,
the source lines every definition stands for, the hazards and the findings.

## The system

| Part | State | Operations | Hard because |
|---|---|---|---|
| Node server (`pkg/driver/node.go`) | per-volume mutexes, key cache | NodeStageVolume, NodeUnstageVolume, NodePublishVolume (with `restageFailed`), NodeUnpublishVolume, NodeExpandVolume, NodeGetVolumeStats | a dozen commands per call, each may fail, be killed at the deadline after taking effect, or be the last before a crash; publish runs outside the mutex |
| State file and reconciler (`pkg/loop/state.go`, `reconcile.go`) | `loop-mappings.json` and its in-memory map | Put, Delete, LoadState, Reconcile | memory and disk differ after a failed flush; at start-up the entries describe a node that has moved on, and loop numbers are reused |
| losetup, mount helpers (`pkg/loop/losetup.go`, `pkg/mount`) | none: the kernel's | Attach, Detach, Find; IsMountPoint, Mount, BindMount, Unmount; mountinfo | a detach of an open loop only marks it; a mount check can be wrong |
| Failure monitor (`monitor.go`, `failures.go`) | failed marks, hold-offs, events sent | Tick with handleFailed; Mark, Clear, Hold | works on a snapshot of mountinfo and a list of pods, both old by the time it deletes |
| LUKS (`pkg/crypt`) | the header on the image; open mappings | Prepare (format, rotate, open, mkfs, relabel), Close, Resize | every step is a durable change that a crash may separate from the next |
| Controller server (`controller.go`) | none | CreateVolume, DeleteVolume, ControllerExpandVolume, ListVolumes | concurrent handlers and no lock: a timed-out call runs on next to its retry |
| Image manager (`pkg/image`) | the files | Create, Delete, Resize, List | check-then-act on shared files |
| Store registry (`pkg/store/registry.go`) | mounted exports, stores, configs, checks in flight | Get, AdoptExisting, ConfigByStoreID | mounts drop under the process; a stat on a hung export never returns |
| Store configuration (`pkg/store/parse.go`, `store.go`) and cipher parameters (`encryption.go`) | none | parsing, StoreID, MountID, the volume context | pure, but read twice: by the controller from the StorageClass, by the node from the context |
| Capacities (`alignedCapacity`, `AlignUp`, `SectorSizeFor`) | none | arithmetic | int64, and images of older versions |
| Kubernetes client (`pkg/kube`) | none | ListPodsOnNode, DeletePod, PodEvent, PolicyEnforced | a name is used again by the next pod |
| gRPC server, runner, mains, manifests | none | I/O and wiring | |

The kubelet calls the node server, the CSI sidecars call the controller. The two
plugins never talk to each other: they share the images on the backing store.
Both resolve a store through a Registry of their own. The monitor shares the
state map and the failed marks with the node server. Everything that touches the
node goes through commands run under the request's context.

What makes each part correct:

* node server: one loop device per image; what is mounted at a volume's paths is
  its own filesystem; an unstage leaves nothing; a publish never hands out an
  empty directory; retries converge; a filesystem that went read-only is replaced,
  but never under a pod that still has it;
* state and reconciler: after a restart the entries are true and leaked devices
  are given back;
* LUKS: no crash locks a volume out, keeps a retired key, or runs mkfs over data;
* controller and images: a bound volume has its image at its capacity, a deleted
  one has none, creates are idempotent; the capacity answered is in the range asked
  for and reaches the filesystem in the pod;
* failure monitor: pods are deleted only if they use the failed filesystem and
  something recreates them, replacements are spared, rounds keep their distance,
  and the volume does recover;
* store configuration: node and controller agree on where a volume lives and how it
  is formatted, and namespaces keep apart;
* registry: no stacked mounts, no stale path handed out, no Get stuck on a check.

## Modules

| Module | Models | Theorems |
|---|---|---|
| `NodeVolume` | one node: node server, state file, reconciler, monitor's detection, the kernel they drive, the kubelet | in `NodeVolume_proofs`, `NodeRequests_proofs`, `NodeRestage_proofs` |
| `Remediation` | the monitor at work on one volume, with pods, API server and clock | in `Remediation_proofs` |
| `KeyCustody` | what a volume's keys and data go through, abstractly | |
| `LuksHeader` | `crypt.Prepare` command by command, the key cache, the operator's Secret; implements `KeyCustody` | in `LuksHeader_proofs` |
| `Capacity` | capacity ranges and sector sizes, with the width of int64 | in `ControllerImages_proofs` |
| `ControllerImages` | controller handlers and the files of one store; extends `Capacity` | in `ControllerImages_proofs` |
| `VolumeSize` | `ControllerImages` composed with the layers on a node: loop, mapping, ext4; NodeExpandVolume | in `VolumeSize_proofs` |
| `StoreConfig` | parameters, store identity, cipher format, volume context, as operators | in `StoreRegistry_proofs` |
| `StoreRegistry` | the Registry for one export; extends `StoreConfig` | in `StoreRegistry_proofs` |
| `MCNodeVolume`, `MCVolumeSize`, `MCStoreRegistry` | instances: pods' volumes and symmetry; ranges and old images; parameter sets | |

Each module declares its bounds as CONSTANTS (`MaxFaults`, `MaxKey`,
`MaxPods`, `MaxHandlers`, `MaxInt` and the sizes of the sets) and the kinds of fault an instance allows as `Hazards`;
the `.cfg` files choose them. A definition named `<operator>_<change>` is the
operator as a plausible bug would have it, used to show that a property notices.

### NodeVolume

State. `loops`, `autoclear`, `dm`, `stage`, `bind` and `ro` are the kernel: which
image a loop device is attached to, loops that free themselves at their last
close, open mappings, the device mounted at each staging and target path, and
filesystems forced read-only. `mem` and `disk` are `State.data` and its file; an
entry is represented by its loop device, `Released` being the entry a re-stage
has emptied. `keys` and `failed` are the key cache and the failed marks. `pc[v]`,
`dev[v]` and `by[v]` belong to the holder of v's mutex: the step it is at, the
loop it attached, the request it serves. `pub[p]` is a publish outside the mutex.

Actions. `StageBegin` and the disjuncts of `Stage` are `stageLocked` in its order:
the reads and the idempotency test; adopt, refuse or go on; detach leftovers;
attach; Prepare; fsck to mount; Put; and `detachOnFail`. `UnstageBegin` and
`Unstage` are NodeUnstageVolume; `PublishBegin`, `PublishLock`, `Restage` and
`PublishBind` are NodePublishVolume with `restageFailed`, whose last part is the
stage again. `TickRead`, `TickList` and `TickVolume` are Monitor.Tick. `Crash`
and `Reboot` end the process; `ReconcileDrop`, `ReconcileClose`,
`ReconcileDetach` and `ReconcileFails` are start-up.

What mountinfo shows of an ext4 that was forced read-only is up to the kernel, and is
the constant `Signal`: the superblock is `ro` (6.11 and older), `emergency_ro` is among
its options (6.15 and later), or nothing shows (6.12 to 6.14, `mountinfo.go:61-63`).
`ForcedReadOnly` sees the first two. The runs are on a kernel of 6.15 or later; the
theorems hold on every kernel.

A step is one command, or a run of reads with the decision taken on them. A
request's deadline passes between steps (`Timeout`): from then on its commands
report an error, the one that was running may have had its effect (`Killed`), and
the cleanup commands, which use the same context, do not start (`Skipped`).

Left out: more than one mount stacked on a path (and the bound of eight
unmounts), failing checks and umounts in
NodeUnpublishVolume, read-only publishes, entries of older versions without a stage
context, images renamed by NFS when deleted while attached, the second look into
the host's mount namespace. Pod deletion and NodeExpandVolume are in `Remediation`
and `VolumeSize`. Reconcile's deletions of stale
entries are one step with one flush: start-up repeats them if it is killed.

### LuksHeader

`header`, `slots`, `label` and `fs` are what is on the image; keys are numbers,
0 is no key. Each command of Prepare is an action through `Command`: it works,
it fails, or the deadline passes while it runs, with or without its effect. A
torn header is one that is neither LUKS nor blank. `RotateSecret` and
`DropPrevious` are the operator who follows the README: the Secret changes only
once every volume has been staged with it (`confirmed`). The kernel side of a
stage is `NodeVolume`'s; here it is one step before Prepare and one after.
`Crash` includes start-up's closing of mappings that no entry tracks. The log line
that tells an operator of a rotation is left out.

`KeyCustody` is the promise behind it, without commands, calls and crashes: a
volume gets its first key from the Secret, a new key is let in next to the old
one, the old one goes after that, a filesystem is made once and what is written
stays, and the Secret moves on only when every volume has exactly its current key.
`KeepsCustody` says that `LuksHeader` implements it, with `slots`, `fs` and
`secret` for its three variables.

### Remediation

The cluster: pods with a UID, perhaps an owner, and a name that a later pod may
take; the kubelet publishes, unpublishes, stages and unstages. The plugin:
`marked` with the second of the mark, `held`, `eventSent`, `skipEvented`. A tick
is `TickRead` (mountinfo), `TickAll` (the entries), `TickMark` or `TickWell`, `TickGet`,
`TickList` (the pods, the events and the choice of whom to delete), one `TickDelete` per
pod and `TickHold`; anything may happen between two of them. A re-stage is its two visible
halves, unmount and mount: the rest is in `NodeVolume`. `entry` is whether
`restageFailed` finds in the state entry what it needs: there may be none, one that an
older version wrote without a stage context (`InitUpgraded`), or one of an encrypted
volume whose key went with the last process ("keyless"). `CannotRestage` refuses all
three; such a volume is never watched, or waits for its pods to be deleted by hand,
the case `src/README.md:440-444` documents. `Signal` is as in `NodeVolume`. Time is relative
(`TimePasses`), as the code only compares times. The mode is chosen at start-up
(`StartMode`): without a client the monitor only marks, without the admission
policy it only reports. Lost events are not retried by the code and have no
effect here.

### Capacity, ControllerImages, VolumeSize

`Capacity` has the arithmetic: `Wrap` is an int64 sum, `Quotient` Go's division.
`InRange` is the reference `alignedCapacity` is held against.

`ControllerImages`: any number of handlers, no lock, one step per file operation.
There are two sidecars. csi-provisioner creates and deletes, csi-resizer expands; each
has one live call per volume (`Free`), and neither waits for the other, so that a delete
may overlap an expand (`happened` then has "overlap", which is no fault and is not
counted). When a call's deadline passes (`Timeout`) its sidecar may
call again while the handler runs on, because the file operations do not look at
the context; only mkfs is killed by it. A remove may fail: `Create` discards the error
and leaves the unformatted image, `Delete` reports it. The answer is a step of its own (`Reply`),
so a restart can come between the work and the answer. `known` is whether the
Registry has the store's Config. Names are used once, as the provisioner's are, so
the system stops when every volume is deleted (CHECK_DEADLOCK FALSE).

`VolumeSize` puts a node on top: `loop`, `dm` and `fs` are the sizes of the layers,
`sector` what `SectorSizeFor` chose from the image's own format. A stage attaches,
grows and opens them, runs fsck and resizes; NodeExpandVolume does the last part
on a mounted volume, without the mutex, while the controller may grow or unlink the
file. `InitVolumes` adds the volumes older versions left (`OldVolumes`): small ext4 blocks, a size
that is no multiple of 512 bytes, a LUKS header with small sectors. What a killed
command leaves on the node is `NodeVolume`'s concern: a stage that fails here gives
its devices back. One `BlockSize` stands for the LUKS sector and the ext4 block of new
images, which are both 4096 in the code.

### StoreConfig

Parameters are a record; an absent one is `""`, a path is the sequence of its
segments, and a template token is a segment of its own. Ids are the keys they are
hashes of: SHA-256 cut to 48 bits is taken to be injective, and so is joining the
fields with `|`. Options are already trimmed; NUL bytes are left out; the cipher
pattern is the difference between a good and a bad name. `ParamsAssumption` says of the
parameters what Kubernetes does: no namespace, claim or volume is called `.`.

### StoreRegistry

`depth` counts the mounts stacked on the export's directory, `hung` is an export
that does not answer, `dirs` the subDirs on it. Get runs under the mount's mutex:
`Lock`, `Check` (start a check or find one in flight), `Answered` or
`TimerFires`, `Mount`, `SubDir`. `CheckAnswers` is the goroutine. `live` and
`unsure` record what the holder has seen, for `HandsOutLiveMount`. `Restart` is
the moment AdoptExisting is done, with the mounts kept (hostPath) or gone
(emptyDir); on a hung export that moment does not come. Nobody removes a subDir from
the export by hand: a Get does not make a recorded one again (`src/README.md:183-185`),
and `RecordedSubDirExists` is about what the driver itself does. One export is modelled:
mounts of different exports share nothing but the short map mutex. The stores on
it are those the accepted parameter sets lead to (`Configs`).

## Runs

Passing runs:

| Run | Instance | Shows |
|---|---|---|
| NodeVolumeFaults | 2 encrypted volumes, 2 pods, 2 loops, 2 faults of six kinds, concurrent publishes | OwnFilesystem, EntryNamesOwnLoop, UnstageLeavesNothing |
| NodeVolumeRestage | 1 encrypted volume, 2 pods, ext4 errors and 2 other faults, a kubelet that serialises | OneLoopPerImage through re-stages, NeverBareUndisturbed, KeyHeldWhileStaged, RestageSparesPublished |
| NodeVolumeLive | 1 plain volume, 2 pods, 1 loop, ext4 errors and 2 other faults, fairness | TypeOK, StagingConverges, Recovers, StaleMarkClears |
| LuksHeader | 2 volumes, 3 keys, 2 faults of five kinds, fairness | TypeOK, NeverLockedOut, OnlyCurrentSlot, PreparedHasFilesystem, PrepareConverges, and the refinement KeepsCustody |
| VolumeSize | 1 volume, new or one of three old ones, plain or encrypted, 2 handlers, 6 capacity ranges, 2 faults of five kinds, fairness | TypeOK, BoundKeepsImage, BoundIsFormatted, DeletedIsGoneOnceKnown, NeverShrinks, AnswerInRange, FitsDevice, GrowthLands, AlwaysMountable, Provisioned |
| Remediation | an encrypted volume, new or staged by an older version, 2 pods, owned or not, hold-off of 2, 2 faults of three kinds | TypeOK, RoundsApart, OnlyUsersDeleted, ReplacementSpared, EventsOnce |
| RemediationLive | a plain volume, 2 pods of a controller, hold-off of 1, 1 fault, fairness | Remediated |
| StoreRegistry | 2 stores, 2 Gets, 3 faults of eight kinds, some 200 parameter sets, fairness | TypeOK, NeverStacks, OneCheckInFlight, RecordedSubDirExists, HandsOutLiveMount, CheckNeverWedges, Placement |

The bounds. Two volumes and two loop devices are enough for a loop number to be
reused by another volume; two pods for a publish next to a re-stage, and for a
volume that is still published elsewhere. Two faults are enough for a failure in
the recovery from a failure. Ext4 errors are not counted as faults and may happen
at any time, any number of times. Two stores share one mount and its eviction;
two Gets give a holder and a successor that finds an abandoned check. Three keys
are two rotations, the second with a volume that may lag. One loop device in
NodeVolumeLive means that a leaked one exhausts the pool. Loop devices are
interchangeable, hence the symmetry in the safety runs of `NodeVolume`. Two pods
are a user of the failed filesystem and its replacement, or two users of which one
has no controller. Sizes are in units of 256 bytes and `MaxInt` is 31 of them, so
that an overflow is reached: the ranges take every branch of `alignedCapacity`, and
two handlers are a call and the retry that overtakes it. One volume is enough there,
since handlers of different volumes share nothing but `known`.

The variable `happened` holds the kinds of fault so far, and some properties speak
only of behaviours without a kind that the code does not withstand. What each
exclusion leaves out:

| Property | Excludes | Because |
|---|---|---|
| EntryNamesOwnLoop | deadlines, failing commands; with ext4 errors all but reboots | a stage's idempotent path does not compare devices: two deadlines in a row leave an entry that names another loop. So do a detach that fails in an unstage, a crash of the next stage between mount and Put, and a start-up that cannot list the loops: the retried stage accepts the old entry. With re-stages a failing flush, or a crash after which a loop that is to free itself is adopted, is enough |
| UnstageLeavesNothing | a failing second findmnt, failing commands | `IsMountPoint` then reads as "not mounted" and the unstage succeeds over a live mount; with no entry the error of the close is discarded. It is checked without ext4 errors: after a timed-out re-stage of an encrypted volume the entry names no mapping, and unstage leaves it |
| NeverBareUndisturbed | all faults but reboots, fewer loop devices than volumes, a kubelet that does not serialise | the failed mark is lost in a crash (RestageCrash), or cleared by a tick with an old snapshot while a re-stage is under way that then fails. With several volumes no fault is needed for that: another volume may take the last loop device of the pool after the re-stage has freed its own, and losetup then fails (TLC, 2 plain volumes and 1 device); a misread mount check does it too, as a re-stage may then detach another volume's loop |
| RestageSparesPublished | a kubelet that does not serialise | a publish reads the mark and binds outside the mutex |
| KeyHeldWhileStaged | crashes | the keys are in memory only |
| Recovers | what NeverBareUndisturbed excludes; kernels 6.12 to 6.14 | pods that were bound to the empty directory keep it, and nothing marks the volume again; those kernels show nothing in mountinfo (`src/README.md:402`) |
| Remediated | kernels 6.12 to 6.14; an entry that is gone, of an older version or without its key; pods without a controller; deletion off | nothing is detected, `restageFailed` refuses (the key: "the one manual case", `src/README.md:444`), or nobody may delete the pod |
| PrepareConverges | deadlines, failing closes, torn headers | a mapping left open is refused (EncryptedStageTimeout); so is an image that is neither LUKS nor blank |
| BoundKeepsImage, NeverShrinks, BoundIsFormatted | overtaken calls | handlers hold no lock: CreateOvertaken, and an expand that truncates below a later, larger one |
| BoundIsFormatted | restarts, failing removes | a controller killed between truncate and mkfs, or whose mkfs and remove both fail (`image.go:114` discards the error), leaves an image that is adopted; the comment on `Create` accepts it, since fsck refuses to stage it, which is the second part of FitsDevice and holds under every fault |
| DeletedIsGoneOnceKnown | restarts, overtaken calls, a delete that overlaps an expand | until a create has made the store known again a delete answers OK and keeps the file (the comment at `controller.go:187` accepts it, `src/README.md:239` does not say so); a late create or expand makes the file again, and so does, with no deadline passed, an expand that looked at the file before the delete removed it, because `truncateSparse` creates what is missing (TLC, 14 states) |
| FitsDevice (first part), GrowthLands, AlwaysMountable | overtaken calls; AlwaysMountable also restarts, failing removes and a delete that overlaps an expand | a late expand shrinks the file; an adopted or re-created image may have no filesystem |
| Provisioned | failing truncates | the empty file is of the wrong size for every retry |
| RoundsApart | earlier processes | the hold-off is in memory, a restart resets it (`src/README.md:418` promises "at most once every 5 minutes") |
| ReplacementSpared | restarts | the new process marks the old failure with a new time, and a replacement may have started before that |
| NeverStacks | killed mounts, a failing second findmnt, failed adoptions | each loses track of a live mount, over which the next Get mounts |

`Serial` is a kubelet that runs one operation per volume at a time. With an exhausted
pool the comment at `node.go:556` ("so a failed stage below can be retried") does not hold: the retry is a
publish, which finds no mark and binds. StagingConverges is about a plain
volume: for an encrypted one a deadline refutes it (EncryptedStageTimeout), and so
does a crash between umount and close of an unstage, after which start-up keeps
the mapping because an entry tracks it.

Not reached by any instance: an image an older version made at an unrounded size and
whose create is retried after the upgrade. `image.Create` would adopt it, but the
controller rounds the request before it calls, so `src/CHANGELOG.md:121` ("a retried
create or expand with the original request still matches") holds for the expand only.

Runs that end in a violation, each a statement of the repository that the code
does not keep (details and quotes in `PROJECT.json` under findings):

| Run | What happens |
|---|---|
| RestageCrash | killed in a re-stage: the next publish binds an empty directory |
| RestageForeignLoop | a re-stage detaches, by number, a loop that is another volume's by now |
| EncryptedStageTimeout | cleanup on a context that is done leaves the mapping; stages are refused |
| CreateOvertaken | a timed-out create removes the image its retry has adopted |

Most of these, and of the exclusions above, come from three causes: a command
killed at its deadline may have worked, the cleanup uses the context whose end it
cleans up after, and the failed mark is the only sign of a re-stage under way.

## Fairness

`NodeVolume!FairSpec`: the plugin's goroutines go on (weak fairness of each step
of a call, of Tick, which runs on a timer, and of start-up, which Kubernetes
repeats after a crash); the kubelet repeats a stage until it succeeds and a
publish for a pod that has no mount (it does so with back-off, for as long as the
pod exists); a pod on a read-only filesystem is deleted in the end, by the monitor
or by hand. The last two are strong fairness: a retry must come through although
other calls for the volume keep it waiting in between. Nothing forces an unstage.
`LuksHeader!FairSpec` and `VolumeSize!FairSpecAll` assume the same of the kubelet
and the provisioner. `Remediation!FairSpec` assumes that the monitor ticks, time
passes, publishes and unstages that began go on, and, strongly, that the kubelet
gets round to unpublishing a pod that terminates and to publishing for one that
runs; not that API calls succeed, but there are finitely many faults. `StoreRegistry!FairSpec` assumes only that a Get runs
on and its timer fires, nothing of the export or of the check goroutine.

## Proofs

`NodeVolume_proofs` proves, from `ConstantsAssumption` alone (the constants have
their types, `None`, `Released` and `Bare` are no devices):

* `TypeCorrect`: `Spec => []TypeOK`;
* `StagingSafe`: if `"ioerror" \notin Hazards` then
  `Spec => [](OneLoopPerImage /\ OwnFilesystem)`, for any number of volumes,
  pods, devices and faults, and for a kubelet that does not serialise its calls.

The hypothesis of `StagingSafe` is needed: with ext4 errors a re-stage runs, and
the run RestageForeignLoop shows OwnFilesystem false.

The two invariants are not inductive. A mount shows the right filesystem because
the loop it was made from was attached to the right image when mount ran, and that
because nobody could detach it since attach; which in turn rests on what the holder
of the mutex knows at each step. The inductive invariant `StagingInv` adds to the
types

* `NoRestage`: nothing is read-only, marked or in a re-stage;
* `KernelInv`: a mapping and a mount are over a loop attached to their volume's
  image (`Wired`), one loop per image, and only held loops are marked autoclear;
* `ServesWhenUp`: no call runs while the plugin is down;
* `Knows(v)`, for every volume: what v's holder may rely on at its step. From
  detach to attach no loop on the image is held, at attach there is none, from
  crypt on `dev[v]` is attached to v's image and held by nobody but v.

The proof has one lemma per group of actions. Frame lemmas carry it: a step for
another volume is `Harmless` to v (it changes neither v's loops nor what is over
them), so only v's own steps (`OwnEffect`) have to be looked at for `Knows(v)`.
TLC has checked `StagingInv` as an invariant of NodeVolumeFaults' instance before
it was proved.

`LuksHeader_proofs` proves, for any number of volumes, rotations and faults of every
kind:

* `TypeCorrect`, `NotLockedOut`, `OneSlotLeft`, `MountsFilesystem`: the four
  invariants of the run;
* `Implements`: `Spec => KeepsCustody`, the refinement of `KeyCustody`;
* `UsedStays`: no step takes away a filesystem that has been written to.

None of these is inductive: what a rotation may do depends on which keys a call,
a cache and a header can have at the same time. The inductive invariant `IInv` says
that all of them are at most one rotation old (`Pair`: a Secret's previous key is the one
before the current one) and, for every volume, what its image holds (`ImageOK`: a
LUKS header has a slot of the Secret, and a label or a filesystem only behind it),
what its cache holds (`CacheOK`) and what the running call may rely on at its step
(`CallOK`: past the rotation the slots are the call's current key alone, past the
dump the filesystem is there). The operator's wait for every stage is what keeps
a cached pair usable; without it `NotLockedOut` fails. One lemma per command shows that the
step's volume keeps its part and the others are left alone (`SameKeeps`);
`Implements` then names for each command the step of `KeyCustody` it is, or none.

`NodeRequests_proofs` continues `NodeVolume_proofs`, for any volumes, pods,
devices and number of faults, and for a kubelet that does not serialise its calls:

* `KeysAreHeld`: `Spec => []KeyHeldWhileStaged`, with ext4 errors and re-stages;
* `MountsAreOwn` and `UnstagesLeaveNothing`: if `"ioerror" \notin Hazards` then
  `Spec => []OwnFilesystem` and `Spec => UnstageLeavesNothing`;
* `EntriesAreOwn`: if `"ioerror" \notin Hazards` then `Spec => []EntryNamesOwnLoop`.

The property itself says until when: a failing command or a deadline ends it (see the
exclusions above). The keys need one more fact, `KeyInv`: no unstage runs for a volume the kubelet holds.
For the others `RequestInv` adds to `StagingInv` how far each request has got. In an
unstage the volume has no publish and no bind (`HolderInv`), then no mount, then no
mapping, then no loop (`UnstageInv`); a stage has nothing mounted until it mounts its
own loop, and once it is past Put an entry names what is mounted (`EntryInv`), which a
crash in between keeps true because start-up drops every entry that does not match
and an image has only one loop. A step of another request is `Apart` from a volume:
it leaves its request, mounts and entry as they are and attaches nothing to its image.

`NodeRestage_proofs` is about a node where ext4 does go read-only and re-stages run:

* `RestagesSparePods`: `Spec => []RestageSparesPublished`, for any volumes, pods, devices
  and faults of every kind (the property asks for `Serial`);
* `OneVolumeSafe`: if there is one volume then
  `Spec => [](OneLoopPerImage /\ OwnFilesystem)`, with every kind of fault and without
  `Serial`;
* `RestagesAreSafe` and `RestagedUnstagesLeaveNothing`: if `Serial` then, for any number
  of volumes and as long as nothing but reboots has happened, OneLoopPerImage,
  OwnFilesystem and EntryNamesOwnLoop hold and an unstage leaves nothing;
* `RestagedEntriesAreOwn`: if `Serial` then `Spec => []EntryNamesOwnLoop`, for any
  `Hazards`, from the former and `EntriesAreOwn`;
* `NeverBareWithRoom`: if `Serial` then, where every stage finds a free loop device
  (`PoolHasRoom`), no pod is shown the empty directory until something other than a
  reboot has happened, for any number of volumes;
* `NeverBareInLargePool`: `Spec => []NeverBareUndisturbed` for finitely many volumes and
  devices: at least as many devices as volumes make the pool have room.

The hypotheses are needed. RestageForeignLoop refutes `OneVolumeSafe` for two volumes and
one fault; after a failed flush, failing commands or a crash a re-stage may detach by number
a loop that is another volume's by now, hence the restriction to reboots in
`RestagesAreSafe`; the last two are false with an exhausted pool (see the exclusions above).

The first rests on `SpareInv`: an open loop stays attached to its image (`HeldIsAttached`),
no publish runs next to a re-stage (`CallsInv`), and from `restageFailed`'s look at the
mounts on no pod has the volume's loop bound (`BindInv`). For a single volume `OneInv`
says what the holder of the mutex may rely on, as `Knows` does without re-stages. In
the third `LayersInv` says, step by step, which layers (loop, mapping, mount, entry)
are there and that they are over each other; that no loop is marked autoclear makes
every detach take effect at once. `ReadyInv` adds that a volume the kubelet holds is
mounted whenever no call runs for it: that, and not the failed mark, is what keeps a
publish from the empty directory, and it is what an exhausted pool breaks.

`StoreRegistry_proofs` proves, from `RegistryAssumption` (the faults are of the kinds
named, `None` is no Get), for any parameter sets, Gets and faults: `TypeCorrect`,
`OneCheckLeft`, `NotStacked`, `SubDirsExist`, `DropsAreNoticed` and `PlacedRight`, that is,
all of the run's safety properties. The argument for the first five is the mutex: mounts grow only by
its holder, so what a check answers to a waiting holder still bounds `depth` when the
holder acts. `IInv` has a part for the check slot (`SlotInv`: a goroutine or its answer,
never both), for the cache at each step (`CacheInv`), for what the holder has seen
(`LiveInv`) and for mounts that are there but not cached (`Tracked`). That stores
of one export with the same id have the same directory is a lemma about the ids.

`PlacedRight` (`Spec => []Placement`) is about the operators of `StoreConfig` and needs
`ParamsAssumption`. The node reads what the controller read because a path that was
resolved has no token, no `..` and no empty segment left, so that it resolves to itself
(`ResolvedAgain`), and because a volume that is not encrypted is accepted only with the
default format. Namespaces keep apart because `path.Clean` keeps the same places of two paths
made from one template (`CleanKeeps`): were a namespace called `.`, its place would be
lost and two claims could meet. `Clean` is defined by the ranks of the segments it keeps,
not by recursion, so that this is about cardinalities and no induction over data. It
says nothing of a template that puts two tokens into one segment: a token is a segment of
its own here.

`Remediation_proofs` proves, from `RemediationAssumption` (a hold-off of at least 1), for
any number of pods and faults: `TypeCorrect`, `RoundsAreApart`, `OnlyUsersAreDeleted`,
`ReplacementsAreSpared` and `EventsAreSentOnce`. What makes them hard is that a tick
works on an old mountinfo and an old list. The invariant says why that is harmless
(`StaleInv`): the staging mount changes under a tick only once every pod the tick found
is `Dead`, terminating with nothing bound and no publish under way, and no later tick
finds such a pod again. `MemoryInv` then says that what was sent to a pod which is not
dead is remembered, `ReplaceInv` that the mark outlives the round and keeps
replacements off the failed filesystem, `HoldInv` that the hold-off and the time since
the last round add up to a hold. `BlindInv` is the kernels that show nothing: there no
tick finds anything and no pod is ever told or deleted.

`ControllerImages_proofs` proves, from `ControllerAssumption`, for any names, ranges, old
images and number of handlers: `TypeCorrect`, `BoundKeepsItsImage`, `BoundHasFilesystem`,
`DeletedLeavesNothing`, `ImagesNeverShrink` and `AnswersAreInRange`. The handlers have no
lock; each sidecar keeps its own apart: of a volume's creates and deletes only one is not
late, and of its expands (`SidecarInv`). Without deadlines none is late, so that what a
handler found is still there when it acts (`ImageInv`, `FormatInv`, `GoneInv`), but for an
expand that a delete overlaps, which finds its volume released. `SizeInv` and `EncryptedInv` hold
after deadlines too. The assumptions say what the constants of the code say: a LUKS header
is in whole blocks and the least encrypted size leaves room for it and a block
(`encryption.go:21`), images of older versions have blocks that divide today's.

Before that it proves of `Capacity`, from `CapacityAssumption` (the block size divides the
width of the integers, the default capacity fits), for every int64 range:

* `AlignedInRange`: an answer is in whole blocks, within the range, and no overflow;
* `RefusedOnlyIfNone`: a range is refused only when it has no such size.

The argument goes through the two ways `AlignUp` can end: without an overflow it is
the least multiple above what is wanted; with one it is negative, and the
comparison that follows refuses or falls back to the limit.

`VolumeSize_proofs` proves, for the composition, `FilesystemsFit`, `GrowthReachesPods` and
`BoundCanBeStaged`, and that the controller's theorems still hold there
(`ControllerStatesHold`, `ControllerStepsHold`). The argument is about divisors: a loop
device is cut to whole sectors of its image, a mapping to whole LUKS sectors, and nothing
of a filesystem is lost because `SectorSizeFor` picks a divisor of the recorded block
size, which divides what was made in its blocks. The invariant `AllInv` has, for every
volume, the steps it can be at (`StepInv`), its devices against each other (`DeviceInv`),
filesystem against device and image (`FitInv`) and what the call under way still owes
(`GrowInv`).

`SectorFits`, in `ControllerImages_proofs`, has what that needs of the arithmetic: what
`SectorSizeFor` returns for every recorded block size and image size. Its halving is a
recursive function; the proof takes the least argument for which the claim fails. It needs that the
sizes between the smallest sector and a block which divide the block are even
(`CapacityAssumption`; true of the powers of two in the code).

TLC has checked each of these invariants on its run's instance, and `ReadyInv` on one
with two volumes, two devices and a reboot.

Only model-checked is liveness (StagingConverges, Recovers, StaleMarkClears,
PrepareConverges, Provisioned, Remediated, CheckNeverWedges): fairness is out of the
prover's reach. Every invariant and action property of the runs is stated by a theorem,
some under the hypotheses given above. What those leave open, for several volumes with
re-stages: OneLoopPerImage once something other than a reboot has happened, and all of it for
a kubelet that does not serialise its calls; OwnFilesystem is false there.

## Not modelled

* Read-only publishes. `BindMount` remounts a bind in a second command; if that is
  killed the retry finds the path mounted and takes it for done, writable. Binds in
  `NodeVolume` are there or not.
* Stacked staging mounts of older versions, and the bound of eight unmounts.
* The local mounter: one bind mount after a check; nothing of it hangs.
* The mountinfo parser, HTTP and JSON of the Kubernetes client, the gRPC server and
  identity service, flags and manifests: conversions and wiring. What they answer
  is part of the modules that call them.
* NodeGetVolumeStats, ListVolumes, ValidateVolumeCapabilities: they change nothing.

## Plan

1. An abstract specification of a volume's life on a node (absent, staged, published)
   that `NodeVolume` without its findings implements.
2. Read-only publishes and stacked staging mounts in `NodeVolume`.
