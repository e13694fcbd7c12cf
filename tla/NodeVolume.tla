------------------------------ MODULE NodeVolume ------------------------------
(***************************************************************************)
(* One node of fileblock-csi: the node plugin (pkg/driver/node.go,         *)
(* monitor.go, failures.go, pkg/loop), the part of the kernel it drives    *)
(* (loop table, dm-crypt mappings, mounts) and the kubelet that calls it.  *)
(*                                                                         *)
(* NodeStageVolume, NodeUnstageVolume and the re-stage inside              *)
(* NodePublishVolume run under one mutex per volume, so pc[v] is the step  *)
(* the holder of v's mutex is at.  The rest of NodePublishVolume and all   *)
(* of NodeUnpublishVolume run outside it.  A step is one command, or a run *)
(* of reads with the decision taken on them; the plugin can be killed, and *)
(* a request's deadline can pass, between any two steps.                   *)
(*                                                                         *)
(* Definitions named <operator>_<change> are mutants: the operator as a    *)
(* plausible bug would have it, to show that a property notices.           *)
(***************************************************************************)
EXTENDS Naturals, FiniteSets

CONSTANTS
    Volumes,     \* volume ids; an id also stands for the kubelet's stage or unstage call
    Encrypted,   \* volumes whose context says encrypted: "true"
    LoopDevs,    \* the node's loop device pool
    Pods,        \* pods of the node; a pod also stands for its publish call
    VolumeOf,    \* the volume each pod mounts
    Hazards,     \* the kinds of fault that may happen
    MaxFaults,   \* BOUND on how many faults happen
    Serial,      \* the kubelet runs one operation per volume at a time
    Signal,      \* what mountinfo shows of an ext4 that was forced read-only
    None,        \* nothing: no image, device, mount, state entry or lock holder
    Released,    \* a state entry whose LoopDev and CryptDev are ""
    Bare         \* a bind of a staging directory nothing is mounted on

HazardKinds == {"cmd", "findmnt", "timeout", "flush", "crash", "reboot", "ioerror"}

\* Kernels up to 6.11 show the superblock as "ro", those from 6.15 on show
\* "emergency_ro" (or "shutdown") in its options, and those between nothing.
Signals == {"ro", "emergency_ro", "none"}

ASSUME ConstantsAssumption ==
    /\ Encrypted \subseteq Volumes
    /\ VolumeOf \in [Pods -> Volumes]
    /\ Hazards \subseteq HazardKinds
    /\ MaxFaults \in Nat
    /\ Serial \in BOOLEAN
    /\ Signal \in Signals
    /\ Volumes \cap Pods = {}
    /\ None \notin Volumes \cup Pods \cup LoopDevs
    /\ {Released, Bare} \cap (LoopDevs \cup {None}) = {}

VARIABLES
    \* the kernel
    loops,       \* the image each loop device is attached to
    autoclear,   \* loop devices that free themselves at their last close
    dm,          \* the loop device under each volume's open dm-crypt mapping
    stage,       \* the loop device whose filesystem is on each staging path
    bind,        \* the same for each pod's target path
    ro,          \* loop devices whose ext4 was forced read-only
    \* the plugin process
    boot,        \* where start-up is, "up" once it serves
    mem,         \* State.data: the loop device each volume's entry names
    keys,        \* volumes whose key is cached
    failed,      \* failures.failed
    pc, dev, by, \* per volume mutex: step, loop device of the stage, holder
    pub,         \* where each pod's NodePublishVolume is outside the mutex
    cancelled,   \* requests whose context is done
    mon, snap, todo, \* Monitor.Tick: step, mountinfo as read, entries left
    \* what survives the plugin
    disk,        \* loop-mappings.json
    \* the kubelet, and the faults so far
    kstaged,     \* volumes the kubelet holds as staged
    count,       \* how many faults happened
    happened     \* and of which kinds

kernel == <<loops, autoclear, dm, stage, bind, ro>>
state  == <<mem, disk>>
op     == <<pc, dev, by>>
tick   == <<mon, snap, todo>>
faults == <<count, happened>>
vars   == <<kernel, boot, state, keys, failed, op, pub, cancelled, tick, kstaged, faults>>

PodsOf(v) == {p \in Pods : VolumeOf[p] = v}
Requests  == Volumes \cup Pods

StagePcs   == {"check", "detach", "attach", "crypt", "mount", "put", "undo", "c_close", "c_detach"}
UnstagePcs == {"u_pop", "u_close", "u_detach", "u_forget"}
RestagePcs == {"r_pop", "r_close", "r_detach", "r_put"}
Pcs        == {"idle"} \cup StagePcs \cup UnstagePcs \cup RestagePcs

Absent == [v \in Volumes |-> "absent"]

Init ==
    /\ loops = [d \in LoopDevs |-> None]
    /\ autoclear = {}
    /\ dm = [v \in Volumes |-> None]
    /\ stage = [v \in Volumes |-> None]
    /\ bind = [p \in Pods |-> None]
    /\ ro = {}
    /\ boot = "down"
    /\ mem = [v \in Volumes |-> None]
    /\ disk = mem
    /\ keys = {}
    /\ failed = {}
    /\ pc = [v \in Volumes |-> "idle"]
    /\ dev = [v \in Volumes |-> None]
    /\ by = [v \in Volumes |-> None]
    /\ pub = [p \in Pods |-> "idle"]
    /\ cancelled = {}
    /\ mon = "idle" /\ snap = Absent /\ todo = {}
    /\ kstaged = {}
    /\ count = 0 /\ happened = {}

-----------------------------------------------------------------------------
(* The kernel, as the commands the plugin runs meet it. *)

\* Loop devices attached to v's image (losetup --list filtered by back file).
LoopsOf(v) == {d \in LoopDevs : loops[d] = v}

\* A filesystem on d is mounted somewhere.
Mounted(d) == (\E v \in Volumes : stage[v] = d) \/ (\E p \in Pods : bind[p] = d)

\* d is open: mounted, or held by a dm-crypt mapping.
Held(d) == Mounted(d) \/ \E v \in Volumes : dm[v] = d

\* After a close or an unmount: an autoclear loop with no holder left is
\* freed, and a filesystem with no mount left is gone with its state.
LastClose ==
    /\ loops' = [d \in LoopDevs |-> IF d \in autoclear /\ ~Held(d)' THEN None ELSE loops[d]]
    /\ autoclear' = {d \in autoclear : Held(d)'}
    /\ ro' = {d \in ro : Mounted(d)'}

\* umount <staging path of v>; no error when nothing is mounted.
Umount(v) ==
    /\ stage' = [stage EXCEPT ![v] = None]
    /\ UNCHANGED <<dm, bind>>
    /\ LastClose

\* cryptsetup close: fails on a mapping that is mounted.
CanClose(v) == dm[v] = None \/ ~Mounted(dm[v])
Close(v) ==
    /\ dm' = [dm EXCEPT ![v] = None]
    /\ UNCHANGED <<stage, bind>>
    /\ LastClose

\* losetup --detach of every device of D: a held one is only marked.
Detach(D) ==
    /\ loops' = [d \in LoopDevs |-> IF d \in D /\ ~Held(d) THEN None ELSE loops[d]]
    /\ autoclear' = autoclear \cup {d \in LoopDevs : d \in D /\ Held(d)}
    /\ UNCHANGED <<dm, stage, bind, ro>>

-----------------------------------------------------------------------------
(* Faults, deadlines and the bookkeeping of a request. *)

Fault(kind) ==
    /\ kind \in Hazards
    /\ count < MaxFaults
    /\ count' = count + 1
    /\ happened' = happened \cup {kind}

At(v, l) == boot = "up" /\ pc[v] = l

Goto(v, l) == /\ pc' = [pc EXCEPT ![v] = l]
              /\ UNCHANGED <<dev, by, pub, cancelled, kstaged>>

\* The request that runs v's step still has time: its commands start.
InTime(v) == by[v] \notin cancelled

\* A command reports an error: it failed, or the request's deadline passed.
CmdFails(v) == IF InTime(v) THEN Fault("cmd") ELSE UNCHANGED faults

\* One that was killed by the deadline may have done its work all the same.
Killed(v) == ~InTime(v)

\* The holder of v's mutex releases it.  A stage or unstage answers the
\* kubelet; a re-stage goes on to bind, or fails the publish.
Done(v, ok) ==
    /\ pc' = [pc EXCEPT ![v] = "idle"]
    /\ dev' = [dev EXCEPT ![v] = None]
    /\ by' = [by EXCEPT ![v] = None]
    /\ pub' = [p \in Pods |-> IF p # by[v] THEN pub[p] ELSE IF ok THEN "bind" ELSE "idle"]
    /\ cancelled' = IF ok /\ by[v] \in Pods THEN cancelled ELSE cancelled \ {by[v]}
    /\ kstaged' = IF ok /\ by[v] = v /\ InTime(v) /\ pc[v] \in StagePcs
                  THEN kstaged \cup {v} ELSE kstaged

\* The deadline of a request in flight passes.
Timeout(r) ==
    /\ boot = "up"
    /\ r \in Requests \ cancelled
    /\ (\E v \in Volumes : by[v] = r) \/ (r \in Pods /\ pub[r] # "idle")
    /\ Fault("timeout")
    /\ cancelled' = cancelled \cup {r}
    /\ UNCHANGED <<kernel, boot, state, keys, failed, op, pub, tick, kstaged>>

\* State.flushLocked: the whole map goes to disk, or the call fails.
Flush == disk' = mem' /\ UNCHANGED faults
FlushFails == UNCHANGED disk /\ Fault("flush")

\* No request for v runs.
Quiet(v) == pc[v] = "idle" /\ \A p \in PodsOf(v) : pub[p] = "idle"

\* The kubelet calls stage or unstage and the call takes v's mutex.
Lock(v, l) ==
    /\ boot = "up"
    /\ pc[v] = "idle"
    /\ pc' = [pc EXCEPT ![v] = l]
    /\ by' = [by EXCEPT ![v] = v]
    /\ UNCHANGED <<kernel, boot, state, keys, failed, dev, pub, cancelled, tick, faults>>

-----------------------------------------------------------------------------
(* stageLocked, for NodeStageVolume and for the re-stage. *)

StageBegin(v) ==
    /\ Serial => Quiet(v)
    /\ Lock(v, "check")
    /\ UNCHANGED kstaged

\* The idempotency test: recorded, and mounted.
Recorded_EntryOnly(v) == mem[v] # None
Recorded(v) == mem[v] # None /\ stage[v] # None

\* A loop on the image that is mounted or held, or an open mapping.
InUse(v) == (\E d \in LoopsOf(v) : Held(d)) \/ dm[v] # None

\* The mount on the staging path is v's own: its loop, or its mapping over one.
StageIsOwn_Never(v) == FALSE
StageIsOwn(v) == /\ loops[stage[v]] = v
                 /\ v \in Encrypted => dm[v] = stage[v]

\* cacheKeys after a stage, and on the idempotent path, where a key already
\* held stays.
CacheKey_Plaintext(v) == keys' = keys \cup {v}
CacheKey(v) == keys' = keys \cup ({v} \cap Encrypted)
RefillKey_Never(v) == UNCHANGED keys
RefillKey(v) == IF v \in keys THEN UNCHANGED keys ELSE CacheKey(v)

\* Anything that fails before the stage has changed something: the backing
\* store, the staging path check, the image, the loop list.
StageFails(v) ==
    /\ At(v, "check")
    /\ CmdFails(v)
    /\ Done(v, FALSE)
    /\ UNCHANGED <<kernel, boot, state, keys, failed, tick>>

\* Idempotency: nothing to do but to have the key.
StageAlready(v) ==
    /\ At(v, "check") /\ InTime(v)
    /\ Recorded(v)
    /\ RefillKey(v)
    /\ Done(v, TRUE)
    /\ UNCHANGED <<kernel, boot, state, failed, tick, faults>>

\* adoptStage: mounted but not recorded; record it if it is v's.
StageAdopt(v) ==
    /\ At(v, "check") /\ InTime(v)
    /\ stage[v] # None /\ ~Recorded(v) /\ StageIsOwn(v)
    /\ mem' = [mem EXCEPT ![v] = stage[v]]
    /\ \/ /\ Flush
          /\ CacheKey(v)
          /\ failed' = failed \ {v}
          /\ Done(v, TRUE)
       \/ /\ FlushFails
          /\ UNCHANGED <<keys, failed>>
          /\ Done(v, FALSE)
    /\ UNCHANGED <<kernel, boot, tick>>

\* FailedPrecondition: another mount is on the staging path, or the image
\* is in use elsewhere on the node.
StageRefuses(v) ==
    /\ At(v, "check") /\ InTime(v)
    /\ ~Recorded(v)
    /\ IF stage[v] # None THEN ~StageIsOwn(v) ELSE InUse(v)
    /\ Done(v, FALSE)
    /\ UNCHANGED <<kernel, boot, state, keys, failed, tick, faults>>

StageGoesOn(v) ==
    /\ At(v, "check") /\ InTime(v)
    /\ ~Recorded(v) /\ stage[v] = None /\ ~InUse(v)
    /\ Goto(v, "detach")
    /\ UNCHANGED <<kernel, boot, state, keys, failed, tick, faults>>

StageDetach_Never(v) ==
    /\ At(v, "detach")
    /\ Goto(v, "attach")
    /\ UNCHANGED <<kernel, boot, state, keys, failed, tick, faults>>
\* Idle leftovers on the image are detached; a failing call may have
\* detached some of them.
StageDetach(v) ==
    /\ At(v, "detach")
    /\ \/ /\ InTime(v)
          /\ Detach(LoopsOf(v))
          /\ Goto(v, "attach")
          /\ UNCHANGED faults
       \/ /\ CmdFails(v)
          /\ \/ UNCHANGED kernel
             \/ Killed(v) /\ Detach(LoopsOf(v))
          /\ Done(v, FALSE)
    /\ UNCHANGED <<boot, state, keys, failed, tick>>

\* losetup --find --show, or ErrPoolExhausted.
StageAttach(v) ==
    /\ At(v, "attach")
    /\ \/ \E d \in LoopDevs :
            /\ loops[d] = None
            /\ loops' = [loops EXCEPT ![d] = v]
            /\ \/ /\ InTime(v)
                  /\ pc' = [pc EXCEPT ![v] = IF v \in Encrypted THEN "crypt" ELSE "mount"]
                  /\ dev' = [dev EXCEPT ![v] = d]
                  /\ UNCHANGED <<by, pub, cancelled, kstaged>>
               \/ Killed(v) /\ Done(v, FALSE)
            /\ UNCHANGED faults
       \/ /\ UNCHANGED loops
          /\ IF \A d \in LoopDevs : loops[d] # None THEN UNCHANGED faults ELSE CmdFails(v)
          /\ Done(v, FALSE)
    /\ UNCHANGED <<autoclear, dm, stage, bind, ro, boot, state, keys, failed, tick>>

\* SetCapacity and luks.Prepare, which closes the mapping when it fails
\* after opening it.
StageCrypt(v) ==
    /\ At(v, "crypt")
    /\ \/ /\ loops[dev[v]] \in Encrypted
          /\ dm' = [dm EXCEPT ![v] = dev[v]]
          /\ UNCHANGED faults
          /\ Goto(v, IF InTime(v) THEN "mount" ELSE "c_close")
       \/ /\ IF loops[dev[v]] \in Encrypted THEN CmdFails(v) ELSE UNCHANGED faults
          /\ UNCHANGED dm
          /\ Goto(v, "c_close")
    /\ UNCHANGED <<loops, autoclear, stage, bind, ro, boot, state, keys, failed, tick>>

\* What mount is given holds an ext4: a mapping, or a plain image's loop.
Mountable(v) == IF v \in Encrypted THEN dm[v] = dev[v]
                ELSE loops[dev[v]] \in Volumes \ Encrypted

\* fsck, SetCapacity, resize2fs and mount.
StageMount(v) ==
    /\ At(v, "mount")
    /\ \/ /\ Mountable(v)
          /\ stage' = [stage EXCEPT ![v] = dev[v]]
          /\ UNCHANGED faults
          /\ Goto(v, IF InTime(v) THEN "put" ELSE "c_close")
       \/ /\ IF Mountable(v) THEN CmdFails(v) ELSE UNCHANGED faults
          /\ UNCHANGED stage
          /\ Goto(v, "c_close")
    /\ UNCHANGED <<loops, autoclear, dm, bind, ro, boot, state, keys, failed, tick>>

\* The loop device the new entry names.
NewEntry_KeepsOld(v) == IF mem[v] \in LoopDevs THEN mem[v] ELSE dev[v]
NewEntry(v) == dev[v]

\* state.Put, cacheKeys and failures.Clear.  Put leaves the entry in memory
\* when the flush fails.
StagePut(v) ==
    /\ At(v, "put")
    /\ mem' = [mem EXCEPT ![v] = NewEntry(v)]
    /\ \/ /\ Flush
          /\ CacheKey(v)
          /\ failed' = failed \ {v}
          /\ Done(v, TRUE)
       \/ /\ FlushFails
          /\ UNCHANGED <<keys, failed>>
          /\ Goto(v, "undo")
    /\ UNCHANGED <<kernel, boot, tick>>

\* The unwinding discards errors.  The commands of a request out of time
\* are not even started.
Skipped(v) == CmdFails(v) /\ UNCHANGED kernel

StageUndo(v) ==
    /\ At(v, "undo")
    /\ (InTime(v) /\ Umount(v) /\ UNCHANGED faults) \/ Skipped(v)
    /\ Goto(v, "c_close")
    /\ UNCHANGED <<boot, state, keys, failed, tick>>

\* detachOnFail: close the mapping (a busy one stays), then detach.
StageCleanClose(v) ==
    /\ At(v, "c_close")
    /\ IF v \in Encrypted /\ CanClose(v)
       THEN (InTime(v) /\ Close(v) /\ UNCHANGED faults) \/ Skipped(v)
       ELSE UNCHANGED <<kernel, faults>>
    /\ Goto(v, "c_detach")
    /\ UNCHANGED <<boot, state, keys, failed, tick>>

StageCleanDetach(v) ==
    /\ At(v, "c_detach")
    /\ (InTime(v) /\ Detach({dev[v]}) /\ UNCHANGED faults) \/ Skipped(v)
    /\ Done(v, FALSE)
    /\ UNCHANGED <<boot, state, keys, failed, tick>>

Stage(v) ==
    \/ StageFails(v) \/ StageAlready(v) \/ StageAdopt(v) \/ StageRefuses(v) \/ StageGoesOn(v)
    \/ StageDetach(v) \/ StageAttach(v) \/ StageCrypt(v) \/ StageMount(v) \/ StagePut(v)
    \/ StageUndo(v) \/ StageCleanClose(v) \/ StageCleanDetach(v)

-----------------------------------------------------------------------------
(* NodeUnstageVolume. *)

\* The kubelet unstages once it has unpublished every pod of the volume.
UnstageBegin(v) ==
    /\ Quiet(v)
    /\ \A p \in PodsOf(v) : bind[p] = None
    /\ Lock(v, "u_pop")
    /\ kstaged' = kstaged \ {v}

\* popStageMounts.  A failing second findmnt counts as "not mounted".
PopStage(v, from, to) ==
    /\ At(v, from)
    /\ \/ InTime(v) /\ Umount(v) /\ Goto(v, to) /\ UNCHANGED faults
       \/ InTime(v) /\ Fault("findmnt") /\ UNCHANGED kernel /\ Goto(v, to)
       \/ /\ CmdFails(v)
          /\ UNCHANGED kernel \/ (Killed(v) /\ Umount(v))
          /\ Done(v, FALSE)
    /\ UNCHANGED <<boot, state, keys, failed, tick>>

\* luks.Close, with an error that ends the request.
CloseOrFail(v, to) ==
    \/ InTime(v) /\ CanClose(v) /\ Close(v) /\ Goto(v, to) /\ UNCHANGED faults
    \/ /\ IF CanClose(v) THEN CmdFails(v) ELSE UNCHANGED faults
       /\ UNCHANGED kernel \/ (Killed(v) /\ CanClose(v) /\ Close(v))
       /\ Done(v, FALSE)

\* The entry says whether there is a mapping to close; with no entry a
\* close is tried and its error discarded.
UnstageClose(v) ==
    /\ At(v, "u_close")
    /\ CASE mem[v] = None ->
              /\ IF CanClose(v)
                 THEN (InTime(v) /\ Close(v) /\ UNCHANGED faults) \/ Skipped(v)
                 ELSE UNCHANGED <<kernel, faults>>
              /\ Goto(v, "u_detach")
         [] mem[v] \in LoopDevs /\ v \in Encrypted -> CloseOrFail(v, "u_detach")
         [] OTHER -> UNCHANGED <<kernel, faults>> /\ Goto(v, "u_detach")
    /\ UNCHANGED <<boot, state, keys, failed, tick>>

\* Every loop on the image is detached, whatever the entry says.
UnstageLoops_Entry(v) == {mem[v]} \cap LoopDevs
UnstageLoops(v) == LoopsOf(v)

UnstageDetach(v) ==
    /\ At(v, "u_detach")
    /\ \/ InTime(v) /\ Detach(UnstageLoops(v)) /\ Goto(v, "u_forget") /\ UNCHANGED faults
       \/ /\ CmdFails(v)
          /\ UNCHANGED kernel \/ (Killed(v) /\ Detach(UnstageLoops(v)))
          /\ Done(v, FALSE)
    /\ UNCHANGED <<boot, state, keys, failed, tick>>

\* The key, the entry (a failing flush is ignored) and the mark go.
UnstageForget(v) ==
    /\ At(v, "u_forget")
    /\ mem' = [mem EXCEPT ![v] = None]
    /\ IF mem[v] = None THEN UNCHANGED <<disk, faults>> ELSE Flush \/ FlushFails
    /\ keys' = keys \ {v}
    /\ failed' = failed \ {v}
    /\ Done(v, TRUE)
    /\ UNCHANGED <<kernel, boot, tick>>

Unstage(v) ==
    \/ PopStage(v, "u_pop", "u_close") \/ UnstageClose(v)
    \/ UnstageDetach(v) \/ UnstageForget(v)

-----------------------------------------------------------------------------
(* NodePublishVolume, with restageFailed, and NodeUnpublishVolume. *)

\* The kubelet publishes a volume it holds as staged.  The failed mark is
\* read without the mutex.
PublishBegin(p) ==
    LET v == VolumeOf[p] IN
    /\ boot = "up"
    /\ v \in kstaged /\ pub[p] = "idle"
    /\ Serial => Quiet(v)
    /\ pub' = [pub EXCEPT ![p] = IF v \in failed THEN "lock" ELSE "bind"]
    /\ UNCHANGED <<kernel, boot, state, keys, failed, op, cancelled, tick, kstaged, faults>>

\* A pod still has the staged filesystem at its target path.
StillPublished(v) == stage[v] # None /\ \E p \in Pods : bind[p] = stage[v]

CannotRestage_IgnoresPods(v) == mem[v] = None \/ (v \in Encrypted /\ v \notin keys)
\* restageFailed refuses: no entry, a live publish, or no key.  (An entry of
\* an older version, with nothing to re-stage from, is in Remediation.)
CannotRestage(v) ==
    mem[v] = None \/ StillPublished(v) \/ (v \in Encrypted /\ v \notin keys)

\* restageFailed takes the mutex and looks again.
PublishLock(p) ==
    LET v == VolumeOf[p] IN
    /\ boot = "up"
    /\ pub[p] = "lock" /\ pc[v] = "idle"
    /\ CASE v \notin failed ->
              pub' = [pub EXCEPT ![p] = "bind"] /\ UNCHANGED <<pc, by, cancelled>>
         [] v \in failed /\ CannotRestage(v) ->
              /\ pub' = [pub EXCEPT ![p] = "idle"]
              /\ cancelled' = cancelled \ {p}
              /\ UNCHANGED <<pc, by>>
         [] OTHER ->
              /\ pub' = [pub EXCEPT ![p] = "restage"]
              /\ pc' = [pc EXCEPT ![v] = "r_pop"]
              /\ by' = [by EXCEPT ![v] = p]
              /\ UNCHANGED cancelled
    /\ UNCHANGED <<kernel, boot, state, keys, failed, dev, tick, kstaged, faults>>

\* An entry without a loop was torn down by an earlier re-stage.
RestageClose(v) ==
    /\ At(v, "r_close")
    /\ IF mem[v] \in LoopDevs /\ v \in Encrypted
       THEN CloseOrFail(v, "r_detach")
       ELSE /\ UNCHANGED <<kernel, faults>>
            /\ Goto(v, IF mem[v] \in LoopDevs THEN "r_detach" ELSE "check")
    /\ UNCHANGED <<boot, state, keys, failed, tick>>

\* The entry's loop is detached by its number.
RestageDetach(v) ==
    /\ At(v, "r_detach")
    /\ \/ InTime(v) /\ Detach({mem[v]}) /\ Goto(v, "r_put") /\ UNCHANGED faults
       \/ /\ CmdFails(v)
          /\ UNCHANGED kernel \/ (Killed(v) /\ Detach({mem[v]}))
          /\ Done(v, FALSE)
    /\ UNCHANGED <<boot, state, keys, failed, tick>>

\* The entry stays, minus its devices, and stageLocked runs.
RestagePut(v) ==
    /\ At(v, "r_put")
    /\ mem' = [mem EXCEPT ![v] = Released]
    /\ \/ Flush /\ Goto(v, "check")
       \/ FlushFails /\ Done(v, FALSE)
    /\ UNCHANGED <<kernel, boot, keys, failed, tick>>

Restage(v) ==
    \/ PopStage(v, "r_pop", "r_close") \/ RestageClose(v)
    \/ RestageDetach(v) \/ RestagePut(v)

\* What a bind of v's staging path shows.
StagedTree(v) == IF stage[v] = None THEN Bare ELSE stage[v]

\* A target already mounted is left as it is; otherwise mount --bind.
PublishBind(p) ==
    LET v == VolumeOf[p] IN
    /\ boot = "up"
    /\ pub[p] = "bind"
    /\ \/ /\ IF bind[p] # None THEN UNCHANGED bind
             ELSE bind' = [bind EXCEPT ![p] = StagedTree(v)]
          /\ UNCHANGED faults
       \/ /\ IF p \in cancelled THEN UNCHANGED faults ELSE Fault("cmd")
          /\ UNCHANGED bind
    /\ pub' = [pub EXCEPT ![p] = "idle"]
    /\ cancelled' = cancelled \ {p}
    /\ UNCHANGED <<loops, autoclear, dm, stage, ro, boot, state, keys, failed, op, tick, kstaged>>

Unpublish(p) ==
    /\ boot = "up"
    /\ pub[p] = "idle" /\ bind[p] # None
    /\ Serial => Quiet(VolumeOf[p])
    /\ bind' = [bind EXCEPT ![p] = None]
    /\ UNCHANGED <<dm, stage>>
    /\ LastClose
    /\ UNCHANGED <<boot, state, keys, failed, op, pub, cancelled, tick, kstaged, faults>>

-----------------------------------------------------------------------------
(* Monitor.Tick: mountinfo first, then the entries, then each in turn. *)

\* ForcedReadOnly: either signal counts.
ForcedReadOnly_SuperOnly(d) == d \in ro /\ Signal = "ro"
ForcedReadOnly(d) == d \in ro /\ Signal \in {"ro", "emergency_ro"}

\* What mountinfo says of a staging path (LastAt).
Seen(v) == CASE stage[v] = None -> "absent"
             [] ForcedReadOnly(stage[v]) -> "ro"
             [] OTHER -> "healthy"

TickRead ==
    /\ boot = "up"
    /\ mon = "idle"
    /\ mon' = "list"
    /\ snap' = [v \in Volumes |-> Seen(v)]
    /\ UNCHANGED <<kernel, boot, state, keys, failed, op, pub, cancelled, todo, kstaged, faults>>

TickList ==
    /\ boot = "up"
    /\ mon = "list"
    /\ todo' = {v \in Volumes : mem[v] # None}
    /\ mon' = IF todo' = {} THEN "idle" ELSE "walk"
    /\ snap' = IF todo' = {} THEN Absent ELSE snap
    /\ UNCHANGED <<kernel, boot, state, keys, failed, op, pub, cancelled, kstaged, faults>>

\* failures.Mark or Clear; a staging path with no mount is left as it was.
Marks_NeverClears(v) == IF snap[v] = "ro" THEN failed \cup {v} ELSE failed
Marks(v) == CASE snap[v] = "ro" -> failed \cup {v}
              [] snap[v] = "healthy" -> failed \ {v}
              [] OTHER -> failed

TickVolume(v) ==
    /\ boot = "up"
    /\ v \in todo
    /\ failed' = Marks(v)
    /\ todo' = todo \ {v}
    /\ mon' = IF todo' = {} THEN "idle" ELSE mon
    /\ snap' = IF todo' = {} THEN Absent ELSE snap
    /\ UNCHANGED <<kernel, boot, state, keys, op, pub, cancelled, kstaged, faults>>

\* The backing store fails under a mounted filesystem and ext4 goes read-only.
ForceReadOnly(d) ==
    /\ "ioerror" \in Hazards
    /\ Mounted(d) /\ d \notin ro
    /\ ro' = ro \cup {d}
    /\ UNCHANGED <<loops, autoclear, dm, stage, bind, boot, state, keys, failed, op, pub,
                   cancelled, tick, kstaged, faults>>

-----------------------------------------------------------------------------
(* The plugin dies, or the whole node; start-up: LoadState and Reconcile. *)

ProcessDies ==
    /\ boot' = "down"
    /\ mem' = [v \in Volumes |-> None]
    /\ keys' = {} /\ failed' = {}
    /\ pc' = [v \in Volumes |-> "idle"]
    /\ dev' = [v \in Volumes |-> None]
    /\ by' = [v \in Volumes |-> None]
    /\ pub' = [p \in Pods |-> "idle"]
    /\ cancelled' = {}
    /\ mon' = "idle" /\ snap' = Absent /\ todo' = {}
    /\ UNCHANGED disk

Crash == Fault("crash") /\ ProcessDies /\ UNCHANGED <<kernel, kstaged>>

Reboot ==
    /\ Fault("reboot") /\ ProcessDies
    /\ loops' = [d \in LoopDevs |-> None]
    /\ autoclear' = {} /\ ro' = {}
    /\ dm' = [v \in Volumes |-> None]
    /\ stage' = [v \in Volumes |-> None]
    /\ bind' = [p \in Pods |-> None]
    /\ kstaged' = {}

\* The device the entry names no longer carries the volume.
Stale(v, e) == \/ e \notin LoopDevs
               \/ loops[e] # v
               \/ v \in Encrypted /\ dm[v] # e

\* Entries that do not hold are dropped.
ReconcileDrop ==
    /\ boot = "down"
    /\ mem' = [v \in Volumes |-> IF Stale(v, disk[v]) THEN None ELSE disk[v]]
    /\ IF mem' = disk THEN UNCHANGED <<disk, faults>> ELSE Flush \/ FlushFails
    /\ boot' = "close"
    /\ UNCHANGED <<kernel, keys, failed, op, pub, cancelled, tick, kstaged>>

\* Listing the loops or the mappings fails: start-up only warns.
ReconcileFails ==
    /\ boot = "down"
    /\ Fault("cmd")
    /\ mem' = disk
    /\ boot' = "up"
    /\ UNCHANGED <<kernel, disk, keys, failed, op, pub, cancelled, tick, kstaged>>

\* Commands of start-up that fail leave their device as it is, and their
\* errors are discarded.
Skips(devices) == IF devices = {} THEN UNCHANGED faults ELSE Fault("cmd")

\* Mappings over our loops that no entry tracks are closed (not busy ones).
ReconcileClose ==
    /\ boot = "close"
    /\ \E kept \in SUBSET Volumes :
         /\ Skips(kept)
         /\ dm' = [v \in Volumes |-> IF mem[v] = None /\ CanClose(v) /\ v \notin kept
                                    THEN None ELSE dm[v]]
    /\ UNCHANGED <<stage, bind>>
    /\ LastClose
    /\ boot' = "detach"
    /\ UNCHANGED <<state, keys, failed, op, pub, cancelled, tick, kstaged>>

\* Loops of our images that no entry tracks are detached.
ReconcileDetach ==
    /\ boot = "detach"
    /\ \E kept \in SUBSET LoopDevs :
         /\ Skips(kept)
         /\ Detach({d \in LoopDevs \ kept : loops[d] # None /\ \A v \in Volumes : mem[v] # d})
    /\ boot' = "up"
    /\ UNCHANGED <<state, keys, failed, op, pub, cancelled, tick, kstaged>>

-----------------------------------------------------------------------------
Next ==
    \/ \E v \in Volumes :
         \/ StageBegin(v) \/ Stage(v)
         \/ UnstageBegin(v) \/ Unstage(v)
         \/ Restage(v) \/ TickVolume(v)
    \/ \E p \in Pods :
         PublishBegin(p) \/ PublishLock(p) \/ PublishBind(p) \/ Unpublish(p)
    \/ \E r \in Requests : Timeout(r)
    \/ \E d \in LoopDevs : ForceReadOnly(d)
    \/ TickRead \/ TickList
    \/ Crash \/ Reboot
    \/ ReconcileDrop \/ ReconcileFails \/ ReconcileClose \/ ReconcileDetach

Spec == Init /\ [][Next]_vars

\* The plugin's goroutines and start-up run on: a step that stays possible
\* is taken.
PluginFairness ==
    /\ \A v \in Volumes :
         /\ WF_vars(Stage(v)) /\ WF_vars(Unstage(v)) /\ WF_vars(Restage(v))
         /\ WF_vars(TickVolume(v))
    /\ \A p \in Pods : WF_vars(PublishLock(p)) /\ WF_vars(PublishBind(p))
    /\ WF_vars(TickRead) /\ WF_vars(TickList)
    /\ WF_vars(ReconcileDrop) /\ WF_vars(ReconcileClose) /\ WF_vars(ReconcileDetach)

\* The kubelet repeats a stage until it succeeds.
StageRetries == \A v \in Volumes : WF_vars(v \notin kstaged /\ StageBegin(v))

\* The kubelet keeps publishing for a pod that has no mount, and a pod on a
\* filesystem that went read-only is deleted (by the monitor or by hand).
PublishRetries ==
    \A p \in Pods :
        /\ SF_vars(bind[p] = None /\ PublishBegin(p))
        /\ SF_vars(bind[p] \in ro /\ Unpublish(p))

FairSpec == Spec /\ PluginFairness /\ StageRetries /\ PublishRetries

-----------------------------------------------------------------------------
(* Properties. *)

EntryType == LoopDevs \cup {None, Released}

\* The variables stay within the values the plugin and the kernel use.
TypeOK ==
    /\ loops \in [LoopDevs -> Volumes \cup {None}]
    /\ autoclear \subseteq LoopDevs /\ ro \subseteq LoopDevs
    /\ dm \in [Volumes -> LoopDevs \cup {None}]
    /\ stage \in [Volumes -> LoopDevs \cup {None}]
    /\ bind \in [Pods -> LoopDevs \cup {None, Bare}]
    /\ boot \in {"down", "close", "detach", "up"}
    /\ mem \in [Volumes -> EntryType] /\ disk \in [Volumes -> EntryType]
    /\ keys \subseteq Encrypted /\ failed \subseteq Volumes
    /\ pc \in [Volumes -> Pcs]
    /\ dev \in [Volumes -> LoopDevs \cup {None}]
    /\ by \in [Volumes -> Requests \cup {None}]
    /\ pub \in [Pods -> {"idle", "lock", "restage", "bind"}]
    /\ cancelled \subseteq Requests
    /\ mon \in {"idle", "list", "walk"}
    /\ snap \in [Volumes -> {"absent", "healthy", "ro"}]
    /\ todo \subseteq Volumes
    /\ kstaged \subseteq Volumes
    /\ count \in 0..MaxFaults /\ happened \subseteq Hazards

\* No image is ever attached to two loop devices at once, so there are never
\* two ext4 instances over one file (node.go: FindBacking, loopBusy, Attach).
OneLoopPerImage ==
    \A d, e \in LoopDevs : loops[d] # None /\ loops[d] = loops[e] => d = e

\* What is mounted on a volume's staging path, and on the targets of its
\* pods, is that volume's own filesystem (node.go: Attach to Mount, Detach).
OwnFilesystem ==
    /\ \A v \in Volumes : stage[v] # None => loops[stage[v]] = v
    /\ \A p \in Pods : bind[p] \in LoopDevs => loops[bind[p]] = VolumeOf[p]

\* The faults after which entries still name what they should.  A command
\* that failed or ran out of time can leave one behind that does not, and
\* where ext4 goes read-only, so can a re-stage that a crash or a failing
\* flush interrupts.
EntryOutlives == IF "ioerror" \in Hazards THEN {"reboot"} ELSE HazardKinds \ {"timeout", "cmd"}

\* Between two requests for a volume the kubelet holds as staged, the loop
\* device its entry names is the volume's: what NodeExpandVolume resizes
\* and a re-stage detaches (node.go NodeExpandVolume, restageFailed).
EntryNamesOwnLoop ==
    \A v \in Volumes :
        /\ happened \subseteq EntryOutlives
        /\ boot = "up" /\ pc[v] = "idle" /\ v \in kstaged /\ mem[v] \in LoopDevs
        => loops[mem[v]] = v

\* A pod is never handed the empty directory under a staging path: what a
\* publish binds is a mounted stage (node.go NodePublishVolume, restageFailed).
NeverBare == \A p \in Pods : bind[p] # Bare

\* Nothing ends a re-stage half way: the pool has a loop device for every
\* volume, and nothing has gone wrong but reboots, which take the pods along.
Uninterrupted ==
    /\ Cardinality(Volumes) <= Cardinality(LoopDevs)
    /\ happened \subseteq {"reboot"}

\* The same as long as no re-stage is disturbed and the kubelet runs one
\* operation per volume at a time: no interleaving of stages and re-stages
\* of several volumes with monitor ticks shows a pod the empty directory
\* (node.go NodePublishVolume, restageFailed, monitor.go Tick).
NeverBareUndisturbed == Serial /\ Uninterrupted => NeverBare

\* An unstage that reports success leaves no mount, no mapping and no loop
\* of the volume behind (node.go NodeUnstageVolume), unless a mount check
\* has misread a mounted path (mount.go IsMountPoint) or a close failed whose
\* error is discarded.
UnstageLeavesNothing ==
    [][\A v \in Volumes :
         happened \cap {"findmnt", "cmd"} = {}
            /\ pc[v] = "u_forget" /\ boot' = "up" /\ pc'[v] = "idle"
            => stage[v] = None /\ dm[v] = None /\ LoopsOf(v) = {}]_vars

\* A re-stage tears nothing down under a pod that still has the volume
\* published, if the kubelet runs one operation per volume at a time
\* (node.go restageFailed).
RestageSparesPublished ==
    \A v \in Volumes : Serial /\ pc[v] \in RestagePcs =>
        \A p \in PodsOf(v) : bind[p] \notin LoopsOf(v)

\* While the plugin does not restart, it holds the key of every encrypted
\* volume the kubelet holds as staged, so a re-stage never lacks it: a
\* restart is the only way to lose one (node.go cacheKeys, NodeUnstageVolume).
KeyHeldWhileStaged ==
    "crash" \notin happened => \A v \in kstaged \cap Encrypted : v \in keys

\* A volume the kubelet keeps trying to stage, and does not unstage, gets
\* staged: what failed or timed-out attempts left behind never blocks the
\* next one for good (node.go stageLocked, detachOnFail, adoptStage).
StagingConverges ==
    \A v \in Volumes : []<>(v \in kstaged \/ pc[v] \in UnstagePcs)

\* A staged volume whose filesystem went read-only gets a fresh one, or is
\* unstaged, on a kernel that shows it and unless a re-stage may have been
\* disturbed (mountinfo.go ForcedReadOnly, monitor.go Tick, node.go
\* restageFailed).
Recovers ==
    Serial /\ Signal # "none" =>
        \A v \in Volumes :
            stage[v] \in ro
                ~> stage[v] \in LoopDevs \ ro \/ v \notin kstaged \/ ~Uninterrupted

\* A mark on a healthy stage, left by a tick that worked on a stale
\* mountinfo, goes away (monitor.go Tick).
StaleMarkClears ==
    \A v \in Volumes :
        v \in failed /\ stage[v] \in LoopDevs \ ro
            ~> v \notin failed \/ stage[v] \in ro \cup {None}
=============================================================================
