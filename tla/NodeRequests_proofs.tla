------------------------- MODULE NodeRequests_proofs -------------------------
(***************************************************************************)
(* More proofs about NodeVolume: what a request of the node plugin may     *)
(* rely on from one step to the next, although the plugin is killed,       *)
(* commands fail and publishes run beside it.  The keys the plugin caches, *)
(* what an unstage leaves behind, and what the entries of                  *)
(* loop-mappings.json name.                                                *)
(***************************************************************************)
EXTENDS NodeVolume_proofs

-----------------------------------------------------------------------------
(* The keys, with the re-stage and every fault. *)

\* An unstage drops the key of a volume the kubelet has given up before.
KeyInv ==
    /\ TypeOK /\ KeyHeldWhileStaged
    /\ \A v \in Volumes : pc[v] \in UnstagePcs => v \notin kstaged

\* No step takes a fault back.
LEMMA FaultsGrow ==
    /\ UNCHANGED faults => happened \subseteq happened'
    /\ \A k : Fault(k) => happened \subseteq happened'
    /\ \A v : CmdFails(v) => happened \subseteq happened'
    /\ \A v : Skipped(v) => happened \subseteq happened'
    /\ FlushFails => happened \subseteq happened'
    /\ Flush => happened \subseteq happened'
  BY DEF faults, Fault, CmdFails, Skipped, FlushFails, Flush

\* A step of v's request keeps the keys if it drops none, does not turn
\* into an unstage, and ends a stage only with v's key cached.
LEMMA KeyRequest ==
    ASSUME KeyInv, TypeOK', NEW v \in Volumes, happened \subseteq happened', keys \subseteq keys',
           \/ \E l \in Pcs : Goto(v, l) /\ (l \in UnstagePcs => pc[v] \in UnstagePcs)
           \/ \E ok \in BOOLEAN :
                /\ Done(v, ok)
                /\ ok /\ pc[v] \in StagePcs /\ v \in Encrypted => v \in keys'
    PROVE  KeyInv'
  <1>1. CASE \E l \in Pcs : Goto(v, l) /\ (l \in UnstagePcs => pc[v] \in UnstagePcs)
    BY <1>1 DEF KeyInv, KeyHeldWhileStaged, Goto, TypeOK
  <1>2. CASE \E ok \in BOOLEAN :
               /\ Done(v, ok)
               /\ ok /\ pc[v] \in StagePcs /\ v \in Encrypted => v \in keys'
    <2>1. PICK ok \in BOOLEAN :
               /\ Done(v, ok)
               /\ ok /\ pc[v] \in StagePcs /\ v \in Encrypted => v \in keys'
      BY <1>2
    <2>2. /\ kstaged' = kstaged \/ (kstaged' = kstaged \cup {v} /\ ok /\ pc[v] \in StagePcs)
          /\ pc' = [pc EXCEPT ![v] = "idle"]
      BY <2>1 DEF Done
    <2>3. KeyHeldWhileStaged'
      BY <2>1, <2>2 DEF KeyInv, KeyHeldWhileStaged
    <2>4. \A w \in Volumes : pc'[w] \in UnstagePcs => w \notin kstaged'
      BY <2>2 DEF KeyInv, TypeOK, UnstagePcs
    <2> QED
      BY <2>3, <2>4 DEF KeyInv
  <1> QED
    BY <1>1, <1>2

\* A step that leaves the keys, the requests and the kubelet alone.
LEMMA KeyElsewhere ==
    ASSUME KeyInv, TypeOK', happened \subseteq happened', UNCHANGED <<keys, pc, kstaged>>
    PROVE  KeyInv'
  BY DEF KeyInv, KeyHeldWhileStaged

\* Every step keeps the keys.
LEMMA KeyStep == KeyInv /\ [Next]_vars => KeyInv'
  <1> SUFFICES ASSUME KeyInv, [Next]_vars PROVE KeyInv'
    OBVIOUS
  <1>t. TypeOK' /\ TypeOK
    BY TypeStep DEF KeyInv
  <1>l. /\ StagePcs \subseteq Pcs \ UnstagePcs /\ UnstagePcs \subseteq Pcs
        /\ RestagePcs \subseteq Pcs \ UnstagePcs /\ StagePcs \cap UnstagePcs = {}
    BY DEF StagePcs, Pcs, RestagePcs, UnstagePcs
  <1>1. ASSUME NEW v \in Volumes, Stage(v) PROVE KeyInv'
    <2>1. CASE StageFails(v) \/ StageRefuses(v)
      BY <2>1, <1>t, FaultsGrow, KeyRequest DEF StageFails, StageRefuses
    <2>2. CASE StageAlready(v)
      <3>1. keys \subseteq keys' /\ (v \in Encrypted => v \in keys')
        BY <2>2 DEF StageAlready, RefillKey, CacheKey
      <3> QED
        BY <2>2, <3>1, <1>t, FaultsGrow, KeyRequest DEF StageAlready
    <2>3. CASE StageAdopt(v)
      <3>1. CASE Done(v, TRUE) /\ CacheKey(v) /\ Flush
        BY <3>1, <1>t, FaultsGrow, KeyRequest DEF CacheKey
      <3>2. CASE Done(v, FALSE) /\ UNCHANGED keys /\ FlushFails
        BY <3>2, <1>t, FaultsGrow, KeyRequest
      <3> QED
        BY <2>3, <3>1, <3>2 DEF StageAdopt
    <2>4. CASE StageGoesOn(v)
      BY <2>4, <1>t, <1>l, FaultsGrow, KeyRequest DEF StageGoesOn, StagePcs
    <2>5. CASE StageDetach(v)
      BY <2>5, <1>t, <1>l, FaultsGrow, KeyRequest DEF StageDetach, StagePcs
    <2>6. CASE StageAttach(v)
      <3>1. happened \subseteq happened' /\ UNCHANGED keys
        BY <2>6, FaultsGrow DEF StageAttach
      <3>2. CASE Done(v, FALSE)
        BY <3>1, <3>2, <1>t, KeyRequest
      <3>3. CASE ~Done(v, FALSE)
        <4>1. /\ pc' = [pc EXCEPT ![v] = IF v \in Encrypted THEN "crypt" ELSE "mount"]
              /\ UNCHANGED kstaged
          BY <3>3, <2>6 DEF StageAttach
        <4>2. \A w \in Volumes : pc'[w] \in UnstagePcs => w \notin kstaged'
          BY <4>1, <1>t DEF KeyInv, TypeOK, UnstagePcs
        <4> QED
          BY <3>1, <4>1, <4>2, <1>t DEF KeyInv, KeyHeldWhileStaged
      <3> QED
        BY <3>2, <3>3
    <2>7. CASE StageCrypt(v)
      BY <2>7, <1>t, <1>l, FaultsGrow, KeyRequest DEF StageCrypt, StagePcs
    <2>8. CASE StageMount(v)
      BY <2>8, <1>t, <1>l, FaultsGrow, KeyRequest DEF StageMount, StagePcs
    <2>9. CASE StagePut(v)
      <3>1. CASE Done(v, TRUE) /\ CacheKey(v) /\ Flush
        BY <3>1, <1>t, FaultsGrow, KeyRequest DEF CacheKey
      <3>2. CASE Goto(v, "undo") /\ UNCHANGED keys /\ FlushFails
        BY <3>2, <1>t, <1>l, FaultsGrow, KeyRequest DEF StagePcs
      <3> QED
        BY <2>9, <3>1, <3>2 DEF StagePut
    <2>10. CASE StageUndo(v) \/ StageCleanClose(v) \/ StageCleanDetach(v)
      <3>1. /\ happened \subseteq happened' /\ UNCHANGED keys
            /\ Goto(v, "c_close") \/ Goto(v, "c_detach") \/ Done(v, FALSE)
        BY <2>10, FaultsGrow DEF StageUndo, StageCleanClose, StageCleanDetach
      <3> QED
        BY <3>1, <1>t, <1>l, KeyRequest DEF StagePcs
    <2> QED
      BY <1>1, <2>1, <2>2, <2>3, <2>4, <2>5, <2>6, <2>7, <2>8, <2>9, <2>10 DEF Stage
  <1>2. ASSUME NEW v \in Volumes, Unstage(v) PROVE KeyInv'
    <2>1. CASE UnstageForget(v)
      <3>1. /\ pc[v] = "u_forget" /\ keys' = keys \ {v} /\ Done(v, TRUE)
            /\ happened \subseteq happened'
        BY <2>1, FaultsGrow DEF UnstageForget, At
      <3>2. pc[v] \in UnstagePcs /\ v \notin kstaged /\ kstaged' = kstaged
        BY <3>1, <1>l DEF UnstagePcs, KeyInv, Done
      <3>3. KeyHeldWhileStaged'
        BY <3>1, <3>2 DEF KeyInv, KeyHeldWhileStaged
      <3>4. \A w \in Volumes : pc'[w] \in UnstagePcs => w \notin kstaged'
        BY <3>1, <3>2, <1>t DEF Done, KeyInv, TypeOK, UnstagePcs
      <3> QED
        BY <3>3, <3>4, <1>t DEF KeyInv
    <2>2. CASE ~UnstageForget(v)
      <3>1. /\ pc[v] \in UnstagePcs /\ happened \subseteq happened' /\ UNCHANGED keys
            /\ \/ \E l \in {"u_close", "u_detach", "u_forget"} : Goto(v, l)
               \/ Done(v, FALSE)
        BY <2>2, <1>2, FaultsGrow DEF Unstage, PopStage, UnstageClose, CloseOrFail, UnstageDetach,
           At, UnstagePcs
      <3>2. {"u_close", "u_detach", "u_forget"} \subseteq Pcs
        BY DEF UnstagePcs, Pcs
      <3> QED
        BY <3>1, <3>2, <1>t, KeyRequest
    <2> QED
      BY <2>1, <2>2
  <1>3. ASSUME NEW v \in Volumes, Restage(v) PROVE KeyInv'
    <2>1. /\ happened \subseteq happened' /\ UNCHANGED keys
          /\ \/ \E l \in {"r_close", "r_detach", "r_put", "check"} : Goto(v, l)
             \/ Done(v, FALSE)
      BY <1>3, FaultsGrow DEF Restage, PopStage, RestageClose, CloseOrFail, RestageDetach,
         RestagePut
    <2>2. {"r_close", "r_detach", "r_put", "check"} \subseteq Pcs \ UnstagePcs
      BY DEF UnstagePcs, Pcs, RestagePcs, StagePcs
    <2> QED
      BY <2>1, <2>2, <1>t, KeyRequest
  <1>4. ASSUME NEW v \in Volumes, StageBegin(v) \/ UnstageBegin(v) PROVE KeyInv'
    <2>1. /\ UNCHANGED <<keys, happened>>
          /\ \/ pc' = [pc EXCEPT ![v] = "check"] /\ kstaged' = kstaged
             \/ pc' = [pc EXCEPT ![v] = "u_pop"] /\ kstaged' = kstaged \ {v}
      BY <1>4 DEF StageBegin, UnstageBegin, Lock, faults
    <2>2. KeyHeldWhileStaged'
      BY <2>1 DEF KeyInv, KeyHeldWhileStaged
    <2>3. \A w \in Volumes : pc'[w] \in UnstagePcs => w \notin kstaged'
      BY <2>1, <1>t DEF KeyInv, TypeOK, UnstagePcs
    <2> QED
      BY <2>2, <2>3, <1>t DEF KeyInv
  <1>5. ASSUME NEW p \in Pods, PublishLock(p) PROVE KeyInv'
    <2>1. /\ UNCHANGED <<keys, happened, kstaged>>
          /\ UNCHANGED pc \/ pc' = [pc EXCEPT ![VolumeOf[p]] = "r_pop"]
      BY <1>5 DEF PublishLock, faults
    <2>2. KeyHeldWhileStaged'
      BY <2>1 DEF KeyInv, KeyHeldWhileStaged
    <2>3. \A w \in Volumes : pc'[w] \in UnstagePcs => w \notin kstaged'
      BY <2>1, <1>t DEF KeyInv, TypeOK, UnstagePcs
    <2> QED
      BY <2>2, <2>3, <1>t DEF KeyInv
  <1>6. ASSUME NEW p \in Pods, PublishBegin(p) \/ PublishBind(p) \/ Unpublish(p) PROVE KeyInv'
    BY <1>6, <1>t, FaultsGrow, KeyElsewhere DEF PublishBegin, PublishBind, Unpublish, op
  <1>7. ASSUME NEW r \in Requests, Timeout(r) PROVE KeyInv'
    BY <1>7, <1>t, FaultsGrow, KeyElsewhere DEF Timeout, op
  <1>8. ASSUME \/ \E d \in LoopDevs : ForceReadOnly(d)
               \/ \E v \in Volumes : TickVolume(v)
               \/ TickRead \/ TickList
        PROVE  KeyInv'
    BY <1>8, <1>t, FaultsGrow, KeyElsewhere DEF ForceReadOnly, TickVolume, TickRead, TickList, op
  <1>9. ASSUME ReconcileDrop \/ ReconcileFails \/ ReconcileClose \/ ReconcileDetach PROVE KeyInv'
    <2>1. happened \subseteq happened' /\ UNCHANGED <<keys, pc, kstaged>>
      BY <1>9, FaultsGrow DEF ReconcileDrop, ReconcileFails, ReconcileClose, ReconcileDetach,
         op, Skips
    <2> QED
      BY <2>1, <1>t, KeyElsewhere
  <1>10. ASSUME Crash \/ Reboot PROVE KeyInv'
    <2>1. \A w \in Volumes : pc'[w] \notin UnstagePcs
      BY <1>10 DEF Crash, Reboot, ProcessDies, UnstagePcs
    <2>2. KeyHeldWhileStaged'
      BY <1>10 DEF Crash, Reboot, Fault, KeyHeldWhileStaged
    <2> QED
      BY <2>1, <2>2, <1>t DEF KeyInv
  <1>11. ASSUME UNCHANGED vars PROVE KeyInv'
    BY <1>11, <1>t, KeyElsewhere DEF vars, op, faults
  <1> QED
    BY <1>1, <1>2, <1>3, <1>4, <1>5, <1>6, <1>7, <1>8, <1>9, <1>10, <1>11 DEF Next

\* The node plugin holds the key of every encrypted volume the kubelet holds
\* as staged until the plugin is killed, whatever else fails and although
\* re-stages run: a re-stage then never lacks the key (node.go cacheKeys,
\* NodeUnstageVolume, restageFailed).
THEOREM KeysAreHeld == Spec => []KeyHeldWhileStaged
  <1>1. Init => KeyInv
    <2>1. Init => TypeOK
      BY ConstantsAssumption DEF Init, TypeOK, Absent, Pcs, EntryType, Requests
    <2> QED
      BY <2>1 DEF Init, KeyInv, KeyHeldWhileStaged
  <1>2. KeyInv => KeyHeldWhileStaged
    BY DEF KeyInv
  <1> QED
    BY <1>1, <1>2, KeyStep, PTL DEF Spec

-----------------------------------------------------------------------------
(***************************************************************************)
(* Unstages and entries, where ext4 never goes read-only.  What an unstage *)
(* finds when it forgets the volume, and what an entry names when no call  *)
(* runs, follow from how far the request has got: the invariant says, step *)
(* by step, what is down, mounted and recorded of the volume.              *)
(***************************************************************************)

\* The call that holds a volume's mutex.
HolderInv(v) ==
    /\ dm[v] # None \/ pc[v] = "crypt" => v \in Encrypted
    /\ mem[v] # Released /\ disk[v] # Released
    /\ pc[v] # "idle" => by[v] = v
    /\ pc[v] \in UnstagePcs =>
         v \notin kstaged /\ \A p \in PodsOf(v) : bind[p] = None /\ pub[p] = "idle"

\* What an unstage has taken down so far.
UnstageInv(v) ==
    happened \cap {"findmnt", "cmd"} = {} =>
      /\ pc[v] \in {"u_close", "u_detach", "u_forget"} => stage[v] = None
      /\ pc[v] = "u_detach" /\ InTime(v) => dm[v] = None
      /\ pc[v] = "u_forget" => dm[v] = None /\ \A d \in LoopDevs : loops[d] # v

\* The steps of a stage before it mounts, and after it has unmounted.
Unmounted == {"detach", "attach", "crypt", "mount", "c_close", "c_detach"}

\* How far a stage has got, and that an entry is of what is mounted.
EntryInv(v) ==
    happened \cap {"timeout", "cmd"} = {} =>
      /\ v \in kstaged => stage[v] # None
      /\ pc[v] \in Unmounted => stage[v] = None
      /\ pc[v] \in {"put", "undo"} => stage[v] = dev[v] /\ v \notin kstaged
      /\ pc[v] = "undo" => mem[v] = dev[v]
      /\ boot # "down" /\ stage[v] # None /\ mem[v] \in LoopDevs /\ pc[v] # "put" =>
           mem[v] = stage[v]

VolumeInv(v) == HolderInv(v) /\ UnstageInv(v) /\ EntryInv(v)

\* A request is cancelled only by a timeout.
CancelInv == cancelled # {} => "timeout" \in happened

RequestInv == StagingInv /\ CancelInv /\ \A v \in Volumes : VolumeInv(v)

\* A step that is not w's: it leaves w's request, mounts and entry alone,
\* and attaches nothing to w's image.
Apart(w) ==
    /\ pc'[w] = pc[w] /\ dev'[w] = dev[w] /\ by'[w] = by[w]
    /\ mem'[w] = mem[w] /\ disk'[w] \in {disk[w], mem[w]}
    /\ stage'[w] = stage[w] /\ dm'[w] = dm[w]
    /\ \A d \in LoopDevs : loops'[d] = w => loops[d] = w
    /\ w \in kstaged' <=> w \in kstaged
    /\ pc[w] \in UnstagePcs =>
         /\ by[w] \in cancelled => by[w] \in cancelled'
         /\ \A p \in PodsOf(w) : bind'[p] = bind[p] /\ pub'[p] = pub[p]
    /\ boot' = boot /\ happened \subseteq happened'

\* What is known of a volume survives the steps of others.
LEMMA ApartKeeps ==
    ASSUME NEW w \in Volumes, VolumeInv(w), Apart(w)
    PROVE  VolumeInv(w)'
  <1>1. HolderInv(w)'
    BY DEF VolumeInv, Apart, HolderInv, PodsOf
  <1>2. UnstageInv(w)'
    BY DEF VolumeInv, Apart, UnstageInv, InTime, UnstagePcs
  <1>3. EntryInv(w)'
    BY DEF VolumeInv, Apart, EntryInv
  <1> QED
    BY <1>1, <1>2, <1>3 DEF VolumeInv

\* A step of v's request touches nothing of another volume.
OnlyOf(v) ==
    /\ boot' = boot /\ bind' = bind /\ happened \subseteq happened'
    /\ \A w \in Volumes \ {v} :
         /\ mem'[w] = mem[w] /\ disk'[w] \in {disk[w], mem[w]}
         /\ stage'[w] = stage[w] /\ dm'[w] = dm[w]
         /\ \A d \in LoopDevs : loops'[d] = w => loops[d] = w

\* Where a step of v's request leads, within the request.
Moves(v) ==
    /\ \A w \in Volumes \ {v} :
         /\ pc'[w] = pc[w] /\ dev'[w] = dev[w] /\ by'[w] = by[w]
         /\ w \in kstaged' <=> w \in kstaged
    /\ pub' = pub
    /\ cancelled' \subseteq cancelled /\ cancelled \ {v} \subseteq cancelled'

\* A request of v that goes on, or ends, moves v alone: v holds its mutex.
LEMMA MovesAlone ==
    ASSUME TypeOK, NEW v \in Volumes, HolderInv(v), pc[v] # "idle",
           (\E l : Goto(v, l)) \/ (\E ok : Done(v, ok))
    PROVE  Moves(v)
  <1>1. by[v] = v /\ v \notin Pods
    BY ConstantsAssumption DEF HolderInv
  <1>2. CASE \E l : Goto(v, l)
    BY <1>2 DEF Goto, Moves, TypeOK
  <1>3. CASE \E ok : Done(v, ok)
    <2>1. PICK ok : Done(v, ok)
      BY <1>3
    <2>2. pub' = pub
      BY <2>1, <1>1 DEF Done, TypeOK
    <2>3. cancelled' = cancelled \ {v}
      BY <2>1, <1>1 DEF Done
    <2>4. kstaged' = kstaged \/ kstaged' = kstaged \cup {v}
      BY <2>1 DEF Done
    <2> QED
      BY <2>1, <2>2, <2>3, <2>4 DEF Done, Moves, TypeOK
  <1> QED
    BY <1>2, <1>3

\* A step of v's request keeps the invariant if it keeps what is known of v.
LEMMA OwnStep ==
    ASSUME RequestInv, StagingInv', NEW v \in Volumes, OnlyOf(v), Moves(v), VolumeInv(v)'
    PROVE  RequestInv'
  <1>1. ASSUME NEW w \in Volumes \ {v} PROVE VolumeInv(w)'
    <2>1. HolderInv(w) /\ VolumeInv(w)
      BY DEF RequestInv, VolumeInv
    <2>2. pc[w] \in UnstagePcs => by[w] = w
      BY <2>1 DEF HolderInv, UnstagePcs
    <2>3. Apart(w)
      BY <2>2 DEF OnlyOf, Moves, Apart
    <2> QED
      BY <2>1, <2>3, ApartKeeps
  <1>2. CancelInv'
    BY DEF RequestInv, CancelInv, Moves, OnlyOf
  <1> QED
    BY <1>1, <1>2 DEF RequestInv

\* A step of no request keeps the invariant if it keeps apart from all.
LEMMA ApartStep ==
    ASSUME RequestInv, StagingInv', CancelInv', \A w \in Volumes : Apart(w)
    PROVE  RequestInv'
  BY ApartKeeps DEF RequestInv

\* What a command of v, and the bookkeeping of a step, leave alone.
LEMMA CommandsOwn ==
    ASSUME TypeOK, NEW v \in Volumes
    PROVE  /\ \A D : Detach(D) => /\ UNCHANGED <<bind, stage, dm>>
                                  /\ \A d \in LoopDevs : loops'[d] \in {loops[d], None}
           /\ Umount(v) => /\ bind' = bind /\ dm' = dm /\ stage' = [stage EXCEPT ![v] = None]
                           /\ \A d \in LoopDevs : loops'[d] \in {loops[d], None}
           /\ Close(v) => /\ bind' = bind /\ stage' = stage /\ dm' = [dm EXCEPT ![v] = None]
                          /\ \A d \in LoopDevs : loops'[d] \in {loops[d], None}
           /\ UNCHANGED kernel => UNCHANGED <<bind, stage, dm, loops>>
  BY DEF Detach, Umount, Close, LastClose, kernel

\* In time no command fails but by a fault, and no timeout means in time.
LEMMA Undisturbing ==
    ASSUME RequestInv, NEW v \in Volumes
    PROVE  /\ InTime(v) /\ CmdFails(v) => "cmd" \in happened'
           /\ InTime(v) /\ Skipped(v) => "cmd" \in happened'
           /\ "timeout" \notin happened => InTime(v)
  BY DEF RequestInv, CancelInv, InTime, CmdFails, Skipped, Fault

\* A stage is not an unstage: what is known of the holder is little.
LEMMA StageHolds ==
    ASSUME NEW v \in Volumes, pc'[v] \in StagePcs \cup {"idle"}, pc'[v] # "idle" => by'[v] = v,
           dm'[v] # None \/ pc'[v] = "crypt" => v \in Encrypted,
           mem'[v] # Released, disk'[v] # Released
    PROVE  HolderInv(v)' /\ UnstageInv(v)'
  <1>1. pc'[v] \notin UnstagePcs
    BY DEF StagePcs, UnstagePcs
  <1>2. HolderInv(v)'
    BY <1>1 DEF HolderInv
  <1>3. UnstageInv(v)'
    BY <1>1 DEF UnstageInv, UnstagePcs
  <1> QED
    BY <1>2, <1>3

\* The steps of a stage that only look, or that change the mapping and the
\* loops, and leave mount and entry alone.
LEMMA QuietStage ==
    ASSUME RequestInv, StagingInv', NEW v \in Volumes,
           boot' = boot, UNCHANGED <<stage, bind, state>>,
           happened \subseteq happened', pc[v] \in StagePcs \ {"put", "undo"},
           \A w \in Volumes \ {v} :
             dm'[w] = dm[w] /\ \A d \in LoopDevs : loops'[d] = w => loops[d] = w,
           dm'[v] # None => v \in Encrypted,
           \/ \E ok \in BOOLEAN : Done(v, ok) /\ (ok => stage[v] # None)
           \/ \E l \in Unmounted : /\ Goto(v, l)
                                   /\ l # "crypt"
                                   /\ happened' \cap {"timeout", "cmd"} = {} => stage[v] = None
    PROVE  RequestInv'
  <1>t. TypeOK /\ HolderInv(v) /\ EntryInv(v) /\ pc[v] # "idle"
    BY DEF RequestInv, StagingInv, VolumeInv, StagePcs
  <1>1. Moves(v)
    BY <1>t, MovesAlone
  <1>2. OnlyOf(v)
    BY DEF OnlyOf, state
  <1>3. pc'[v] \in Unmounted \cup {"idle"} /\ pc'[v] # "crypt"
    BY <1>t DEF Done, Goto, TypeOK
  <1>4. pc'[v] \in StagePcs \cup {"idle"} /\ pc'[v] # "put" /\ pc'[v] # "undo"
    BY <1>3 DEF Unmounted, StagePcs
  <1>5. pc'[v] # "idle" => by'[v] = v
    BY <1>t DEF Done, Goto, HolderInv, TypeOK
  <1>6. HolderInv(v)' /\ UnstageInv(v)'
    BY <1>3, <1>4, <1>5, <1>t, StageHolds DEF HolderInv, state
  <1>7. EntryInv(v)'
    <2>1. CASE \E ok \in BOOLEAN : Done(v, ok) /\ (ok => stage[v] # None)
      <3>1. pc'[v] = "idle" /\ (v \in kstaged' => v \in kstaged \/ stage[v] # None)
        BY <2>1, <1>t DEF Done, TypeOK
      <3> QED
        BY <3>1, <1>t DEF EntryInv, state, Unmounted
    <2>2. CASE \E l \in Unmounted : /\ Goto(v, l)
                                    /\ happened' \cap {"timeout", "cmd"} = {} => stage[v] = None
      BY <2>2, <1>4, <1>t DEF Goto, EntryInv, state
    <2> QED
      BY <2>1, <2>2
  <1> QED
    BY <1>1, <1>2, <1>6, <1>7, OwnStep DEF VolumeInv

\* The steps of a stage keep the invariant.
LEMMA StageRequests ==
    ASSUME RequestInv, StagingInv', NEW v \in Volumes, Stage(v)
    PROVE  RequestInv'
  <1>t. TypeOK /\ TypeOK' /\ HolderInv(v) /\ EntryInv(v) /\ Knows(v)
    BY DEF RequestInv, StagingInv, VolumeInv
  <1>u. /\ InTime(v) /\ CmdFails(v) => "cmd" \in happened'
        /\ InTime(v) /\ Skipped(v) => "cmd" \in happened'
        /\ "timeout" \notin happened => InTime(v)
    BY Undisturbing
  <1>c. /\ \A D : Detach(D) => /\ UNCHANGED <<bind, stage, dm>>
                               /\ \A d \in LoopDevs : loops'[d] \in {loops[d], None}
        /\ Umount(v) => /\ bind' = bind /\ dm' = dm /\ stage' = [stage EXCEPT ![v] = None]
                        /\ \A d \in LoopDevs : loops'[d] \in {loops[d], None}
        /\ Close(v) => /\ bind' = bind /\ stage' = stage /\ dm' = [dm EXCEPT ![v] = None]
                       /\ \A d \in LoopDevs : loops'[d] \in {loops[d], None}
        /\ UNCHANGED kernel => UNCHANGED <<bind, stage, dm, loops>>
    BY <1>t, CommandsOwn
  <1>d. dm[v] # None => v \in Encrypted
    BY <1>t DEF HolderInv
  <1>l. {"check", "detach", "attach", "crypt", "mount", "c_close", "c_detach"}
          \subseteq StagePcs \ {"put", "undo"}
    BY DEF StagePcs
  <1>m. \A l \in Unmounted : pc[v] = l /\ happened \cap {"timeout", "cmd"} = {} => stage[v] = None
    BY <1>t DEF EntryInv
  <1>n. {"detach", "attach", "crypt", "mount", "c_close", "c_detach"} \subseteq Unmounted
    BY DEF Unmounted
  <1>1. CASE StageFails(v) \/ StageAlready(v) \/ StageRefuses(v) \/ StageGoesOn(v)
    <2>1. /\ boot' = boot /\ UNCHANGED kernel /\ UNCHANGED state /\ pc[v] = "check"
          /\ happened \subseteq happened'
          /\ \/ Done(v, FALSE)
             \/ Done(v, TRUE) /\ stage[v] # None
             \/ Goto(v, "detach") /\ stage[v] = None
      BY <1>1, FaultsGrow DEF StageFails, StageAlready, StageRefuses, StageGoesOn, At, Recorded
    <2> QED
      BY <2>1, <1>c, <1>d, <1>l, <1>n, QuietStage
  <1>2. CASE StageDetach(v)
    <2>1. /\ boot' = boot /\ UNCHANGED state /\ pc[v] = "detach"
          /\ happened \subseteq happened'
          /\ UNCHANGED kernel \/ Detach(LoopsOf(v))
          /\ Done(v, FALSE) \/ Goto(v, "attach")
      BY <1>2, FaultsGrow DEF StageDetach, At
    <2>2. happened' \cap {"timeout", "cmd"} = {} => stage[v] = None
      BY <2>1, <1>m, <1>n
    <2>3. UNCHANGED <<bind, stage, dm>> /\ \A d \in LoopDevs : loops'[d] \in {loops[d], None}
      BY <2>1, <1>c
    <2>4. \A w \in Volumes \ {v} :
            dm'[w] = dm[w] /\ \A d \in LoopDevs : loops'[d] = w => loops[d] = w
      BY <2>3, ConstantsAssumption
    <2> QED
      BY <2>1, <2>2, <2>3, <2>4, <1>d, <1>l, <1>n, QuietStage
  <1>3. CASE StageAttach(v)
    <2>1. /\ boot' = boot /\ UNCHANGED state /\ pc[v] = "attach"
          /\ happened \subseteq happened'
          /\ UNCHANGED <<dm, stage, bind>>
      BY <1>3, FaultsGrow DEF StageAttach, At
    <2>2. \A w \in Volumes \ {v} :
            dm'[w] = dm[w] /\ \A d \in LoopDevs : loops'[d] = w => loops[d] = w
      BY <2>1, <1>3, <1>t DEF StageAttach, TypeOK
    <2>3. CASE Done(v, FALSE)
      <3>1. /\ pc[v] \in StagePcs \ {"put", "undo"}
            /\ \E ok \in BOOLEAN : Done(v, ok) /\ (ok => stage[v] # None)
        BY <2>1, <2>3, <1>l
      <3> QED
        BY <2>1, <2>2, <3>1, <1>d, QuietStage
    <2>4. CASE ~Done(v, FALSE)
      <3>1. /\ pc' = [pc EXCEPT ![v] = IF v \in Encrypted THEN "crypt" ELSE "mount"]
            /\ \A w \in Volumes \ {v} : dev'[w] = dev[w]
            /\ UNCHANGED <<by, pub, cancelled, kstaged>>
        <4>1. PICK d \in LoopDevs :
                /\ pc' = [pc EXCEPT ![v] = IF v \in Encrypted THEN "crypt" ELSE "mount"]
                /\ dev' = [dev EXCEPT ![v] = d]
                /\ UNCHANGED <<by, pub, cancelled, kstaged>>
          BY <2>4, <1>3 DEF StageAttach
        <4> QED
          BY <4>1, <1>t DEF TypeOK
      <3>2. Moves(v)
        BY <3>1, <1>t DEF Moves, TypeOK
      <3>3. OnlyOf(v)
        BY <2>1, <2>2 DEF OnlyOf, state
      <3>4. /\ pc'[v] \in {"crypt", "mount"} /\ (pc'[v] = "crypt" => v \in Encrypted)
            /\ by'[v] = v
        BY <3>1, <2>1, <1>t DEF HolderInv, TypeOK
      <3>5. HolderInv(v)' /\ UnstageInv(v)'
        BY <3>4, <2>1, <1>t, <1>l, StageHolds DEF HolderInv, state
      <3>6. EntryInv(v)'
        BY <3>1, <3>4, <2>1, <1>t, <1>n DEF EntryInv, state
      <3> QED
        BY <3>2, <3>3, <3>5, <3>6, OwnStep DEF VolumeInv
    <2> QED
      BY <2>3, <2>4
  <1>4. CASE StageCrypt(v)
    <2>1. /\ boot' = boot /\ UNCHANGED state /\ pc[v] = "crypt"
          /\ happened \subseteq happened'
          /\ UNCHANGED <<loops, stage, bind>>
          /\ UNCHANGED dm \/ dm' = [dm EXCEPT ![v] = dev[v]]
          /\ Goto(v, "mount") \/ Goto(v, "c_close")
      BY <1>4, FaultsGrow DEF StageCrypt, At
    <2>2. happened' \cap {"timeout", "cmd"} = {} => stage[v] = None
      BY <2>1, <1>m, <1>n
    <2>3. \A w \in Volumes \ {v} :
            dm'[w] = dm[w] /\ \A d \in LoopDevs : loops'[d] = w => loops[d] = w
      BY <2>1, <1>t DEF TypeOK
    <2>4. v \in Encrypted
      BY <2>1, <1>t DEF HolderInv
    <2> QED
      BY <2>1, <2>2, <2>3, <2>4, <1>l, <1>n, QuietStage
  <1>5. CASE StageCleanClose(v) \/ StageCleanDetach(v)
    <2>1. /\ boot' = boot /\ UNCHANGED state /\ pc[v] \in {"c_close", "c_detach"}
          /\ happened \subseteq happened'
          /\ UNCHANGED kernel \/ Close(v) \/ Detach({dev[v]})
          /\ Done(v, FALSE) \/ Goto(v, "c_detach")
      BY <1>5, FaultsGrow DEF StageCleanClose, StageCleanDetach, Skipped, At
    <2>2. happened' \cap {"timeout", "cmd"} = {} => stage[v] = None
      BY <2>1, <1>m, <1>n
    <2>3. /\ UNCHANGED <<bind, stage>> /\ dm'[v] \in {dm[v], None}
          /\ \A w \in Volumes \ {v} : dm'[w] = dm[w]
          /\ \A d \in LoopDevs : loops'[d] \in {loops[d], None}
      BY <2>1, <1>c, <1>t DEF TypeOK
    <2>4. \A w \in Volumes \ {v} :
            dm'[w] = dm[w] /\ \A d \in LoopDevs : loops'[d] = w => loops[d] = w
      BY <2>3, ConstantsAssumption
    <2> QED
      BY <2>1, <2>2, <2>3, <2>4, <1>d, <1>l, <1>n, QuietStage
  <1>6. CASE StageAdopt(v)
    <2>1. /\ boot' = boot /\ UNCHANGED kernel /\ pc[v] = "check" /\ happened \subseteq happened'
          /\ stage[v] # None
          /\ mem' = [mem EXCEPT ![v] = stage[v]] /\ disk' \in {disk, mem'}
          /\ \E ok \in BOOLEAN : Done(v, ok)
      BY <1>6, FaultsGrow DEF StageAdopt, At, Flush, FlushFails
    <2>2. /\ mem'[v] = stage[v] /\ disk'[v] \in {disk[v], stage[v]} /\ stage[v] # Released
          /\ \A w \in Volumes \ {v} : mem'[w] = mem[w] /\ disk'[w] \in {disk[w], mem[w]}
      BY <2>1, <1>t, ConstantsAssumption DEF TypeOK
    <2>3. Moves(v)
      BY <2>1, <1>t, MovesAlone
    <2>4. OnlyOf(v)
      BY <2>1, <2>2 DEF OnlyOf, kernel
    <2>5. pc'[v] = "idle" /\ (v \in kstaged' => stage[v] # None)
      BY <2>1, <1>t DEF Done, TypeOK
    <2>6. HolderInv(v)' /\ UnstageInv(v)'
      BY <2>1, <2>2, <2>5, <1>t, StageHolds DEF HolderInv, kernel
    <2>7. EntryInv(v)'
      BY <2>1, <2>2, <2>5 DEF EntryInv, kernel, Unmounted
    <2> QED
      BY <2>3, <2>4, <2>6, <2>7, OwnStep DEF VolumeInv
  <1>7. CASE StageMount(v)
    <2>1. /\ boot' = boot /\ UNCHANGED state /\ pc[v] = "mount" /\ happened \subseteq happened'
          /\ UNCHANGED <<loops, dm, bind>>
          /\ \/ /\ stage' = [stage EXCEPT ![v] = dev[v]]
                /\ Goto(v, IF InTime(v) THEN "put" ELSE "c_close")
             \/ UNCHANGED stage /\ Goto(v, "c_close")
      BY <1>7, FaultsGrow DEF StageMount, At
    <2>2. happened \cap {"timeout", "cmd"} = {} => stage[v] = None /\ v \notin kstaged
      BY <2>1, <1>m, <1>n, <1>t DEF EntryInv
    <2>3. CASE UNCHANGED stage /\ Goto(v, "c_close")
      BY <2>1, <2>2, <2>3, <1>d, <1>l, <1>n, QuietStage
    <2>4. CASE /\ stage' = [stage EXCEPT ![v] = dev[v]]
               /\ Goto(v, IF InTime(v) THEN "put" ELSE "c_close")
      <3>1. Moves(v)
        BY <2>1, <2>4, <1>t, MovesAlone
      <3>2. OnlyOf(v)
        BY <2>1, <2>4, <1>t DEF OnlyOf, state, TypeOK
      <3>3. /\ pc'[v] \in {"put", "c_close"} /\ (InTime(v) => pc'[v] = "put")
            /\ by'[v] = v /\ dev'[v] = dev[v] /\ kstaged' = kstaged /\ stage'[v] = dev[v]
        BY <2>1, <2>4, <1>t DEF Goto, HolderInv, TypeOK
      <3>4. pc'[v] \in StagePcs
        BY <3>3 DEF StagePcs
      <3>5. HolderInv(v)' /\ UnstageInv(v)'
        BY <2>1, <3>3, <3>4, <1>t, StageHolds DEF HolderInv, state
      <3>6. EntryInv(v)'
        BY <2>1, <2>2, <3>3, <1>u DEF EntryInv, state, Unmounted
      <3> QED
        BY <3>1, <3>2, <3>5, <3>6, OwnStep DEF VolumeInv
    <2> QED
      BY <2>1, <2>3, <2>4
  <1>8. CASE StagePut(v)
    <2>1. /\ boot' = boot /\ UNCHANGED kernel /\ pc[v] = "put" /\ happened \subseteq happened'
          /\ mem' = [mem EXCEPT ![v] = dev[v]] /\ disk' \in {disk, mem'}
          /\ Done(v, TRUE) \/ Goto(v, "undo")
      BY <1>8, FaultsGrow DEF StagePut, NewEntry, At, Flush, FlushFails
    <2>2. dev[v] \in LoopDevs
      BY <2>1, <1>t DEF Knows, Owning
    <2>3. /\ mem'[v] = dev[v] /\ disk'[v] \in {disk[v], dev[v]}
          /\ dev[v] # Released /\ dev[v] # None
          /\ \A w \in Volumes \ {v} : mem'[w] = mem[w] /\ disk'[w] \in {disk[w], mem[w]}
      BY <2>1, <2>2, <1>t, ConstantsAssumption DEF TypeOK
    <2>4. Moves(v)
      BY <2>1, <1>t, MovesAlone
    <2>5. OnlyOf(v)
      BY <2>1, <2>3 DEF OnlyOf, kernel
    <2>6. \/ pc'[v] = "idle"
          \/ pc'[v] = "undo" /\ by'[v] = v /\ dev'[v] = dev[v] /\ kstaged' = kstaged
      BY <2>1, <1>t DEF Done, Goto, HolderInv, TypeOK
    <2>7. pc'[v] \in StagePcs \cup {"idle"} /\ pc'[v] # "crypt"
      BY <2>6 DEF StagePcs
    <2>8. HolderInv(v)' /\ UnstageInv(v)'
      BY <2>1, <2>3, <2>6, <2>7, <1>t, StageHolds DEF HolderInv, kernel
    <2>9. EntryInv(v)'
      BY <2>1, <2>3, <2>6, <1>t DEF EntryInv, kernel, Unmounted
    <2> QED
      BY <2>4, <2>5, <2>8, <2>9, OwnStep DEF VolumeInv
  <1>9. CASE StageUndo(v)
    <2>1. /\ boot' = boot /\ UNCHANGED state /\ pc[v] = "undo" /\ happened \subseteq happened'
          /\ Umount(v) \/ (Skipped(v) /\ UNCHANGED kernel)
          /\ Goto(v, "c_close")
      BY <1>9, FaultsGrow DEF StageUndo, Skipped, At
    <2>2. /\ bind' = bind /\ dm' = dm
          /\ \A d \in LoopDevs : loops'[d] \in {loops[d], None}
          /\ stage' = [stage EXCEPT ![v] = None] \/ (Skipped(v) /\ stage' = stage)
      BY <2>1, <1>c
    <2>3. Moves(v)
      BY <2>1, <1>t, MovesAlone
    <2>4. OnlyOf(v)
      BY <2>1, <2>2, <1>t, ConstantsAssumption DEF OnlyOf, state, TypeOK
    <2>5. pc'[v] = "c_close" /\ by'[v] = v /\ dev'[v] = dev[v] /\ kstaged' = kstaged
      BY <2>1, <1>t DEF Goto, HolderInv, TypeOK
    <2>6. HolderInv(v)' /\ UnstageInv(v)'
      BY <2>1, <2>2, <2>5, <1>t, <1>l, StageHolds DEF HolderInv, state
    <2>7. happened' \cap {"timeout", "cmd"} = {} => stage'[v] = None /\ v \notin kstaged
      BY <2>1, <2>2, <1>u, <1>t DEF EntryInv, TypeOK
    <2>8. EntryInv(v)'
      BY <2>5, <2>7 DEF EntryInv, Unmounted
    <2> QED
      BY <2>3, <2>4, <2>6, <2>8, OwnStep DEF VolumeInv
  <1> QED
    BY <1>1, <1>2, <1>3, <1>4, <1>5, <1>6, <1>7, <1>8, <1>9 DEF Stage

\* With the volume's mounts gone and its pods unpublished, none of its
\* loops is open but by its own mapping.
LEMMA NothingHolds ==
    ASSUME RequestInv, NEW v \in Volumes, pc[v] \in UnstagePcs, stage[v] = None
    PROVE  /\ CanClose(v)
           /\ dm[v] = None => \A d \in LoopDevs : loops[d] = v => ~Held(d)
  <1>t. TypeOK /\ Wired /\ HolderInv(v)
    BY DEF RequestInv, StagingInv, KernelInv, VolumeInv
  <1>1. \A p \in Pods : VolumeOf[p] = v => bind[p] = None
    BY <1>t DEF HolderInv, PodsOf
  <1>2. \A d \in LoopDevs : loops[d] = v => ~Mounted(d)
    BY <1>t, <1>1, ConstantsAssumption DEF Mounted, Wired
  <1>3. CanClose(v)
    BY <1>2, <1>t DEF CanClose, Wired, TypeOK
  <1>4. dm[v] = None => \A d \in LoopDevs : loops[d] = v => ~Held(d)
    BY <1>2, <1>t, ConstantsAssumption DEF Held, Wired
  <1> QED
    BY <1>3, <1>4

\* The steps of an unstage keep the invariant.
LEMMA UnstageRequests ==
    ASSUME RequestInv, StagingInv', NEW v \in Volumes, Unstage(v)
    PROVE  RequestInv'
  <1>t. TypeOK /\ TypeOK' /\ HolderInv(v) /\ EntryInv(v) /\ UnstageInv(v)
    BY DEF RequestInv, StagingInv, VolumeInv
  <1>u. /\ InTime(v) /\ CmdFails(v) => "cmd" \in happened'
        /\ InTime(v) /\ Skipped(v) => "cmd" \in happened'
    BY Undisturbing
  <1>c. /\ \A D : Detach(D) => /\ UNCHANGED <<bind, stage, dm>>
                               /\ \A d \in LoopDevs : loops'[d] \in {loops[d], None}
        /\ Umount(v) => /\ bind' = bind /\ dm' = dm /\ stage' = [stage EXCEPT ![v] = None]
                        /\ \A d \in LoopDevs : loops'[d] \in {loops[d], None}
        /\ Close(v) => /\ bind' = bind /\ stage' = stage /\ dm' = [dm EXCEPT ![v] = None]
                       /\ \A d \in LoopDevs : loops'[d] \in {loops[d], None}
        /\ UNCHANGED kernel => UNCHANGED <<bind, stage, dm, loops>>
    BY <1>t, CommandsOwn
  <1>s. /\ pc[v] \in UnstagePcs /\ boot' = boot /\ happened \subseteq happened'
        /\ Umount(v) \/ Close(v) \/ Detach(UnstageLoops(v)) \/ UNCHANGED kernel
        /\ UNCHANGED state \/ (mem' = [mem EXCEPT ![v] = None] /\ disk' \in {disk, mem'})
        /\ \/ \E l \in {"u_close", "u_detach", "u_forget"} : Goto(v, l)
           \/ Done(v, FALSE)
           \/ Done(v, TRUE)
    <2>1. CASE PopStage(v, "u_pop", "u_close")
      BY <2>1, FaultsGrow DEF PopStage, At, UnstagePcs
    <2>2. CASE UnstageClose(v)
      BY <2>2, FaultsGrow DEF UnstageClose, CloseOrFail, Skipped, At, UnstagePcs
    <2>3. CASE UnstageDetach(v)
      BY <2>3, FaultsGrow DEF UnstageDetach, At, UnstagePcs
    <2>4. CASE UnstageForget(v)
      BY <2>4, FaultsGrow DEF UnstageForget, Flush, FlushFails, At, UnstagePcs
    <2> QED
      BY <1>t, <2>1, <2>2, <2>3, <2>4 DEF Unstage
  <1>k. /\ bind' = bind /\ dm'[v] \in {dm[v], None} /\ stage'[v] \in {stage[v], None}
        /\ \A w \in Volumes \ {v} : dm'[w] = dm[w] /\ stage'[w] = stage[w]
        /\ \A d \in LoopDevs : loops'[d] \in {loops[d], None}
    BY <1>s, <1>c, <1>t DEF TypeOK
  <1>e. /\ mem'[v] \in {mem[v], None} /\ disk'[v] \in {disk[v], None}
        /\ \A w \in Volumes \ {v} : mem'[w] = mem[w] /\ disk'[w] \in {disk[w], mem[w]}
    BY <1>s, <1>t DEF TypeOK, state
  <1>1. OnlyOf(v)
    BY <1>k, <1>e, <1>s, ConstantsAssumption DEF OnlyOf
  <1>2. Moves(v)
    <2>1. pc[v] # "idle"
      BY <1>s DEF UnstagePcs
    <2> QED
      BY <2>1, <1>s, <1>t, MovesAlone
  <1>p. /\ pc'[v] = "idle" \/ (pc'[v] \in {"u_close", "u_detach", "u_forget"} /\ by'[v] = v)
        /\ v \notin kstaged'
    <2>1. by[v] = v /\ v \notin kstaged /\ pc[v] \notin StagePcs
      BY <1>s, <1>t DEF HolderInv, UnstagePcs, StagePcs
    <2>2. CASE \E l \in {"u_close", "u_detach", "u_forget"} : Goto(v, l)
      BY <2>1, <2>2, <1>t DEF Goto, TypeOK
    <2>3. CASE Done(v, FALSE) \/ Done(v, TRUE)
      BY <2>1, <2>3, <1>t DEF Done, TypeOK
    <2> QED
      BY <2>2, <2>3, <1>s
  <1>3. HolderInv(v)'
    <2>1. \A p \in PodsOf(v) : bind'[p] = None /\ pub'[p] = "idle"
      BY <1>1, <1>2, <1>s, <1>t DEF OnlyOf, Moves, HolderInv
    <2>2. pc'[v] # "crypt" /\ mem'[v] # Released /\ disk'[v] # Released
      BY <1>p, <1>e, <1>t, ConstantsAssumption DEF HolderInv
    <2> QED
      BY <2>1, <2>2, <1>p, <1>k, <1>t DEF HolderInv, PodsOf
  <1>4. EntryInv(v)'
    <2>1. pc'[v] \notin Unmounted \cup {"put", "undo"}
      BY <1>p DEF Unmounted
    <2>2. /\ pc[v] # "put"
          /\ mem'[v] \in LoopDevs => mem'[v] = mem[v]
          /\ stage'[v] # None => stage'[v] = stage[v]
      BY <1>s, <1>e, <1>k, ConstantsAssumption DEF UnstagePcs
    <2> QED
      BY <2>1, <2>2, <1>p, <1>s, <1>t DEF EntryInv
  <1>5. UnstageInv(v)'
    <2>0. CASE pc'[v] = "idle"
      BY <2>0 DEF UnstageInv
    <2> SUFFICES ASSUME happened' \cap {"findmnt", "cmd"} = {}, pc'[v] # "idle"
                 PROVE  UnstageInv(v)'
      BY <2>0 DEF UnstageInv
    <2>i. /\ happened \cap {"findmnt", "cmd"} = {}
          /\ ~Done(v, FALSE) /\ ~Done(v, TRUE)
      BY <1>s, <1>t DEF Done, TypeOK
    <2>1. CASE PopStage(v, "u_pop", "u_close")
      <3>1. Umount(v) /\ Goto(v, "u_close")
        BY <2>1, <2>i DEF PopStage, Fault
      <3>2. stage'[v] = None /\ pc'[v] = "u_close"
        BY <3>1, <1>c, <1>t DEF Goto, TypeOK
      <3> QED
        BY <3>2 DEF UnstageInv
    <2>2. CASE UnstageClose(v)
      <3>1. pc[v] = "u_close" /\ Goto(v, "u_detach") /\ stage[v] = None
        BY <2>2, <2>i, <1>t DEF UnstageClose, CloseOrFail, At, UnstageInv
      <3>2. CanClose(v)
        BY <3>1, <1>s, NothingHolds
      <3>3. dm'[v] = None \/ ~InTime(v)
        <4>1. CASE mem[v] = None
          <5>1. Close(v) \/ Skipped(v)
            BY <4>1, <2>2, <3>2, ConstantsAssumption DEF UnstageClose
          <5> QED
            BY <5>1, <1>c, <1>u, <1>t DEF TypeOK
        <4>2. CASE mem[v] # None /\ v \in Encrypted
          <5>1. mem[v] \in LoopDevs
            BY <4>2, <1>t DEF HolderInv, TypeOK, EntryType
          <5>2. CloseOrFail(v, "u_detach")
            BY <4>2, <5>1, <2>2 DEF UnstageClose
          <5>3. Close(v)
            BY <5>2, <2>i DEF CloseOrFail
          <5> QED
            BY <5>3, <1>c, <1>t DEF TypeOK
        <4>3. CASE v \notin Encrypted
          BY <4>3, <1>k, <1>t DEF HolderInv
        <4> QED
          BY <4>1, <4>2, <4>3
      <3>4. /\ pc'[v] = "u_detach" /\ stage'[v] = None
            /\ InTime(v)' => InTime(v)
        BY <3>1, <1>k, <1>t DEF Goto, InTime, TypeOK
      <3> QED
        BY <3>3, <3>4 DEF UnstageInv
    <2>3. CASE UnstageDetach(v)
      <3>1. pc[v] = "u_detach" /\ InTime(v) /\ Detach(UnstageLoops(v)) /\ Goto(v, "u_forget")
        BY <2>3, <2>i DEF UnstageDetach, At
      <3>2. stage[v] = None /\ dm[v] = None
        BY <3>1, <2>i, <1>t DEF UnstageInv
      <3>3. \A d \in LoopDevs : loops[d] = v => ~Held(d)
        BY <3>2, <1>s, NothingHolds
      <3>4. \A d \in LoopDevs : loops'[d] # v
        BY <3>1, <3>3, ConstantsAssumption DEF Detach, UnstageLoops, LoopsOf
      <3>5. pc'[v] = "u_forget" /\ stage'[v] = None /\ dm'[v] = None
        BY <3>1, <3>2, <1>k, <1>t DEF Goto, TypeOK
      <3> QED
        BY <3>4, <3>5 DEF UnstageInv
    <2>4. CASE UnstageForget(v)
      BY <2>4, <2>i DEF UnstageForget
    <2> QED
      BY <1>t, <2>1, <2>2, <2>3, <2>4 DEF Unstage
  <1> QED
    BY <1>1, <1>2, <1>3, <1>4, <1>5, OwnStep DEF VolumeInv

\* The kubelet's calls, the publishes and the monitor keep the invariant.
LEMMA CallRequests ==
    ASSUME RequestInv, StagingInv',
           \/ \E v \in Volumes : StageBegin(v) \/ UnstageBegin(v) \/ TickVolume(v)
           \/ \E p \in Pods : PublishBegin(p) \/ PublishLock(p) \/ PublishBind(p) \/ Unpublish(p)
           \/ \E r \in Requests : Timeout(r)
           \/ TickRead \/ TickList
    PROVE  RequestInv'
  <1>t. TypeOK /\ NoRestage /\ CancelInv /\ \A w \in Volumes : HolderInv(w) /\ VolumeInv(w)
    BY DEF RequestInv, StagingInv, VolumeInv
  <1>w. \A w \in Volumes : pc[w] \in UnstagePcs => by[w] = w /\ w \notin Pods
    BY <1>t, ConstantsAssumption DEF HolderInv, UnstagePcs
  <1>1. ASSUME NEW v \in Volumes, StageBegin(v) \/ UnstageBegin(v) PROVE RequestInv'
    <2>1. /\ UNCHANGED <<kernel, boot, state, dev, pub, cancelled, faults>>
          /\ pc[v] = "idle" /\ by' = [by EXCEPT ![v] = v]
          /\ \/ pc' = [pc EXCEPT ![v] = "check"] /\ kstaged' = kstaged
             \/ /\ pc' = [pc EXCEPT ![v] = "u_pop"] /\ kstaged' = kstaged \ {v}
                /\ Quiet(v) /\ \A p \in PodsOf(v) : bind[p] = None
      BY <1>1 DEF StageBegin, UnstageBegin, Lock
    <2>2. Moves(v)
      BY <2>1, <1>t DEF Moves, TypeOK
    <2>3. OnlyOf(v)
      BY <2>1 DEF OnlyOf, kernel, state, faults
    <2>4. /\ by'[v] = v
          /\ \/ pc'[v] = "check" /\ kstaged' = kstaged
             \/ /\ pc'[v] = "u_pop" /\ v \notin kstaged'
                /\ \A p \in PodsOf(v) : bind'[p] = None /\ pub'[p] = "idle"
      BY <2>1, <1>t DEF TypeOK, Quiet, kernel
    <2>5. HolderInv(v)'
      BY <2>1, <2>4, <1>t DEF HolderInv, kernel, state, UnstagePcs, PodsOf
    <2>6. UnstageInv(v)' /\ EntryInv(v)'
      BY <2>1, <2>4, <1>t DEF VolumeInv, UnstageInv, EntryInv, kernel, state, faults, Unmounted
    <2> QED
      BY <2>2, <2>3, <2>5, <2>6, OwnStep DEF VolumeInv
  <1>2. ASSUME TickRead \/ TickList \/ \E v \in Volumes : TickVolume(v) PROVE RequestInv'
    <2>1. UNCHANGED <<kernel, boot, state, op, pub, cancelled, kstaged, faults>>
      BY <1>2 DEF TickRead, TickList, TickVolume
    <2>2. \A w \in Volumes : Apart(w)
      BY <2>1 DEF Apart, kernel, state, op, faults
    <2> QED
      BY <2>1, <2>2, <1>t, ApartStep DEF CancelInv, faults
  <1>3. ASSUME NEW p \in Pods, PublishBegin(p) PROVE RequestInv'
    <2>1. /\ UNCHANGED <<kernel, boot, state, op, cancelled, kstaged, faults>>
          /\ VolumeOf[p] \in kstaged
          /\ \A q \in Pods \ {p} : pub'[q] = pub[q]
      BY <1>3, <1>t DEF PublishBegin, TypeOK
    <2>2. ASSUME NEW w \in Volumes PROVE Apart(w)
      <3>1. pc[w] \in UnstagePcs => p \notin PodsOf(w)
        BY <2>1, <1>t DEF HolderInv, PodsOf
      <3> QED
        BY <2>1, <3>1 DEF Apart, kernel, state, op, faults, PodsOf
    <2> QED
      BY <2>1, <2>2, <1>t, ApartStep DEF CancelInv, faults
  <1>4. ASSUME NEW p \in Pods, PublishLock(p) PROVE FALSE
    BY <1>4, <1>t DEF PublishLock, NoRestage
  <1>5. ASSUME NEW p \in Pods, PublishBind(p) PROVE RequestInv'
    <2>1. /\ UNCHANGED <<loops, dm, stage, boot, state, op, kstaged>>
          /\ happened \subseteq happened' /\ pub[p] = "bind" /\ cancelled' = cancelled \ {p}
          /\ \A q \in Pods \ {p} : pub'[q] = pub[q] /\ bind'[q] = bind[q]
      BY <1>5, <1>t, FaultsGrow DEF PublishBind, TypeOK
    <2>2. ASSUME NEW w \in Volumes PROVE Apart(w)
      <3>1. pc[w] \in UnstagePcs => p \notin PodsOf(w) /\ by[w] # p
        BY <2>1, <1>t, <1>w DEF HolderInv, PodsOf
      <3> QED
        BY <2>1, <3>1 DEF Apart, state, op, PodsOf
    <2> QED
      BY <2>1, <2>2, <1>t, ApartStep DEF CancelInv
  <1>6. ASSUME NEW p \in Pods, Unpublish(p) PROVE RequestInv'
    <2>1. /\ UNCHANGED <<dm, stage, boot, state, op, pub, cancelled, kstaged, faults>>
          /\ bind[p] # None /\ \A q \in Pods \ {p} : bind'[q] = bind[q]
          /\ \A d \in LoopDevs : loops'[d] \in {loops[d], None}
      BY <1>6, <1>t DEF Unpublish, LastClose, TypeOK
    <2>2. ASSUME NEW w \in Volumes PROVE Apart(w)
      <3>1. pc[w] \in UnstagePcs => p \notin PodsOf(w)
        BY <2>1, <1>t DEF HolderInv, PodsOf
      <3> QED
        BY <2>1, <3>1, ConstantsAssumption DEF Apart, state, op, faults, PodsOf
    <2> QED
      BY <2>1, <2>2, <1>t, ApartStep DEF CancelInv, faults
  <1>7. ASSUME NEW r \in Requests, Timeout(r) PROVE RequestInv'
    <2>1. /\ UNCHANGED <<kernel, boot, state, op, pub, kstaged>>
          /\ cancelled' = cancelled \cup {r}
          /\ happened' = happened \cup {"timeout"}
      BY <1>7 DEF Timeout, Fault
    <2>2. \A w \in Volumes : Apart(w)
      BY <2>1 DEF Apart, kernel, state, op
    <2> QED
      BY <2>1, <2>2, ApartStep DEF CancelInv
  <1> QED
    BY <1>1, <1>2, <1>3, <1>4, <1>5, <1>6, <1>7

\* A crash, a reboot and start-up keep the invariant: no request runs, and
\* start-up keeps only entries that hold.
LEMMA RestartRequests ==
    ASSUME RequestInv, StagingInv',
           \/ Crash \/ Reboot
           \/ ReconcileDrop \/ ReconcileFails \/ ReconcileClose \/ ReconcileDetach
    PROVE  RequestInv'
  <1>t. /\ TypeOK /\ TypeOK' /\ CancelInv /\ ServesWhenUp /\ Wired /\ OneLoopPerImage
        /\ \A w \in Volumes : HolderInv(w) /\ EntryInv(w)
    BY DEF RequestInv, StagingInv, KernelInv, VolumeInv
  <1>1. \A v \in Volumes : pc'[v] = "idle"
    BY <1>t DEF Crash, Reboot, ProcessDies, ReconcileDrop, ReconcileFails, ReconcileClose,
       ReconcileDetach, ServesWhenUp, op
  <1>h. happened \subseteq happened' /\ cancelled' \in {{}, cancelled}
    BY FaultsGrow DEF Crash, Reboot, ProcessDies, ReconcileDrop, ReconcileFails, ReconcileClose,
       ReconcileDetach, Skips
  <1>2. CancelInv'
    BY <1>h, <1>t DEF CancelInv
  <1>3. ASSUME NEW v \in Volumes PROVE HolderInv(v)'
    <2>1. dm'[v] \in {dm[v], None}
      BY DEF Crash, Reboot, ReconcileDrop, ReconcileFails, ReconcileClose, ReconcileDetach, Detach,
         kernel
    <2>2. mem'[v] \in {mem[v], disk[v], None} /\ disk'[v] \in {mem[v], disk[v], None}
      <3>1. CASE Crash \/ Reboot
        BY <3>1 DEF Crash, Reboot, ProcessDies
      <3>2. CASE ReconcileDrop
        BY <3>2 DEF ReconcileDrop, Flush, FlushFails
      <3>3. CASE ReconcileFails \/ ReconcileClose \/ ReconcileDetach
        BY <3>3 DEF ReconcileFails, ReconcileClose, ReconcileDetach, state
      <3> QED
        BY <3>1, <3>2, <3>3
    <2> QED
      BY <2>1, <2>2, <1>1, <1>t, ConstantsAssumption DEF HolderInv, UnstagePcs
  <1>4. ASSUME NEW v \in Volumes PROVE UnstageInv(v)'
    BY <1>1 DEF UnstageInv
  <1>5. ASSUME NEW v \in Volumes PROVE EntryInv(v)'
    <2>1. CASE Crash
      BY <2>1, <1>1, <1>h, <1>t DEF Crash, ProcessDies, kernel, EntryInv, Unmounted
    <2>2. CASE Reboot
      BY <2>2, <1>1 DEF Reboot, EntryInv, Unmounted
    <2>3. CASE ReconcileDrop
      <3>1. /\ UNCHANGED <<kernel, kstaged>>
            /\ mem'[v] = IF Stale(v, disk[v]) THEN None ELSE disk[v]
        BY <2>3 DEF ReconcileDrop
      <3>2. stage[v] # None /\ mem'[v] \in LoopDevs => mem'[v] = stage[v]
        <4>1. ASSUME stage[v] # None, mem'[v] \in LoopDevs PROVE mem'[v] = stage[v]
          <5>1. loops[mem'[v]] = v
            BY <3>1, <4>1, ConstantsAssumption DEF Stale
          <5>2. stage[v] \in LoopDevs /\ loops[stage[v]] = v
            BY <4>1, <1>t DEF TypeOK, Wired
          <5> QED
            BY <4>1, <5>1, <5>2, <1>t, ConstantsAssumption DEF OneLoopPerImage
        <4> QED
          BY <4>1
      <3> QED
        BY <3>1, <3>2, <1>1, <1>h, <1>t DEF EntryInv, kernel, Unmounted
    <2>4. CASE ReconcileFails
      BY <2>4 DEF ReconcileFails, Fault, EntryInv
    <2>5. CASE ReconcileClose \/ ReconcileDetach
      <3>1. UNCHANGED <<stage, kstaged, mem>> /\ boot # "down" /\ pc[v] = "idle"
        BY <2>5, <1>t DEF ReconcileClose, ReconcileDetach, Detach, state, ServesWhenUp
      <3> QED
        BY <3>1, <1>1, <1>h, <1>t DEF EntryInv, Unmounted
    <2> QED
      BY <2>1, <2>2, <2>3, <2>4, <2>5
  <1> QED
    BY <1>2, <1>3, <1>4, <1>5 DEF RequestInv, VolumeInv

\* Every step keeps the invariant when no filesystem goes read-only.
LEMMA RequestsStep ==
    ASSUME "ioerror" \notin Hazards, RequestInv, [Next]_vars
    PROVE  RequestInv'
  <1>t. StagingInv'
    BY StagingStep DEF RequestInv
  <1>1. ASSUME NEW v \in Volumes, Restage(v) PROVE FALSE
    BY <1>1 DEF Restage, PopStage, RestageClose, RestageDetach, RestagePut, At, RequestInv,
       StagingInv, NoRestage, RestagePcs
  <1>2. ASSUME NEW d \in LoopDevs, ForceReadOnly(d) PROVE FALSE
    BY <1>2 DEF ForceReadOnly
  <1>3. ASSUME UNCHANGED vars PROVE RequestInv'
    <2>1. \A w \in Volumes : Apart(w)
      BY <1>3 DEF vars, Apart, kernel, state, op, faults
    <2>2. CancelInv'
      BY <1>3 DEF vars, faults, RequestInv, CancelInv
    <2> QED
      BY <2>1, <2>2, <1>t, ApartStep
  <1> QED
    BY <1>t, <1>1, <1>2, <1>3, StageRequests, UnstageRequests, CallRequests, RestartRequests
       DEF Next

\* The initial states satisfy the invariant.
LEMMA RequestsInit == Init => RequestInv
  <1> SUFFICES ASSUME Init PROVE RequestInv
    OBVIOUS
  <1>1. TypeOK
    BY ConstantsAssumption DEF Init, TypeOK, Absent, Pcs, EntryType, Requests
  <1>2. NoRestage /\ ServesWhenUp /\ \A v \in Volumes : Knows(v)
    BY DEF Init, NoRestage, Absent, RestagePcs, ServesWhenUp, Knows, Owning
  <1>3. KernelInv
    BY ConstantsAssumption DEF Init, KernelInv, Wired, OneLoopPerImage, MarkedIsHeld
  <1>4. CancelInv
    BY DEF Init, CancelInv
  <1>5. \A v \in Volumes : HolderInv(v) /\ UnstageInv(v) /\ EntryInv(v)
    BY ConstantsAssumption DEF Init, HolderInv, UnstageInv, EntryInv, UnstagePcs, Unmounted
  <1> QED
    BY <1>1, <1>2, <1>3, <1>4, <1>5 DEF RequestInv, StagingInv, VolumeInv

\* Where ext4 never goes read-only, what is mounted on a staging path and on
\* the targets of its pods is the volume's own filesystem, whatever fails or
\* dies between attaching a loop and mounting it (node.go stageLocked).
THEOREM MountsAreOwn ==
    ASSUME "ioerror" \notin Hazards
    PROVE  Spec => []OwnFilesystem
  <1>1. OneLoopPerImage /\ OwnFilesystem => OwnFilesystem
    OBVIOUS
  <1> QED
    BY <1>1, StagingSafe, PTL

\* Where ext4 never goes read-only, an unstage that reports success leaves
\* no mount, mapping or loop device of the volume, unless a mount check
\* misread or a command failed: not after crashes, reboots, timeouts or
\* failed flushes, and however publishes interleave (NodeUnstageVolume).
THEOREM UnstagesLeaveNothing ==
    ASSUME "ioerror" \notin Hazards
    PROVE  Spec => UnstageLeavesNothing
  <1>1. RequestInv /\ [Next]_vars => RequestInv'
    BY RequestsStep
  <1>2. RequestInv =>
          [\A v \in Volumes :
             happened \cap {"findmnt", "cmd"} = {}
                /\ pc[v] = "u_forget" /\ boot' = "up" /\ pc'[v] = "idle"
                => stage[v] = None /\ dm[v] = None /\ LoopsOf(v) = {}]_vars
    BY DEF RequestInv, VolumeInv, UnstageInv, LoopsOf
  <1> QED
    BY <1>1, <1>2, RequestsInit, PTL DEF Spec, UnstageLeavesNothing

\* Where ext4 never goes read-only, the loop device the entry of a staged
\* volume names is attached to the volume's image whenever no call runs for
\* it, through crashes, reboots, misread mount checks and failed flushes and
\* until a command fails or a deadline passes (loop.State, Reconcile,
\* NodeExpandVolume).
THEOREM EntriesAreOwn ==
    ASSUME "ioerror" \notin Hazards
    PROVE  Spec => []EntryNamesOwnLoop
  <1>1. RequestInv /\ [Next]_vars => RequestInv'
    BY RequestsStep
  <1>2. RequestInv => EntryNamesOwnLoop
    <2> SUFFICES ASSUME RequestInv, NEW v \in Volumes, happened \subseteq EntryOutlives,
                        boot = "up", pc[v] = "idle", v \in kstaged, mem[v] \in LoopDevs
                 PROVE  loops[mem[v]] = v
      BY DEF EntryNamesOwnLoop
    <2>1. happened \cap {"timeout", "cmd"} = {}
      BY DEF EntryOutlives
    <2>2. stage[v] # None /\ mem[v] = stage[v]
      BY <2>1 DEF RequestInv, VolumeInv, EntryInv
    <2> QED
      BY <2>2 DEF RequestInv, StagingInv, KernelInv, Wired
  <1> QED
    BY <1>1, <1>2, RequestsInit, PTL DEF Spec
=============================================================================
