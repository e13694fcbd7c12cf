--------------------------- MODULE NodeVolume_proofs ---------------------------
(***************************************************************************)
(* Proofs about NodeVolume, for every set of volumes, pods, loop devices   *)
(* and faults: its type invariant, and the safety of staging.              *)
(***************************************************************************)
EXTENDS NodeVolume, TLAPS

-----------------------------------------------------------------------------
(* The type invariant, in parts: the kernel, the requests, the rest. *)

KernelType ==
    /\ loops \in [LoopDevs -> Volumes \cup {None}]
    /\ autoclear \subseteq LoopDevs /\ ro \subseteq LoopDevs
    /\ dm \in [Volumes -> LoopDevs \cup {None}]
    /\ stage \in [Volumes -> LoopDevs \cup {None}]
    /\ bind \in [Pods -> LoopDevs \cup {None, Bare}]

RequestType ==
    /\ pc \in [Volumes -> Pcs]
    /\ dev \in [Volumes -> LoopDevs \cup {None}]
    /\ by \in [Volumes -> Requests \cup {None}]
    /\ pub \in [Pods -> {"idle", "lock", "restage", "bind"}]
    /\ cancelled \subseteq Requests
    /\ kstaged \subseteq Volumes

StateType == mem \in [Volumes -> EntryType] /\ disk \in [Volumes -> EntryType]

RestType ==
    /\ boot \in {"down", "close", "detach", "up"}
    /\ keys \subseteq Encrypted /\ failed \subseteq Volumes

TickType ==
    /\ mon \in {"idle", "list", "walk"}
    /\ snap \in [Volumes -> {"absent", "healthy", "ro"}]
    /\ todo \subseteq Volumes

FaultsType == count \in 0..MaxFaults /\ happened \subseteq Hazards

\* The parts are the whole of TypeOK, before and after a step.
LEMMA TypeParts ==
    TypeOK <=> /\ KernelType /\ RequestType /\ StateType /\ RestType
               /\ TickType /\ FaultsType
  BY DEF TypeOK, KernelType, RequestType, StateType, RestType, TickType, FaultsType

\* The same of the state a step leads to.
LEMMA TypePartsPrime ==
    TypeOK' <=> /\ KernelType' /\ RequestType' /\ StateType' /\ RestType'
                /\ TickType' /\ FaultsType'
  BY DEF TypeOK, KernelType, RequestType, StateType, RestType, TickType, FaultsType

\* umount, cryptsetup close and losetup --detach keep the kernel's types.
LEMMA CommandTypes ==
    ASSUME KernelType, NEW v \in Volumes
    PROVE  /\ Umount(v) => KernelType'
           /\ Close(v) => KernelType'
           /\ \A D : Detach(D) => KernelType'
  <1>1. LastClose => /\ loops' \in [LoopDevs -> Volumes \cup {None}]
                     /\ autoclear' \subseteq LoopDevs /\ ro' \subseteq LoopDevs
    BY DEF LastClose, KernelType
  <1>2. Umount(v) => KernelType'
    BY <1>1 DEF Umount, KernelType
  <1>3. Close(v) => KernelType'
    BY <1>1 DEF Close, KernelType
  <1>4. ASSUME NEW D, Detach(D) PROVE KernelType'
    BY <1>4 DEF Detach, KernelType
  <1> QED
    BY <1>2, <1>3, <1>4

\* Starting a request, moving it on or ending it keeps the requests' types.
LEMMA RequestTypes ==
    ASSUME RequestType, NEW v \in Volumes
    PROVE  /\ \A l \in Pcs : Goto(v, l) => RequestType'
           /\ \A ok \in BOOLEAN : Done(v, ok) => RequestType'
           /\ \A l \in Pcs : Lock(v, l) /\ kstaged' \subseteq Volumes => RequestType'
  <1>1. ASSUME NEW l \in Pcs, Goto(v, l) PROVE RequestType'
    BY <1>1 DEF Goto, RequestType
  <1>2. ASSUME NEW ok \in BOOLEAN, Done(v, ok) PROVE RequestType'
    BY <1>2 DEF Done, RequestType, Pcs
  <1>3. ASSUME NEW l \in Pcs, Lock(v, l), kstaged' \subseteq Volumes PROVE RequestType'
    BY <1>3 DEF Lock, RequestType, Requests
  <1> QED
    BY <1>1, <1>2, <1>3

\* A fault, or none, keeps the count within its bound.
LEMMA FaultTypes ==
    ASSUME FaultsType
    PROVE  /\ UNCHANGED faults => FaultsType'
           /\ \A k : Fault(k) => FaultsType'
           /\ \A v : CmdFails(v) => FaultsType'
           /\ FlushFails => FaultsType'
           /\ Flush => FaultsType'
  <1>1. ASSUME NEW k, Fault(k) PROVE FaultsType'
    BY <1>1, ConstantsAssumption DEF FaultsType, Fault
  <1>2. UNCHANGED faults => FaultsType'
    BY DEF FaultsType, faults
  <1>3. ASSUME NEW v, CmdFails(v) PROVE FaultsType'
    BY <1>1, <1>2, <1>3 DEF CmdFails
  <1>4. (FlushFails => FaultsType') /\ (Flush => FaultsType')
    BY <1>1, <1>2 DEF FlushFails, Flush
  <1> QED
    BY <1>1, <1>2, <1>3, <1>4

\* What a step leaves alone keeps its type.
LEMMA SameTypes ==
    ASSUME TypeOK
    PROVE  /\ UNCHANGED kernel => KernelType'
           /\ UNCHANGED <<op, pub, cancelled, kstaged>> => RequestType'
           /\ UNCHANGED state => StateType'
           /\ UNCHANGED <<boot, keys, failed>> => RestType'
           /\ UNCHANGED tick => TickType'
  BY TypeParts DEF kernel, op, state, tick, KernelType, RequestType, StateType, RestType, TickType

\* Every step of the system keeps the types.
LEMMA TypeStep == TypeOK /\ [Next]_vars => TypeOK'
  <1> SUFFICES ASSUME TypeOK, [Next]_vars PROVE TypeOK'
    OBVIOUS
  <1> USE TypeParts, TypePartsPrime, SameTypes, FaultTypes
  <1>k. ASSUME NEW v \in Volumes
        PROVE  /\ Umount(v) => KernelType'
               /\ Close(v) => KernelType'
               /\ \A D : Detach(D) => KernelType'
    BY CommandTypes
  <1>q. ASSUME NEW v \in Volumes
        PROVE  /\ \A l \in Pcs : Goto(v, l) => RequestType'
               /\ \A ok \in BOOLEAN : Done(v, ok) => RequestType'
               /\ \A l \in Pcs : Lock(v, l) /\ kstaged' \subseteq Volumes => RequestType'
    BY RequestTypes
  <1>pc. StagePcs \cup UnstagePcs \cup RestagePcs \cup {"idle"} = Pcs
    BY DEF Pcs
  <1>1. ASSUME NEW v \in Volumes, StageBegin(v) PROVE TypeOK'
    <2>1. RequestType'
      BY <1>1, <1>q, <1>pc DEF StageBegin, RequestType, StagePcs
    <2> QED
      BY <1>1, <2>1 DEF StageBegin, Lock
  <1>2. ASSUME NEW v \in Volumes, StageFails(v) PROVE TypeOK'
    BY <1>2, <1>q DEF StageFails
  <1>3. ASSUME NEW v \in Volumes, StageAlready(v) PROVE TypeOK'
    <2>1. RestType'
      BY <1>3 DEF StageAlready, RestType, RefillKey, CacheKey
    <2> QED
      BY <1>3, <1>q, <2>1 DEF StageAlready
  <1>4. ASSUME NEW v \in Volumes, StageAdopt(v) PROVE TypeOK'
    <2>1. StateType'
      BY <1>4 DEF StageAdopt, StateType, Flush, FlushFails, KernelType, EntryType
    <2>2. RestType'
      BY <1>4 DEF StageAdopt, RestType, CacheKey
    <2> QED
      BY <1>4, <1>q, <2>1, <2>2 DEF StageAdopt
  <1>5. ASSUME NEW v \in Volumes, StageRefuses(v) PROVE TypeOK'
    BY <1>5, <1>q DEF StageRefuses
  <1>6. ASSUME NEW v \in Volumes, StageGoesOn(v) PROVE TypeOK'
    BY <1>6, <1>q, <1>pc DEF StageGoesOn, StagePcs
  <1>7. ASSUME NEW v \in Volumes, StageDetach(v) PROVE TypeOK'
    BY <1>7, <1>k, <1>q, <1>pc DEF StageDetach, StagePcs
  <1>8. ASSUME NEW v \in Volumes, StageAttach(v) PROVE TypeOK'
    <2>1. KernelType'
      BY <1>8 DEF StageAttach, KernelType
    <2>2. RequestType'
      <3>1. CASE Done(v, FALSE)
        BY <3>1, <1>q
      <3>2. CASE ~Done(v, FALSE)
        <4>1. PICK d \in LoopDevs :
                /\ pc' = [pc EXCEPT ![v] = IF v \in Encrypted THEN "crypt" ELSE "mount"]
                /\ dev' = [dev EXCEPT ![v] = d]
                /\ UNCHANGED <<by, pub, cancelled, kstaged>>
          BY <3>2, <1>8 DEF StageAttach
        <4>2. {"crypt", "mount"} \subseteq Pcs
          BY DEF Pcs, StagePcs
        <4> QED
          BY <4>1, <4>2 DEF RequestType
      <3> QED
        BY <3>1, <3>2
    <2> QED
      BY <1>8, <2>1, <2>2 DEF StageAttach
  <1>9. ASSUME NEW v \in Volumes, StageCrypt(v) PROVE TypeOK'
    <2>1. KernelType'
      BY <1>9 DEF StageCrypt, KernelType, RequestType
    <2> QED
      BY <1>9, <1>q, <1>pc, <2>1 DEF StageCrypt, StagePcs
  <1>10. ASSUME NEW v \in Volumes, StageMount(v) PROVE TypeOK'
    <2>1. KernelType'
      BY <1>10 DEF StageMount, KernelType, RequestType
    <2> QED
      BY <1>10, <1>q, <1>pc, <2>1 DEF StageMount, StagePcs
  <1>11. ASSUME NEW v \in Volumes, StagePut(v) PROVE TypeOK'
    <2>1. dev[v] \in EntryType
      BY DEF RequestType, EntryType
    <2>2. mem' = [mem EXCEPT ![v] = dev[v]] /\ disk' \in {disk, mem'}
      BY <1>11 DEF StagePut, NewEntry, Flush, FlushFails
    <2>3. StateType'
      BY <2>1, <2>2 DEF StateType
    <2>4. RestType'
      BY <1>11 DEF StagePut, RestType, CacheKey
    <2> QED
      BY <1>11, <1>q, <1>pc, <2>3, <2>4 DEF StagePut, StagePcs
  <1>12. ASSUME NEW v \in Volumes, StageUndo(v) PROVE TypeOK'
    BY <1>12, <1>k, <1>q, <1>pc DEF StageUndo, Skipped, StagePcs
  <1>13. ASSUME NEW v \in Volumes, StageCleanClose(v) PROVE TypeOK'
    BY <1>13, <1>k, <1>q, <1>pc DEF StageCleanClose, Skipped, StagePcs
  <1>14. ASSUME NEW v \in Volumes, StageCleanDetach(v) PROVE TypeOK'
    BY <1>14, <1>k, <1>q DEF StageCleanDetach, Skipped
  <1>15. ASSUME NEW v \in Volumes, UnstageBegin(v) PROVE TypeOK'
    <2>1. RequestType'
      BY <1>15, <1>q, <1>pc DEF UnstageBegin, RequestType, UnstagePcs
    <2> QED
      BY <1>15, <2>1 DEF UnstageBegin, Lock
  <1>16. ASSUME NEW v \in Volumes, NEW from, NEW to \in Pcs, PopStage(v, from, to) PROVE TypeOK'
    BY <1>16, <1>k, <1>q DEF PopStage
  <1>17. ASSUME NEW v \in Volumes, NEW to \in Pcs, CloseOrFail(v, to)
         PROVE  KernelType' /\ RequestType' /\ FaultsType'
    BY <1>17, <1>k, <1>q DEF CloseOrFail
  <1>18. ASSUME NEW v \in Volumes, UnstageClose(v) PROVE TypeOK'
    <2>1. KernelType' /\ RequestType' /\ FaultsType'
      <3>1. CASE mem[v] = None
        BY <3>1, <1>18, <1>k, <1>q, <1>pc, ConstantsAssumption DEF UnstageClose, Skipped, UnstagePcs
      <3>2. CASE mem[v] # None
        BY <3>2, <1>18, <1>17, <1>q, <1>pc DEF UnstageClose, UnstagePcs
      <3> QED
        BY <3>1, <3>2
    <2> QED
      BY <1>18, <2>1 DEF UnstageClose
  <1>19. ASSUME NEW v \in Volumes, UnstageDetach(v) PROVE TypeOK'
    BY <1>19, <1>k, <1>q, <1>pc DEF UnstageDetach, UnstagePcs
  <1>20. ASSUME NEW v \in Volumes, UnstageForget(v) PROVE TypeOK'
    <2>1. StateType' /\ RestType'
      BY <1>20 DEF UnstageForget, StateType, RestType, Flush, FlushFails, EntryType
    <2> QED
      BY <1>20, <1>q, <2>1 DEF UnstageForget
  <1>21. ASSUME NEW p \in Pods, PublishBegin(p) PROVE TypeOK'
    <2>1. RequestType'
      BY <1>21 DEF PublishBegin, RequestType, op
    <2> QED
      BY <1>21, <2>1 DEF PublishBegin
  <1>22. ASSUME NEW p \in Pods, PublishLock(p) PROVE TypeOK'
    <2>1. RequestType'
      BY <1>22, <1>pc, ConstantsAssumption DEF PublishLock, RequestType, RestagePcs, Requests
    <2> QED
      BY <1>22, <2>1 DEF PublishLock
  <1>23. ASSUME NEW v \in Volumes, RestageClose(v) PROVE TypeOK'
    <2>1. KernelType' /\ RequestType' /\ FaultsType'
      BY <1>23, <1>17, <1>q, <1>pc DEF RestageClose, RestagePcs, StagePcs
    <2> QED
      BY <1>23, <2>1 DEF RestageClose
  <1>24. ASSUME NEW v \in Volumes, RestageDetach(v) PROVE TypeOK'
    BY <1>24, <1>k, <1>q, <1>pc DEF RestageDetach, RestagePcs
  <1>25. ASSUME NEW v \in Volumes, RestagePut(v) PROVE TypeOK'
    <2>1. StateType'
      BY <1>25 DEF RestagePut, StateType, Flush, FlushFails, EntryType
    <2> QED
      BY <1>25, <1>q, <1>pc, <2>1 DEF RestagePut, StagePcs
  <1>26. ASSUME NEW p \in Pods, PublishBind(p) PROVE TypeOK'
    <2>1. KernelType'
      BY <1>26, ConstantsAssumption DEF PublishBind, KernelType, StagedTree
    <2>2. RequestType'
      BY <1>26 DEF PublishBind, RequestType, op
    <2> QED
      BY <1>26, <2>1, <2>2 DEF PublishBind
  <1>27. ASSUME NEW p \in Pods, Unpublish(p) PROVE TypeOK'
    <2>1. KernelType'
      BY <1>27 DEF Unpublish, KernelType, LastClose
    <2> QED
      BY <1>27, <2>1 DEF Unpublish
  <1>28. ASSUME NEW r \in Requests, Timeout(r) PROVE TypeOK'
    <2>1. RequestType'
      BY <1>28 DEF Timeout, RequestType, op
    <2> QED
      BY <1>28, <2>1 DEF Timeout
  <1>29. ASSUME NEW d \in LoopDevs, ForceReadOnly(d) PROVE TypeOK'
    <2>1. KernelType'
      BY <1>29 DEF ForceReadOnly, KernelType
    <2> QED
      BY <1>29, <2>1 DEF ForceReadOnly
  <1>30. ASSUME TickRead \/ TickList \/ \E v \in Volumes : TickVolume(v) PROVE TypeOK'
    <2>1. TickType' /\ RestType'
      BY <1>30 DEF TickRead, TickList, TickVolume, TickType, RestType, Seen,
         ForcedReadOnly, Marks, Absent
    <2> QED
      BY <1>30, <2>1 DEF TickRead, TickList, TickVolume
  <1>31. ASSUME Crash \/ Reboot PROVE TypeOK'
    <2>1. RequestType' /\ StateType' /\ RestType' /\ TickType'
      BY <1>31 DEF Crash, Reboot, ProcessDies, RequestType, StateType, RestType, TickType,
         Absent, EntryType, Pcs
    <2>2. KernelType'
      BY <1>31 DEF Crash, Reboot, KernelType, kernel
    <2> QED
      BY <1>31, <2>1, <2>2 DEF Crash, Reboot
  <1>32. ASSUME ReconcileDrop \/ ReconcileFails PROVE TypeOK'
    <2>1. StateType' /\ RestType'
      BY <1>32 DEF ReconcileDrop, ReconcileFails, StateType, RestType, Flush, FlushFails, EntryType
    <2> QED
      BY <1>32, <2>1 DEF ReconcileDrop, ReconcileFails
  <1>33. ASSUME ReconcileClose \/ ReconcileDetach PROVE TypeOK'
    <2>1. KernelType' /\ RestType'
      BY <1>33 DEF ReconcileClose, ReconcileDetach, KernelType, RestType, LastClose, Detach
    <2> QED
      BY <1>33, <2>1 DEF ReconcileClose, ReconcileDetach, Skips
  <1>34. ASSUME UNCHANGED vars PROVE TypeOK'
    BY <1>34 DEF vars
  <1>35. {"u_close", "r_close"} \subseteq Pcs
    BY DEF Pcs, UnstagePcs, RestagePcs
  <1>36. ASSUME NEW v \in Volumes, Stage(v) PROVE TypeOK'
    BY <1>36, <1>2, <1>3, <1>4, <1>5, <1>6, <1>7, <1>8, <1>9, <1>10, <1>11, <1>12, <1>13, <1>14
       DEF Stage
  <1>37. ASSUME NEW v \in Volumes, Unstage(v) \/ Restage(v) PROVE TypeOK'
    BY <1>37, <1>16, <1>18, <1>19, <1>20, <1>23, <1>24, <1>25, <1>35 DEF Unstage, Restage
  <1> QED
    BY <1>1, <1>15, <1>21, <1>22, <1>26, <1>27, <1>28, <1>29, <1>30, <1>31, <1>32, <1>33, <1>34,
       <1>36, <1>37 DEF Next

\* The variables of the plugin, the kernel and the kubelet keep their types
\* in every behaviour, whatever faults happen.
THEOREM TypeCorrect == Spec => []TypeOK
  <1>1. Init => TypeOK
    BY ConstantsAssumption DEF Init, TypeOK, Absent, Pcs, EntryType, Requests
  <1> QED
    BY <1>1, TypeStep, PTL DEF Spec

-----------------------------------------------------------------------------
(***************************************************************************)
(* The safety of staging.  Where ext4 never goes read-only there is no     *)
(* re-stage, and then neither crashes and reboots, timeouts, failing       *)
(* commands and flushes, nor concurrent publishes attach an image twice or *)
(* mount one volume's image for another.  OneLoopPerImage and              *)
(* OwnFilesystem are not inductive: the invariant adds what a request      *)
(* knows of its loop device between finding, attaching and mounting it.    *)
(***************************************************************************)

\* Nothing was ever found read-only, so no re-stage runs.
NoRestage ==
    /\ ro = {} /\ failed = {}
    /\ \A v \in Volumes : snap[v] # "ro" /\ pc[v] \notin RestagePcs
    /\ \A p \in Pods : pub[p] \notin {"lock", "restage"}

\* Mappings and mounts sit on loop devices attached to their own image.
Wired ==
    /\ \A v \in Volumes : dm[v] # None => loops[dm[v]] = v
    /\ \A v \in Volumes : stage[v] # None => loops[stage[v]] = v
    /\ \A p \in Pods : bind[p] \in LoopDevs => loops[bind[p]] = VolumeOf[p]

\* A loop device marked autoclear is open: an idle one is freed at once.
MarkedIsHeld == \A d \in autoclear : Held(d)

\* The steps at which a stage owns the loop device it attached.
Owning == {"crypt", "mount", "put", "undo", "c_close", "c_detach"}

\* What a stage knows of the loop devices on its image, step by step.
Knows(v) ==
    /\ pc[v] \in Owning =>
         dev[v] \in LoopDevs /\ loops[dev[v]] = v /\ dev[v] \notin autoclear
    /\ pc[v] = "detach" => \A d \in LoopDevs : loops[d] = v => ~Held(d)
    /\ pc[v] = "attach" => \A d \in LoopDevs : loops[d] # v

\* Requests run only while the plugin serves.
ServesWhenUp == boot # "up" => \A v \in Volumes : pc[v] = "idle"

KernelInv == Wired /\ OneLoopPerImage /\ MarkedIsHeld

StagingInv ==
    /\ TypeOK /\ NoRestage /\ KernelInv /\ ServesWhenUp
    /\ \A v \in Volumes : Knows(v)

\* A step leaves w's loop devices as a stage of w may rely on them.
Undisturbed(w) ==
    \A d \in LoopDevs :
        /\ loops'[d] = w => loops[d] = w
        /\ loops[d] = w /\ d \notin autoclear => loops'[d] = w /\ d \notin autoclear'
        /\ loops[d] = w /\ ~Held(d) => ~Held(d)'

\* The kernel part of the invariant survives, and no volume is disturbed.
Harmless == KernelInv' /\ \A w \in Volumes : Undisturbed(w)

\* The same, but for v's own loop devices.
OwnEffect(v) == KernelInv' /\ \A w \in Volumes \ {v} : Undisturbed(w)

\* A last close frees only autoclear loops nothing refers to any more.
LEMMA ReleaseHarmless ==
    ASSUME KernelType, KernelType', KernelInv, LastClose,
           \A v \in Volumes : stage'[v] \in {stage[v], None} /\ dm'[v] \in {dm[v], None},
           \A p \in Pods : bind'[p] \in {bind[p], None}
    PROVE  Harmless
  <1>1. \A d \in LoopDevs : Held(d)' => Held(d)
    BY ConstantsAssumption DEF Held, Mounted
  <1>2. \A d \in LoopDevs : loops'[d] # loops[d] => d \in autoclear /\ ~Held(d)' /\ loops'[d] = None
    BY DEF LastClose
  <1>3. Wired'
    <2>1. \A v \in Volumes : dm'[v] # None => loops'[dm'[v]] = v
      BY <1>2 DEF KernelType, KernelInv, Wired, Held
    <2>2. \A v \in Volumes : stage'[v] # None => loops'[stage'[v]] = v
      BY <1>2 DEF KernelType, KernelInv, Wired, Held, Mounted
    <2>3. \A p \in Pods : bind'[p] \in LoopDevs => loops'[bind'[p]] = VolumeOf[p]
      BY <1>2, ConstantsAssumption DEF KernelType, KernelInv, Wired, Held, Mounted
    <2> QED
      BY <2>1, <2>2, <2>3 DEF Wired
  <1>4. OneLoopPerImage'
    BY <1>2 DEF KernelInv, OneLoopPerImage
  <1>5. MarkedIsHeld'
    BY DEF LastClose, MarkedIsHeld
  <1>6. \A w \in Volumes : Undisturbed(w)
    BY <1>1, <1>2, ConstantsAssumption DEF Undisturbed, LastClose
  <1> QED
    BY <1>3, <1>4, <1>5, <1>6 DEF Harmless, KernelInv

\* umount and cryptsetup close are harmless.
LEMMA CommandsHarmless ==
    ASSUME KernelType, KernelInv, NEW v \in Volumes
    PROVE  /\ Umount(v) => Harmless
           /\ Close(v) => Harmless
           /\ UNCHANGED kernel => Harmless
  <1>1. ASSUME Umount(v) PROVE Harmless
    <2>1. KernelType'
      BY <1>1, CommandTypes
    <2> QED
      BY <1>1, <2>1, ReleaseHarmless DEF Umount, KernelType
  <1>2. ASSUME Close(v) PROVE Harmless
    <2>1. KernelType'
      BY <1>2, CommandTypes
    <2> QED
      BY <1>2, <2>1, ReleaseHarmless DEF Close, KernelType
  <1>3. ASSUME UNCHANGED kernel PROVE Harmless
    BY <1>3 DEF kernel, Harmless, KernelInv, Wired, OneLoopPerImage, MarkedIsHeld, Undisturbed,
       Held, Mounted
  <1> QED
    BY <1>1, <1>2, <1>3

\* losetup --detach keeps the kernel part, whatever devices it is given.
LEMMA DetachKernel ==
    ASSUME KernelType, KernelInv, NEW D, Detach(D)
    PROVE  KernelInv'
  <1>1. \A d \in LoopDevs : Held(d)' <=> Held(d)
    BY DEF Detach, Held, Mounted
  <1>2. \A d \in LoopDevs : loops'[d] # loops[d] => d \in D /\ ~Held(d) /\ loops'[d] = None
    BY DEF Detach
  <1>3. Wired'
    BY <1>2, ConstantsAssumption DEF KernelInv, Wired, Detach, Held, Mounted, KernelType
  <1>4. OneLoopPerImage'
    BY <1>2 DEF KernelInv, OneLoopPerImage
  <1>5. MarkedIsHeld'
    BY <1>1 DEF KernelInv, MarkedIsHeld, Detach, KernelType
  <1> QED
    BY <1>3, <1>4, <1>5 DEF KernelInv

\* losetup --detach of loop devices on v's image concerns v alone.
LEMMA DetachOwn ==
    ASSUME KernelType, KernelInv, NEW v \in Volumes, NEW D,
           \A d \in LoopDevs : d \in D => loops[d] = v, Detach(D)
    PROVE  OwnEffect(v)
  <1>1. \A d \in LoopDevs : Held(d)' <=> Held(d)
    BY DEF Detach, Held, Mounted
  <1>2. \A d \in LoopDevs : loops'[d] # loops[d] => d \in D /\ ~Held(d) /\ loops'[d] = None
    BY DEF Detach
  <1>3. \A w \in Volumes \ {v} : Undisturbed(w)
    BY <1>1, <1>2, ConstantsAssumption DEF Undisturbed, Detach
  <1> QED
    BY <1>3, DetachKernel DEF OwnEffect

\* Opening a loop device on v's image, by a mapping or a mount of v,
\* concerns v alone.
LEMMA OpenOwn ==
    ASSUME KernelType, KernelInv, NEW v \in Volumes, NEW d \in LoopDevs, loops[d] = v,
           UNCHANGED <<loops, autoclear, bind>>,
           UNCHANGED dm \/ dm' = [dm EXCEPT ![v] = d],
           UNCHANGED stage \/ stage' = [stage EXCEPT ![v] = d]
    PROVE  OwnEffect(v)
  <1>1. /\ \A w \in Volumes \ {v} : dm'[w] = dm[w] /\ stage'[w] = stage[w]
        /\ dm'[v] \in {dm[v], d} /\ stage'[v] \in {stage[v], d}
    BY DEF KernelType
  <1>2. Wired'
    BY <1>1 DEF Wired, KernelInv
  <1>3. OneLoopPerImage'
    BY DEF KernelInv, OneLoopPerImage
  <1>4. \A e \in LoopDevs : loops[e] # v => (Held(e)' <=> Held(e))
    BY <1>1, ConstantsAssumption DEF Held, Mounted, KernelInv, Wired
  <1>5. \A e \in LoopDevs : loops[e] = v => e = d
    BY ConstantsAssumption DEF KernelInv, OneLoopPerImage
  <1>6. Held(d) => Held(d)'
    <2>1. ASSUME dm[v] = d PROVE dm'[v] = d
      BY <1>1, <2>1
    <2>2. ASSUME stage[v] = d PROVE stage'[v] = d
      BY <1>1, <2>2
    <2> QED
      BY <1>1, <2>1, <2>2 DEF Held, Mounted
  <1>7. MarkedIsHeld'
    BY <1>4, <1>5, <1>6 DEF KernelInv, MarkedIsHeld, KernelType
  <1>8. \A w \in Volumes \ {v} : Undisturbed(w)
    BY <1>4 DEF Undisturbed
  <1> QED
    BY <1>2, <1>3, <1>7, <1>8 DEF OwnEffect, KernelInv

\* A volume that is not disturbed, and whose request does not move, knows
\* what it knew.
LEMMA KnowsStill ==
    ASSUME NEW w \in Volumes, Knows(w), Undisturbed(w), pc'[w] = pc[w], dev'[w] = dev[w]
    PROVE  Knows(w)'
  BY DEF Knows, Undisturbed, Owning

\* A step of v's request keeps the invariant if it concerns v alone and v
\* still knows its loop devices.
LEMMA RequestStep ==
    ASSUME StagingInv, TypeOK', NEW v \in Volumes, boot = "up", UNCHANGED <<boot, tick>>,
           (\E l \in Pcs \ RestagePcs : Goto(v, l)) \/ (\E ok \in BOOLEAN : Done(v, ok)),
           ro' \subseteq ro, failed' \subseteq failed,
           OwnEffect(v), Knows(v)'
    PROVE  StagingInv'
  <1>1. /\ \A w \in Volumes \ {v} : pc'[w] = pc[w] /\ dev'[w] = dev[w]
        /\ pc'[v] \notin RestagePcs
        /\ \A p \in Pods : pub'[p] \in {pub[p], "bind", "idle"}
    BY DEF Goto, Done, StagingInv, TypeOK, RestagePcs
  <1>2. \A w \in Volumes : Knows(w)'
    BY <1>1, KnowsStill DEF StagingInv, OwnEffect
  <1>3. NoRestage'
    BY <1>1 DEF NoRestage, StagingInv, tick
  <1>4. ServesWhenUp'
    BY DEF ServesWhenUp
  <1> QED
    BY <1>2, <1>3, <1>4 DEF StagingInv, OwnEffect

\* An answered request knows nothing and needs nothing.
LEMMA DoneKnows ==
    ASSUME TypeOK, NEW v \in Volumes, NEW ok, Done(v, ok)
    PROVE  Knows(v)'
  BY DEF Done, TypeOK, Knows, Owning

\* A stage that owns its loop device keeps it while no one disturbs it.
LEMMA OwningKnows ==
    ASSUME StagingInv, NEW v \in Volumes, pc[v] \in Owning,
           NEW l \in Owning, Goto(v, l), Undisturbed(v)
    PROVE  Knows(v)'
  BY DEF StagingInv, TypeOK, Knows, Owning, Goto, Undisturbed

\* Before a stage has looked at its loop devices, and in an unstage, a
\* request relies on nothing.
LEMMA OtherKnows ==
    ASSUME TypeOK, NEW v \in Volumes, NEW l, l \notin Owning \cup {"detach", "attach"}, Goto(v, l)
    PROVE  Knows(v)'
  BY DEF TypeOK, Knows, Goto

\* The steps of a stage keep the invariant.
LEMMA StageKeeps ==
    ASSUME StagingInv, TypeOK', NEW v \in Volumes, Stage(v)
    PROVE  StagingInv'
  <1> USE TypeParts, DoneKnows
  <1>t. TypeOK /\ KernelType /\ KernelInv /\ Knows(v) /\ NoRestage
    BY DEF StagingInv
  <1>i. Harmless => OwnEffect(v) /\ Undisturbed(v)
    BY DEF Harmless, OwnEffect
  <1>h. /\ Umount(v) => OwnEffect(v) /\ Undisturbed(v) /\ ro' \subseteq ro
        /\ Close(v) => OwnEffect(v) /\ Undisturbed(v) /\ ro' \subseteq ro
        /\ UNCHANGED kernel => OwnEffect(v) /\ Undisturbed(v) /\ ro' \subseteq ro
    BY <1>t, <1>i, CommandsHarmless DEF Umount, Close, LastClose, kernel
  <1>l. /\ StagePcs \subseteq Pcs \ RestagePcs
        /\ Owning \subseteq StagePcs
        /\ {"check", "detach", "attach"} \subseteq StagePcs
    BY DEF StagePcs, Pcs, RestagePcs, Owning
  <1>o. {"crypt", "mount", "put", "undo", "c_close", "c_detach"} \subseteq Owning
    BY DEF Owning
  <1>1. CASE StageFails(v) \/ StageAlready(v) \/ StageRefuses(v)
    <2>1. /\ boot = "up" /\ UNCHANGED <<kernel, boot, failed, tick>>
          /\ \E ok \in BOOLEAN : Done(v, ok)
      BY <1>1 DEF StageFails, StageAlready, StageRefuses, At
    <2> QED
      BY <2>1, <1>t, <1>h, RequestStep
  <1>2. CASE StageAdopt(v)
    <2>1. /\ boot = "up" /\ UNCHANGED <<kernel, boot, tick>> /\ failed' \subseteq failed
          /\ \E ok \in BOOLEAN : Done(v, ok)
      BY <1>2 DEF StageAdopt, At
    <2> QED
      BY <2>1, <1>t, <1>h, RequestStep
  <1>3. CASE StageGoesOn(v)
    <2>1. /\ boot = "up" /\ UNCHANGED <<kernel, boot, failed, tick>>
          /\ Goto(v, "detach") /\ ~InUse(v)
      BY <1>3 DEF StageGoesOn, At
    <2>2. Knows(v)'
      BY <2>1, <1>t DEF InUse, LoopsOf, Knows, Goto, TypeOK, kernel, Held, Mounted, Owning
    <2> QED
      BY <2>1, <2>2, <1>t, <1>h, <1>l, RequestStep
  <1>4. CASE StageDetach(v)
    <2>1. boot = "up" /\ UNCHANGED <<boot, failed, tick>> /\ pc[v] = "detach"
      BY <1>4 DEF StageDetach, At
    <2>2. CASE UNCHANGED kernel /\ Done(v, FALSE)
      BY <2>1, <2>2, <1>t, <1>h, RequestStep
    <2>3. CASE Detach(LoopsOf(v))
      <3>0. \A d \in LoopDevs : d \in LoopsOf(v) => loops[d] = v
        BY DEF LoopsOf
      <3>1. OwnEffect(v) /\ ro' = ro
        BY <2>3, <3>0, <1>t, DetachOwn DEF Detach
      <3>2. Knows(v)'
        <4>1. CASE Goto(v, "attach")
          BY <4>1, <2>1, <2>3, <1>t, ConstantsAssumption DEF Knows, Detach, LoopsOf, Goto, Owning,
             TypeOK
        <4> QED
          BY <4>1, <1>4, <1>t DEF StageDetach
      <3> QED
        BY <2>1, <3>1, <3>2, <1>4, <1>t, <1>l, RequestStep DEF StageDetach
    <2> QED
      BY <1>4, <2>2, <2>3 DEF StageDetach
  <1>5. CASE StageAttach(v)
    <2>1. /\ boot = "up" /\ pc[v] = "attach"
          /\ UNCHANGED <<autoclear, dm, stage, bind, ro, boot, failed, tick>>
      BY <1>5 DEF StageAttach, At
    <2>2. CASE UNCHANGED loops
      <3>1. UNCHANGED kernel /\ Done(v, FALSE)
        <4>1. \A d \in LoopDevs : loops[d] = None => loops # [loops EXCEPT ![d] = v]
          BY ConstantsAssumption DEF KernelType, StagingInv
        <4> QED
          BY <4>1, <2>1, <2>2, <1>5 DEF StageAttach, kernel
      <3> QED
        BY <2>1, <3>1, <1>t, <1>h, RequestStep
    <2>3. CASE ~UNCHANGED loops
      <3>1. PICK d \in LoopDevs :
              /\ loops[d] = None
              /\ loops' = [loops EXCEPT ![d] = v]
              /\ \/ /\ pc' = [pc EXCEPT ![v] = IF v \in Encrypted THEN "crypt" ELSE "mount"]
                    /\ dev' = [dev EXCEPT ![v] = d]
                    /\ UNCHANGED <<by, pub, cancelled, kstaged>>
                 \/ Done(v, FALSE)
        BY <2>3, <1>5 DEF StageAttach
      <3>2. \A w \in Volumes : loops[d] # w
        BY <3>1, ConstantsAssumption
      <3>3. \A e \in LoopDevs : loops[e] # v
        BY <2>1, <1>t DEF Knows
      <3>4. ~Held(d) /\ \A e \in LoopDevs : Held(e)' <=> Held(e)
        <4>1. ~Held(d)
          BY <3>2, <1>t, ConstantsAssumption DEF Held, Mounted, KernelInv, Wired
        <4>2. \A e \in LoopDevs : Held(e)' <=> Held(e)
          BY <2>1 DEF Held, Mounted
        <4> QED
          BY <4>1, <4>2
      <3>5. OwnEffect(v)
        <4>1. Wired'
          BY <2>1, <3>1, <3>2, <1>t, ConstantsAssumption DEF KernelInv, Wired, KernelType
        <4>2. OneLoopPerImage'
          BY <3>1, <3>3, <1>t DEF KernelInv, OneLoopPerImage, KernelType
        <4>3. MarkedIsHeld'
          BY <2>1, <3>4, <1>t DEF KernelInv, MarkedIsHeld, KernelType
        <4>4. \A w \in Volumes \ {v} : Undisturbed(w)
          BY <2>1, <3>1, <3>2, <3>4, <1>t DEF Undisturbed, KernelType
        <4> QED
          BY <4>1, <4>2, <4>3, <4>4 DEF OwnEffect, KernelInv
      <3>6. CASE Done(v, FALSE)
        BY <3>5, <3>6, <2>1, <1>t, RequestStep
      <3>7. CASE ~Done(v, FALSE)
        <4>1. /\ pc' = [pc EXCEPT ![v] = IF v \in Encrypted THEN "crypt" ELSE "mount"]
              /\ dev' = [dev EXCEPT ![v] = d]
              /\ UNCHANGED <<by, pub, cancelled, kstaged>>
          BY <3>1, <3>7
        <4>2. Knows(v)'
          BY <4>1, <2>1, <3>1, <3>4, <1>t DEF Knows, TypeOK, KernelInv, MarkedIsHeld, Owning
        <4>3. \A w \in Volumes : Knows(w)'
          BY <4>1, <4>2, <3>5, KnowsStill DEF StagingInv, OwnEffect, TypeOK
        <4>4. NoRestage'
          BY <4>1, <2>1, <1>t DEF NoRestage, tick, RestagePcs, TypeOK
        <4> QED
          BY <4>3, <4>4, <3>5, <2>1 DEF StagingInv, OwnEffect, ServesWhenUp
      <3> QED
        BY <3>6, <3>7
    <2> QED
      BY <2>2, <2>3
  <1>6. CASE StageCrypt(v)
    <2>1. /\ boot = "up" /\ pc[v] = "crypt"
          /\ UNCHANGED <<loops, autoclear, stage, bind, ro, boot, failed, tick>>
          /\ \E l \in {"mount", "c_close"} : Goto(v, l)
          /\ UNCHANGED dm \/ dm' = [dm EXCEPT ![v] = dev[v]]
      BY <1>6 DEF StageCrypt, At
    <2>2. dev[v] \in LoopDevs /\ loops[dev[v]] = v /\ dev[v] \notin autoclear
      BY <2>1, <1>t, <1>o DEF Knows
    <2>3. OwnEffect(v)
      BY <2>1, <2>2, <1>t, OpenOwn
    <2>4. Knows(v)'
      BY <2>1, <2>2, <1>t DEF Knows, Goto, TypeOK
    <2> QED
      BY <2>1, <2>3, <2>4, <1>l, <1>o, RequestStep
  <1>7. CASE StageMount(v)
    <2>1. /\ boot = "up" /\ pc[v] = "mount"
          /\ UNCHANGED <<loops, autoclear, dm, bind, ro, boot, failed, tick>>
          /\ \E l \in {"put", "c_close"} : Goto(v, l)
          /\ UNCHANGED stage \/ stage' = [stage EXCEPT ![v] = dev[v]]
      BY <1>7 DEF StageMount, At
    <2>2. dev[v] \in LoopDevs /\ loops[dev[v]] = v /\ dev[v] \notin autoclear
      BY <2>1, <1>t, <1>o DEF Knows
    <2>3. OwnEffect(v)
      BY <2>1, <2>2, <1>t, OpenOwn
    <2>4. Knows(v)'
      BY <2>1, <2>2, <1>t DEF Knows, Goto, TypeOK
    <2> QED
      BY <2>1, <2>3, <2>4, <1>l, <1>o, RequestStep
  <1>8. CASE StagePut(v)
    <2>1. /\ boot = "up" /\ UNCHANGED <<kernel, boot, tick>> /\ failed' \subseteq failed
          /\ pc[v] = "put"
          /\ Done(v, TRUE) \/ Goto(v, "undo")
      BY <1>8 DEF StagePut, At
    <2>2. Knows(v)'
      BY <2>1, <1>t, <1>h, <1>o, OwningKnows
    <2> QED
      BY <2>1, <2>2, <1>h, <1>l, <1>o, RequestStep
  <1>9. CASE StageUndo(v) \/ StageCleanClose(v)
    <2>1. /\ boot = "up" /\ UNCHANGED <<boot, failed, tick>> /\ pc[v] \in {"undo", "c_close"}
          /\ Umount(v) \/ Close(v) \/ UNCHANGED kernel
          /\ \E l \in {"c_close", "c_detach"} : Goto(v, l)
      BY <1>9 DEF StageUndo, StageCleanClose, Skipped, At
    <2>2. Knows(v)'
      BY <2>1, <1>h, <1>o, OwningKnows
    <2> QED
      BY <2>1, <2>2, <1>h, <1>l, <1>o, RequestStep
  <1>10. CASE StageCleanDetach(v)
    <2>1. /\ boot = "up" /\ UNCHANGED <<boot, failed, tick>> /\ pc[v] = "c_detach"
          /\ Detach({dev[v]}) \/ UNCHANGED kernel
          /\ Done(v, FALSE)
      BY <1>10 DEF StageCleanDetach, Skipped, At
    <2>2. \A d \in LoopDevs : d \in {dev[v]} => loops[d] = v
      BY <2>1, <1>t, <1>o DEF Knows
    <2>3. ASSUME Detach({dev[v]}) PROVE OwnEffect(v) /\ ro' = ro
      BY <2>2, <2>3, <1>t, DetachOwn DEF Detach
    <2> QED
      BY <2>1, <2>3, <1>t, <1>h, RequestStep
  <1> QED
    BY <1>1, <1>2, <1>3, <1>4, <1>5, <1>6, <1>7, <1>8, <1>9, <1>10 DEF Stage

\* The steps of an unstage keep the invariant.
LEMMA UnstageKeeps ==
    ASSUME StagingInv, TypeOK', NEW v \in Volumes, Unstage(v)
    PROVE  StagingInv'
  <1> USE TypeParts, DoneKnows
  <1>t. TypeOK /\ KernelType /\ KernelInv
    BY DEF StagingInv
  <1>i. Harmless => OwnEffect(v)
    BY DEF Harmless, OwnEffect
  <1>h. Umount(v) \/ Close(v) \/ UNCHANGED kernel => OwnEffect(v) /\ ro' \subseteq ro
    BY <1>t, <1>i, CommandsHarmless DEF Umount, Close, LastClose, kernel
  <1>d. Detach(UnstageLoops(v)) => OwnEffect(v) /\ ro' \subseteq ro
    <2>1. \A d \in LoopDevs : d \in UnstageLoops(v) => loops[d] = v
      BY DEF UnstageLoops, LoopsOf
    <2> QED
      BY <2>1, <1>t, DetachOwn DEF Detach
  <1>1. /\ boot = "up" /\ UNCHANGED <<boot, tick>> /\ failed' \subseteq failed
        /\ Umount(v) \/ Close(v) \/ UNCHANGED kernel \/ Detach(UnstageLoops(v))
        /\ \/ \E l \in {"u_close", "u_detach", "u_forget"} : Goto(v, l)
           \/ \E ok \in BOOLEAN : Done(v, ok)
    <2>1. CASE PopStage(v, "u_pop", "u_close")
      BY <2>1 DEF PopStage, At
    <2>2. CASE UnstageClose(v)
      BY <2>2 DEF UnstageClose, CloseOrFail, Skipped, At
    <2>3. CASE UnstageDetach(v) \/ UnstageForget(v)
      BY <2>3 DEF UnstageDetach, UnstageForget, At
    <2> QED
      BY <2>1, <2>2, <2>3 DEF Unstage
  <1>2. /\ {"u_close", "u_detach", "u_forget"} \subseteq Pcs \ RestagePcs
        /\ \A l \in {"u_close", "u_detach", "u_forget"} : l \notin Owning \cup {"detach", "attach"}
    BY DEF Pcs, UnstagePcs, RestagePcs, Owning
  <1>3. Knows(v)'
    BY <1>1, <1>2, <1>t, OtherKnows
  <1> QED
    BY <1>1, <1>2, <1>3, <1>h, <1>d, RequestStep

\* The kubelet's calls, the publishes and the monitor keep the invariant.
LEMMA CallKeeps ==
    ASSUME StagingInv, TypeOK',
           \/ \E v \in Volumes : StageBegin(v) \/ UnstageBegin(v) \/ TickVolume(v)
           \/ \E p \in Pods : PublishBegin(p) \/ PublishLock(p) \/ PublishBind(p) \/ Unpublish(p)
           \/ \E r \in Requests : Timeout(r)
           \/ TickRead \/ TickList
    PROVE  StagingInv'
  <1> USE TypeParts, TypePartsPrime
  <1>t. TypeOK /\ KernelType /\ KernelInv /\ NoRestage /\ ServesWhenUp
    BY DEF StagingInv
  <1>h. UNCHANGED kernel => Harmless
    BY <1>t DEF kernel, Harmless, KernelInv, Wired, OneLoopPerImage, MarkedIsHeld, Undisturbed,
       Held, Mounted
  <1>s. ASSUME Harmless, UNCHANGED op PROVE KernelInv' /\ \A w \in Volumes : Knows(w)'
    BY <1>s, KnowsStill DEF Harmless, StagingInv, op
  <1>1. ASSUME NEW v \in Volumes, StageBegin(v) \/ UnstageBegin(v) PROVE StagingInv'
    <2>1. /\ UNCHANGED <<kernel, boot, failed, pub, tick, dev>> /\ boot = "up"
          /\ \E l \in {"check", "u_pop"} : pc' = [pc EXCEPT ![v] = l]
      BY <1>1 DEF StageBegin, UnstageBegin, Lock
    <2>2. \A w \in Volumes : Knows(w)'
      <3>1. Knows(v)'
        BY <2>1, <1>t DEF Knows, Owning, TypeOK
      <3>2. ASSUME NEW w \in Volumes \ {v} PROVE Knows(w)'
        BY <2>1, <1>t, <1>h, KnowsStill DEF Harmless, StagingInv, TypeOK
      <3> QED
        BY <3>1, <3>2
    <2>3. NoRestage'
      BY <2>1, <1>t DEF NoRestage, kernel, tick, TypeOK, RestagePcs
    <2> QED
      BY <2>1, <2>2, <2>3, <1>h DEF StagingInv, Harmless, ServesWhenUp
  <1>2. ASSUME NEW v \in Volumes, TickVolume(v) PROVE StagingInv'
    <2>1. NoRestage'
      BY <1>2, <1>t DEF TickVolume, NoRestage, Marks, kernel, op, Absent
    <2> QED
      BY <1>2, <2>1, <1>t, <1>h, <1>s DEF TickVolume, StagingInv, ServesWhenUp, op
  <1>3. ASSUME TickRead \/ TickList PROVE StagingInv'
    <2>1. NoRestage'
      BY <1>3, <1>t DEF TickRead, TickList, NoRestage, Seen, ForcedReadOnly, kernel,
         op, Absent
    <2> QED
      BY <1>3, <2>1, <1>t, <1>h, <1>s DEF TickRead, TickList, StagingInv, ServesWhenUp, op
  <1>4. ASSUME NEW p \in Pods, PublishBegin(p) PROVE StagingInv'
    <2>1. VolumeOf[p] \notin failed
      BY <1>t DEF NoRestage
    <2>2. NoRestage'
      BY <1>4, <2>1, <1>t DEF PublishBegin, NoRestage, kernel, op, tick, TypeOK
    <2> QED
      BY <1>4, <2>2, <1>t, <1>h, <1>s DEF PublishBegin, StagingInv, ServesWhenUp, op
  <1>5. ASSUME NEW p \in Pods, PublishLock(p) PROVE FALSE
    BY <1>5, <1>t DEF PublishLock, NoRestage
  <1>6. ASSUME NEW p \in Pods, PublishBind(p) PROVE StagingInv'
    <2>1. NoRestage'
      BY <1>6, <1>t DEF PublishBind, NoRestage, op, tick, TypeOK
    <2>2. Harmless
      <3>1. CASE UNCHANGED bind
        BY <3>1, <1>6, <1>h DEF PublishBind, kernel
      <3>2. CASE ~UNCHANGED bind
        <4>1. /\ UNCHANGED <<loops, autoclear, dm, stage, ro>>
              /\ bind[p] = None
              /\ bind' = [bind EXCEPT ![p] = StagedTree(VolumeOf[p])]
          BY <1>6, <3>2 DEF PublishBind
        <4>2. /\ bind'[p] \in LoopDevs =>
                    bind'[p] = stage[VolumeOf[p]] /\ stage[VolumeOf[p]] # None
              /\ \A q \in Pods \ {p} : bind'[q] = bind[q]
          BY <4>1, <1>t, ConstantsAssumption DEF StagedTree, KernelType
        <4>3. \A d \in LoopDevs : Held(d)' <=> Held(d)
          BY <4>1, <4>2, ConstantsAssumption DEF Held, Mounted
        <4>4. Wired'
          BY <4>1, <4>2, <1>t, ConstantsAssumption DEF KernelInv, Wired
        <4>5. OneLoopPerImage' /\ MarkedIsHeld'
          BY <4>1, <4>3, <1>t DEF KernelInv, OneLoopPerImage, MarkedIsHeld, KernelType
        <4>6. \A w \in Volumes : Undisturbed(w)
          BY <4>1, <4>3 DEF Undisturbed
        <4> QED
          BY <4>4, <4>5, <4>6 DEF Harmless, KernelInv
      <3> QED
        BY <3>1, <3>2
    <2> QED
      BY <1>6, <2>1, <2>2, <1>t, <1>s DEF PublishBind, StagingInv, ServesWhenUp, op
  <1>7. ASSUME NEW p \in Pods, Unpublish(p) PROVE StagingInv'
    <2>1. Harmless
      <3>1. /\ LastClose /\ UNCHANGED <<dm, stage>>
            /\ \A q \in Pods : bind'[q] \in {bind[q], None}
        BY <1>7, <1>t DEF Unpublish, KernelType
      <3> QED
        BY <3>1, <1>t, ReleaseHarmless
    <2>2. NoRestage'
      BY <1>7, <1>t DEF Unpublish, LastClose, NoRestage, op, tick
    <2> QED
      BY <1>7, <2>1, <2>2, <1>t, <1>s DEF Unpublish, StagingInv, ServesWhenUp, op
  <1>8. ASSUME NEW r \in Requests, Timeout(r) PROVE StagingInv'
    <2>1. NoRestage'
      BY <1>8, <1>t DEF Timeout, NoRestage, kernel, op, tick
    <2> QED
      BY <1>8, <2>1, <1>t, <1>h, <1>s DEF Timeout, StagingInv, ServesWhenUp, op
  <1> QED
    BY <1>1, <1>2, <1>3, <1>4, <1>5, <1>6, <1>7, <1>8

\* A crash, a reboot and start-up keep the invariant: no request runs.
LEMMA RestartKeeps ==
    ASSUME StagingInv, TypeOK',
           \/ Crash \/ Reboot
           \/ ReconcileDrop \/ ReconcileFails \/ ReconcileClose \/ ReconcileDetach
    PROVE  StagingInv'
  <1> USE TypeParts, TypePartsPrime
  <1>t. TypeOK /\ KernelType /\ KernelInv /\ NoRestage /\ ServesWhenUp
    BY DEF StagingInv
  <1>1. /\ \A v \in Volumes : pc'[v] = "idle"
        /\ failed' = {} /\ ro' = {}
        /\ \A v \in Volumes : snap'[v] # "ro"
        /\ \A p \in Pods : pub'[p] \notin {"lock", "restage"}
    BY <1>t DEF Crash, Reboot, ProcessDies, ReconcileDrop, ReconcileFails, ReconcileClose,
       ReconcileDetach, ServesWhenUp, NoRestage, LastClose, Detach, op, tick, kernel, Absent
  <1>2. NoRestage' /\ ServesWhenUp' /\ \A v \in Volumes : Knows(v)'
    BY <1>1 DEF NoRestage, ServesWhenUp, Knows, Owning, RestagePcs
  <1>3. KernelInv'
    <2>1. CASE Crash \/ ReconcileDrop \/ ReconcileFails
      BY <2>1, <1>t DEF Crash, ReconcileDrop, ReconcileFails, kernel, KernelInv, Wired,
         OneLoopPerImage, MarkedIsHeld, Held, Mounted
    <2>2. CASE Reboot
      BY <2>2, ConstantsAssumption DEF Reboot, KernelInv, Wired, OneLoopPerImage, MarkedIsHeld
    <2>3. CASE ReconcileClose
      <3>1. /\ LastClose /\ UNCHANGED <<stage, bind>>
            /\ \A v \in Volumes : dm'[v] \in {dm[v], None}
        BY <2>3 DEF ReconcileClose
      <3> QED
        BY <3>1, <1>t, ReleaseHarmless DEF Harmless
    <2>4. CASE ReconcileDetach
      <3>1. PICK D : Detach(D)
        BY <2>4 DEF ReconcileDetach
      <3> QED
        BY <3>1, <1>t, DetachKernel
    <2> QED
      BY <2>1, <2>2, <2>3, <2>4
  <1> QED
    BY <1>2, <1>3 DEF StagingInv

\* Every step keeps the invariant when no filesystem goes read-only.
LEMMA StagingStep ==
    ASSUME "ioerror" \notin Hazards, StagingInv, [Next]_vars
    PROVE  StagingInv'
  <1>t. TypeOK'
    BY TypeStep DEF StagingInv
  <1>1. ASSUME NEW v \in Volumes, Restage(v) PROVE FALSE
    BY <1>1 DEF Restage, PopStage, RestageClose, RestageDetach, RestagePut, At, StagingInv,
       NoRestage, RestagePcs
  <1>2. ASSUME NEW d \in LoopDevs, ForceReadOnly(d) PROVE FALSE
    BY <1>2 DEF ForceReadOnly
  <1>3. ASSUME UNCHANGED vars PROVE StagingInv'
    BY <1>3, <1>t DEF vars, kernel, op, tick, StagingInv, NoRestage, KernelInv, Wired,
       OneLoopPerImage, MarkedIsHeld, Held, Mounted, ServesWhenUp, Knows
  <1> QED
    BY <1>t, <1>1, <1>2, <1>3, StageKeeps, UnstageKeeps, CallKeeps, RestartKeeps DEF Next

\* Where ext4 never goes read-only, no image is ever attached to two loop
\* devices and every mount is of the volume's own filesystem, for any
\* number of volumes, pods, devices and faults and for a kubelet that does
\* not serialise its calls: stageLocked, NodeUnstageVolume and Reconcile
\* are safe without the re-stage.
THEOREM StagingSafe ==
    ASSUME "ioerror" \notin Hazards
    PROVE  Spec => [](OneLoopPerImage /\ OwnFilesystem)
  <1>1. Init => StagingInv
    <2>1. Init => TypeOK
      BY ConstantsAssumption DEF Init, TypeOK, Absent, Pcs, EntryType, Requests
    <2>2. Init => NoRestage /\ ServesWhenUp /\ \A v \in Volumes : Knows(v)
      BY DEF Init, NoRestage, Absent, RestagePcs, ServesWhenUp, Knows, Owning
    <2>3. Init => KernelInv
      BY ConstantsAssumption DEF Init, KernelInv, Wired, OneLoopPerImage, MarkedIsHeld
    <2> QED
      BY <2>1, <2>2, <2>3 DEF StagingInv
  <1>2. StagingInv /\ [Next]_vars => StagingInv'
    BY StagingStep
  <1>3. StagingInv => OneLoopPerImage /\ OwnFilesystem
    BY DEF StagingInv, KernelInv, Wired, OwnFilesystem
  <1> QED
    BY <1>1, <1>2, <1>3, PTL DEF Spec

=============================================================================
