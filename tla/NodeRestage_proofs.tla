-------------------------- MODULE NodeRestage_proofs --------------------------
(***************************************************************************)
(* Proofs about NodeVolume where filesystems do go read-only and           *)
(* re-stages run.  A re-stage spares what pods still have; with one volume *)
(* it never attaches an image twice; and as long as nothing interrupts it  *)
(* and the loop pool has room, no pod of any volume is shown the empty     *)
(* staging directory.                                                      *)
(***************************************************************************)
EXTENDS NodeRequests_proofs, FiniteSetTheorems

-----------------------------------------------------------------------------
(* What every step leaves alone. *)

\* An open loop device is attached: it is not freed while something is over
\* it, and nothing is put over a free one.
HeldIsAttached == \A d \in LoopDevs : Held(d) => loops[d] # None

\* A loop device changes its image only while nothing is over it, and from
\* or to none.
Settled ==
    \A d \in LoopDevs :
        loops'[d] # loops[d] => ~Held(d)' /\ (loops[d] = None \/ loops'[d] = None)

\* A step of the call that holds v's mutex, seen from the other volumes.
CallStep(v) ==
    /\ boot = "up" /\ boot' = boot /\ pc[v] # "idle" /\ happened \subseteq happened'
    /\ bind' = bind /\ UNCHANGED tick
    /\ \A w \in Volumes \ {v} :
         /\ stage'[w] = stage[w] /\ dm'[w] = dm[w] /\ mem'[w] = mem[w]
         /\ pc'[w] = pc[w] /\ dev'[w] = dev[w] /\ by'[w] = by[w]
         /\ w \in kstaged' <=> w \in kstaged
         /\ \A d \in LoopDevs : loops'[d] = w => loops[d] = w
    /\ \/ pc'[v] # "idle" /\ UNCHANGED <<by, pub, cancelled, kstaged>>
       \/ \E ok \in BOOLEAN : Done(v, ok)

\* Going on and answering, as a call's step.
LEMMA CallMoves ==
    ASSUME TypeOK, NEW v \in Volumes
    PROVE  /\ \A l : l # "idle" /\ Goto(v, l) =>
                /\ pc'[v] # "idle" /\ UNCHANGED <<by, pub, cancelled, kstaged>>
                /\ \A w \in Volumes \ {v} :
                     /\ pc'[w] = pc[w] /\ dev'[w] = dev[w] /\ by'[w] = by[w]
                     /\ w \in kstaged' <=> w \in kstaged
           /\ \A ok \in BOOLEAN : Done(v, ok) =>
                \A w \in Volumes \ {v} :
                   /\ pc'[w] = pc[w] /\ dev'[w] = dev[w] /\ by'[w] = by[w]
                   /\ w \in kstaged' <=> w \in kstaged
  BY DEF Goto, Done, TypeOK

\* The commands of a call, as a call's step.
LEMMA CallCommands ==
    ASSUME TypeOK, NEW v \in Volumes,
           \/ UNCHANGED kernel \/ Umount(v) \/ Close(v) \/ \E D : Detach(D)
    PROVE  /\ bind' = bind
           /\ \A w \in Volumes \ {v} :
                /\ stage'[w] = stage[w] /\ dm'[w] = dm[w]
                /\ \A d \in LoopDevs : loops'[d] = w => loops[d] = w
  <1>1. /\ bind' = bind
        /\ \A w \in Volumes \ {v} : stage'[w] = stage[w] /\ dm'[w] = dm[w]
        /\ \A d \in LoopDevs : loops'[d] \in {loops[d], None}
    BY CommandsOwn DEF TypeOK
  <1> QED
    BY <1>1, ConstantsAssumption

\* Every step of a stage, an unstage or a re-stage of v is a step of the
\* call that holds v's mutex.
LEMMA CallSteps ==
    ASSUME TypeOK, NEW v \in Volumes, Stage(v) \/ Unstage(v) \/ Restage(v)
    PROVE  CallStep(v)
  <1>g. \A l : l # "idle" /\ Goto(v, l) =>
                /\ pc'[v] # "idle" /\ UNCHANGED <<by, pub, cancelled, kstaged>>
                /\ \A w \in Volumes \ {v} :
                     /\ pc'[w] = pc[w] /\ dev'[w] = dev[w] /\ by'[w] = by[w]
                     /\ w \in kstaged' <=> w \in kstaged
    BY CallMoves
  <1>d. \A ok \in BOOLEAN : Done(v, ok) =>
                \A w \in Volumes \ {v} :
                   /\ pc'[w] = pc[w] /\ dev'[w] = dev[w] /\ by'[w] = by[w]
                   /\ w \in kstaged' <=> w \in kstaged
    BY CallMoves
  <1>c. (UNCHANGED kernel \/ Umount(v) \/ Close(v) \/ \E D : Detach(D)) =>
           /\ bind' = bind
           /\ \A w \in Volumes \ {v} :
                /\ stage'[w] = stage[w] /\ dm'[w] = dm[w]
                /\ \A d \in LoopDevs : loops'[d] = w => loops[d] = w
    BY CallCommands
  <1>1. CASE \/ StageFails(v) \/ StageAlready(v) \/ StageRefuses(v) \/ StageGoesOn(v)
             \/ StageDetach(v) \/ StageUndo(v) \/ StageCleanClose(v) \/ StageCleanDetach(v)
    <2>1. /\ boot = "up" /\ boot' = boot /\ pc[v] # "idle" /\ UNCHANGED <<state, tick>>
          /\ \/ UNCHANGED kernel \/ Umount(v) \/ Close(v) \/ \E D : Detach(D)
          /\ (\E l : l # "idle" /\ Goto(v, l)) \/ (\E ok \in BOOLEAN : Done(v, ok))
      BY <1>1 DEF StageFails, StageAlready, StageRefuses, StageGoesOn, StageDetach, StageUndo,
         StageCleanClose, StageCleanDetach, Skipped, At
    <2>2. happened \subseteq happened'
      BY <1>1, FaultsGrow DEF StageFails, StageAlready, StageRefuses, StageGoesOn, StageDetach,
         StageUndo, StageCleanClose, StageCleanDetach
    <2> QED
      BY <2>1, <2>2, <1>g, <1>d, <1>c DEF CallStep, state
  <1>2. CASE StageAttach(v)
    <2>1. /\ boot = "up" /\ boot' = boot /\ pc[v] # "idle" /\ UNCHANGED <<state, tick>>
          /\ UNCHANGED <<dm, stage, bind>> /\ happened \subseteq happened'
          /\ \A w \in Volumes \ {v}, d \in LoopDevs : loops'[d] = w => loops[d] = w
      BY <1>2, FaultsGrow DEF StageAttach, At, TypeOK
    <2>2. CASE Done(v, FALSE)
      BY <2>1, <2>2, <1>d DEF CallStep, state
    <2>3. CASE ~Done(v, FALSE)
      <3>1. PICK d \in LoopDevs :
              /\ pc' = [pc EXCEPT ![v] = IF v \in Encrypted THEN "crypt" ELSE "mount"]
              /\ dev' = [dev EXCEPT ![v] = d]
              /\ UNCHANGED <<by, pub, cancelled, kstaged>>
        BY <2>3, <1>2 DEF StageAttach
      <3> QED
        BY <3>1, <2>1 DEF CallStep, state, TypeOK
    <2> QED
      BY <2>2, <2>3
  <1>3. CASE StageCrypt(v) \/ StageMount(v)
    <2>1. /\ boot = "up" /\ boot' = boot /\ pc[v] # "idle" /\ UNCHANGED <<state, tick>>
          /\ bind' = bind /\ loops' = loops
          /\ \A w \in Volumes \ {v} : stage'[w] = stage[w] /\ dm'[w] = dm[w]
          /\ \E l : l # "idle" /\ Goto(v, l)
      BY <1>3 DEF StageCrypt, StageMount, At, TypeOK
    <2>2. happened \subseteq happened'
      BY <1>3, FaultsGrow DEF StageCrypt, StageMount
    <2> QED
      BY <2>1, <2>2, <1>g DEF CallStep, state
  <1>4. CASE StageAdopt(v) \/ StagePut(v) \/ UnstageForget(v) \/ RestagePut(v)
    <2>1. /\ boot = "up" /\ boot' = boot /\ pc[v] # "idle" /\ UNCHANGED <<kernel, tick>>
          /\ \A w \in Volumes \ {v} : mem'[w] = mem[w]
          /\ (\E l : l # "idle" /\ Goto(v, l)) \/ (\E ok \in BOOLEAN : Done(v, ok))
      BY <1>4 DEF StageAdopt, StagePut, UnstageForget, RestagePut, At, TypeOK
    <2>2. happened \subseteq happened'
      BY <1>4, FaultsGrow DEF StageAdopt, StagePut, UnstageForget, RestagePut
    <2> QED
      BY <2>1, <2>2, <1>g, <1>d, <1>c DEF CallStep
  <1>5. CASE \/ PopStage(v, "u_pop", "u_close") \/ PopStage(v, "r_pop", "r_close")
             \/ UnstageDetach(v) \/ RestageDetach(v)
    <2>1. /\ boot = "up" /\ boot' = boot /\ pc[v] # "idle" /\ UNCHANGED <<state, tick>>
          /\ \/ UNCHANGED kernel \/ Umount(v) \/ \E D : Detach(D)
          /\ (\E l : l # "idle" /\ Goto(v, l)) \/ (\E ok \in BOOLEAN : Done(v, ok))
      BY <1>5 DEF PopStage, UnstageDetach, RestageDetach, At
    <2>2. happened \subseteq happened'
      BY <1>5, FaultsGrow DEF PopStage, UnstageDetach, RestageDetach
    <2> QED
      BY <2>1, <2>2, <1>g, <1>d, <1>c DEF CallStep, state
  <1>6. CASE UnstageClose(v) \/ RestageClose(v)
    <2>1. /\ boot = "up" /\ boot' = boot /\ pc[v] # "idle" /\ UNCHANGED <<state, tick>>
          /\ UNCHANGED kernel \/ Close(v)
          /\ (\E l : l # "idle" /\ Goto(v, l)) \/ (\E ok \in BOOLEAN : Done(v, ok))
      BY <1>6 DEF UnstageClose, RestageClose, CloseOrFail, Skipped, At
    <2>2. happened \subseteq happened'
      BY <1>6, FaultsGrow DEF UnstageClose, RestageClose, CloseOrFail
    <2> QED
      BY <2>1, <2>2, <1>g, <1>d, <1>c DEF CallStep, state
  <1> QED
    BY <1>1, <1>2, <1>3, <1>4, <1>5, <1>6 DEF Stage, Unstage, Restage

\* A last close frees only what nothing is over any more; nothing gets open.
LEMMA ReleaseSettled ==
    ASSUME TypeOK, HeldIsAttached, LastClose,
           \A v \in Volumes : stage'[v] \in {stage[v], None} /\ dm'[v] \in {dm[v], None},
           \A p \in Pods : bind'[p] \in {bind[p], None}
    PROVE  HeldIsAttached' /\ Settled
  <1>1. \A d \in LoopDevs : Held(d)' => Held(d)
    BY ConstantsAssumption DEF Held, Mounted
  <1>2. \A d \in LoopDevs : loops'[d] # loops[d] => ~Held(d)' /\ loops'[d] = None
    BY DEF LastClose
  <1>3. HeldIsAttached'
    BY <1>1, <1>2 DEF HeldIsAttached
  <1> QED
    BY <1>2, <1>3 DEF Settled

\* The commands, and the steps that run none.
LEMMA CommandsSettled ==
    ASSUME TypeOK, HeldIsAttached,
           UNCHANGED kernel \/ (\E v \in Volumes : Umount(v) \/ Close(v)) \/ \E D : Detach(D)
    PROVE  HeldIsAttached' /\ Settled
  <1>1. CASE UNCHANGED kernel
    BY <1>1 DEF kernel, HeldIsAttached, Settled, Held, Mounted
  <1>2. CASE \E v \in Volumes : Umount(v) \/ Close(v)
    <2>1. /\ LastClose /\ UNCHANGED bind
          /\ \A v \in Volumes : stage'[v] \in {stage[v], None} /\ dm'[v] \in {dm[v], None}
      BY <1>2 DEF Umount, Close, TypeOK
    <2> QED
      BY <2>1, ReleaseSettled
  <1>3. CASE \E D : Detach(D)
    <2>1. \A d \in LoopDevs : Held(d)' <=> Held(d)
      BY <1>3 DEF Detach, Held, Mounted
    <2>2. \A d \in LoopDevs : loops'[d] # loops[d] => ~Held(d) /\ loops'[d] = None
      BY <1>3 DEF Detach
    <2> QED
      BY <2>1, <2>2 DEF HeldIsAttached, Settled
  <1> QED
    BY <1>1, <1>2, <1>3

\* Every step leaves open loop devices attached to the image they were
\* attached to.
LEMMA SettledStep ==
    ASSUME TypeOK, HeldIsAttached, [Next]_vars
    PROVE  HeldIsAttached' /\ Settled
  <1>1. ASSUME NEW v \in Volumes, Stage(v) PROVE HeldIsAttached' /\ Settled
    <2>1. CASE StageAttach(v)
      <3>1. \A d \in LoopDevs : Held(d)' <=> Held(d)
        BY <2>1 DEF StageAttach, Held, Mounted
      <3>2. \A d \in LoopDevs : loops'[d] # loops[d] => loops[d] = None
        BY <2>1 DEF StageAttach, TypeOK
      <3>3. \A d \in LoopDevs : loops[d] # None => loops'[d] = loops[d]
        BY <3>2
      <3> QED
        BY <3>1, <3>2, <3>3 DEF HeldIsAttached, Settled
    <2>2. CASE StageCrypt(v)
      <3>1. /\ UNCHANGED <<loops, stage, bind>>
            /\ \/ dm' = dm
               \/ loops[dev[v]] \in Volumes /\ dm' = [dm EXCEPT ![v] = dev[v]]
        BY <2>2, ConstantsAssumption DEF StageCrypt
      <3>2. \A d \in LoopDevs : Held(d)' => Held(d) \/ loops[d] \in Volumes
        BY <3>1 DEF Held, Mounted, TypeOK
      <3> QED
        BY <3>1, <3>2, ConstantsAssumption DEF HeldIsAttached, Settled
    <2>3. CASE StageMount(v)
      <3>1. /\ UNCHANGED <<loops, dm, bind>>
            /\ stage' = stage \/ (Mountable(v) /\ stage' = [stage EXCEPT ![v] = dev[v]])
        BY <2>3 DEF StageMount
      <3>2. Mountable(v) => loops[dev[v]] \in Volumes \/ dm[v] = dev[v]
        BY DEF Mountable
      <3>3. \A d \in LoopDevs : Held(d)' => Held(d) \/ loops[d] \in Volumes
        BY <3>1, <3>2 DEF Held, Mounted, TypeOK
      <3> QED
        BY <3>1, <3>3, ConstantsAssumption DEF HeldIsAttached, Settled
    <2>4. CASE ~(StageAttach(v) \/ StageCrypt(v) \/ StageMount(v))
      <3>1. UNCHANGED kernel \/ Umount(v) \/ Close(v) \/ \E D : Detach(D)
        BY <1>1, <2>4 DEF Stage, StageFails, StageAlready, StageAdopt, StageRefuses, StageGoesOn,
           StageDetach, StagePut, StageUndo, StageCleanClose, StageCleanDetach, Skipped
      <3> QED
        BY <3>1, CommandsSettled
    <2> QED
      BY <2>1, <2>2, <2>3, <2>4
  <1>2. ASSUME NEW v \in Volumes, Unstage(v) \/ Restage(v) PROVE HeldIsAttached' /\ Settled
    <2>1. UNCHANGED kernel \/ Umount(v) \/ Close(v) \/ \E D : Detach(D)
      <3>1. CASE \E from, to : PopStage(v, from, to)
        BY <3>1 DEF PopStage
      <3>2. CASE UnstageClose(v) \/ RestageClose(v)
        BY <3>2 DEF UnstageClose, RestageClose, CloseOrFail, Skipped
      <3>3. CASE UnstageDetach(v) \/ RestageDetach(v) \/ UnstageForget(v) \/ RestagePut(v)
        BY <3>3 DEF UnstageDetach, RestageDetach, UnstageForget, RestagePut
      <3> QED
        BY <1>2, <3>1, <3>2, <3>3 DEF Unstage, Restage
    <2> QED
      BY <2>1, CommandsSettled
  <1>3. ASSUME NEW p \in Pods, PublishBind(p) PROVE HeldIsAttached' /\ Settled
    <2>1. /\ UNCHANGED <<loops, dm, stage>>
          /\ bind' = bind \/ bind' = [bind EXCEPT ![p] = StagedTree(VolumeOf[p])]
      BY <1>3 DEF PublishBind
    <2>2. \A d \in LoopDevs : Held(d)' => Held(d)
      BY <2>1, ConstantsAssumption DEF Held, Mounted, StagedTree, TypeOK
    <2> QED
      BY <2>1, <2>2 DEF HeldIsAttached, Settled
  <1>4. ASSUME NEW p \in Pods, Unpublish(p) PROVE HeldIsAttached' /\ Settled
    <2>1. LastClose /\ UNCHANGED <<stage, dm>> /\ \A q \in Pods : bind'[q] \in {bind[q], None}
      BY <1>4 DEF Unpublish, TypeOK
    <2> QED
      BY <2>1, ReleaseSettled
  <1>5. ASSUME Reboot PROVE HeldIsAttached' /\ Settled
    BY <1>5, ConstantsAssumption DEF Reboot, HeldIsAttached, Settled, Held, Mounted
  <1>6. ASSUME ReconcileClose PROVE HeldIsAttached' /\ Settled
    <2>1. LastClose /\ UNCHANGED <<stage, bind>> /\ \A v \in Volumes : dm'[v] \in {dm[v], None}
      BY <1>6 DEF ReconcileClose
    <2> QED
      BY <2>1, ReleaseSettled
  <1>7. ASSUME ReconcileDetach PROVE HeldIsAttached' /\ Settled
    BY <1>7, CommandsSettled DEF ReconcileDetach
  <1>8. ASSUME NEW d \in LoopDevs, ForceReadOnly(d) PROVE HeldIsAttached' /\ Settled
    BY <1>8 DEF ForceReadOnly, HeldIsAttached, Settled, Held, Mounted
  <1>9. ASSUME \/ \E v \in Volumes : StageBegin(v) \/ UnstageBegin(v) \/ TickVolume(v)
               \/ \E p \in Pods : PublishBegin(p) \/ PublishLock(p)
               \/ \E r \in Requests : Timeout(r)
               \/ TickRead \/ TickList \/ Crash \/ ReconcileDrop \/ ReconcileFails
               \/ UNCHANGED vars
        PROVE  HeldIsAttached' /\ Settled
    <2>1. UNCHANGED kernel
      BY <1>9 DEF StageBegin, UnstageBegin, Lock, TickVolume, PublishBegin, PublishLock, Timeout,
         TickRead, TickList, Crash, ReconcileDrop, ReconcileFails, vars
    <2> QED
      BY <2>1, CommandsSettled
  <1> QED
    BY <1>1, <1>2, <1>3, <1>4, <1>5, <1>6, <1>7, <1>8, <1>9 DEF Next

-----------------------------------------------------------------------------
(***************************************************************************)
(* What a re-stage spares.  RestageSparesPublished is not inductive: the   *)
(* re-stage looks for pods once, when it takes the mutex, and tears down   *)
(* several steps later.  A kubelet that runs one operation per volume at a *)
(* time starts no publish in between, so the invariant says who may be at  *)
(* work on a volume, and that a pod's bind of it is its staged filesystem. *)
(***************************************************************************)

\* The calls for v: the holder of the mutex is the kubelet's call or the
\* publish that re-stages, and there is one publish at most.
CallsInv(v) ==
    /\ pc[v] # "idle" => by[v] \in {v} \cup PodsOf(v)
    /\ \A p \in PodsOf(v) :
         /\ pub[p] = "restage" <=> pc[v] # "idle" /\ by[v] = p
         /\ pub[p] # "idle" /\ pc[v] # "idle" => pub[p] = "restage"
         /\ \A q \in PodsOf(v) : pub[p] # "idle" /\ pub[q] # "idle" => p = q

\* No pod of v has a filesystem of v's image.
Spared(v) == \A p \in PodsOf(v) : bind[p] \notin LoopsOf(v)

\* A pod has v's image only as it is staged, and only while nothing of v is
\* taken down or built.
BindInv(v) ==
    \/ Spared(v)
    \/ /\ pc[v] \in {"idle", "check"}
       /\ \A p \in PodsOf(v) : bind[p] \in LoopsOf(v) => bind[p] = stage[v]

SpareInv == TypeOK /\ HeldIsAttached /\ \A v \in Volumes : CallsInv(v) /\ BindInv(v)

\* What no pod has of v's image no step gives it, but a bind.
LEMMA SparedStill ==
    ASSUME TypeOK, Settled, NEW v \in Volumes, Spared(v),
           \A p \in PodsOf(v) : bind'[p] \in {bind[p], None}
    PROVE  Spared(v)'
  <1>1. SUFFICES ASSUME NEW p \in PodsOf(v), bind'[p] \in LoopDevs, loops'[bind'[p]] = v
                 PROVE  FALSE
    BY DEF Spared, LoopsOf, PodsOf
  <1>2. bind'[p] = bind[p] /\ p \in Pods
    BY <1>1, ConstantsAssumption DEF PodsOf
  <1>3. loops[bind[p]] # v
    BY <1>1, <1>2 DEF Spared, LoopsOf
  <1>4. Held(bind[p])'
    BY <1>2 DEF Held, Mounted
  <1> QED
    BY <1>1, <1>2, <1>3, <1>4 DEF Settled

\* A step that leaves v's mutex, its pods' calls and its stage alone.
LEMMA SpareElsewhere ==
    ASSUME SpareInv, Settled, NEW v \in Volumes,
           pc'[v] = pc[v], by'[v] = by[v], stage'[v] = stage[v],
           \A p \in PodsOf(v) : bind'[p] \in {bind[p], None} /\ pub'[p] = pub[p]
    PROVE  CallsInv(v)' /\ BindInv(v)'
  <1>1. CallsInv(v)'
    BY DEF SpareInv, CallsInv, PodsOf
  <1>2. CASE Spared(v)
    BY <1>1, <1>2, SparedStill DEF SpareInv, BindInv
  <1>3. CASE ~Spared(v)
    <2>1. /\ pc[v] \in {"idle", "check"}
          /\ \A p \in PodsOf(v) : bind[p] \in LoopsOf(v) => bind[p] = stage[v]
      BY <1>3 DEF SpareInv, BindInv
    <2>2. ASSUME NEW p \in PodsOf(v), bind'[p] \in LoopsOf(v)' PROVE bind'[p] = stage'[v]
      <3>1. bind'[p] = bind[p] /\ bind[p] \in LoopDevs /\ Held(bind[p])' /\ loops'[bind[p]] = v
        BY <2>2, ConstantsAssumption DEF LoopsOf, Held, Mounted, PodsOf
      <3>2. loops[bind[p]] = v
        BY <3>1 DEF Settled
      <3> QED
        BY <3>1, <3>2, <2>1 DEF LoopsOf
    <2> QED
      BY <1>1, <2>1, <2>2 DEF BindInv, PodsOf
  <1> QED
    BY <1>1, <1>2, <1>3

\* The step of the call that holds v's mutex, for the calls.
LEMMA SpareCalls ==
    ASSUME SpareInv, NEW v \in Volumes, CallStep(v)
    PROVE  /\ CallsInv(v)'
           /\ \A w \in Volumes \ {v} : \A p \in PodsOf(w) : pub'[p] = pub[p]
  <1>1. CallsInv(v) /\ by[v] \in {v} \cup PodsOf(v) /\ v \notin Pods /\ pc[v] # "idle"
    BY ConstantsAssumption DEF SpareInv, CallsInv, CallStep
  <1>2. CASE pc'[v] # "idle" /\ UNCHANGED <<by, pub>>
    BY <1>1, <1>2 DEF CallsInv, PodsOf
  <1>3. CASE \E ok \in BOOLEAN : Done(v, ok)
    <2>1. /\ pc'[v] = "idle"
          /\ \A p \in Pods : IF p # by[v] THEN pub'[p] = pub[p] ELSE pub'[p] \in {"bind", "idle"}
      BY <1>3 DEF Done, SpareInv, TypeOK
    <2>2. \A p \in PodsOf(v) : p # by[v] => pub[p] = "idle"
      BY <1>1 DEF CallsInv
    <2>3. CallsInv(v)'
      BY <2>1, <2>2 DEF CallsInv, PodsOf
    <2>4. \A w \in Volumes \ {v} : \A p \in PodsOf(w) : pub'[p] = pub[p]
      BY <2>1, <1>1 DEF PodsOf
    <2> QED
      BY <2>3, <2>4
  <1> QED
    BY <1>2, <1>3 DEF CallStep

\* Before it has looked around, a stage changes nothing, and it goes on only
\* where nothing is staged.
LEMMA CheckMoves ==
    ASSUME TypeOK, NEW v \in Volumes, Stage(v) \/ Unstage(v) \/ Restage(v), pc[v] = "check"
    PROVE  /\ UNCHANGED kernel
           /\ pc'[v] = "idle" \/ (pc'[v] = "detach" /\ stage[v] = None)
  <1>1. \/ StageFails(v) \/ StageAlready(v) \/ StageAdopt(v) \/ StageRefuses(v) \/ StageGoesOn(v)
    BY DEF Stage, Unstage, Restage, StageDetach, StageAttach, StageCrypt, StageMount, StagePut,
       StageUndo, StageCleanClose, StageCleanDetach, PopStage, UnstageClose, UnstageDetach,
       UnstageForget, RestageClose, RestageDetach, RestagePut, At
  <1>2. CASE StageGoesOn(v)
    BY <1>2 DEF StageGoesOn, Goto, TypeOK
  <1>3. CASE StageFails(v) \/ StageAlready(v) \/ StageAdopt(v) \/ StageRefuses(v)
    BY <1>3 DEF StageFails, StageAlready, StageAdopt, StageRefuses, Done, TypeOK
  <1> QED
    BY <1>1, <1>2, <1>3

\* The step of the call that holds v's mutex.
LEMMA SpareCall ==
    ASSUME SpareInv, TypeOK', HeldIsAttached', Settled, NEW v \in Volumes,
           Stage(v) \/ Unstage(v) \/ Restage(v)
    PROVE  SpareInv'
  <1>1. CallStep(v) /\ TypeOK /\ BindInv(v)
    BY CallSteps DEF SpareInv
  <1>2. CallsInv(v)' /\ \A w \in Volumes \ {v} : \A p \in PodsOf(w) : pub'[p] = pub[p]
    BY <1>1, SpareCalls
  <1>3. BindInv(v)'
    <2>1. CASE Spared(v)
      BY <2>1, <1>1, SparedStill DEF CallStep, BindInv
    <2>2. CASE ~Spared(v)
      <3>1. /\ pc[v] = "check"
            /\ \A p \in PodsOf(v) : bind[p] \in LoopsOf(v) => bind[p] = stage[v]
        BY <2>2, <1>1 DEF BindInv, CallStep
      <3>2. UNCHANGED kernel /\ (pc'[v] = "idle" \/ stage[v] = None)
        BY <3>1, <1>1, CheckMoves
      <3>3. stage[v] # None
        BY <3>1, <2>2, ConstantsAssumption DEF Spared, LoopsOf
      <3> QED
        BY <3>1, <3>2, <3>3 DEF BindInv, kernel, LoopsOf, PodsOf
    <2> QED
      BY <2>1, <2>2
  <1>4. ASSUME NEW w \in Volumes \ {v} PROVE CallsInv(w)' /\ BindInv(w)'
    BY <1>1, <1>2, SpareElsewhere DEF CallStep
  <1> QED
    BY <1>2, <1>3, <1>4 DEF SpareInv

\* A call that takes v's mutex: nothing moves in the kernel.
LEMMA SpareLock ==
    ASSUME SpareInv, TypeOK', HeldIsAttached', Settled, Serial, NEW v \in Volumes,
           StageBegin(v) \/ UnstageBegin(v)
    PROVE  SpareInv'
  <1>1. /\ Quiet(v) /\ UNCHANGED <<kernel, pub>>
        /\ by' = [by EXCEPT ![v] = v]
        /\ \/ pc' = [pc EXCEPT ![v] = "check"]
           \/ pc' = [pc EXCEPT ![v] = "u_pop"] /\ \A p \in PodsOf(v) : bind[p] = None
    BY DEF StageBegin, UnstageBegin, Lock
  <1>2. CallsInv(v)'
    BY <1>1, ConstantsAssumption DEF SpareInv, CallsInv, Quiet, PodsOf, TypeOK
  <1>3. BindInv(v)'
    <2>1. CASE pc' = [pc EXCEPT ![v] = "check"]
      BY <2>1, <1>1 DEF SpareInv, BindInv, Spared, kernel, LoopsOf, PodsOf, TypeOK
    <2>2. CASE \A p \in PodsOf(v) : bind[p] = None
      BY <2>2, <1>1, ConstantsAssumption DEF BindInv, Spared, kernel, LoopsOf, PodsOf
    <2> QED
      BY <1>1, <2>1, <2>2
  <1>4. ASSUME NEW w \in Volumes \ {v} PROVE CallsInv(w)' /\ BindInv(w)'
    <2>1. /\ pc'[w] = pc[w] /\ by'[w] = by[w] /\ stage'[w] = stage[w]
          /\ \A p \in PodsOf(w) : bind'[p] = bind[p] /\ pub'[p] = pub[p]
      BY <1>1 DEF kernel, SpareInv, TypeOK
    <2> QED
      BY <2>1, SpareElsewhere
  <1> QED
    BY <1>2, <1>3, <1>4 DEF SpareInv

\* A publish: it takes the mutex only where no pod has the stage, and it
\* binds only while no other call for the volume runs.
LEMMA SparePublish ==
    ASSUME SpareInv, TypeOK', HeldIsAttached', Settled, Serial, NEW p \in Pods,
           PublishBegin(p) \/ PublishLock(p) \/ PublishBind(p) \/ Unpublish(p)
    PROVE  SpareInv'
  <1> DEFINE v == VolumeOf[p]
  <1>t. v \in Volumes /\ p \in PodsOf(v) /\ TypeOK /\ CallsInv(v) /\ BindInv(v)
    BY ConstantsAssumption DEF SpareInv, PodsOf
  <1>o. ASSUME NEW w \in Volumes \ {v}, pc'[w] = pc[w], by'[w] = by[w], stage'[w] = stage[w],
               \A q \in Pods \ {p} : bind'[q] = bind[q] /\ pub'[q] = pub[q]
        PROVE  CallsInv(w)' /\ BindInv(w)'
    <2>1. \A q \in PodsOf(w) : bind'[q] = bind[q] /\ pub'[q] = pub[q]
      BY <1>o DEF PodsOf
    <2> QED
      BY <1>o, <2>1, SpareElsewhere
  <1> HIDE DEF v
  <1>1. CASE PublishBegin(p)
    <2>1. /\ Quiet(v) /\ UNCHANGED <<kernel, op>> /\ \A q \in Pods \ {p} : pub'[q] = pub[q]
          /\ pub'[p] \in {"lock", "bind"}
      BY <1>1, <1>t DEF PublishBegin, TypeOK, v
    <2>2. CallsInv(v)'
      BY <2>1, <1>t DEF CallsInv, Quiet, PodsOf, op
    <2>3. BindInv(v)'
      BY <2>1, <1>t DEF BindInv, Spared, kernel, op, LoopsOf, PodsOf
    <2> QED
      BY <2>1, <2>2, <2>3, <1>o DEF SpareInv, kernel, op
  <1>2. CASE PublishLock(p)
    <2>1. /\ pc[v] = "idle" /\ pub[p] = "lock" /\ UNCHANGED kernel
          /\ \A q \in Pods \ {p} : pub'[q] = pub[q]
          /\ \A w \in Volumes \ {v} : pc'[w] = pc[w] /\ by'[w] = by[w]
          /\ \/ pub'[p] \in {"bind", "idle"} /\ pc' = pc /\ by' = by
             \/ /\ pub'[p] = "restage" /\ pc'[v] = "r_pop" /\ by'[v] = p
                /\ ~StillPublished(v)
      BY <1>2, <1>t DEF PublishLock, TypeOK, v, CannotRestage
    <2>2. CallsInv(v)'
      BY <2>1, <1>t DEF CallsInv, PodsOf
    <2>3. ~StillPublished(v) => Spared(v)
      BY <2>1, <1>t, ConstantsAssumption DEF StillPublished, BindInv, Spared, LoopsOf, PodsOf
    <2>4. BindInv(v)'
      BY <2>1, <2>3, <1>t DEF BindInv, Spared, kernel, LoopsOf, PodsOf
    <2> QED
      BY <2>1, <2>2, <2>4, <1>o DEF SpareInv, kernel
  <1>3. CASE PublishBind(p)
    <2>1. /\ pub[p] = "bind" /\ UNCHANGED <<loops, stage, op>>
          /\ \A q \in Pods \ {p} : pub'[q] = pub[q] /\ bind'[q] = bind[q]
          /\ pub'[p] = "idle" /\ bind'[p] \in {bind[p], StagedTree(v)}
      BY <1>3, <1>t DEF PublishBind, TypeOK, v
    <2>2. pc[v] = "idle"
      BY <2>1, <1>t DEF CallsInv
    <2>3. CallsInv(v)'
      BY <2>1, <2>2, <1>t DEF CallsInv, PodsOf, op
    <2>4. \A q \in PodsOf(v) : bind[q] \in LoopsOf(v) => bind[q] = stage[v]
      BY <1>t DEF BindInv, Spared
    <2>5. StagedTree(v) \in LoopDevs => StagedTree(v) = stage[v]
      BY ConstantsAssumption DEF StagedTree
    <2>6. BindInv(v)'
      BY <2>1, <2>2, <2>4, <2>5 DEF BindInv, LoopsOf, PodsOf, op
    <2> QED
      BY <2>1, <2>3, <2>6, <1>o DEF SpareInv, op
  <1>4. CASE Unpublish(p)
    <2>1. /\ UNCHANGED <<stage, op, pub>>
          /\ \A q \in Pods : bind'[q] \in {bind[q], None}
      BY <1>4, <1>t DEF Unpublish, TypeOK
    <2>2. \A w \in Volumes : CallsInv(w)' /\ BindInv(w)'
      BY <2>1, SpareElsewhere DEF op, PodsOf
    <2> QED
      BY <2>2 DEF SpareInv
  <1> QED
    BY <1>1, <1>2, <1>3, <1>4

\* A crash or a reboot: no call runs.
LEMMA SpareRestart ==
    ASSUME SpareInv, TypeOK', HeldIsAttached', Settled, Crash \/ Reboot
    PROVE  SpareInv'
  <1>1. /\ \A v \in Volumes : pc'[v] = "idle"
        /\ \A p \in Pods : pub'[p] = "idle"
    BY DEF Crash, Reboot, ProcessDies
  <1>2. \A v \in Volumes : CallsInv(v)'
    BY <1>1 DEF CallsInv, PodsOf
  <1>3. ASSUME NEW v \in Volumes PROVE BindInv(v)'
    <2>1. CASE Crash
      BY <2>1, <1>1 DEF Crash, kernel, SpareInv, BindInv, Spared, LoopsOf, PodsOf
    <2>2. CASE Reboot
      BY <2>2, ConstantsAssumption DEF Reboot, BindInv, Spared, LoopsOf, PodsOf
    <2> QED
      BY <2>1, <2>2
  <1> QED
    BY <1>2, <1>3 DEF SpareInv

\* Every step keeps the invariant under a kubelet that serialises.
LEMMA SpareStep ==
    ASSUME Serial, SpareInv, [Next]_vars
    PROVE  SpareInv'
  <1>t. TypeOK' /\ HeldIsAttached' /\ Settled
    BY TypeStep, SettledStep DEF SpareInv
  <1>1. ASSUME UNCHANGED <<stage, bind, op, pub>> PROVE SpareInv'
    <2>1. \A v \in Volumes : CallsInv(v)' /\ BindInv(v)'
      BY <1>1, <1>t, SpareElsewhere DEF op
    <2> QED
      BY <2>1, <1>t DEF SpareInv
  <1>2. ASSUME \/ \E v \in Volumes : TickVolume(v)
               \/ \E r \in Requests : Timeout(r)
               \/ \E d \in LoopDevs : ForceReadOnly(d)
               \/ TickRead \/ TickList
               \/ ReconcileDrop \/ ReconcileFails \/ ReconcileClose \/ ReconcileDetach
               \/ UNCHANGED vars
        PROVE  UNCHANGED <<stage, bind, op, pub>>
    BY <1>2 DEF TickVolume, Timeout, ForceReadOnly, TickRead, TickList, ReconcileDrop,
       ReconcileFails, ReconcileClose, ReconcileDetach, Detach, vars, kernel, op
  <1> QED
    BY <1>t, <1>1, <1>2, SpareCall, SpareLock, SparePublish, SpareRestart DEF Next

\* Nothing is attached, mounted or called in a fresh node.
LEMMA SpareInit == Init => SpareInv
  <1>1. Init => TypeOK
    BY ConstantsAssumption DEF Init, TypeOK, Absent, Pcs, EntryType, Requests
  <1>2. Init => HeldIsAttached
    BY ConstantsAssumption DEF Init, HeldIsAttached, Held, Mounted
  <1>3. Init => \A v \in Volumes : CallsInv(v) /\ BindInv(v)
    BY ConstantsAssumption DEF Init, CallsInv, BindInv, Spared, PodsOf, LoopsOf
  <1> QED
    BY <1>1, <1>2, <1>3 DEF SpareInv

\* A re-stage never takes a filesystem down under a pod that still has the
\* volume published, for any number of volumes, pods and loop devices and
\* whatever fails, provided the kubelet runs one operation per volume at a
\* time: restageFailed looks for pods once, and nothing it does later needs
\* the look again.
THEOREM RestagesSparePods == Spec => []RestageSparesPublished
  <1>1. CASE Serial
    <2>1. SpareInv /\ [Next]_vars => SpareInv'
      BY <1>1, SpareStep
    <2>2. SpareInv => RestageSparesPublished
      BY DEF SpareInv, BindInv, Spared, RestageSparesPublished, RestagePcs
    <2> QED
      BY <2>1, <2>2, SpareInit, PTL DEF Spec
  <1>2. CASE ~Serial
    <2>1. RestageSparesPublished
      BY <1>2 DEF RestageSparesPublished
    <2> QED
      BY <2>1, PTL
  <1> QED
    BY <1>1, <1>2

-----------------------------------------------------------------------------
(***************************************************************************)
(* One volume, with re-stages and every fault.  A re-stage detaches the    *)
(* loop device its entry names, which after a fault may be another         *)
(* volume's; with one volume on the node there is no other.                *)
(***************************************************************************)

\* A stage that goes on has found nothing open, and attaches when nothing
\* is attached.
OneInv ==
    /\ TypeOK /\ HeldIsAttached /\ OneLoopPerImage
    /\ \A v \in Volumes :
         /\ pc[v] \in {"detach", "attach"} => stage[v] = None /\ \A d \in LoopDevs : ~Held(d)
         /\ pc[v] = "attach" => \A d \in LoopDevs : loops[d] = None

\* Releasing loop devices leaves one per image at most.
LEMMA OneReleased ==
    ASSUME OneLoopPerImage, \A d \in LoopDevs : loops'[d] \in {loops[d], None}
    PROVE  OneLoopPerImage'
  BY DEF OneLoopPerImage

\* The calls of the one volume.
LEMMA OneCall ==
    ASSUME OneInv, TypeOK', HeldIsAttached', NEW v \in Volumes, \A w \in Volumes : w = v,
           Stage(v) \/ Unstage(v) \/ Restage(v)
    PROVE  OneInv'
  <1>t. TypeOK
    BY DEF OneInv
  <1>c. UNCHANGED kernel \/ Umount(v) \/ Close(v) \/ (\E D : Detach(D)) =>
           \A d \in LoopDevs : loops'[d] \in {loops[d], None}
    BY <1>t, CommandsOwn
  <1>d. ASSUME \E ok : Done(v, ok) PROVE pc'[v] = "idle"
    BY <1>d, <1>t DEF Done, TypeOK
  <1>1. CASE StageGoesOn(v)
    <2>1. UNCHANGED kernel /\ pc'[v] = "detach" /\ stage[v] = None /\ ~InUse(v)
      BY <1>1, <1>t DEF StageGoesOn, Goto, TypeOK
    <2>2. \A d \in LoopDevs : ~Held(d)
      BY <2>1 DEF InUse, LoopsOf, OneInv, HeldIsAttached, TypeOK
    <2>3. \A d \in LoopDevs : ~Held(d)'
      BY <2>1, <2>2 DEF kernel, Held, Mounted
    <2> QED
      BY <2>1, <2>3, <1>c, OneReleased DEF OneInv, kernel
  <1>2. CASE StageDetach(v)
    <2>1. /\ UNCHANGED <<stage, bind, dm>> /\ pc[v] = "detach"
          /\ \A d \in LoopDevs : loops'[d] \in {loops[d], None}
      BY <1>2, <1>c, <1>t, CommandsOwn DEF StageDetach, At
    <2>2. CASE pc'[v] = "attach"
      <3>1. Detach(LoopsOf(v))
        BY <1>2, <2>2, <1>d DEF StageDetach
      <3>2. \A d \in LoopDevs : ~Held(d) /\ ~Held(d)'
        BY <2>1 DEF OneInv, Held, Mounted
      <3>3. \A d \in LoopDevs : loops'[d] = None
        BY <3>1, <3>2, <1>t DEF Detach, LoopsOf, TypeOK
      <3>4. stage'[v] = None
        BY <2>1 DEF OneInv
      <3> QED
        BY <2>1, <2>2, <3>2, <3>3, <3>4, OneReleased DEF OneInv
    <2>3. CASE pc'[v] # "attach"
      <3>1. pc'[v] = "idle"
        BY <1>2, <2>3, <1>d, <1>t DEF StageDetach, Goto, TypeOK
      <3> QED
        BY <2>1, <3>1, OneReleased DEF OneInv
    <2> QED
      BY <2>2, <2>3
  <1>3. CASE StageAttach(v)
    <2>1. pc'[v] \in {"idle", "crypt", "mount"}
      BY <1>3, <1>d, <1>t DEF StageAttach, TypeOK
    <2>2. \A d \in LoopDevs : loops[d] = None
      BY <1>3 DEF StageAttach, At, OneInv
    <2>3. loops' = loops \/ \E d \in LoopDevs : loops' = [loops EXCEPT ![d] = v]
      BY <1>3 DEF StageAttach
    <2>4. OneLoopPerImage'
      BY <2>2, <2>3, <1>t DEF OneLoopPerImage, TypeOK
    <2> QED
      BY <2>1, <2>4 DEF OneInv
  <1>4. CASE ~(StageGoesOn(v) \/ StageDetach(v) \/ StageAttach(v))
    <2>1. \A d \in LoopDevs : loops'[d] \in {loops[d], None}
      <3>1. CASE StageCrypt(v) \/ StageMount(v)
        BY <3>1 DEF StageCrypt, StageMount
      <3>2. CASE Unstage(v) \/ Restage(v)
        <4>1. UNCHANGED kernel \/ Umount(v) \/ Close(v) \/ \E D : Detach(D)
          BY <3>2 DEF Unstage, Restage, PopStage, UnstageClose, UnstageDetach, UnstageForget,
             CloseOrFail, Skipped, RestageClose, RestageDetach, RestagePut
        <4> QED
          BY <4>1, <1>c
      <3>3. CASE Stage(v) /\ ~(StageCrypt(v) \/ StageMount(v))
        <4>1. UNCHANGED kernel \/ Umount(v) \/ Close(v) \/ \E D : Detach(D)
          BY <3>3, <1>4 DEF Stage, StageFails, StageAlready, StageAdopt, StageRefuses, StagePut,
             StageUndo, StageCleanClose, StageCleanDetach, Skipped
        <4> QED
          BY <4>1, <1>c
      <3> QED
        BY <3>1, <3>2, <3>3
    <2>2. pc'[v] \notin {"detach", "attach"}
      <3>1. \/ \E ok : Done(v, ok)
            \/ \E l \in Pcs \ {"detach", "attach"} : Goto(v, l)
        <4>1. Pcs \ {"detach", "attach"} =
                {"idle", "check", "crypt", "mount", "put", "undo", "c_close", "c_detach"}
                  \cup UnstagePcs \cup RestagePcs
          BY DEF Pcs, StagePcs, UnstagePcs, RestagePcs
        <4>2. CASE Stage(v)
          BY <4>1, <4>2, <1>4 DEF Stage, StageFails, StageAlready, StageAdopt, StageRefuses,
             StageCrypt, StageMount, StagePut, StageUndo, StageCleanClose, StageCleanDetach
        <4>3. CASE Unstage(v)
          BY <4>1, <4>3 DEF Unstage, PopStage, UnstageClose, UnstageDetach, UnstageForget,
             CloseOrFail, UnstagePcs
        <4>4. CASE Restage(v)
          BY <4>1, <4>4 DEF Restage, PopStage, CloseOrFail, RestageClose, RestageDetach,
             RestagePut, RestagePcs
        <4> QED
          BY <4>2, <4>3, <4>4
      <3> QED
        BY <3>1, <1>d, <1>t DEF Goto, TypeOK
    <2> QED
      BY <2>1, <2>2, OneReleased DEF OneInv
  <1> QED
    BY <1>1, <1>2, <1>3, <1>4

\* The steps of nobody who holds the mutex attach nothing, and open nothing
\* unless something is staged.
LEMMA OneElsewhere ==
    ASSUME OneInv, TypeOK', HeldIsAttached', \A v, w \in Volumes : v = w,
           \A d \in LoopDevs : loops'[d] \in {loops[d], None},
           \A v \in Volumes :
              /\ dm'[v] \in {dm[v], None} /\ stage'[v] \in {stage[v], None}
              /\ pc'[v] \notin {"detach", "attach"} \/ pc'[v] = pc[v],
           \A p \in Pods : bind'[p] \in {bind[p], None, StagedTree(VolumeOf[p])}
    PROVE  OneInv'
  <1>1. OneLoopPerImage'
    BY OneReleased DEF OneInv
  <1>2. ASSUME NEW v \in Volumes, pc'[v] \in {"detach", "attach"}
        PROVE  /\ stage'[v] = None /\ \A d \in LoopDevs : ~Held(d)'
               /\ pc'[v] = "attach" => \A d \in LoopDevs : loops'[d] = None
    <2>1. pc[v] = pc'[v] /\ stage[v] = None /\ \A d \in LoopDevs : ~Held(d)
      BY <1>2 DEF OneInv
    <2>2. \A d \in LoopDevs : \A p \in Pods : bind'[p] # d
      BY <2>1, ConstantsAssumption DEF StagedTree, Held, Mounted
    <2>3. \A d \in LoopDevs : ~Held(d)'
      BY <2>1, <2>2, ConstantsAssumption DEF Held, Mounted
    <2> QED
      BY <2>1, <2>3, <1>2 DEF OneInv
  <1> QED
    BY <1>1, <1>2 DEF OneInv

\* Every step keeps the invariant when the node has one volume.
LEMMA OneStep ==
    ASSUME \A v, w \in Volumes : v = w, OneInv, [Next]_vars
    PROVE  OneInv'
  <1>t. TypeOK /\ TypeOK' /\ HeldIsAttached'
    BY TypeStep, SettledStep DEF OneInv
  <1>1. ASSUME NEW v \in Volumes, Stage(v) \/ Unstage(v) \/ Restage(v) PROVE OneInv'
    BY <1>1, <1>t, OneCall
  <1>2. ASSUME \/ \E v \in Volumes : StageBegin(v) \/ UnstageBegin(v) \/ TickVolume(v)
               \/ \E p \in Pods : PublishBegin(p) \/ PublishLock(p)
               \/ \E r \in Requests : Timeout(r)
               \/ \E d \in LoopDevs : ForceReadOnly(d)
               \/ TickRead \/ TickList \/ Crash \/ ReconcileDrop \/ ReconcileFails
               \/ UNCHANGED vars
        PROVE  OneInv'
    <2>1. UNCHANGED <<loops, dm, stage, bind>>
      BY <1>2 DEF StageBegin, UnstageBegin, Lock, TickVolume, PublishBegin, PublishLock, Timeout,
         ForceReadOnly, TickRead, TickList, Crash, ReconcileDrop, ReconcileFails, vars, kernel
    <2>2. \A v \in Volumes : pc'[v] \notin {"detach", "attach"} \/ pc'[v] = pc[v]
      BY <1>2, <1>t DEF StageBegin, UnstageBegin, Lock, TickVolume, PublishBegin, PublishLock,
         Timeout, ForceReadOnly, TickRead, TickList, Crash, ProcessDies, ReconcileDrop,
         ReconcileFails, vars, op, TypeOK
    <2> QED
      BY <2>1, <2>2, <1>t, OneElsewhere
  <1>3. ASSUME NEW p \in Pods, PublishBind(p) \/ Unpublish(p) PROVE OneInv'
    <2>1. /\ UNCHANGED <<dm, stage, op>>
          /\ \A d \in LoopDevs : loops'[d] \in {loops[d], None}
          /\ \A q \in Pods : bind'[q] \in {bind[q], None, StagedTree(VolumeOf[q])}
      BY <1>3, <1>t DEF PublishBind, Unpublish, LastClose, TypeOK
    <2> QED
      BY <2>1, <1>t, OneElsewhere DEF op
  <1>4. ASSUME Reboot \/ ReconcileClose \/ ReconcileDetach PROVE OneInv'
    <2>1. /\ \A d \in LoopDevs : loops'[d] \in {loops[d], None}
          /\ \A v \in Volumes : dm'[v] \in {dm[v], None} /\ stage'[v] \in {stage[v], None}
          /\ \A p \in Pods : bind'[p] \in {bind[p], None}
          /\ \A v \in Volumes : pc'[v] \in {pc[v], "idle"}
      BY <1>4 DEF Reboot, ProcessDies, ReconcileClose, ReconcileDetach, LastClose, Detach, op
    <2> QED
      BY <2>1, <1>t, OneElsewhere
  <1> QED
    BY <1>1, <1>2, <1>3, <1>4 DEF Next

\* On a node with one volume no image is ever attached to two loop devices
\* and every mount is of the volume's own filesystem, with re-stages,
\* whatever fails and whatever the kubelet runs at a time: what
\* restageFailed can break is another volume.
THEOREM OneVolumeSafe ==
    ASSUME \A v, w \in Volumes : v = w
    PROVE  Spec => [](OneLoopPerImage /\ OwnFilesystem)
  <1>1. Init => OneInv
    <2>1. Init => TypeOK
      BY ConstantsAssumption DEF Init, TypeOK, Absent, Pcs, EntryType, Requests
    <2> QED
      BY <2>1, ConstantsAssumption DEF Init, OneInv, HeldIsAttached, OneLoopPerImage, Held, Mounted
  <1>2. OneInv /\ [Next]_vars => OneInv'
    BY OneStep
  <1>3. OneInv => OneLoopPerImage /\ OwnFilesystem
    <2>1. ASSUME OneInv PROVE OwnFilesystem
      <3>1. \A d \in LoopDevs, v \in Volumes : Held(d) => loops[d] = v
        BY <2>1 DEF OneInv, HeldIsAttached, TypeOK
      <3> QED
        BY <2>1, <3>1, ConstantsAssumption DEF OneInv, OwnFilesystem, Held, Mounted, TypeOK
    <2> QED
      BY <2>1 DEF OneInv
  <1> QED
    BY <1>1, <1>2, <1>3, PTL DEF Spec

-----------------------------------------------------------------------------
(***************************************************************************)
(* Several volumes, with re-stages, as long as nothing but reboots         *)
(* disturbs them.  Then every layer of a volume is where the step of its   *)
(* call says: the loop device, the mapping over it, the mount over that,   *)
(* and the entry that names the loop device.                               *)
(***************************************************************************)

\* Nothing has gone wrong yet but reboots.
Clean == happened \subseteq {"reboot"}

\* d is the one loop device on v's image; there is none.
LoopIs(v, d) == d \in LoopDevs /\ \A e \in LoopDevs : loops[e] = v <=> e = d
NoLoop(v) == \A d \in LoopDevs : loops[d] # v

\* An encrypted volume's mapping is over d, and a plain volume has none.
Mapped(v, d) == dm[v] = IF v \in Encrypted THEN d ELSE None

Closed(v) == stage[v] = None /\ dm[v] = None
Down(v)   == Closed(v) /\ NoLoop(v) /\ mem[v] \notin LoopDevs
Up(v, s)  == LoopIs(v, mem[v]) /\ Mapped(v, mem[v]) /\ stage[v] = s

\* What there is of v at each step of its call.
LayersInv(v) ==
    /\ pc[v] \in {"idle", "check", "u_pop", "r_pop"} => Down(v) \/ Up(v, mem[v])
    /\ pc[v] = "check" /\ by[v] # v => Down(v)
    /\ pc[v] \in {"u_close", "r_close"} => Down(v) \/ Up(v, None)
    /\ pc[v] \in {"u_detach", "r_detach"} => Closed(v) /\ (NoLoop(v) \/ LoopIs(v, mem[v]))
    /\ pc[v] = "r_detach" => LoopIs(v, mem[v])
    /\ pc[v] \in {"u_forget", "r_put"} => Closed(v) /\ NoLoop(v)
    /\ pc[v] \in {"detach", "attach"} => Down(v)
    /\ pc[v] \in {"crypt", "mount", "put"} => LoopIs(v, dev[v]) /\ mem[v] \notin LoopDevs
    /\ pc[v] = "crypt" => Closed(v) /\ v \in Encrypted
    /\ pc[v] = "mount" => stage[v] = None /\ Mapped(v, dev[v])
    /\ pc[v] = "put" => stage[v] = dev[v] /\ Mapped(v, dev[v])
    /\ pc[v] \notin {"undo", "c_close", "c_detach"}

Tidy ==
    /\ cancelled = {} /\ autoclear = {}
    /\ \A p \in Pods : bind[p] \in LoopDevs => loops[bind[p]] = VolumeOf[p]
    /\ boot # "up" => \A v \in Volumes : pc[v] = "idle" /\ Down(v) /\ mem[v] = None
    /\ \A v \in Volumes : LayersInv(v)

CleanInv == SpareInv /\ (Clean => Tidy)

\* In a clean step every command is in time and succeeds.
LEMMA NothingFails ==
    ASSUME cancelled = {}, Clean'
    PROVE  /\ \A v : InTime(v) /\ ~CmdFails(v) /\ ~Skipped(v) /\ ~Killed(v)
           /\ \A k : Fault(k) => k = "reboot"
           /\ ~FlushFails
  <1>1. ASSUME NEW k, Fault(k) PROVE k = "reboot"
    BY <1>1 DEF Fault, Clean
  <1>2. \A v : InTime(v) /\ ~CmdFails(v) /\ ~Skipped(v) /\ ~Killed(v)
    BY <1>1 DEF InTime, CmdFails, Skipped, Killed
  <1>3. ~FlushFails
    BY <1>1 DEF FlushFails
  <1> QED
    BY <1>1, <1>2, <1>3

\* With no loop device marked, a last close frees none.
LEMMA NothingFreed ==
    ASSUME TypeOK, autoclear = {}, LastClose
    PROVE  loops' = loops /\ autoclear' = {}
  BY DEF TypeOK, LastClose

\* What is open of v's image is what v opened.
LEMMA OpenByOwn ==
    ASSUME TypeOK, Tidy, NEW v \in Volumes
    PROVE  /\ stage[v] # None => loops[stage[v]] = v
           /\ dm[v] # None => loops[dm[v]] = v
           /\ \A d \in LoopDevs : loops[d] = v /\ Spared(v) =>
                (Mounted(d) <=> stage[v] = d) /\ (Held(d) <=> stage[v] = d \/ dm[v] = d)
  <1>1. ASSUME NEW w \in Volumes
        PROVE  /\ stage[w] # None => loops[stage[w]] = w
               /\ dm[w] # None => loops[dm[w]] = w
    <2>1. LayersInv(w) /\ pc[w] \in Pcs
      BY DEF Tidy, TypeOK
    <2>2. \/ Down(w) \/ Up(w, mem[w]) \/ Up(w, None) \/ Closed(w)
          \/ LoopIs(w, dev[w]) /\ stage[w] \in {None, dev[w]} /\ Mapped(w, dev[w])
      BY <2>1 DEF LayersInv, Pcs, StagePcs, UnstagePcs, RestagePcs
    <2> QED
      BY <2>2 DEF Down, Up, Closed, LoopIs, Mapped
  <1>2. ASSUME NEW d \in LoopDevs, loops[d] = v, Spared(v)
        PROVE  (Mounted(d) <=> stage[v] = d) /\ (Held(d) <=> stage[v] = d \/ dm[v] = d)
    <2>1. \A w \in Volumes \ {v} : stage[w] # d /\ dm[w] # d
      BY <1>1, <1>2, ConstantsAssumption
    <2>2. \A p \in Pods : bind[p] # d
      BY <1>2 DEF Tidy, Spared, PodsOf, LoopsOf
    <2> QED
      BY <2>1, <2>2 DEF Mounted, Held
  <1> QED
    BY <1>1, <1>2

\* A clean step of v's call: it leaves the other volumes' loop devices
\* alone and v's layers as they must be, and it lets go of the mutex with v
\* mounted, unless it unstaged v or found no free loop device.
CleanCall(v) ==
    /\ autoclear' = {}
    /\ \A w \in Volumes \ {v}, d \in LoopDevs : loops'[d] = w <=> loops[d] = w
    /\ LayersInv(v)'
    /\ pc'[v] = "idle" =>
         \/ stage'[v] # None \/ pc[v] = "u_forget"
         \/ pc[v] = "attach" /\ \A d \in LoopDevs : loops[d] # None

\* The clean steps of a stage.
LEMMA CleanStage ==
    ASSUME SpareInv, Tidy, Clean', TypeOK', NEW v \in Volumes, Stage(v)
    PROVE  CleanCall(v)
  <1>t. TypeOK /\ LayersInv(v) /\ autoclear = {} /\ BindInv(v)
    BY DEF SpareInv, Tidy
  <1>f. /\ \A w : InTime(w) /\ ~CmdFails(w) /\ ~Skipped(w) /\ ~Killed(w)
        /\ ~FlushFails
    BY NothingFails DEF Tidy
  <1>o. /\ \A ok : Done(v, ok) => pc'[v] = "idle"
        /\ \A l : Goto(v, l) => pc'[v] = l /\ dev' = dev /\ by' = by
    BY <1>t DEF Done, Goto, TypeOK
  <1>1. CASE StageFails(v) \/ StageUndo(v) \/ StageCleanClose(v) \/ StageCleanDetach(v)
    <2>1. FALSE
      BY <1>1, <1>t, <1>f DEF StageFails, StageUndo, StageCleanClose, StageCleanDetach, At, LayersInv
    <2> QED
      BY <2>1
  <1>2. CASE StageAlready(v)
    <2>1. UNCHANGED <<kernel, mem>> /\ pc[v] = "check" /\ stage[v] # None /\ pc'[v] = "idle"
      BY <1>2, <1>o DEF StageAlready, Recorded, At, state
    <2>2. Up(v, mem[v])
      BY <2>1, <1>t DEF LayersInv, Down, Closed
    <2>3. Up(v, mem[v])'
      BY <2>1, <2>2 DEF Up, LoopIs, Mapped, kernel
    <2>4. LayersInv(v)'
      BY <2>1, <2>3 DEF LayersInv
    <2> QED
      BY <2>1, <2>4, <1>t DEF CleanCall, kernel
  <1>3. CASE StageAdopt(v) \/ StageRefuses(v)
    <2>1. pc[v] = "check" /\ ~Recorded(v) /\ (stage[v] # None \/ InUse(v))
      BY <1>3 DEF StageAdopt, StageRefuses, At
    <2>2. CASE Down(v)
      BY <2>1, <2>2 DEF Down, Closed, NoLoop, InUse, LoopsOf
    <2>3. CASE Up(v, mem[v])
      BY <2>1, <2>3, ConstantsAssumption DEF Up, LoopIs, Recorded
    <2> QED
      BY <2>1, <2>2, <2>3, <1>t DEF LayersInv
  <1>4. CASE StageGoesOn(v)
    <2>1. /\ UNCHANGED <<kernel, mem>> /\ pc[v] = "check" /\ pc'[v] = "detach"
          /\ ~Recorded(v) /\ stage[v] = None
      BY <1>4, <1>o DEF StageGoesOn, At, state
    <2>2. Down(v)
      BY <2>1, <1>t, ConstantsAssumption DEF LayersInv, Up, LoopIs, Recorded
    <2>3. Down(v)'
      BY <2>1, <2>2 DEF Down, Closed, NoLoop, kernel
    <2>4. LayersInv(v)'
      BY <2>1, <2>3 DEF LayersInv
    <2> QED
      BY <2>1, <2>4, <1>t DEF CleanCall, kernel
  <1>5. CASE StageDetach(v)
    <2>1. Detach(LoopsOf(v)) /\ UNCHANGED mem /\ pc[v] = "detach" /\ pc'[v] = "attach"
      BY <1>5, <1>f, <1>o DEF StageDetach, At, state
    <2>2. Down(v)
      BY <2>1, <1>t DEF LayersInv
    <2>3. \A d \in LoopDevs : loops'[d] = loops[d]
      BY <2>1, <2>2 DEF Detach, LoopsOf, Down, NoLoop
    <2>4. UNCHANGED <<dm, stage>> /\ autoclear' = {}
      BY <2>1, <2>2, <1>t DEF Detach, LoopsOf, Down, NoLoop
    <2>5. Down(v)'
      BY <2>1, <2>2, <2>3, <2>4 DEF Down, Closed, NoLoop
    <2>6. LayersInv(v)'
      BY <2>1, <2>5 DEF LayersInv
    <2> QED
      BY <2>1, <2>3, <2>4, <2>6 DEF CleanCall
  <1>6. CASE StageAttach(v)
    <2>1. UNCHANGED <<autoclear, dm, stage, mem>> /\ pc[v] = "attach" /\ Down(v)
      BY <1>6, <1>t DEF StageAttach, At, state, LayersInv
    <2>2. CASE \E d \in LoopDevs :
                 /\ loops[d] = None
                 /\ loops' = [loops EXCEPT ![d] = v]
                 /\ pc' = [pc EXCEPT ![v] = IF v \in Encrypted THEN "crypt" ELSE "mount"]
                 /\ dev' = [dev EXCEPT ![v] = d]
      <3>1. PICK d \in LoopDevs :
                 /\ loops[d] = None
                 /\ loops' = [loops EXCEPT ![d] = v]
                 /\ pc' = [pc EXCEPT ![v] = IF v \in Encrypted THEN "crypt" ELSE "mount"]
                 /\ dev' = [dev EXCEPT ![v] = d]
        BY <2>2
      <3>2. /\ dev'[v] = d /\ pc'[v] = IF v \in Encrypted THEN "crypt" ELSE "mount"
            /\ loops'[d] = v /\ \A e \in LoopDevs \ {d} : loops'[e] = loops[e]
        BY <3>1, <1>t DEF TypeOK
      <3>3. LoopIs(v, d)'
        BY <3>2, <2>1 DEF LoopIs, Down, NoLoop
      <3>4. Closed(v)' /\ mem'[v] \notin LoopDevs
        BY <2>1 DEF Down, Closed
      <3>5. LayersInv(v)'
        BY <3>2, <3>3, <3>4 DEF LayersInv, Closed, Mapped
      <3>6. \A w \in Volumes \ {v}, e \in LoopDevs : loops'[e] = w <=> loops[e] = w
        BY <3>1, <3>2, ConstantsAssumption
      <3> QED
        BY <3>2, <3>5, <3>6, <2>1, <1>t DEF CleanCall
    <2>3. CASE /\ UNCHANGED loops /\ Done(v, FALSE)
               /\ \A d \in LoopDevs : loops[d] # None
      <3>1. Down(v)'
        BY <2>1, <2>3 DEF Down, Closed, NoLoop
      <3>2. LayersInv(v)'
        BY <2>3, <3>1, <1>o DEF LayersInv
      <3> QED
        BY <2>1, <2>3, <3>2, <1>t DEF CleanCall
    <2> QED
      BY <1>6, <1>f, <2>2, <2>3 DEF StageAttach
  <1>7. CASE StageCrypt(v)
    <2>1. /\ pc[v] = "crypt" /\ LoopIs(v, dev[v]) /\ mem[v] \notin LoopDevs /\ Closed(v)
          /\ v \in Encrypted
      BY <1>7, <1>t DEF StageCrypt, At, LayersInv
    <2>2. loops[dev[v]] = v
      BY <2>1 DEF LoopIs
    <2>3. /\ dm' = [dm EXCEPT ![v] = dev[v]] /\ UNCHANGED <<loops, autoclear, stage, mem>>
          /\ pc'[v] = "mount" /\ dev' = dev
      BY <1>7, <2>1, <2>2, <1>f, <1>o DEF StageCrypt, state
    <2>4. LoopIs(v, dev[v])' /\ mem'[v] \notin LoopDevs /\ stage'[v] = None /\ Mapped(v, dev[v])'
      BY <2>1, <2>3, <1>t DEF LoopIs, Closed, Mapped, TypeOK
    <2>5. LayersInv(v)'
      BY <2>3, <2>4 DEF LayersInv
    <2> QED
      BY <2>3, <2>5, <1>t DEF CleanCall
  <1>8. CASE StageMount(v)
    <2>1. /\ pc[v] = "mount" /\ LoopIs(v, dev[v]) /\ mem[v] \notin LoopDevs
          /\ Mapped(v, dev[v])
      BY <1>8, <1>t DEF StageMount, At, LayersInv
    <2>2. Mountable(v)
      BY <2>1 DEF LoopIs, Mapped, Mountable
    <2>3. /\ stage' = [stage EXCEPT ![v] = dev[v]] /\ UNCHANGED <<loops, autoclear, dm, mem>>
          /\ pc'[v] = "put" /\ dev' = dev
      BY <1>8, <2>2, <1>f, <1>o DEF StageMount, state
    <2>4. LoopIs(v, dev[v])' /\ mem'[v] \notin LoopDevs /\ stage'[v] = dev'[v] /\ Mapped(v, dev[v])'
      BY <2>1, <2>3, <1>t DEF LoopIs, Mapped, TypeOK
    <2>5. LayersInv(v)'
      BY <2>3, <2>4 DEF LayersInv
    <2> QED
      BY <2>3, <2>5, <1>t DEF CleanCall
  <1>9. CASE StagePut(v)
    <2>1. pc[v] = "put" /\ LoopIs(v, dev[v]) /\ stage[v] = dev[v] /\ Mapped(v, dev[v])
      BY <1>9, <1>t DEF StagePut, At, LayersInv
    <2>2. mem' = [mem EXCEPT ![v] = dev[v]] /\ UNCHANGED kernel /\ pc'[v] = "idle"
      BY <1>9, <1>f, <1>o DEF StagePut, NewEntry
    <2>3. Up(v, mem[v])' /\ stage'[v] # None
      BY <2>1, <2>2, <1>t, ConstantsAssumption DEF Up, LoopIs, Mapped, kernel, TypeOK
    <2>4. LayersInv(v)'
      BY <2>2, <2>3 DEF LayersInv
    <2> QED
      BY <2>2, <2>3, <2>4, <1>t DEF CleanCall, kernel
  <1> QED
    BY <1>1, <1>2, <1>3, <1>4, <1>5, <1>6, <1>7, <1>8, <1>9 DEF Stage

\* The clean steps of popStageMounts and of closing a mapping.
LEMMA CleanRelease ==
    ASSUME SpareInv, Tidy, NEW v \in Volumes
    PROVE  /\ Umount(v) => /\ UNCHANGED <<loops, dm>> /\ autoclear' = {} /\ stage'[v] = None
           /\ Close(v) => /\ UNCHANGED <<loops, stage>> /\ autoclear' = {} /\ dm'[v] = None
           /\ UNCHANGED kernel => UNCHANGED <<loops, dm, stage>> /\ autoclear' = {}
  BY NothingFreed DEF SpareInv, Tidy, Umount, Close, kernel, TypeOK

\* Detaching v's one idle loop device frees it.
LEMMA CleanDetach ==
    ASSUME SpareInv, Tidy, NEW v \in Volumes, Closed(v), Spared(v),
           NEW D, \A d \in LoopDevs : d \in D <=> loops[d] = v, Detach(D)
    PROVE  /\ Closed(v)' /\ NoLoop(v)' /\ autoclear' = {}
           /\ \A w \in Volumes \ {v}, d \in LoopDevs : loops'[d] = w <=> loops[d] = w
  <1>1. \A d \in LoopDevs : d \in D => ~Held(d)
    BY OpenByOwn, ConstantsAssumption DEF SpareInv, Closed
  <1>2. /\ UNCHANGED <<stage, dm>> /\ autoclear' = {}
        /\ \A d \in LoopDevs : loops'[d] = IF loops[d] = v THEN None ELSE loops[d]
    BY <1>1 DEF Detach, Tidy
  <1> QED
    BY <1>2, ConstantsAssumption DEF Closed, NoLoop

\* The clean steps of an unstage and of a re-stage.
LEMMA CleanTeardown ==
    ASSUME SpareInv, Tidy, Clean', TypeOK', NEW v \in Volumes, Unstage(v) \/ Restage(v)
    PROVE  CleanCall(v)
  <1>t. TypeOK /\ LayersInv(v) /\ autoclear = {} /\ BindInv(v)
    BY DEF SpareInv, Tidy
  <1>f. /\ \A w : InTime(w) /\ ~CmdFails(w) /\ ~Skipped(w) /\ ~Killed(w)
        /\ ~Fault("findmnt") /\ ~FlushFails
    BY NothingFails DEF Tidy
  <1>o. /\ \A ok : Done(v, ok) => pc'[v] = "idle"
        /\ \A l : Goto(v, l) => pc'[v] = l /\ dev' = dev /\ by' = by
    BY <1>t DEF Done, Goto, TypeOK
  <1>c. /\ Umount(v) => /\ UNCHANGED <<loops, dm>> /\ autoclear' = {} /\ stage'[v] = None
        /\ Close(v) => /\ UNCHANGED <<loops, stage>> /\ autoclear' = {} /\ dm'[v] = None
        /\ UNCHANGED kernel => UNCHANGED <<loops, dm, stage>> /\ autoclear' = {}
    BY CleanRelease
  <1>s. pc[v] \notin {"idle", "check"} => Spared(v)
    BY <1>t DEF BindInv
  <1>1. CASE PopStage(v, "u_pop", "u_close") \/ PopStage(v, "r_pop", "r_close")
    <2>1. /\ pc[v] \in {"u_pop", "r_pop"} /\ pc'[v] \in {"u_close", "r_close"}
          /\ Umount(v) /\ UNCHANGED mem
      BY <1>1, <1>f, <1>o DEF PopStage, At, state
    <2>2. Down(v) \/ Up(v, mem[v])
      BY <2>1, <1>t DEF LayersInv
    <2>3. Down(v)' \/ Up(v, None)'
      BY <2>1, <2>2, <1>c DEF Down, Closed, NoLoop, Up, LoopIs, Mapped
    <2>4. LayersInv(v)'
      BY <2>1, <2>3 DEF LayersInv
    <2> QED
      BY <2>1, <2>4, <1>c DEF CleanCall
  <1>2. CASE UnstageClose(v) \/ RestageClose(v)
    <2>1. pc[v] \in {"u_close", "r_close"} /\ UNCHANGED mem
      BY <1>2 DEF UnstageClose, RestageClose, At, state
    <2>2. Down(v) \/ Up(v, None)
      BY <2>1, <1>t DEF LayersInv
    <2>3. CanClose(v)
      <3>1. ASSUME dm[v] # None PROVE ~Mounted(dm[v])
        BY <3>1, <2>1, <2>2, <1>t, <1>s, OpenByOwn
           DEF Down, Closed, Up, TypeOK
      <3> QED
        BY <3>1 DEF CanClose
    <2>4. /\ UNCHANGED kernel \/ Close(v)
          /\ mem[v] \in LoopDevs /\ v \in Encrypted => Close(v)
          /\ \/ pc'[v] = "u_detach"
             \/ mem[v] \in LoopDevs /\ pc'[v] = "r_detach"
             \/ mem[v] \notin LoopDevs /\ UNCHANGED kernel /\ pc'[v] = "check"
      <3>1. CASE UnstageClose(v)
        BY <3>1, <2>3, <1>f, <1>o, ConstantsAssumption DEF UnstageClose, CloseOrFail
      <3>2. CASE RestageClose(v)
        BY <3>2, <2>3, <1>f, <1>o DEF RestageClose, CloseOrFail
      <3> QED
        BY <1>2, <3>1, <3>2
    <2>5. CASE Down(v)
      <3>1. Down(v)'
        BY <2>1, <2>4, <2>5, <1>c DEF Down, Closed, NoLoop
      <3>2. LayersInv(v)'
        BY <3>1, <2>4, <2>5 DEF LayersInv, Down
      <3> QED
        BY <3>2, <2>4, <1>c DEF CleanCall
    <2>6. CASE Up(v, None)
      <3>1. LoopIs(v, mem[v])' /\ Closed(v)'
        BY <2>1, <2>4, <2>6, <1>c DEF Up, LoopIs, Mapped, Closed
      <3>2. LayersInv(v)'
        BY <3>1, <2>4, <2>6 DEF LayersInv, Up, LoopIs
      <3> QED
        BY <3>2, <2>4, <2>6, <1>c DEF CleanCall
    <2> QED
      BY <2>2, <2>5, <2>6
  <1>3. CASE UnstageDetach(v)
    <2>1. /\ pc[v] = "u_detach" /\ pc'[v] = "u_forget" /\ UNCHANGED mem
          /\ Detach(LoopsOf(v))
      BY <1>3, <1>f, <1>o DEF UnstageDetach, UnstageLoops, At, state
    <2>2. Closed(v) /\ Spared(v)
      BY <2>1, <1>t, <1>s DEF LayersInv
    <2>3. \A d \in LoopDevs : d \in LoopsOf(v) <=> loops[d] = v
      BY DEF LoopsOf
    <2>4. /\ Closed(v)' /\ NoLoop(v)' /\ autoclear' = {}
          /\ \A w \in Volumes \ {v}, d \in LoopDevs : loops'[d] = w <=> loops[d] = w
      BY <2>1, <2>2, <2>3, CleanDetach
    <2>5. LayersInv(v)'
      BY <2>1, <2>4 DEF LayersInv
    <2> QED
      BY <2>1, <2>4, <2>5 DEF CleanCall
  <1>4. CASE RestageDetach(v)
    <2>1. /\ pc[v] = "r_detach" /\ pc'[v] = "r_put" /\ UNCHANGED mem
          /\ Detach({mem[v]})
      BY <1>4, <1>f, <1>o DEF RestageDetach, At, state
    <2>2. Closed(v) /\ Spared(v) /\ LoopIs(v, mem[v])
      BY <2>1, <1>t, <1>s DEF LayersInv
    <2>3. \A d \in LoopDevs : d \in {mem[v]} <=> loops[d] = v
      BY <2>2 DEF LoopIs
    <2>4. /\ Closed(v)' /\ NoLoop(v)' /\ autoclear' = {}
          /\ \A w \in Volumes \ {v}, d \in LoopDevs : loops'[d] = w <=> loops[d] = w
      BY <2>1, <2>2, <2>3, CleanDetach
    <2>5. LayersInv(v)'
      BY <2>1, <2>4 DEF LayersInv
    <2> QED
      BY <2>1, <2>4, <2>5 DEF CleanCall
  <1>5. CASE UnstageForget(v) \/ RestagePut(v)
    <2>1. /\ UNCHANGED kernel /\ Closed(v) /\ NoLoop(v)
          /\ mem'[v] \in {None, Released}
          /\ (pc[v] = "u_forget" /\ pc'[v] = "idle") \/ pc'[v] = "check"
      BY <1>5, <1>f, <1>o, <1>t DEF UnstageForget, RestagePut, At, LayersInv, TypeOK
    <2>2. Down(v)'
      BY <2>1, ConstantsAssumption DEF Down, Closed, NoLoop, kernel
    <2>3. LayersInv(v)'
      BY <2>1, <2>2 DEF LayersInv
    <2> QED
      BY <2>1, <2>3, <1>c DEF CleanCall
  <1> QED
    BY <1>1, <1>2, <1>3, <1>4, <1>5 DEF Unstage, Restage

\* A volume whose call, mounts, entry and loop devices a step leaves alone.
LEMMA LayersStill ==
    ASSUME NEW w \in Volumes, LayersInv(w),
           pc'[w] = pc[w], dev'[w] = dev[w], by'[w] = by[w], mem'[w] = mem[w],
           stage'[w] = stage[w], dm'[w] = dm[w],
           \A d \in LoopDevs : loops'[d] = w <=> loops[d] = w
    PROVE  LayersInv(w)' /\ (Down(w) => Down(w)')
  <1>1. /\ Closed(w)' <=> Closed(w)
        /\ NoLoop(w)' <=> NoLoop(w)
        /\ Down(w)' <=> Down(w)
        /\ LoopIs(w, mem[w])' <=> LoopIs(w, mem[w])
        /\ LoopIs(w, dev[w])' <=> LoopIs(w, dev[w])
        /\ Mapped(w, dev[w])' <=> Mapped(w, dev[w])
        /\ Up(w, None)' <=> Up(w, None)
        /\ Up(w, mem[w])' <=> Up(w, mem[w])
    BY DEF Closed, NoLoop, Down, LoopIs, Mapped, Up
  <1> QED
    BY <1>1 DEF LayersInv

\* What a pod has is of its own volume, and no step but a bind changes that.
LEMMA BindsStill ==
    ASSUME TypeOK, Tidy, Settled, \A p \in Pods : bind'[p] \in {bind[p], None}
    PROVE  \A p \in Pods : bind'[p] \in LoopDevs => loops'[bind'[p]] = VolumeOf[p]
  <1>1. SUFFICES ASSUME NEW p \in Pods, bind'[p] \in LoopDevs
                 PROVE  loops'[bind'[p]] = VolumeOf[p]
    OBVIOUS
  <1>2. bind'[p] = bind[p] /\ loops[bind[p]] = VolumeOf[p]
    BY <1>1, ConstantsAssumption DEF Tidy
  <1>3. Held(bind[p])'
    BY <1>2 DEF Held, Mounted
  <1> QED
    BY <1>1, <1>2, <1>3 DEF Settled

\* A clean step of v's call.
LEMMA TidyCall ==
    ASSUME SpareInv, Tidy, Clean', TypeOK', Settled, NEW v \in Volumes,
           Stage(v) \/ Unstage(v) \/ Restage(v)
    PROVE  Tidy' /\ CleanCall(v)
  <1>1. CleanCall(v)
    BY CleanStage, CleanTeardown
  <1>2. CallStep(v) /\ TypeOK
    BY CallSteps DEF SpareInv
  <1>3. \A w \in Volumes \ {v} : LayersInv(w)'
    BY <1>1, <1>2, LayersStill DEF CleanCall, CallStep, Tidy
  <1>4. cancelled' = {}
    BY <1>2 DEF CallStep, Done, Tidy
  <1>5. \A p \in Pods : bind'[p] \in LoopDevs => loops'[bind'[p]] = VolumeOf[p]
    BY <1>2, BindsStill DEF CallStep
  <1>6. boot' = "up"
    BY <1>2 DEF CallStep
  <1> QED
    BY <1>1, <1>3, <1>4, <1>5, <1>6 DEF Tidy, CleanCall

\* The steps that leave loop devices, mappings, stages and entries alone,
\* and start a call at most.
LEMMA TidyElsewhere ==
    ASSUME TypeOK, Tidy, boot' = boot, cancelled' = {}, autoclear' = {},
           UNCHANGED <<loops, dm, stage, mem, dev>>,
           \A p \in Pods : bind'[p] \in LoopDevs => loops'[bind'[p]] = VolumeOf[p],
           \A w \in Volumes :
              \/ pc'[w] = pc[w] /\ by'[w] = by[w]
              \/ /\ boot = "up" /\ pc[w] = "idle"
                 /\ pc'[w] \in {"u_pop", "r_pop"} \/ (pc'[w] = "check" /\ by'[w] = w)
    PROVE  Tidy'
  <1>1. ASSUME NEW w \in Volumes PROVE LayersInv(w)'
    <2>1. LayersInv(w)
      BY DEF Tidy
    <2>2. CASE pc'[w] = pc[w] /\ by'[w] = by[w]
      BY <2>1, <2>2, LayersStill
    <2>3. CASE pc[w] = "idle" /\ (pc'[w] \in {"u_pop", "r_pop"} \/ (pc'[w] = "check" /\ by'[w] = w))
      <3>1. Down(w) \/ Up(w, mem[w])
        BY <2>1, <2>3 DEF LayersInv
      <3>2. Down(w)' \/ Up(w, mem[w])'
        BY <3>1 DEF Down, Closed, NoLoop, Up, LoopIs, Mapped
      <3> QED
        BY <2>3, <3>2 DEF LayersInv
    <2> QED
      BY <2>2, <2>3
  <1>2. boot' # "up" => \A w \in Volumes : pc'[w] = "idle" /\ Down(w)' /\ mem'[w] = None
    BY DEF Tidy, Down, Closed, NoLoop
  <1> QED
    BY <1>1, <1>2 DEF Tidy

\* The kubelet's calls, the publishes and the monitor, in a clean step.
LEMMA TidyCalls ==
    ASSUME SpareInv, Tidy, Clean', TypeOK', Settled,
           \/ \E v \in Volumes : StageBegin(v) \/ UnstageBegin(v) \/ TickVolume(v)
           \/ \E p \in Pods : PublishBegin(p) \/ PublishLock(p) \/ PublishBind(p) \/ Unpublish(p)
           \/ \E r \in Requests : Timeout(r)
           \/ \E d \in LoopDevs : ForceReadOnly(d)
           \/ TickRead \/ TickList \/ UNCHANGED vars
    PROVE  Tidy'
  <1>t. TypeOK /\ cancelled = {} /\ autoclear = {}
    BY DEF SpareInv, Tidy
  <1>f. \A k : Fault(k) => k = "reboot"
    BY NothingFails DEF Tidy
  <1>b. (\A p \in Pods : bind'[p] \in {bind[p], None}) =>
           \A p \in Pods : bind'[p] \in LoopDevs => loops'[bind'[p]] = VolumeOf[p]
    BY <1>t, BindsStill
  <1>1. ASSUME NEW v \in Volumes, StageBegin(v) \/ UnstageBegin(v) PROVE Tidy'
    <2>1. /\ boot = "up" /\ UNCHANGED <<kernel, boot, mem, dev, cancelled>> /\ pc[v] = "idle"
          /\ pc' = [pc EXCEPT ![v] = "check"] \/ pc' = [pc EXCEPT ![v] = "u_pop"]
          /\ by' = [by EXCEPT ![v] = v]
      BY <1>1 DEF StageBegin, UnstageBegin, Lock, state
    <2>2. \A w \in Volumes :
              \/ pc'[w] = pc[w] /\ by'[w] = by[w]
              \/ /\ boot = "up" /\ pc[w] = "idle"
                 /\ pc'[w] \in {"u_pop", "r_pop"} \/ (pc'[w] = "check" /\ by'[w] = w)
      BY <2>1, <1>t DEF TypeOK
    <2> QED
      BY <2>1, <2>2, <1>t, <1>b, TidyElsewhere DEF kernel
  <1>2. ASSUME NEW p \in Pods, PublishLock(p) PROVE Tidy'
    <2>1. /\ boot = "up" /\ UNCHANGED <<kernel, boot, mem, dev>> /\ cancelled' \subseteq cancelled
          /\ pc[VolumeOf[p]] = "idle"
          /\ \/ UNCHANGED <<pc, by>>
             \/ /\ pc' = [pc EXCEPT ![VolumeOf[p]] = "r_pop"]
                /\ by' = [by EXCEPT ![VolumeOf[p]] = p]
      BY <1>2 DEF PublishLock, state
    <2>2. \A w \in Volumes :
              \/ pc'[w] = pc[w] /\ by'[w] = by[w]
              \/ boot = "up" /\ pc[w] = "idle" /\ pc'[w] = "r_pop"
      BY <2>1, <1>t DEF TypeOK
    <2> QED
      BY <2>1, <2>2, <1>t, <1>b, TidyElsewhere DEF kernel
  <1>3. ASSUME NEW p \in Pods, PublishBind(p) PROVE Tidy'
    <2>1. /\ UNCHANGED <<loops, autoclear, dm, stage, boot, mem, op>>
          /\ cancelled' \subseteq cancelled
          /\ bind' = bind \/ bind' = [bind EXCEPT ![p] = StagedTree(VolumeOf[p])]
      BY <1>3 DEF PublishBind, state
    <2>2. \A q \in Pods : bind'[q] \in LoopDevs => loops'[bind'[q]] = VolumeOf[q]
      <3>1. VolumeOf[p] \in Volumes
        BY ConstantsAssumption
      <3>2. StagedTree(VolumeOf[p]) \in LoopDevs => loops[StagedTree(VolumeOf[p])] = VolumeOf[p]
        BY <3>1, <1>t, OpenByOwn, ConstantsAssumption DEF StagedTree
      <3> QED
        BY <2>1, <3>2, <1>t DEF Tidy, TypeOK
    <2> QED
      BY <2>1, <2>2, <1>t, TidyElsewhere DEF op
  <1>4. ASSUME NEW p \in Pods, Unpublish(p) PROVE Tidy'
    <2>1. /\ UNCHANGED <<dm, stage, boot, mem, op, cancelled>> /\ LastClose
          /\ \A q \in Pods : bind'[q] \in {bind[q], None}
      BY <1>4, <1>t DEF Unpublish, state, TypeOK
    <2>2. loops' = loops /\ autoclear' = {}
      BY <2>1, <1>t, NothingFreed
    <2> QED
      BY <2>1, <2>2, <1>t, <1>b, TidyElsewhere DEF op
  <1>5. ASSUME \/ \E v \in Volumes : TickVolume(v)
               \/ \E p \in Pods : PublishBegin(p)
               \/ \E d \in LoopDevs : ForceReadOnly(d)
               \/ TickRead \/ TickList \/ UNCHANGED vars
        PROVE  Tidy'
    <2>1. UNCHANGED <<loops, autoclear, dm, stage, bind, boot, mem, op, cancelled>>
      BY <1>5 DEF TickVolume, PublishBegin, ForceReadOnly, TickRead, TickList, vars, kernel, state
    <2> QED
      BY <2>1, <1>t, <1>b, TidyElsewhere DEF op
  <1>6. ASSUME NEW r \in Requests, Timeout(r) PROVE FALSE
    BY <1>6, <1>f DEF Timeout
  <1> QED
    BY <1>1, <1>2, <1>3, <1>4, <1>5, <1>6

\* A reboot and start-up, in a clean step: nothing is left of any volume.
LEMMA TidyRestart ==
    ASSUME SpareInv, Tidy, Clean', TypeOK', Settled,
           \/ Crash \/ Reboot
           \/ ReconcileDrop \/ ReconcileFails \/ ReconcileClose \/ ReconcileDetach
    PROVE  Tidy'
  <1>t. TypeOK /\ cancelled = {} /\ autoclear = {}
    BY DEF SpareInv, Tidy
  <1>f. /\ \A k : Fault(k) => k = "reboot"
        /\ ~FlushFails
    BY NothingFails DEF Tidy
  <1>d. ASSUME boot # "up" PROVE \A v \in Volumes : pc[v] = "idle" /\ Down(v) /\ mem[v] = None
    BY <1>d DEF Tidy
  <1>1. ASSUME \A v \in Volumes : pc'[v] = "idle" /\ Down(v)' /\ mem'[v] = None,
               cancelled' = {}, autoclear' = {}, \A p \in Pods : bind'[p] \in {bind[p], None}
        PROVE  Tidy'
    <2>1. \A v \in Volumes : LayersInv(v)'
      BY <1>1 DEF LayersInv
    <2>2. \A p \in Pods : bind'[p] \in LoopDevs => loops'[bind'[p]] = VolumeOf[p]
      BY <1>1, <1>t, BindsStill
    <2> QED
      BY <1>1, <2>1, <2>2 DEF Tidy
  <1>2. CASE Crash \/ ReconcileFails
    BY <1>2, <1>f DEF Crash, ReconcileFails
  <1>3. CASE Reboot
    <2>1. \A v \in Volumes : Down(v)'
      BY <1>3, ConstantsAssumption DEF Reboot, ProcessDies, Down, Closed, NoLoop
    <2> QED
      BY <1>3, <2>1, <1>1 DEF Reboot, ProcessDies
  <1>4. CASE ReconcileDrop
    <2>1. /\ boot # "up" /\ UNCHANGED <<kernel, op, cancelled>>
          /\ mem' = [v \in Volumes |-> IF Stale(v, disk[v]) THEN None ELSE disk[v]]
      BY <1>4 DEF ReconcileDrop
    <2>2. \A v \in Volumes : pc[v] = "idle" /\ Down(v)
      BY <2>1, <1>d
    <2>3. \A v \in Volumes : mem'[v] = None
      BY <2>1, <2>2 DEF Stale, Down, NoLoop
    <2>4. \A v \in Volumes : Down(v)'
      BY <2>1, <2>2, <2>3, ConstantsAssumption DEF Down, Closed, NoLoop, kernel
    <2> QED
      BY <2>1, <2>2, <2>3, <2>4, <1>1, <1>t DEF kernel, op
  <1>5. CASE ReconcileClose
    <2>1. /\ boot # "up" /\ UNCHANGED <<stage, bind, mem, op, cancelled>> /\ LastClose
          /\ \A v \in Volumes : dm'[v] \in {dm[v], None}
      BY <1>5 DEF ReconcileClose, state
    <2>2. loops' = loops /\ autoclear' = {}
      BY <2>1, <1>t, NothingFreed
    <2>3. \A v \in Volumes : pc[v] = "idle" /\ Down(v) /\ mem[v] = None
      BY <2>1, <1>d
    <2>4. \A v \in Volumes : Down(v)'
      BY <2>1, <2>2, <2>3 DEF Down, Closed, NoLoop
    <2> QED
      BY <2>1, <2>2, <2>3, <2>4, <1>1, <1>t DEF op
  <1>6. CASE ReconcileDetach
    <2>1. /\ boot # "up" /\ UNCHANGED <<mem, op, cancelled>>
          /\ \E D : Detach(D) /\ \A d \in LoopDevs : d \in D => loops[d] # None
      BY <1>6 DEF ReconcileDetach, state
    <2>2. \A v \in Volumes : pc[v] = "idle" /\ Down(v) /\ mem[v] = None
      BY <2>1, <1>d
    <2>3. \A d \in LoopDevs : loops[d] = None
      BY <2>2, <1>t DEF Down, NoLoop, TypeOK
    <2>4. /\ UNCHANGED <<dm, stage, bind>> /\ autoclear' = {}
          /\ \A d \in LoopDevs : loops'[d] = loops[d]
      BY <2>1, <2>3, <1>t DEF Detach
    <2>5. \A v \in Volumes : Down(v)'
      BY <2>1, <2>2, <2>4 DEF Down, Closed, NoLoop
    <2> QED
      BY <2>1, <2>2, <2>4, <2>5, <1>1, <1>t DEF op
  <1> QED
    BY <1>2, <1>3, <1>4, <1>5, <1>6

\* No step takes a fault back.
LEMMA HappenedGrows ==
    ASSUME TypeOK, [Next]_vars
    PROVE  happened \subseteq happened'
  <1>1. ASSUME NEW v \in Volumes, Stage(v) \/ Unstage(v) \/ Restage(v)
        PROVE  happened \subseteq happened'
    BY <1>1, CallSteps DEF CallStep
  <1>2. ASSUME \/ \E v \in Volumes : StageBegin(v) \/ UnstageBegin(v) \/ TickVolume(v)
               \/ \E p \in Pods : PublishBegin(p) \/ PublishLock(p) \/ PublishBind(p) \/ Unpublish(p)
               \/ \E r \in Requests : Timeout(r)
               \/ \E d \in LoopDevs : ForceReadOnly(d)
               \/ TickRead \/ TickList \/ UNCHANGED vars
        PROVE  happened \subseteq happened'
    BY <1>2, FaultsGrow DEF StageBegin, UnstageBegin, Lock, TickVolume, PublishBegin, PublishLock,
       PublishBind, Unpublish, Timeout, ForceReadOnly, TickRead, TickList, vars
  <1>3. ASSUME \/ Crash \/ Reboot
               \/ ReconcileDrop \/ ReconcileFails \/ ReconcileClose \/ ReconcileDetach
        PROVE  happened \subseteq happened'
    BY <1>3, FaultsGrow DEF Crash, Reboot, ReconcileDrop, ReconcileFails, ReconcileClose,
       ReconcileDetach, Skips
  <1> QED
    BY <1>1, <1>2, <1>3 DEF Next

\* Every step keeps the layers while nothing has gone wrong.
LEMMA CleanStep ==
    ASSUME Serial, CleanInv, [Next]_vars
    PROVE  CleanInv'
  <1>1. SpareInv /\ SpareInv' /\ TypeOK' /\ Settled
    BY SpareStep, SettledStep DEF CleanInv, SpareInv
  <1>2. ASSUME Clean' PROVE Tidy'
    <2>1. Clean
      BY <1>1, <1>2, HappenedGrows DEF Clean, SpareInv
    <2>2. Tidy
      BY <2>1 DEF CleanInv
    <2> QED
      BY <1>1, <1>2, <2>2, TidyCall, TidyCalls, TidyRestart DEF Next
  <1> QED
    BY <1>1, <1>2 DEF CleanInv

\* A fresh node is tidy.
LEMMA CleanInit == Init => CleanInv
  <1> SUFFICES ASSUME Init PROVE Tidy
    BY SpareInit DEF CleanInv
  <1>1. \A v \in Volumes : Down(v) /\ mem[v] = None /\ pc[v] = "idle"
    BY ConstantsAssumption DEF Init, Down, Closed, NoLoop
  <1>2. \A v \in Volumes : LayersInv(v)
    BY <1>1 DEF LayersInv
  <1> QED
    BY <1>1, <1>2, ConstantsAssumption DEF Init, Tidy

\* A tidy node has one loop device per image at most.
LEMMA TidyLoops ==
    ASSUME TypeOK, Tidy
    PROVE  OneLoopPerImage
  <1>1. ASSUME NEW v \in Volumes PROVE NoLoop(v) \/ \E d \in LoopDevs : LoopIs(v, d)
    <2>1. LayersInv(v) /\ pc[v] \in Pcs
      BY DEF Tidy, TypeOK
    <2>2. \/ Down(v) \/ Up(v, mem[v]) \/ Up(v, None) \/ NoLoop(v)
          \/ LoopIs(v, dev[v]) \/ LoopIs(v, mem[v])
      BY <2>1 DEF LayersInv, Pcs, StagePcs, UnstagePcs, RestagePcs
    <2> QED
      BY <2>2 DEF Down, Up, LoopIs
  <1> QED
    BY <1>1 DEF OneLoopPerImage, NoLoop, LoopIs, TypeOK

\* As long as nothing but reboots disturbs them, stages, re-stages and
\* unstages of any number of volumes keep one loop device per image, every
\* mount of the volume's own filesystem and every entry of the volume's own
\* loop device, although filesystems go read-only, monitor ticks work on
\* old mountinfo and stages find the loop pool exhausted (node.go
\* stageLocked, restageFailed, NodeUnstageVolume).
THEOREM RestagesAreSafe ==
    ASSUME Serial
    PROVE  Spec => [](happened \subseteq {"reboot"} =>
                        OneLoopPerImage /\ OwnFilesystem /\ EntryNamesOwnLoop)
  <1>1. CleanInv /\ [Next]_vars => CleanInv'
    BY CleanStep
  <1>2. ASSUME CleanInv, happened \subseteq {"reboot"}
        PROVE  OneLoopPerImage /\ OwnFilesystem /\ EntryNamesOwnLoop
    <2>1. TypeOK /\ Tidy
      BY <1>2 DEF CleanInv, Clean, SpareInv
    <2>2. OneLoopPerImage
      BY <2>1, TidyLoops
    <2>3. OwnFilesystem
      BY <2>1, OpenByOwn DEF OwnFilesystem, Tidy
    <2>4. EntryNamesOwnLoop
      BY <2>1 DEF EntryNamesOwnLoop, Tidy, LayersInv, Down, Up, LoopIs
    <2> QED
      BY <2>2, <2>3, <2>4
  <1> QED
    BY <1>1, <1>2, CleanInit, PTL DEF Spec

\* With or without filesystems that go read-only, the loop device the entry
\* of a staged volume names is the volume's own whenever no call runs for it,
\* until one of the faults happens that entries do not outlive (loop.State,
\* restageFailed, NodeExpandVolume).
THEOREM RestagedEntriesAreOwn ==
    ASSUME Serial
    PROVE  Spec => []EntryNamesOwnLoop
  <1>1. CASE "ioerror" \in Hazards
    <2>1. (happened \subseteq {"reboot"} => OneLoopPerImage /\ OwnFilesystem /\ EntryNamesOwnLoop)
             => EntryNamesOwnLoop
      BY <1>1 DEF EntryNamesOwnLoop, EntryOutlives
    <2> QED
      BY <2>1, RestagesAreSafe, PTL
  <1>2. CASE "ioerror" \notin Hazards
    BY <1>2, EntriesAreOwn
  <1> QED
    BY <1>1, <1>2

\* As long as nothing but reboots disturbs them, an unstage that reports
\* success leaves no mount, no mapping and no loop device behind, however
\* often the volume was re-staged and its filesystem went read-only before
\* (node.go NodeUnstageVolume).
THEOREM RestagedUnstagesLeaveNothing ==
    ASSUME Serial
    PROVE  Spec => [][\A v \in Volumes :
                        happened \subseteq {"reboot"}
                           /\ pc[v] = "u_forget" /\ boot' = "up" /\ pc'[v] = "idle"
                           => stage[v] = None /\ dm[v] = None /\ LoopsOf(v) = {}]_vars
  <1>1. CleanInv /\ [Next]_vars => CleanInv'
    BY CleanStep
  <1>2. CleanInv =>
          [\A v \in Volumes :
             happened \subseteq {"reboot"}
                /\ pc[v] = "u_forget" /\ boot' = "up" /\ pc'[v] = "idle"
                => stage[v] = None /\ dm[v] = None /\ LoopsOf(v) = {}]_vars
    BY DEF CleanInv, Clean, Tidy, LayersInv, Closed, NoLoop, LoopsOf
  <1> QED
    BY <1>1, <1>2, CleanInit, PTL DEF Spec

-----------------------------------------------------------------------------
(***************************************************************************)
(* The empty staging directory.  What is left to say is that a volume the  *)
(* kubelet holds as staged is mounted whenever no call holds its mutex: a  *)
(* clean re-stage that frees its loop device finds a free one.             *)
(***************************************************************************)

\* A stage that gets to losetup --find finds a free loop device.
PoolHasRoom ==
    \A v \in Volumes : pc[v] = "attach" => \E d \in LoopDevs : loops[d] = None

ReadyInv ==
    /\ CleanInv /\ KeyInv
    /\ Clean =>
         /\ NeverBare
         /\ boot # "up" => kstaged = {}
         /\ \A v \in kstaged : pc[v] = "idle" => stage[v] # None
         /\ \A p \in Pods : pub[p] # "idle" => VolumeOf[p] \in kstaged

\* Every step keeps staged volumes mounted while there is room.
LEMMA ReadyStep ==
    ASSUME Serial, ReadyInv, Clean => PoolHasRoom, [Next]_vars
    PROVE  ReadyInv'
  <1>1. CleanInv' /\ KeyInv'
    BY CleanStep, KeyStep DEF ReadyInv
  <1>2. SUFFICES ASSUME Clean'
                 PROVE  /\ NeverBare'
                        /\ boot' # "up" => kstaged' = {}
                        /\ \A v \in kstaged' : pc'[v] = "idle" => stage'[v] # None
                        /\ \A p \in Pods : pub'[p] # "idle" => VolumeOf[p] \in kstaged'
    BY <1>1 DEF ReadyInv
  <1>3. SpareInv /\ TypeOK /\ TypeOK' /\ Settled
    BY <1>1, SettledStep DEF ReadyInv, CleanInv, SpareInv
  <1>4. Clean /\ Tidy
    BY <1>2, <1>3, HappenedGrows DEF Clean, ReadyInv, CleanInv
  <1>5. /\ PoolHasRoom /\ NeverBare
        /\ boot # "up" => kstaged = {}
        /\ \A v \in kstaged : pc[v] = "idle" => stage[v] # None
        /\ \A p \in Pods : pub[p] # "idle" => VolumeOf[p] \in kstaged
        /\ \A v \in Volumes : pc[v] \in UnstagePcs => v \notin kstaged
    BY <1>4 DEF ReadyInv, KeyInv
  <1>f. \A k : Fault(k) => k = "reboot"
    BY <1>2, <1>4, NothingFails DEF Tidy
  <1> DEFINE Goal == /\ NeverBare'
                     /\ boot' # "up" => kstaged' = {}
                     /\ \A v \in kstaged' : pc'[v] = "idle" => stage'[v] # None
                     /\ \A p \in Pods : pub'[p] # "idle" => VolumeOf[p] \in kstaged'
  <1>6. ASSUME NEW v \in Volumes, Stage(v) \/ Unstage(v) \/ Restage(v) PROVE Goal
    <2>1. CallStep(v) /\ CleanCall(v)
      BY <1>2, <1>3, <1>4, <1>6, CallSteps, TidyCall
    <2>2. kstaged \subseteq kstaged' /\ kstaged' \subseteq kstaged \cup {v}
      BY <2>1 DEF CallStep, Done
    <2>3. pc'[v] = "idle" /\ v \in kstaged' => stage'[v] # None
      <3>1. CASE pc[v] = "u_forget"
        <4>1. v \notin kstaged
          BY <3>1, <1>5 DEF UnstagePcs
        <4>2. kstaged' = kstaged
          BY <3>1, <2>1 DEF CallStep, Done, StagePcs
        <4> QED
          BY <4>1, <4>2
      <3>2. CASE pc[v] # "u_forget"
        BY <3>2, <2>1, <1>5 DEF CleanCall, PoolHasRoom
      <3> QED
        BY <3>1, <3>2
    <2>4. \A p \in Pods : pub'[p] # "idle" => pub[p] # "idle"
      <3>1. by[v] \in Pods => pub[by[v]] # "idle"
        BY <1>3, <2>1, ConstantsAssumption DEF SpareInv, CallsInv, CallStep, PodsOf
      <3> QED
        BY <2>1, <3>1 DEF CallStep, Done
    <2>5. /\ bind' = bind /\ boot' = "up"
          /\ \A w \in Volumes \ {v} : stage'[w] = stage[w] /\ pc'[w] = pc[w]
      BY <2>1 DEF CallStep
    <2>6. \A w \in kstaged' : pc'[w] = "idle" => stage'[w] # None
      BY <2>2, <2>3, <2>5, <1>3, <1>5 DEF TypeOK
    <2> QED
      BY <2>2, <2>4, <2>5, <2>6, <1>5 DEF NeverBare
  <1>7. ASSUME NEW v \in Volumes, StageBegin(v) \/ UnstageBegin(v) PROVE Goal
    <2>1. /\ UNCHANGED <<stage, bind, pub>> /\ boot' = "up"
          /\ pc'[v] # "idle" /\ \A w \in Volumes \ {v} : pc'[w] = pc[w]
          /\ \/ kstaged' = kstaged
             \/ kstaged' = kstaged \ {v} /\ \A p \in PodsOf(v) : pub[p] = "idle"
      BY <1>7, <1>3 DEF StageBegin, UnstageBegin, Lock, Quiet, kernel, TypeOK
    <2>2. \A p \in Pods : pub'[p] # "idle" => VolumeOf[p] \in kstaged'
      BY <2>1, <1>5 DEF PodsOf
    <2>3. \A w \in kstaged' : pc'[w] = "idle" => stage'[w] # None
      BY <2>1, <1>3, <1>5 DEF TypeOK
    <2> QED
      BY <2>1, <2>2, <2>3, <1>5 DEF NeverBare
  <1>8. ASSUME NEW p \in Pods, PublishBegin(p) \/ PublishLock(p) PROVE Goal
    <2>1. /\ UNCHANGED <<stage, bind, kstaged>> /\ boot' = "up"
          /\ \A w \in Volumes : pc'[w] = pc[w] \/ pc'[w] # "idle"
          /\ \A q \in Pods \ {p} : pub'[q] = pub[q]
          /\ VolumeOf[p] \in kstaged
      BY <1>8, <1>3, <1>5 DEF PublishBegin, PublishLock, kernel, op, TypeOK
    <2> QED
      BY <2>1, <1>3, <1>5 DEF NeverBare, TypeOK
  <1>9. ASSUME NEW p \in Pods, PublishBind(p) PROVE Goal
    <2>1. /\ UNCHANGED <<stage, kstaged, pc>> /\ boot' = "up" /\ pub[p] = "bind"
          /\ \A q \in Pods : pub'[q] \in {pub[q], "idle"}
          /\ bind' = bind \/ bind' = [bind EXCEPT ![p] = StagedTree(VolumeOf[p])]
      BY <1>9, <1>3 DEF PublishBind, op, TypeOK
    <2>2. p \in PodsOf(VolumeOf[p]) /\ VolumeOf[p] \in Volumes
      BY ConstantsAssumption DEF PodsOf
    <2>3. pc[VolumeOf[p]] = "idle"
      BY <2>1, <2>2, <1>3 DEF SpareInv, CallsInv
    <2>4. stage[VolumeOf[p]] # None
      BY <2>1, <2>3, <1>5
    <2>5. StagedTree(VolumeOf[p]) # Bare
      BY <2>2, <2>4, <1>3, ConstantsAssumption DEF StagedTree, TypeOK
    <2>6. NeverBare'
      BY <2>1, <2>5, <1>3, <1>5 DEF NeverBare, TypeOK
    <2> QED
      BY <2>1, <2>6, <1>5
  <1>10. ASSUME NEW p \in Pods, Unpublish(p) PROVE Goal
    <2>1. /\ UNCHANGED <<stage, kstaged, pc, pub>> /\ boot' = "up"
          /\ \A q \in Pods : bind'[q] \in {bind[q], None}
      BY <1>10, <1>3 DEF Unpublish, op, TypeOK
    <2> QED
      BY <2>1, <1>5, ConstantsAssumption DEF NeverBare
  <1>11. ASSUME \/ \E v \in Volumes : TickVolume(v)
                \/ \E d \in LoopDevs : ForceReadOnly(d)
                \/ TickRead \/ TickList \/ UNCHANGED vars
         PROVE  Goal
    <2>1. UNCHANGED <<stage, bind, kstaged, pc, pub, boot>>
      BY <1>11 DEF TickVolume, ForceReadOnly, TickRead, TickList, vars, kernel, op
    <2> QED
      BY <2>1, <1>5 DEF NeverBare
  <1>12. ASSUME Reboot PROVE Goal
    BY <1>12, ConstantsAssumption DEF Reboot, ProcessDies, NeverBare
  <1>13. ASSUME ReconcileDrop \/ ReconcileClose \/ ReconcileDetach PROVE Goal
    <2>1. UNCHANGED <<stage, bind, kstaged, pc, pub>> /\ boot # "up"
      BY <1>13 DEF ReconcileDrop, ReconcileClose, ReconcileDetach, Detach, kernel, op
    <2> QED
      BY <2>1, <1>5 DEF NeverBare
  <1>14. ASSUME Crash \/ ReconcileFails \/ \E r \in Requests : Timeout(r) PROVE FALSE
    BY <1>14, <1>f DEF Crash, ReconcileFails, Timeout
  <1> QED
    BY <1>6, <1>7, <1>8, <1>9, <1>10, <1>11, <1>12, <1>13, <1>14 DEF Next

\* Nothing is published in a fresh node.
LEMMA ReadyInit == Init => ReadyInv
  <1>1. Init => KeyInv
    BY CleanInit DEF Init, KeyInv, KeyHeldWhileStaged, CleanInv, SpareInv
  <1> QED
    BY <1>1, CleanInit, ConstantsAssumption DEF Init, ReadyInv, NeverBare

\* A pool with a loop device for every volume has room for every stage:
\* each of the others has one at most.
LEMMA RoomForAll ==
    ASSUME CleanInv, Clean, IsFiniteSet(Volumes), IsFiniteSet(LoopDevs),
           Cardinality(Volumes) <= Cardinality(LoopDevs)
    PROVE  PoolHasRoom
  <1>1. SUFFICES ASSUME NEW v \in Volumes, pc[v] = "attach", \A d \in LoopDevs : loops[d] # None
                 PROVE  FALSE
    BY DEF PoolHasRoom
  <1>2. Tidy /\ TypeOK /\ NoLoop(v)
    BY <1>1 DEF CleanInv, SpareInv, Tidy, LayersInv, Down
  <1>3. loops \in [LoopDevs -> Volumes \ {v}]
    BY <1>1, <1>2 DEF TypeOK, NoLoop
  <1>4. /\ IsFiniteSet(Volumes \ {v}) /\ Cardinality(Volumes \ {v}) = Cardinality(Volumes) - 1
        /\ Cardinality(Volumes) \in Nat /\ Cardinality(LoopDevs) \in Nat
    BY FS_RemoveElement, FS_CardinalityType
  <1>5. Cardinality(Volumes \ {v}) < Cardinality(LoopDevs)
    BY <1>4
  <1>6. \E d, e \in LoopDevs : d # e /\ loops[d] = loops[e]
    BY <1>3, <1>4, <1>5, FS_PigeonHole
  <1>7. OneLoopPerImage
    BY <1>2, TidyLoops
  <1> QED
    BY <1>1, <1>6, <1>7 DEF OneLoopPerImage

\* As long as no re-stage is interrupted, and every stage finds a free loop
\* device, no pod is ever handed the empty directory under a staging path:
\* neither re-stages nor ticks that work on an old mountinfo and clear a
\* mark in the middle of one let a publish through before the volume is
\* mounted again (node.go NodePublishVolume, restageFailed, monitor.go
\* Tick).  Without the room it is false: losetup finds the pool exhausted
\* after the re-stage has given its loop device back.
THEOREM NeverBareWithRoom ==
    ASSUME Serial
    PROVE  Spec /\ []PoolHasRoom => [](happened \subseteq {"reboot"} => NeverBare)
  <1>1. ReadyInv /\ PoolHasRoom /\ [Next]_vars => ReadyInv'
    BY ReadyStep
  <1>2. ReadyInv => (happened \subseteq {"reboot"} => NeverBare)
    BY DEF ReadyInv, Clean
  <1> QED
    BY <1>1, <1>2, ReadyInit, PTL DEF Spec

\* The same where the pool has a loop device for every volume.
LEMMA NeverBareSerially ==
    ASSUME Serial, IsFiniteSet(Volumes), IsFiniteSet(LoopDevs),
           Cardinality(Volumes) <= Cardinality(LoopDevs)
    PROVE  Spec => [](Clean => NeverBare)
  <1>1. ReadyInv /\ Clean => PoolHasRoom
    BY RoomForAll DEF ReadyInv
  <1>2. ReadyInv /\ [Next]_vars => ReadyInv'
    BY <1>1, ReadyStep
  <1>3. ReadyInv => (Clean => NeverBare)
    BY DEF ReadyInv
  <1> QED
    BY <1>2, <1>3, ReadyInit, PTL DEF Spec

\* No pod is shown the empty directory where the pool has "one loop device
\* per volume", as node.go NodeGetInfo counts on when it answers with 64
\* volumes (the default pool of eight is for the operator to raise), the
\* kubelet runs one operation per volume at a time and nothing but reboots
\* disturbs the re-stages, for any number of volumes, pods and loop devices
\* (node.go NodePublishVolume, restageFailed, monitor.go Tick).
THEOREM NeverBareInLargePool ==
    ASSUME IsFiniteSet(Volumes), IsFiniteSet(LoopDevs)
    PROVE  Spec => []NeverBareUndisturbed
  <1> DEFINE Large == Cardinality(Volumes) <= Cardinality(LoopDevs)
  <1>1. CASE Serial /\ Large
    <2>1. Spec => [](Clean => NeverBare)
      BY <1>1, NeverBareSerially
    <2>2. (Clean => NeverBare) => NeverBareUndisturbed
      BY DEF Clean, NeverBareUndisturbed, Uninterrupted, NeverBare
    <2> QED
      BY <2>1, <2>2, PTL
  <1>2. CASE ~(Serial /\ Large)
    <2>1. NeverBareUndisturbed
      BY <1>2 DEF NeverBareUndisturbed, Uninterrupted, NeverBare
    <2> QED
      BY <2>1, PTL
  <1> QED
    BY <1>1, <1>2

=============================================================================
