-------------------------- MODULE Remediation_proofs --------------------------
(***************************************************************************)
(* Proofs about Remediation, for any number of pods, any hold-off and any  *)
(* faults: its types, that rounds of deletions are a Hold apart, that only *)
(* owned users are deleted, that replacements are spared and that no event *)
(* is sent twice.                                                          *)
(*                                                                         *)
(* The argument is about stale ticks.  The staging mount changes under a   *)
(* tick only once every pod it found published is dead: it terminates, has *)
(* nothing bound and is not being published, and so no later tick finds it *)
(* again.  What a stale tick remembers or forgets about such pods is       *)
(* harmless, and about all others the tick is not stale.                   *)
(***************************************************************************)
EXTENDS Remediation, TLAPS

\* A pod that can never again have the filesystem at its target.
Dead(p) == pod[p] \in {"terminating", "gone"} /\ bound[p] # "fs" /\ who # p

\* The kubelet: one publish at a time, and only of a staged volume.
PublishInv ==
    /\ pub = "idle" <=> who = None
    /\ pub # "idle" => who \in Pods /\ bound[who] = "no" /\ kstaged
    /\ pub = "restage" => fs = "none"
    /\ ~kstaged => fs = "none"
    /\ fs = "none" => \A p \in Pods : bound[p] # "fs"
    /\ \A p \in Pods : pod[p] = "none" => bound[p] = "no" /\ who # p

\* The steps of a tick before it has taken the volume for a failed one.
Early == {"idle", "all", "walk"}

\* The hold-off against the last round.
HoldInv ==
    /\ step \in Early => lag = 0
    /\ step \in {"delete", "hold"} => since = lag
    /\ step \notin {"delete", "hold"} => held + since >= Hold

\* What a tick has read, against what is there by now.
StaleInv ==
    /\ step \notin Early => snap = "ro"
    /\ step = "idle" => snap = "none" /\ targets = {}
    /\ \A p \in targets : bound[p] = "fs" \/ Dead(p)
    /\ snap = "ro" /\ (fs # "ro" \/ ~same) => \A p \in targets : Dead(p)
    /\ step \notin Early /\ fs = "ro" /\ same => marked

\* The pods of a round.
UsersInv == step = "delete" => users \subseteq owned \cap targets

\* A pod that this tick or a later one may send an event to.
Open(p) == ~Dead(p) \/ (p \in targets /\ step \in {"all", "walk", "get", "list"})

\* What was sent to an open pod is remembered, for as long as it counts.
MemoryInv ==
    /\ \A k \in Kinds, p \in Pods :
         <<k, p>> \in sent /\ Open(p) =>
           /\ fs = "ro" /\ marked
           /\ k = "failed" => eventSent
           /\ k = "skipped" => p \in skipEvented
    /\ step \in {"all", "walk"} /\ snap # "ro" =>
         \A k \in Kinds, p \in Pods : <<k, p>> \in sent => Dead(p)
    /\ ~repeated

\* A replacement never gets the filesystem that failed.
ReplaceInv ==
    "restart" \notin happened =>
      /\ remedied /\ fs = "ro" => marked
      /\ step \in {"all", "walk"} /\ snap # "ro" /\ fs = "ro" => ~remedied
      /\ replaces # {} => remedied
      /\ fs = "ro" => \A p \in replaces : bound[p] # "fs" /\ ~(who = p /\ pub = "bind")
      /\ snap = "ro" => spared = {}

\* A kernel that shows nothing: no tick finds a failure.
BlindInv == Signal = "none" => snap # "ro" /\ sent = {} /\ ~remedied

IInv == /\ TypeOK /\ PublishInv /\ HoldInv /\ StaleInv /\ UsersInv /\ MemoryInv /\ ReplaceInv
        /\ BlindInv

-----------------------------------------------------------------------------
(* TypeOK in three parts, which the provers take one at a time. *)

ClusterTypes ==
    /\ pod \in [Pods -> {"none", "pending", "running", "terminating", "gone"}]
    /\ name \in [Pods -> Pods]
    /\ bound \in [Pods -> {"no", "fs", "bare"}]

FlagTypes ==
    /\ kstaged \in BOOLEAN /\ marked \in BOOLEAN /\ fresh \in BOOLEAN /\ eventSent \in BOOLEAN
    /\ due \in BOOLEAN /\ remedied \in BOOLEAN /\ repeated \in BOOLEAN /\ same \in BOOLEAN

ValueTypes ==
    /\ owned \subseteq Pods
    /\ pub \in {"idle", "lock", "restage", "bind"} /\ who \in Pods \cup {None}
    /\ fs \in {"none", "healthy", "ro"}
    /\ entry \in {"none", "old", "keyless", "full"}
    /\ mode \in {"blind", "report", "delete"}
    /\ after \subseteq Pods
    /\ held \in 0..Hold
    /\ skipEvented \subseteq Pods
    /\ step \in Steps /\ snap \in {"none", "healthy", "ro"} /\ targets \subseteq Pods
    /\ users \subseteq Pods /\ lag \in 0..Hold
    /\ since \in 0..Hold
    /\ replaces \subseteq Pods /\ spared \subseteq Pods
    /\ sent \subseteq Kinds \X Pods
    /\ count \in 0..MaxFaults /\ happened \subseteq Hazards

LEMMA TypeParts ==
    /\ TypeOK <=> ClusterTypes /\ FlagTypes /\ ValueTypes
    /\ TypeOK' <=> ClusterTypes' /\ FlagTypes' /\ ValueTypes'
  BY DEF TypeOK, ClusterTypes, FlagTypes, ValueTypes

\* A step beside the tick keeps what the tick relies on if the pods it found
\* keep their mount or die, and the mount changes only once they are dead.
LEMMA StaleStays ==
    ASSUME StaleInv, UNCHANGED <<step, snap, targets, same>>,
           \A p \in targets :
             /\ (bound[p] = "fs" => bound'[p] = "fs" \/ Dead(p)')
             /\ (Dead(p) => Dead(p)'),
           fs' = fs \/ (fs # "ro" /\ fs' # "ro"), fs' = "ro" => marked' = marked
    PROVE  StaleInv'
  <1>1. \A p \in targets' : bound'[p] = "fs" \/ Dead(p)'
    BY DEF StaleInv
  <1>2. snap' = "ro" /\ (fs' # "ro" \/ ~same') => \A p \in targets' : Dead(p)'
    BY DEF StaleInv
  <1>3. /\ step' \notin Early => snap' = "ro"
        /\ step' = "idle" => snap' = "none" /\ targets' = {}
        /\ step' \notin Early /\ fs' = "ro" /\ same' => marked'
    BY DEF StaleInv
  <1> QED
    BY <1>1, <1>2, <1>3 DEF StaleInv

-----------------------------------------------------------------------------
(* The pods. *)

LEMMA PodCreateKeeps ==
    ASSUME IInv, NEW x \in Pods, PodCreate(x)
    PROVE  IInv'
  <1> USE RemediationAssumption
      DEF IInv, PodCreate, Live,
          cluster, staged, identity, marks, memory, tick, history, faults
  <1>1. TypeOK'
    <2> USE TypeParts
    <2>1. FlagTypes'
      BY DEF FlagTypes
    <2>2. ClusterTypes'
      BY DEF ClusterTypes, ValueTypes
    <2>3. ValueTypes'
      BY DEF ValueTypes, Pods, None, Steps, Kinds
    <2> QED
      BY ONLY <2>1, <2>2, <2>3, TypeParts
  <1> USE DEF Pods, None, Steps, Kinds, Early
  <1>2. HoldInv'
    BY DEF HoldInv
  <1>3. PublishInv'
    BY DEF TypeOK, PublishInv
  <1>4. StaleInv'
    BY DEF TypeOK, StaleInv, PublishInv, Dead
  <1>5. UsersInv'
    BY DEF TypeOK, UsersInv
  <1>6. MemoryInv'
    BY DEF TypeOK, MemoryInv, StaleInv, PublishInv, Dead, Open
  <1>7. ReplaceInv'
    BY DEF TypeOK, ReplaceInv, StaleInv, PublishInv
  <1>v. BlindInv'
    BY DEF BlindInv, StaleInv
  <1> QED
    BY <1>1, <1>2, <1>3, <1>4, <1>5, <1>6, <1>7, <1>v

LEMMA PodStartKeeps ==
    ASSUME IInv, NEW x \in Pods, PodStart(x)
    PROVE  IInv'
  <1> USE RemediationAssumption
      DEF IInv, PodStart,
          cluster, staged, identity, marks, memory, tick, history, faults
  <1>1. TypeOK'
    <2> USE TypeParts
    <2>1. FlagTypes'
      BY DEF FlagTypes
    <2>2. ClusterTypes'
      BY DEF ClusterTypes
    <2>3. ValueTypes'
      BY DEF ValueTypes, Pods, None, Steps, Kinds
    <2> QED
      BY ONLY <2>1, <2>2, <2>3, TypeParts
  <1> USE DEF Pods, None, Steps, Kinds, Early
  <1>2. HoldInv' /\ UsersInv' /\ ReplaceInv'
    BY DEF HoldInv, UsersInv, ReplaceInv
  <1>3. PublishInv'
    BY DEF TypeOK, PublishInv
  <1>4. StaleInv'
    BY DEF TypeOK, StaleInv, PublishInv, Dead
  <1>5. MemoryInv'
    BY DEF TypeOK, MemoryInv, StaleInv, PublishInv, Dead, Open
  <1>v. BlindInv'
    BY DEF BlindInv, StaleInv
  <1> QED
    BY <1>1, <1>2, <1>3, <1>4, <1>5, <1>v

LEMMA PodDeleteKeeps ==
    ASSUME IInv, NEW x \in Pods, PodDelete(x)
    PROVE  IInv'
  <1> USE RemediationAssumption
      DEF IInv, PodDelete, Terminated,
          cluster, staged, identity, marks, memory, tick, history, faults
  <1>1. TypeOK'
    <2> USE TypeParts
    <2>1. FlagTypes'
      BY DEF FlagTypes
    <2>2. ClusterTypes'
      BY DEF ClusterTypes
    <2>3. ValueTypes'
      BY DEF ValueTypes, Pods, None, Steps, Kinds
    <2> QED
      BY ONLY <2>1, <2>2, <2>3, TypeParts
  <1> USE DEF Pods, None, Steps, Kinds, Early
  <1>2. HoldInv' /\ UsersInv' /\ ReplaceInv'
    BY DEF HoldInv, UsersInv, ReplaceInv
  <1>3. PublishInv'
    BY DEF TypeOK, PublishInv
  <1>4. StaleInv'
    BY DEF TypeOK, StaleInv, PublishInv, Dead
  <1>5. MemoryInv'
    BY DEF TypeOK, MemoryInv, StaleInv, PublishInv, Dead, Open
  <1>v. BlindInv'
    BY DEF BlindInv, StaleInv
  <1> QED
    BY <1>1, <1>2, <1>3, <1>4, <1>5, <1>v

LEMMA UnpublishKeeps ==
    ASSUME IInv, NEW x \in Pods, Unpublish(x)
    PROVE  IInv'
  <1> USE RemediationAssumption
      DEF IInv, Unpublish,
          cluster, staged, identity, marks, memory, tick, history, faults
  <1>1. TypeOK'
    <2> USE TypeParts
    <2>1. FlagTypes'
      BY DEF FlagTypes
    <2>2. ClusterTypes'
      BY DEF ClusterTypes
    <2>3. ValueTypes'
      BY DEF ValueTypes, Pods, None, Steps, Kinds
    <2> QED
      BY ONLY <2>1, <2>2, <2>3, TypeParts
  <1> USE DEF Pods, None, Steps, Kinds, Early
  <1>2. HoldInv' /\ UsersInv'
    BY DEF HoldInv, UsersInv
  <1>3. PublishInv'
    BY DEF TypeOK, PublishInv
  <1>4. StaleInv'
    <2>1. /\ targets \subseteq Pods /\ pub = "idle" /\ who = None
          /\ \A p \in Pods : bound'[p] = IF p = x THEN "no" ELSE bound[p]
      BY DEF TypeOK, PublishInv
    <2>2. /\ \A p \in Pods : Dead(p) => Dead(p)'
          /\ Dead(x)'
      BY <2>1 DEF Dead
    <2>3. \A p \in targets : bound[p] = "fs" => bound'[p] = "fs" \/ Dead(p)'
      BY <2>1, <2>2
    <2> QED
      BY <2>1, <2>2, <2>3, StaleStays
  <1>5. MemoryInv'
    BY DEF TypeOK, MemoryInv, StaleInv, PublishInv, Dead, Open
  <1>6. ReplaceInv'
    BY DEF TypeOK, ReplaceInv, StaleInv, PublishInv
  <1>v. BlindInv'
    BY DEF BlindInv, StaleInv
  <1> QED
    BY <1>1, <1>2, <1>3, <1>4, <1>5, <1>6, <1>v

LEMMA PodGoneKeeps ==
    ASSUME IInv, NEW x \in Pods, PodGone(x)
    PROVE  IInv'
  <1> USE RemediationAssumption
      DEF IInv, PodGone,
          cluster, staged, identity, marks, memory, tick, history, faults
  <1>1. TypeOK'
    <2> USE TypeParts
    <2>1. FlagTypes'
      BY DEF FlagTypes
    <2>2. ClusterTypes'
      BY DEF ClusterTypes
    <2>3. ValueTypes'
      BY DEF ValueTypes, Pods, None, Steps, Kinds
    <2> QED
      BY ONLY <2>1, <2>2, <2>3, TypeParts
  <1> USE DEF Pods, None, Steps, Kinds, Early
  <1>2. HoldInv' /\ UsersInv' /\ ReplaceInv'
    BY DEF HoldInv, UsersInv, ReplaceInv
  <1>3. PublishInv'
    BY DEF TypeOK, PublishInv
  <1>4. StaleInv'
    BY DEF TypeOK, StaleInv, PublishInv, Dead
  <1>5. MemoryInv'
    BY DEF TypeOK, MemoryInv, StaleInv, PublishInv, Dead, Open
  <1>v. BlindInv'
    BY DEF BlindInv, StaleInv
  <1> QED
    BY <1>1, <1>2, <1>3, <1>4, <1>5, <1>v

-----------------------------------------------------------------------------
(* The node server. *)

LEMMA StageKeeps ==
    ASSUME IInv, Stage
    PROVE  IInv'
  <1> USE RemediationAssumption
      DEF IInv, Stage, NewMount, Clear,
          cluster, staged, identity, marks, memory, tick, history, faults
  <1>1. TypeOK'
    <2> USE TypeParts
    <2>1. ClusterTypes'
      BY DEF ClusterTypes
    <2>2. FlagTypes'
      BY DEF FlagTypes
    <2>3. ValueTypes'
      BY DEF ValueTypes, Pods, None, Steps, Kinds
    <2> QED
      BY ONLY <2>1, <2>2, <2>3, TypeParts
  <1> USE DEF Pods, None, Steps, Kinds, Early
  <1>2. HoldInv' /\ UsersInv'
    BY DEF HoldInv, UsersInv
  <1>3. PublishInv'
    BY DEF TypeOK, PublishInv
  <1>4. StaleInv'
    BY DEF TypeOK, StaleInv, PublishInv, Dead
  <1>5. MemoryInv'
    BY DEF TypeOK, MemoryInv, StaleInv, PublishInv, Dead, Open
  <1>6. ReplaceInv'
    BY DEF TypeOK, ReplaceInv, StaleInv, PublishInv
  <1>v. BlindInv'
    BY DEF BlindInv, StaleInv
  <1> QED
    BY <1>1, <1>2, <1>3, <1>4, <1>5, <1>6, <1>v

LEMMA UnstageKeeps ==
    ASSUME IInv, Unstage
    PROVE  IInv'
  <1> USE RemediationAssumption
      DEF IInv, Unstage, NewMount, Clear,
          cluster, staged, identity, marks, memory, tick, history, faults
  <1>1. TypeOK'
    <2> USE TypeParts
    <2>1. ClusterTypes'
      BY DEF ClusterTypes
    <2>2. FlagTypes'
      BY DEF FlagTypes
    <2>3. ValueTypes'
      BY DEF ValueTypes, Pods, None, Steps, Kinds
    <2> QED
      BY ONLY <2>1, <2>2, <2>3, TypeParts
  <1> USE DEF Pods, None, Steps, Kinds, Early
  <1>2. HoldInv' /\ UsersInv'
    BY DEF HoldInv, UsersInv
  <1>3. PublishInv'
    BY DEF TypeOK, PublishInv
  <1>4. StaleInv'
    BY DEF TypeOK, StaleInv, PublishInv, Dead
  <1>5. MemoryInv'
    BY DEF TypeOK, MemoryInv, StaleInv, PublishInv, Dead, Open
  <1>6. ReplaceInv'
    BY DEF TypeOK, ReplaceInv, StaleInv, PublishInv
  <1>v. BlindInv'
    BY DEF BlindInv, StaleInv
  <1> QED
    BY <1>1, <1>2, <1>3, <1>4, <1>5, <1>6, <1>v

LEMMA PublishBeginKeeps ==
    ASSUME IInv, NEW x \in Pods, PublishBegin(x)
    PROVE  IInv'
  <1> USE RemediationAssumption
      DEF IInv, PublishBegin,
          cluster, staged, identity, marks, memory, tick, history, faults
  <1>1. TypeOK'
    <2> USE TypeParts
    <2>1. ClusterTypes' /\ FlagTypes'
      BY DEF ClusterTypes, FlagTypes
    <2>2. ValueTypes'
      BY DEF ValueTypes, Pods, None, Steps, Kinds
    <2> QED
      BY ONLY <2>1, <2>2, TypeParts
  <1> USE DEF Pods, None, Steps, Kinds, Early
  <1>2. HoldInv' /\ UsersInv'
    BY DEF HoldInv, UsersInv
  <1>3. PublishInv'
    BY DEF TypeOK, PublishInv
  <1>4. StaleInv'
    BY DEF TypeOK, StaleInv, PublishInv, Dead
  <1>5. MemoryInv'
    BY DEF TypeOK, MemoryInv, StaleInv, PublishInv, Dead, Open
  <1>6. ReplaceInv'
    BY DEF TypeOK, ReplaceInv, StaleInv, PublishInv
  <1>v. BlindInv'
    BY DEF BlindInv, StaleInv
  <1> QED
    BY <1>1, <1>2, <1>3, <1>4, <1>5, <1>6, <1>v

LEMMA PublishLockKeeps ==
    ASSUME IInv, PublishLock
    PROVE  IInv'
  <1> USE RemediationAssumption
      DEF IInv, PublishLock, CannotRestage, PublishFails, NewMount,
          cluster, staged, identity, marks, memory, tick, history, faults
  <1>1. TypeOK'
    <2> USE TypeParts
    <2>1. ClusterTypes' /\ FlagTypes'
      BY DEF ClusterTypes, FlagTypes
    <2>2. ValueTypes'
      BY DEF ValueTypes, Pods, None, Steps, Kinds
    <2> QED
      BY ONLY <2>1, <2>2, TypeParts
  <1> USE DEF Pods, None, Steps, Kinds, Early
  <1>2. HoldInv' /\ UsersInv'
    BY DEF HoldInv, UsersInv
  <1>3. PublishInv'
    BY DEF TypeOK, PublishInv
  <1>4. StaleInv'
    BY DEF TypeOK, StaleInv, PublishInv, Dead
  <1>5. MemoryInv'
    BY DEF TypeOK, MemoryInv, StaleInv, PublishInv, Dead, Open
  <1>6. ReplaceInv'
    BY DEF TypeOK, ReplaceInv, StaleInv, PublishInv
  <1>v. BlindInv'
    BY DEF BlindInv, StaleInv
  <1> QED
    BY <1>1, <1>2, <1>3, <1>4, <1>5, <1>6, <1>v

LEMMA RestageKeeps ==
    ASSUME IInv, Restage
    PROVE  IInv'
  <1> USE RemediationAssumption
      DEF IInv, Restage, NewMount, RestageClears, Clear, Fault, PublishFails,
          cluster, staged, identity, marks, memory, tick, history, faults
  <1>1. TypeOK'
    <2> USE TypeParts
    <2>1. ClusterTypes'
      BY DEF ClusterTypes
    <2>2. FlagTypes'
      BY DEF FlagTypes
    <2>3. ValueTypes'
      BY DEF ValueTypes, Pods, None, Steps, Kinds
    <2> QED
      BY ONLY <2>1, <2>2, <2>3, TypeParts
  <1> USE DEF Pods, None, Steps, Kinds, Early
  <1>2. HoldInv' /\ UsersInv'
    BY DEF HoldInv, UsersInv
  <1>3. PublishInv'
    <2>1. CASE pub' = "bind" /\ fs' = "healthy" /\ UNCHANGED <<who, bound, kstaged, pod>>
      BY <2>1 DEF TypeOK, PublishInv
    <2>2. CASE PublishFails /\ UNCHANGED <<fs, bound, kstaged, pod>>
      BY <2>2 DEF TypeOK, PublishInv
    <2> QED
      BY <2>1, <2>2
  <1>4. StaleInv'
    <2>1. /\ targets \subseteq Pods /\ fs = "none" /\ fs' \in {"none", "healthy"}
          /\ UNCHANGED <<pod, bound, step, snap, targets, same>> /\ who' \in {who, None}
      BY DEF TypeOK, PublishInv
    <2>2. \A p \in Pods : Dead(p) => Dead(p)'
      BY <2>1 DEF Dead
    <2> QED
      BY ONLY <2>1, <2>2, StaleInv, StaleStays
  <1>5. MemoryInv'
    <2>1. CASE sent' = {}
      BY <2>1 DEF TypeOK, MemoryInv
    <2>2. CASE sent' = sent /\ PublishFails /\ UNCHANGED <<fs, marks>>
      <3>1. \A p \in Pods : Dead(p) => Dead(p)'
        BY <2>2 DEF Dead
      <3> QED
        BY <2>2, <3>1 DEF MemoryInv, Open
    <2> QED
      BY <2>1, <2>2
  <1>6. ReplaceInv'
    BY DEF TypeOK, ReplaceInv, StaleInv, PublishInv
  <1>v. BlindInv'
    BY DEF BlindInv, StaleInv
  <1> QED
    BY <1>1, <1>2, <1>3, <1>4, <1>5, <1>6, <1>v

LEMMA PublishBindKeeps ==
    ASSUME IInv, PublishBind
    PROVE  IInv'
  <1> USE RemediationAssumption
      DEF IInv, PublishBind,
          cluster, staged, identity, marks, memory, tick, history, faults
  <1>1. TypeOK'
    <2> USE TypeParts
    <2>1. FlagTypes'
      BY DEF FlagTypes
    <2>2. ClusterTypes'
      BY DEF ClusterTypes, ValueTypes
    <2>3. ValueTypes'
      BY DEF ValueTypes, Pods, None, Steps, Kinds
    <2> QED
      BY ONLY <2>1, <2>2, <2>3, TypeParts
  <1> USE DEF Pods, None, Steps, Kinds, Early
  <1>2. HoldInv' /\ UsersInv'
    BY DEF HoldInv, UsersInv
  <1>b. /\ who \in Pods /\ bound[who] = "no" /\ kstaged /\ targets \subseteq Pods
        /\ \A p \in Pods : bound'[p] = IF p # who THEN bound[p]
                                       ELSE IF fs = "none" THEN "bare" ELSE "fs"
    BY DEF TypeOK, PublishInv
  <1>3. PublishInv'
    <2>1. \A p \in Pods : pod'[p] = "none" => bound'[p] = "no" /\ who' # p
      BY <1>b DEF PublishInv
    <2>2. fs' = "none" => \A p \in Pods : bound'[p] # "fs"
      BY <1>b DEF PublishInv
    <2> QED
      BY <2>1, <2>2, <1>b DEF PublishInv
  <1>4. StaleInv'
    <2>1. /\ who \notin targets
          /\ \A p \in targets : Dead(p) => Dead(p)'
      BY <1>b DEF StaleInv, Dead
    <2>2. \A p \in targets : bound'[p] = bound[p]
      BY <1>b, <2>1
    <2> QED
      BY <2>1, <2>2, StaleStays
  <1>5. MemoryInv'
    <2>1. \A p \in Pods : Dead(p) => Dead(p)'
      BY <1>b DEF Dead
    <2>2. \A p \in Pods : Open(p)' => Open(p)
      BY ONLY <2>1, PublishBind DEF PublishBind, Open, tick
    <2>3. /\ UNCHANGED <<sent, fs, step, snap, repeated>>
          /\ UNCHANGED <<marked, eventSent, skipEvented>>
      OBVIOUS
    <2> QED
      BY ONLY <2>1, <2>2, <2>3, MemoryInv DEF MemoryInv
  <1>6. ReplaceInv'
    BY DEF TypeOK, ReplaceInv, StaleInv, PublishInv
  <1>v. BlindInv'
    BY DEF BlindInv, StaleInv
  <1> QED
    BY <1>1, <1>2, <1>3, <1>4, <1>5, <1>6, <1>v

LEMMA ForceReadOnlyKeeps ==
    ASSUME IInv, ForceReadOnly
    PROVE  IInv'
  <1> USE RemediationAssumption
      DEF IInv, ForceReadOnly, NewMount,
          cluster, staged, identity, marks, memory, tick, history, faults
  <1>1. TypeOK'
    <2> USE TypeParts
    <2>1. ClusterTypes'
      BY DEF ClusterTypes
    <2>2. FlagTypes'
      BY DEF FlagTypes
    <2>3. ValueTypes'
      BY DEF ValueTypes, Pods, None, Steps, Kinds
    <2> QED
      BY ONLY <2>1, <2>2, <2>3, TypeParts
  <1> USE DEF Pods, None, Steps, Kinds, Early
  <1>2. HoldInv' /\ UsersInv'
    BY DEF HoldInv, UsersInv
  <1>3. PublishInv'
    BY DEF TypeOK, PublishInv
  <1>4. StaleInv'
    BY DEF TypeOK, StaleInv, PublishInv, Dead
  <1>5. MemoryInv'
    BY DEF TypeOK, MemoryInv, StaleInv, PublishInv, Dead, Open
  <1>6. ReplaceInv'
    BY DEF TypeOK, ReplaceInv, StaleInv, PublishInv
  <1>v. BlindInv'
    BY DEF BlindInv, StaleInv
  <1> QED
    BY <1>1, <1>2, <1>3, <1>4, <1>5, <1>6, <1>v

-----------------------------------------------------------------------------
(* The tick. *)

LEMMA TickReadKeeps ==
    ASSUME IInv, TickRead
    PROVE  IInv'
  <1> USE RemediationAssumption
      DEF IInv, TickRead, Seen,
          cluster, staged, identity, marks, memory, tick, history, faults
  <1>1. TypeOK'
    <2> USE TypeParts
    <2>1. ClusterTypes'
      BY DEF ClusterTypes
    <2>2. FlagTypes'
      BY DEF FlagTypes
    <2>3. ValueTypes'
      BY DEF ValueTypes, Pods, None, Steps, Kinds
    <2> QED
      BY ONLY <2>1, <2>2, <2>3, TypeParts
  <1> USE DEF Pods, None, Steps, Kinds, Early
  <1>2. PublishInv'
    BY DEF PublishInv
  <1>3. HoldInv'
    BY DEF TypeOK, HoldInv
  <1>4. StaleInv'
    BY DEF TypeOK, StaleInv, PublishInv, Dead
  <1>5. UsersInv'
    BY DEF TypeOK, UsersInv
  <1>6. MemoryInv'
    BY DEF TypeOK, MemoryInv, StaleInv, PublishInv, Dead, Open, BlindInv, Signals
  <1>7. ReplaceInv'
    BY DEF TypeOK, ReplaceInv, StaleInv, PublishInv, BlindInv, Signals
  <1>v. BlindInv'
    BY DEF BlindInv, StaleInv
  <1> QED
    BY <1>1, <1>2, <1>3, <1>4, <1>5, <1>6, <1>7, <1>v

LEMMA TickAllKeeps ==
    ASSUME IInv, TickAll
    PROVE  IInv'
  <1> USE RemediationAssumption
      DEF IInv, TickAll, TickEnds,
          cluster, staged, identity, marks, memory, tick, history, faults
  <1>1. TypeOK'
    <2> USE TypeParts
    <2>1. ClusterTypes'
      BY DEF ClusterTypes
    <2>2. FlagTypes'
      BY DEF FlagTypes
    <2>3. ValueTypes'
      BY DEF ValueTypes, Pods, None, Steps, Kinds
    <2> QED
      BY ONLY <2>1, <2>2, <2>3, TypeParts
  <1> USE DEF Pods, None, Steps, Kinds, Early
  <1>2. PublishInv'
    BY DEF PublishInv
  <1>3. HoldInv'
    BY DEF TypeOK, HoldInv
  <1>4. StaleInv'
    BY DEF TypeOK, StaleInv, PublishInv, Dead
  <1>5. UsersInv'
    BY DEF TypeOK, UsersInv
  <1>6. MemoryInv'
    BY DEF TypeOK, MemoryInv, StaleInv, PublishInv, Dead, Open
  <1>7. ReplaceInv'
    BY DEF TypeOK, ReplaceInv, StaleInv, PublishInv
  <1>v. BlindInv'
    BY DEF BlindInv, StaleInv
  <1> QED
    BY <1>1, <1>2, <1>3, <1>4, <1>5, <1>6, <1>7, <1>v

LEMMA TickWellKeeps ==
    ASSUME IInv, TickWell
    PROVE  IInv'
  <1> USE RemediationAssumption
      DEF IInv, TickWell, Clear, Forget, TickEnds,
          cluster, staged, identity, marks, memory, tick, history, faults
  <1>1. TypeOK'
    <2> USE TypeParts
    <2>1. ClusterTypes'
      BY DEF ClusterTypes
    <2>2. FlagTypes'
      BY DEF FlagTypes
    <2>3. ValueTypes'
      BY DEF ValueTypes, Pods, None, Steps, Kinds
    <2> QED
      BY ONLY <2>1, <2>2, <2>3, TypeParts
  <1> USE DEF Pods, None, Steps, Kinds, Early
  <1>2. PublishInv'
    BY DEF PublishInv
  <1>3. HoldInv'
    BY DEF TypeOK, HoldInv
  <1>4. StaleInv'
    BY DEF TypeOK, StaleInv, PublishInv, Dead
  <1>5. UsersInv'
    BY DEF TypeOK, UsersInv
  <1>6. MemoryInv'
    BY DEF TypeOK, MemoryInv, StaleInv, PublishInv, Dead, Open
  <1>7. ReplaceInv'
    BY DEF TypeOK, ReplaceInv, StaleInv, PublishInv
  <1>v. BlindInv'
    BY DEF BlindInv, StaleInv
  <1> QED
    BY <1>1, <1>2, <1>3, <1>4, <1>5, <1>6, <1>7, <1>v

LEMMA TickMarkKeeps ==
    ASSUME IInv, TickMark
    PROVE  IInv'
  <1> USE RemediationAssumption
      DEF IInv, TickMark, Mark, Forget,
          cluster, staged, identity, marks, memory, tick, history, faults
  <1>1. TypeOK'
    <2> USE TypeParts
    <2>1. ClusterTypes'
      BY DEF ClusterTypes
    <2>2. FlagTypes'
      BY DEF FlagTypes
    <2>3. ValueTypes'
      BY DEF ValueTypes, Pods, None, Steps, Kinds
    <2> QED
      BY ONLY <2>1, <2>2, <2>3, TypeParts
  <1> USE DEF Pods, None, Steps, Kinds, Early
  <1>2. PublishInv'
    BY DEF PublishInv
  <1>3. HoldInv'
    BY DEF TypeOK, HoldInv
  <1>4. StaleInv'
    BY DEF TypeOK, StaleInv, PublishInv, Dead
  <1>5. UsersInv'
    BY DEF TypeOK, UsersInv
  <1>6. MemoryInv'
    BY DEF TypeOK, MemoryInv, StaleInv, PublishInv, Dead, Open
  <1>7. ReplaceInv'
    BY DEF TypeOK, ReplaceInv, StaleInv, PublishInv
  <1>v. BlindInv'
    BY DEF BlindInv, StaleInv
  <1> QED
    BY <1>1, <1>2, <1>3, <1>4, <1>5, <1>6, <1>7, <1>v

LEMMA TickGetKeeps ==
    ASSUME IInv, TickGet
    PROVE  IInv'
  <1> USE RemediationAssumption
      DEF IInv, TickGet, TickEnds,
          cluster, staged, identity, marks, memory, tick, history, faults
  <1>1. TypeOK'
    <2> USE TypeParts
    <2>1. ClusterTypes'
      BY DEF ClusterTypes
    <2>2. FlagTypes'
      BY DEF FlagTypes
    <2>3. ValueTypes'
      <3>1. /\ step' \in Steps /\ snap' \in {"none", "healthy", "ro"}
            /\ lag' \in 0..Hold /\ after' \subseteq Pods
        BY DEF ValueTypes, Steps
      <3>2. targets' \subseteq Pods /\ users' \subseteq Pods /\ spared' \subseteq Pods
        BY DEF ValueTypes
      <3> QED
        BY <3>1, <3>2 DEF ValueTypes
    <2> QED
      BY ONLY <2>1, <2>2, <2>3, TypeParts
  <1> USE DEF Pods, None, Steps, Kinds, Early
  <1>2. PublishInv'
    BY DEF PublishInv
  <1>3. HoldInv'
    BY DEF TypeOK, HoldInv
  <1>4. StaleInv'
    BY DEF TypeOK, StaleInv, PublishInv, Dead
  <1>5. UsersInv'
    BY DEF TypeOK, UsersInv
  <1>6. MemoryInv'
    BY DEF TypeOK, MemoryInv, StaleInv, PublishInv, Dead, Open
  <1>7. ReplaceInv'
    BY DEF TypeOK, ReplaceInv, StaleInv, PublishInv
  <1>v. BlindInv'
    BY DEF BlindInv, StaleInv
  <1> QED
    BY <1>1, <1>2, <1>3, <1>4, <1>5, <1>6, <1>7, <1>v

LEMMA TickListKeeps ==
    ASSUME IInv, TickList
    PROVE  IInv'
  <1> USE RemediationAssumption
      DEF IInv, TickList, Live, Skipped, Remembers, Fault, TickEnds,
          cluster, staged, identity, marks, memory, tick, history, faults
  <1>1. TypeOK'
    <2> USE TypeParts
    <2>1. ClusterTypes'
      BY DEF ClusterTypes
    <2>2. FlagTypes'
      BY DEF FlagTypes
    <2>3. ValueTypes'
      BY DEF ValueTypes, Pods, None, Steps, Kinds
    <2> QED
      BY ONLY <2>1, <2>2, <2>3, TypeParts
  <1> USE DEF Pods, None, Steps, Kinds, Early
  <1>2. PublishInv'
    BY DEF PublishInv
  <1>3. HoldInv'
    BY DEF TypeOK, HoldInv
  <1>4. StaleInv'
    BY DEF TypeOK, StaleInv, PublishInv, Dead
  <1>5. UsersInv'
    BY DEF TypeOK, UsersInv
  <1>6. MemoryInv'
    <2> DEFINE using   == targets \cap Live
               skipped == {p \in using : Skipped(p)}
               deletes == mode = "delete" /\ due
               events  == (IF eventSent THEN {} ELSE {"failed"} \X using)
                            \cup (IF deletes THEN {"skipped"} \X (skipped \ skipEvented) ELSE {})
    <2>1. CASE UNCHANGED <<memory, since, sent, repeated>> /\ TickEnds
      BY <2>1 DEF TypeOK, MemoryInv, Dead, Open
    <2>2. CASE /\ eventSent' = Remembers
               /\ skipEvented' = IF deletes THEN skipEvented \cup skipped ELSE skipEvented
               /\ sent' = sent \cup events
               /\ repeated' = (repeated \/ sent \cap events # {})
               /\ step' \notin {"all", "walk", "get", "list"}
      <3>1. \A k \in Kinds, p \in Pods : <<k, p>> \in events =>
              /\ p \in targets
              /\ k = "failed" => ~eventSent
              /\ k = "skipped" => p \in skipped /\ p \notin skipEvented /\ deletes
        BY DEF TypeOK
      <3>2. events \subseteq Kinds \X Pods
        BY DEF TypeOK
      <3>3. sent \cap events = {}
        BY <3>1, <3>2 DEF MemoryInv, Open
      <3> QED
        BY <2>2, <3>1, <3>2, <3>3 DEF MemoryInv, StaleInv, Open, Dead, TypeOK
    <2> QED
      BY <2>1, <2>2
  <1>7. ReplaceInv'
    BY DEF TypeOK, ReplaceInv, StaleInv, PublishInv
  <1>v. BlindInv'
    BY DEF BlindInv, StaleInv
  <1> QED
    BY <1>1, <1>2, <1>3, <1>4, <1>5, <1>6, <1>7, <1>v

LEMMA TickDeleteKeeps ==
    ASSUME IInv, NEW x \in Pods, TickDelete(x)
    PROVE  IInv'
  <1> USE RemediationAssumption
      DEF IInv, TickDelete, Deleted, Terminated, Fault,
          cluster, staged, identity, marks, memory, tick, history, faults
  <1>1. TypeOK'
    <2> USE TypeParts
    <2>1. ClusterTypes'
      BY DEF ClusterTypes
    <2>2. FlagTypes'
      BY DEF FlagTypes
    <2>3. ValueTypes'
      <3>1. count \in 0..MaxFaults /\ happened \subseteq Hazards =>
              count' \in 0..MaxFaults /\ happened' \subseteq Hazards
        OBVIOUS
      <3>2. users' \subseteq Pods /\ step' \in Steps
        BY DEF ValueTypes, Steps
      <3> QED
        BY <3>1, <3>2 DEF ValueTypes
    <2> QED
      BY ONLY <2>1, <2>2, <2>3, TypeParts
  <1> USE DEF Pods, None, Steps, Kinds, Early
  <1>2. PublishInv'
    BY DEF TypeOK, PublishInv
  <1>3. HoldInv'
    BY DEF TypeOK, HoldInv
  <1>4. StaleInv'
    BY DEF TypeOK, StaleInv, PublishInv, Dead
  <1>5. UsersInv'
    BY DEF TypeOK, UsersInv
  <1>6. MemoryInv'
    BY DEF TypeOK, MemoryInv, StaleInv, PublishInv, Dead, Open
  <1>7. ReplaceInv'
    <2>1. /\ UNCHANGED <<bound, pub, who, fs, marked, snap, spared, replaces>>
          /\ step = "delete" /\ step' \in {"delete", "hold"}
          /\ remedied => remedied'
          /\ remedied' => remedied \/ same
          /\ "restart" \notin happened' => "restart" \notin happened
      BY DEF TypeOK
    <2>2. fs = "ro" /\ same => marked
      BY <2>1 DEF StaleInv
    <2> QED
      BY ONLY <2>1, <2>2, ReplaceInv DEF ReplaceInv
  <1>v. BlindInv'
    BY DEF BlindInv, StaleInv
  <1> QED
    BY <1>1, <1>2, <1>3, <1>4, <1>5, <1>6, <1>7, <1>v

LEMMA TickHoldKeeps ==
    ASSUME IInv, TickHold
    PROVE  IInv'
  <1> USE RemediationAssumption
      DEF IInv, TickHold, TickEnds,
          cluster, staged, identity, marks, memory, tick, history, faults
  <1>1. TypeOK'
    <2> USE TypeParts
    <2>1. ClusterTypes'
      BY DEF ClusterTypes
    <2>2. FlagTypes'
      BY DEF FlagTypes
    <2>3. ValueTypes'
      BY DEF ValueTypes, Pods, None, Steps, Kinds
    <2> QED
      BY ONLY <2>1, <2>2, <2>3, TypeParts
  <1> USE DEF Pods, None, Steps, Kinds, Early
  <1>2. PublishInv'
    BY DEF PublishInv
  <1>3. HoldInv'
    BY DEF TypeOK, HoldInv
  <1>4. StaleInv'
    BY DEF TypeOK, StaleInv, PublishInv, Dead
  <1>5. UsersInv'
    BY DEF TypeOK, UsersInv
  <1>6. MemoryInv'
    BY DEF TypeOK, MemoryInv, StaleInv, PublishInv, Dead, Open
  <1>7. ReplaceInv'
    BY DEF TypeOK, ReplaceInv, StaleInv, PublishInv
  <1>v. BlindInv'
    BY DEF BlindInv, StaleInv
  <1> QED
    BY <1>1, <1>2, <1>3, <1>4, <1>5, <1>6, <1>7, <1>v

-----------------------------------------------------------------------------
(* Time, and a restart. *)

LEMMA TimePassesKeeps ==
    ASSUME IInv, TimePasses
    PROVE  IInv'
  <1> USE RemediationAssumption
      DEF IInv, TimePasses, Up,
          cluster, staged, identity, marks, memory, tick, history, faults
  <1>1. TypeOK'
    <2> USE TypeParts
    <2>1. ClusterTypes'
      BY DEF ClusterTypes
    <2>2. FlagTypes'
      BY DEF FlagTypes
    <2>3. ValueTypes'
      BY DEF ValueTypes, Pods, None, Steps, Kinds
    <2> QED
      BY ONLY <2>1, <2>2, <2>3, TypeParts
  <1> USE DEF Pods, None, Steps, Kinds, Early
  <1>2. PublishInv' /\ StaleInv' /\ UsersInv' /\ MemoryInv' /\ ReplaceInv'
    BY DEF PublishInv, StaleInv, UsersInv, MemoryInv, ReplaceInv, Dead, Open
  <1>3. HoldInv'
    BY DEF TypeOK, HoldInv
  <1>v. BlindInv'
    BY DEF BlindInv, StaleInv
  <1> QED
    BY <1>1, <1>2, <1>3, <1>v

LEMMA RestartKeeps ==
    ASSUME IInv, Restart
    PROVE  IInv'
  <1> USE RemediationAssumption
      DEF IInv, Restart, EntryLeft, Fault, Forget, TickEnds, StartModes, StartMode,
          cluster, staged, identity, marks, memory, tick, history, faults
  <1>1. TypeOK'
    <2> USE TypeParts
    <2>1. ClusterTypes'
      BY DEF ClusterTypes
    <2>2. FlagTypes'
      BY DEF FlagTypes
    <2>3. ValueTypes'
      BY DEF ValueTypes, Pods, None, Steps, Kinds
    <2> QED
      BY ONLY <2>1, <2>2, <2>3, TypeParts
  <1> USE DEF Pods, None, Steps, Kinds, Early
  <1>2. PublishInv'
    BY DEF TypeOK, PublishInv
  <1>3. HoldInv'
    BY DEF TypeOK, HoldInv
  <1>4. StaleInv'
    BY DEF TypeOK, StaleInv, PublishInv, Dead
  <1>5. UsersInv'
    BY DEF TypeOK, UsersInv
  <1>6. MemoryInv'
    BY DEF TypeOK, MemoryInv, StaleInv, PublishInv, Dead, Open
  <1>7. ReplaceInv'
    BY DEF TypeOK, ReplaceInv, StaleInv, PublishInv
  <1>v. BlindInv'
    BY DEF BlindInv, StaleInv
  <1> QED
    BY <1>1, <1>2, <1>3, <1>4, <1>5, <1>6, <1>7, <1>v

-----------------------------------------------------------------------------
(* Every step. *)

LEMMA InitEstablishes == Init => IInv
  <1> SUFFICES ASSUME Init PROVE IInv
    OBVIOUS
  <1> USE RemediationAssumption
      DEF Init, InitNew, InitUpgraded, StartModes, StartMode, Pods, None, Steps, Kinds, Early
  <1>1. TypeOK
    <2>1. ClusterTypes
      BY DEF ClusterTypes
    <2>2. FlagTypes
      <3>1. kstaged = FALSE \/ kstaged = TRUE
        OBVIOUS
      <3>2. kstaged \in BOOLEAN
        BY ONLY <3>1
      <3> QED
        BY <3>2 DEF FlagTypes
    <2>3. ValueTypes
      BY DEF ValueTypes
    <2> QED
      BY ONLY <2>1, <2>2, <2>3, TypeParts
  <1>2. PublishInv /\ HoldInv /\ UsersInv
    BY DEF PublishInv, HoldInv, UsersInv
  <1>3. StaleInv /\ MemoryInv /\ ReplaceInv
    BY DEF StaleInv, MemoryInv, ReplaceInv
  <1>v. BlindInv
    BY DEF BlindInv, StaleInv
  <1> QED
    BY <1>1, <1>2, <1>3, <1>v DEF IInv

LEMMA StutterKeeps ==
    ASSUME IInv, UNCHANGED vars
    PROVE  IInv'
  <1> USE DEF IInv, vars, cluster, staged, identity, marks, memory, tick, history, faults
  <1>1. TypeOK'
    BY DEF TypeOK
  <1>2. PublishInv' /\ HoldInv' /\ UsersInv' /\ ReplaceInv'
    BY DEF PublishInv, HoldInv, UsersInv, ReplaceInv
  <1>3. StaleInv' /\ MemoryInv'
    BY DEF StaleInv, MemoryInv, Open, Dead
  <1>v. BlindInv'
    BY DEF BlindInv, StaleInv
  <1> QED
    BY <1>1, <1>2, <1>3, <1>v

LEMMA NextKeeps ==
    ASSUME IInv, [Next]_vars
    PROVE  IInv'
  <1>1. CASE UNCHANGED vars
    BY <1>1, StutterKeeps
  <1>2. ASSUME NEW p \in Pods,
               PodCreate(p) \/ PodStart(p) \/ PodDelete(p) \/ Unpublish(p) \/ PodGone(p) \/ PublishBegin(p)
        PROVE  IInv'
    BY <1>2, PodCreateKeeps, PodStartKeeps, PodDeleteKeeps, UnpublishKeeps, PodGoneKeeps,
       PublishBeginKeeps
  <1>3. CASE PublishLock \/ Restage \/ PublishBind \/ Stage \/ Unstage \/ ForceReadOnly
    BY <1>3, PublishLockKeeps, RestageKeeps, PublishBindKeeps, StageKeeps, UnstageKeeps,
       ForceReadOnlyKeeps
  <1>4. CASE Tick
    BY <1>4, TickReadKeeps, TickAllKeeps, TickWellKeeps, TickMarkKeeps, TickGetKeeps,
       TickListKeeps, TickDeleteKeeps, TickHoldKeeps DEF Tick
  <1>5. CASE TimePasses \/ Restart
    BY <1>5, TimePassesKeeps, RestartKeeps
  <1> QED
    BY <1>1, <1>2, <1>3, <1>4, <1>5 DEF Next

LEMMA Invariance == Spec => []IInv
  BY InitEstablishes, NextKeeps, PTL DEF Spec

-----------------------------------------------------------------------------
(* The theorems. *)

\* The variables keep their types; the hold-off and the lag of a tick stay
\* within RemediationHold (monitor.go handleFailed, failures.go).
THEOREM TypeCorrect == Spec => []TypeOK
  <1>1. IInv => TypeOK
    BY DEF IInv
  <1> QED
    BY <1>1, Invariance, PTL

\* However slow a round of deletions is, and whatever re-stages, new failures
\* and ticks come in between, the next one that may delete reads its clock a
\* Hold after this one did (monitor.go handleFailed, failures.go Hold).
THEOREM RoundsAreApart == Spec => RoundsApart
  <1>1. ASSUME IInv, [Next]_vars
        PROVE  [step = "walk" /\ step' = "get" /\ due' => since = Hold]_vars
    <2> SUFFICES ASSUME step = "walk", step' = "get", due'
                 PROVE  since = Hold
      OBVIOUS
    <2>1. TickMark
      BY <1>1 DEF Next, Tick, vars, cluster, staged, identity, marks, memory, tick, history,
         faults, PodCreate, PodStart, PodDelete, Unpublish, PodGone, PublishBegin, PublishLock, Restage,
         PublishBind, Stage, Unstage, ForceReadOnly, TickRead, TickAll, TickWell, TickGet,
         TickList, TickDelete, TickHold, TimePasses, Restart, TickEnds
    <2>2. held = 0
      BY <2>1 DEF TickMark
    <2> QED
      BY <1>1, <2>2, RemediationAssumption DEF IInv, HoldInv, TypeOK
  <1> QED
    BY <1>1, Invariance, PTL DEF Spec, RoundsApart

\* Between the list and the delete pods terminate, vanish and are replaced
\* under the same name, and still what a round terminates has a controller
\* and was found with the filesystem (monitor.go skipReason, kube/client.go
\* DeletePod).
THEOREM OnlyUsersAreDeleted == Spec => OnlyUsersDeleted
  <1> DEFINE Kept == \A p \in Pods :
               step = "delete" /\ pod[p] # "terminating" /\ pod'[p] = "terminating" /\ users' # users
                 => p \in owned \cap targets
  <1>1. ASSUME IInv, [Next]_vars
        PROVE  [Kept]_vars
    <2> SUFFICES ASSUME NEW p \in Pods, step = "delete", pod[p] # "terminating",
                        pod'[p] = "terminating", users' # users
                 PROVE  p \in owned \cap targets
      OBVIOUS
    <2>1. PICK q \in Pods : TickDelete(q)
      BY <1>1 DEF Next, Tick, vars, cluster, staged, identity, marks, memory, tick, history,
         faults, PodCreate, PodStart, PodDelete, Unpublish, PodGone, PublishBegin, PublishLock, Restage,
         PublishBind, Stage, Unstage, ForceReadOnly, TickRead, TickAll, TickWell, TickMark, TickGet,
         TickList, TickHold, TimePasses, Restart
    <2>2. p = q /\ q \in users
      BY <2>1 DEF TickDelete, Deleted
    <2> QED
      BY <1>1, <2>2 DEF IInv, UsersInv
  <1> QED
    BY <1>1, Invariance, PTL DEF Spec, OnlyUsersDeleted

\* Until the plugin restarts, a pod made after the monitor had deleted one
\* for a failure is in no round for that failure: the mark that outlives the
\* round keeps it off the failed filesystem (failures.go, node.go
\* NodePublishVolume, restageFailed).
THEOREM ReplacementsAreSpared == Spec => []ReplacementSpared
  <1>1. IInv => ReplacementSpared
    BY DEF IInv, ReplaceInv, StaleInv, ReplacementSpared, Early
  <1> QED
    BY <1>1, Invariance, PTL

\* No pod gets the same event twice from one process about one mount, though
\* marks are cleared, and the memory of what was sent is dropped, while ticks
\* that read an older mount are under way (monitor.go eventSent, skipEvented,
\* forget).
THEOREM EventsAreSentOnce == Spec => []EventsOnce
  <1>1. IInv => EventsOnce
    BY DEF IInv, MemoryInv, EventsOnce
  <1> QED
    BY <1>1, Invariance, PTL
=============================================================================
