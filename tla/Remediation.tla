----------------------------- MODULE Remediation -----------------------------
(***************************************************************************)
(* The failure monitor of the node plugin (pkg/driver/monitor.go,          *)
(* failures.go, pkg/kube) at work on one volume: it finds the staged       *)
(* filesystem forced read-only, marks the volume, tells the pods that use  *)
(* it and deletes them, so that their controller makes new ones and the    *)
(* next publish re-stages the volume.  A tick works on the mountinfo it    *)
(* read first and on the pods it listed later, while pods come and go, the *)
(* volume is re-staged and time passes.  The commands of a stage are       *)
(* NodeVolume's concern: here a re-stage is its two visible halves, and    *)
(* the state entry is whether a re-stage finds in it what it needs.        *)
(*                                                                         *)
(* Definitions named <operator>_<change> are mutants: the operator as a    *)
(* plausible bug would have it, to show that a property notices.           *)
(*                                                                         *)
(* Time is relative.  TimePasses ends the current second: a StartTime is   *)
(* in whole seconds and a mark is not, so a pod that starts later in the   *)
(* second of the mark still counts as started before it.                   *)
(***************************************************************************)
EXTENDS Naturals, FiniteSets

CONSTANTS
    MaxPods,     \* BOUND on how many pods use the volume on this node, one after another
    ByHand,      \* pods that no controller owns use the volume too
    Encrypted,   \* the volume's context says encrypted: "true"
    Signal,      \* what mountinfo shows of an ext4 that was forced read-only
    AutoDelete,  \* the flag --auto-delete-pod-when-volume-failed
    Hold,        \* RemediationHold, in units of TimePasses
    Hazards,     \* the kinds of fault that may happen
    MaxFaults    \* BOUND on how many faults happen

HazardKinds == {"api", "restart", "cmd"}

\* The superblock is "ro" up to kernel 6.11, "emergency_ro" is among its
\* options from 6.15 on, and nothing shows in between.
Signals == {"ro", "emergency_ro", "none"}

ASSUME RemediationAssumption ==
    /\ ByHand \in BOOLEAN /\ AutoDelete \in BOOLEAN
    /\ Encrypted \in BOOLEAN /\ Signal \in Signals
    /\ Hold \in Nat \ {0}
    /\ Hazards \subseteq HazardKinds
    /\ MaxFaults \in Nat
    /\ MaxPods \in Nat

Pods == 1..MaxPods  \* UIDs, in the order they are given out
None == 0           \* no pod

VARIABLES
    \* the cluster and the kubelet
    pod,         \* each pod: "none", "pending" (no StartTime), "running", "terminating", "gone"
    owned,       \* pods with a controlling owner
    name,        \* the pod's name: its own UID, or the UID of a pod it is named like
    bound,       \* what is at its target path: "no", "fs", or "bare" with nothing staged
    pub, who,    \* where the NodePublishVolume is that runs, and for which pod
    kstaged,     \* the kubelet holds the volume as staged
    fs,          \* the staging path: "none", "healthy", or "ro" (forced read-only)
    \* the plugin process
    entry,       \* the volume's entry in State.data: "none", or with all a re-stage needs
                 \* ("full"), with no key in memory ("keyless"), of an older version ("old")
    mode,        \* Monitor: "blind" without Kube, else "report" or "delete" (AutoDelete)
    marked,      \* failures.failed has the volume,
    fresh, after,\* in this second; pods whose StartTime is not before failedAt
    held,        \* time left until HeldUntil
    eventSent,   \* Monitor.eventSent
    skipEvented, \* Monitor.skipEvented: pods
    \* the tick
    step, snap, targets, \* where it is; the staging path and publish targets as read
    due, users,  \* its now was not before HeldUntil; pods left to delete
    lag,         \* time since its now
    \* history, for the properties
    since,       \* time since the now of the last round of deletions
    remedied,    \* the monitor has deleted a pod for the failure at hand
    replaces,    \* pods made after that
    spared,      \* those the tick found published
    same,        \* the failure at hand is the one the tick read of
    sent,        \* events sent since the staging mount changed,
    repeated,    \* and whether one was sent again
    \* the faults so far
    count,       \* how many faults happened
    happened     \* and of which kinds

identity == <<owned, name>>
staged  == <<kstaged, entry>>
cluster == <<pod, identity, bound, pub, who, staged, fs>>
marks   == <<marked, fresh, after>>
memory  == <<eventSent, skipEvented>>
tick    == <<step, snap, targets, due, users, lag, spared, same>>
history == <<since, remedied, replaces, sent, repeated>>
faults  == <<count, happened>>
vars    == <<cluster, mode, marks, held, memory, tick, history, faults>>

Steps == {"idle", "all", "walk", "get", "list", "delete", "hold"}
Kinds == {"failed", "skipped"}

\* A live pod is one a list returns.
Live == {p \in Pods : pod[p] \in {"pending", "running", "terminating"}}

\* The mode cmd/node/main.go starts in: there is no API access, the flag is
\* off or PolicyEnforced does not say yes, or deletion is on.
StartMode(inCluster, enforced) ==
    IF ~inCluster THEN "blind" ELSE IF AutoDelete /\ enforced THEN "delete" ELSE "report"
StartModes == {StartMode(c, e) : c, e \in BOOLEAN}

\* Nothing uses the volume yet; or a pod does for which an older version of
\* the plugin has staged it.
InitNew ==
    /\ pod = [p \in Pods |-> "none"]
    /\ owned = {}
    /\ bound = [p \in Pods |-> "no"]
    /\ kstaged = FALSE /\ entry = "none" /\ fs = "none"
InitUpgraded ==
    /\ 1 \in Pods
    /\ pod = [p \in Pods |-> IF p = 1 THEN "running" ELSE "none"]
    /\ owned = {1} \/ (ByHand /\ owned = {})
    /\ bound = [p \in Pods |-> IF p = 1 THEN "fs" ELSE "no"]
    /\ kstaged = TRUE /\ entry = "old" /\ fs = "healthy"

Init ==
    /\ InitNew \/ InitUpgraded
    /\ name = [p \in Pods |-> p]
    /\ pub = "idle" /\ who = None
    /\ mode \in StartModes
    /\ marked = FALSE /\ fresh = FALSE /\ after = {}
    /\ held = 0
    /\ eventSent = FALSE /\ skipEvented = {}
    /\ step = "idle" /\ snap = "none" /\ targets = {}
    /\ due = FALSE /\ users = {} /\ lag = 0
    /\ spared = {} /\ same = FALSE
    /\ since = Hold /\ remedied = FALSE /\ replaces = {}
    /\ sent = {} /\ repeated = FALSE
    /\ count = 0 /\ happened = {}

Fault(kind) ==
    /\ kind \in Hazards
    /\ count < MaxFaults
    /\ count' = count + 1
    /\ happened' = happened \cup {kind}

-----------------------------------------------------------------------------
(* The pods: their controllers, the API server and the kubelet. *)

\* A user creates a pod, or a controller: with a name of its own, or, as a
\* StatefulSet does, with the name of a pod that is gone.
PodCreate(p) ==
    /\ pod[p] = "none" /\ \A q \in Pods : q < p => pod[q] # "none"
    /\ \/ UNCHANGED name
       \/ \E q \in Pods : pod[q] = "gone" /\ name' = [name EXCEPT ![p] = name[q]]
    /\ \A q \in Live : name[q] # name'[p]
    /\ pod' = [pod EXCEPT ![p] = "pending"]
    /\ owned' = owned \cup {p} \/ (ByHand /\ owned' = owned)
    /\ replaces' = IF remedied THEN replaces \cup {p} ELSE replaces
    /\ UNCHANGED <<bound, pub, who, staged, fs, mode, marks, held, memory, tick,
                   since, remedied, sent, repeated, faults>>

\* The kubelet accepts the pod: its StartTime is the current second.
PodStart(p) ==
    /\ pod[p] = "pending"
    /\ pod' = [pod EXCEPT ![p] = "running"]
    /\ after' = IF fresh \/ ~(marked \/ step = "list") THEN after ELSE after \cup {p}
    /\ UNCHANGED <<identity, bound, pub, who, staged, fs, mode, marked, fresh, held, memory, tick,
                   history, faults>>

Terminated(p) == [pod EXCEPT ![p] = IF @ \in {"pending", "running"} THEN "terminating" ELSE @]

\* A user or a controller deletes the pod.
PodDelete(p) ==
    /\ pod[p] \in {"pending", "running"}
    /\ pod' = Terminated(p)
    /\ UNCHANGED <<identity, bound, pub, who, staged, fs, mode, marks, held, memory, tick,
                   history, faults>>

\* Its containers are gone: NodeUnpublishVolume, and then the pod itself.
Unpublish(p) ==
    /\ pod[p] = "terminating" /\ pub = "idle" /\ bound[p] # "no"
    /\ bound' = [bound EXCEPT ![p] = "no"]
    /\ UNCHANGED <<pod, identity, pub, who, staged, fs, mode, marks, held, memory, tick,
                   history, faults>>

PodGone(p) ==
    /\ pod[p] = "terminating" /\ who # p /\ bound[p] = "no"
    /\ pod' = [pod EXCEPT ![p] = "gone"]
    /\ UNCHANGED <<identity, bound, pub, who, staged, fs, mode, marks, held, memory, tick,
                   history, faults>>

-----------------------------------------------------------------------------
(* The node server, as far as the monitor sees it. *)

\* What changes with the staging mount: events are per failure.
NewMount(s) == fs' = s /\ sent' = {}

\* failures.Clear; a tick that has got the time of the mark keeps it.
Clear ==
    /\ marked' = FALSE
    /\ IF step = "list" THEN UNCHANGED <<fresh, after>> ELSE fresh' = FALSE /\ after' = {}

\* NodeStageVolume for the first pod that needs the volume; it ends with Clear.
Stage ==
    /\ ~kstaged
    /\ \E p \in Pods : pod[p] = "running"
    /\ kstaged' = TRUE /\ entry' = "full"
    /\ NewMount("healthy")
    /\ Clear
    /\ UNCHANGED <<pod, identity, bound, pub, who, mode, held, memory, tick,
                   since, remedied, replaces, repeated, faults>>

\* NodeUnstageVolume once no pod needs it; it ends with Clear as well.
Unstage ==
    /\ kstaged
    /\ pub = "idle" /\ \A p \in Pods : bound[p] = "no" /\ pod[p] # "running"
    /\ kstaged' = FALSE /\ entry' = "none"
    /\ NewMount("none")
    /\ Clear
    /\ UNCHANGED <<pod, identity, bound, pub, who, mode, held, memory, tick,
                   since, remedied, replaces, repeated, faults>>

\* NodePublishVolume: the mark is read without the mutex.  The kubelet runs
\* one operation of a volume at a time.
PublishBegin_IgnoresMark(p) ==
    /\ pub = "idle" /\ kstaged /\ pod[p] = "running" /\ bound[p] = "no"
    /\ pub' = "bind" /\ who' = p
    /\ UNCHANGED <<pod, identity, bound, staged, fs, mode, marks, held, memory, tick, history, faults>>
PublishBegin(p) ==
    /\ pub = "idle" /\ kstaged /\ pod[p] = "running" /\ bound[p] = "no"
    /\ pub' = IF marked THEN "lock" ELSE "bind"
    /\ who' = p
    /\ UNCHANGED <<pod, identity, bound, staged, fs, mode, marks, held, memory, tick, history, faults>>

PublishFails == pub' = "idle" /\ who' = None

\* restageFailed refuses: no entry, a pod that still has the staged
\* filesystem at its target, an entry of an older version, or no key since
\* the plugin restarted.  (What it tells the pod is not one of the monitor's
\* events.)
CannotRestage == entry # "full" \/ (fs # "none" /\ \E q \in Pods : bound[q] = "fs")

\* restageFailed looks again under the mutex, and the old mount goes.
PublishLock ==
    /\ pub = "lock"
    /\ CASE ~marked -> pub' = "bind" /\ UNCHANGED <<who, fs, sent>>
         [] marked /\ CannotRestage -> PublishFails /\ UNCHANGED <<fs, sent>>
         [] OTHER -> pub' = "restage" /\ NewMount("none") /\ UNCHANGED who
    /\ UNCHANGED <<pod, identity, bound, staged, mode, marks, held, memory, tick,
                   since, remedied, replaces, repeated, faults>>

\* What a successful re-stage does to the mark.
RestageClears_Never == UNCHANGED marks
RestageClears == Clear

\* stageLocked from a fresh open of the image, or an error with nothing staged.
Restage ==
    /\ pub = "restage"
    /\ \/ /\ NewMount("healthy")
          /\ RestageClears
          /\ pub' = "bind"
          /\ UNCHANGED <<who, faults>>
       \/ /\ Fault("cmd")
          /\ PublishFails
          /\ UNCHANGED <<fs, sent, marks>>
    /\ UNCHANGED <<pod, identity, bound, staged, mode, held, memory, tick,
                   since, remedied, replaces, repeated>>

\* mount --bind of whatever is at the staging path.
PublishBind ==
    /\ pub = "bind"
    /\ bound' = [bound EXCEPT ![who] = IF fs = "none" THEN "bare" ELSE "fs"]
    /\ pub' = "idle" /\ who' = None
    /\ UNCHANGED <<pod, identity, staged, fs, mode, marks, held, memory, tick, history, faults>>

\* An I/O error of the backing store: ext4 forces itself read-only.
ForceReadOnly ==
    /\ fs = "healthy"
    /\ NewMount("ro")
    /\ remedied' = FALSE /\ replaces' = {} /\ same' = FALSE
    /\ UNCHANGED <<pod, identity, bound, pub, who, staged, mode, marks, held, memory, step, snap,
                   targets, due, users, lag, spared, since, repeated, faults>>

-----------------------------------------------------------------------------
(* Monitor.Tick and handleFailed. *)

TickEnds == step' = "idle" /\ snap' = "none" /\ targets' = {} /\ due' = FALSE /\ users' = {}
            /\ lag' = 0 /\ spared' = {} /\ same' = FALSE

Forget == eventSent' = FALSE /\ skipEvented' = {}

\* What mountinfo says of the staging path (LastAt, ForcedReadOnly).
Seen == IF fs = "ro" /\ Signal \notin {"ro", "emergency_ro"} THEN "healthy" ELSE fs

\* Mountinfo: the staging path, and the pods with its filesystem at their target.
TickRead ==
    /\ step = "idle"
    /\ step' = "all"
    /\ snap' = Seen
    /\ targets' = IF fs = "none" THEN {} ELSE {p \in Pods : bound[p] = "fs"}
    /\ spared' = replaces \cap targets' /\ same' = TRUE
    /\ UNCHANGED <<cluster, mode, marks, held, memory, due, users, lag,
                   history, faults>>

\* State.All: a volume without an entry is not looked at.
TickAll ==
    /\ step = "all"
    /\ IF entry = "none" THEN TickEnds
       ELSE step' = "walk" /\ UNCHANGED <<snap, targets, due, users, lag, spared, same>>
    /\ UNCHANGED <<cluster, mode, marks, held, memory, history, faults>>

\* A healthy stage clears the mark, an absent one waits; both forget.
TickWell ==
    /\ step = "walk" /\ snap # "ro"
    /\ IF snap = "healthy" THEN Clear ELSE UNCHANGED marks
    /\ Forget
    /\ TickEnds
    /\ UNCHANGED <<cluster, mode, held, history, faults>>

\* failures.Mark keeps the time of a mark that is there.
Mark ==
    /\ marked' = TRUE
    /\ IF marked THEN UNCHANGED <<fresh, after, memory>>
       ELSE fresh' = TRUE /\ after' = {} /\ Forget

\* handleFailed begins: now, and whether the hold-off is over by then.
TickMark ==
    /\ step = "walk" /\ snap = "ro"
    /\ Mark
    /\ due' = (held = 0)
    /\ step' = "get"
    /\ UNCHANGED <<cluster, mode, held, snap, targets, users, lag, spared, same,
                   history, faults>>

\* failures.Get, and whether there is anything to ask the API for.  A mark
\* that was cleared in between reads as the zero time, before every StartTime.
NeedPods == mode # "blind" /\ (~eventSent \/ (mode = "delete" /\ due))
TickGet ==
    /\ step = "get"
    /\ IF NeedPods
       THEN step' = "list" /\ UNCHANGED <<snap, targets, due, users, lag, spared, same>>
       ELSE TickEnds
    /\ IF marked THEN UNCHANGED <<fresh, after>> ELSE fresh' = FALSE /\ after' = Pods
    /\ UNCHANGED <<cluster, mode, marked, held, memory, history, faults>>

\* skipReason: no controller, terminating, or started after the mark.
Skipped(p) == p \notin owned \/ pod[p] # "running" \/ p \in after

\* Monitor.eventSent after the events went out.
Remembers_Never == FALSE
Remembers == TRUE

\* ListPodsOnNode; an event to every pod that uses the volume, the first time;
\* then, when the hold-off is over, one to every pod that is skipped.
TickList ==
    LET using   == targets \cap Live
        skipped == {p \in using : Skipped(p)}
        deletes == mode = "delete" /\ due
        events  == (IF eventSent THEN {} ELSE {"failed"} \X using)
                     \cup (IF deletes THEN {"skipped"} \X (skipped \ skipEvented) ELSE {})
    IN
    /\ step = "list"
    /\ \/ /\ Fault("api")
          /\ TickEnds
          /\ UNCHANGED <<memory, since, sent, repeated>>
       \/ /\ eventSent' = Remembers
          /\ skipEvented' = IF deletes THEN skipEvented \cup skipped ELSE skipEvented
          /\ sent' = sent \cup events
          /\ repeated' = (repeated \/ sent \cap events # {})
          /\ IF deletes /\ using # skipped
             THEN /\ step' = "delete"
                  /\ users' = using \ skipped
                  /\ since' = lag
                  /\ UNCHANGED <<snap, targets, due, lag, spared, same>>
             ELSE TickEnds /\ UNCHANGED since
          /\ UNCHANGED faults
    /\ UNCHANGED <<cluster, mode, marks, held, remedied, replaces>>

\* What the API server deletes: the pod of that UID.
Deleted_ByName(p) == {q \in Live : name[q] = name[p]}
Deleted(p) == {p}

\* DeletePod.  It may fail, with or without effect; the round goes on.
TickDelete(p) ==
    /\ step = "delete" /\ p \in users
    /\ \/ /\ pod' = [q \in Pods |-> IF q \in Deleted(p) THEN Terminated(q)[q] ELSE pod[q]]
          /\ remedied' = (remedied \/ (same /\ pod' # pod))
          /\ UNCHANGED faults \/ Fault("api")
       \/ Fault("api") /\ UNCHANGED <<pod, remedied>>
    /\ users' = users \ {p}
    /\ step' = IF users' = {} THEN "hold" ELSE step
    /\ UNCHANGED <<identity, bound, pub, who, staged, fs, mode, marks, held, memory, snap, targets,
                   due, lag, spared, same, since, replaces, sent, repeated>>

\* failures.Hold, counted from the tick's now.
TickHold_Never ==
    /\ step = "hold"
    /\ TickEnds
    /\ UNCHANGED <<cluster, mode, marks, held, memory, history, faults>>
TickHold_FromEnd ==
    /\ step = "hold"
    /\ held' = Hold + lag
    /\ TickEnds
    /\ UNCHANGED <<cluster, mode, marks, memory, history, faults>>
TickHold ==
    /\ step = "hold"
    /\ held' = Hold - lag
    /\ TickEnds
    /\ UNCHANGED <<cluster, mode, marks, memory, history, faults>>

Tick == TickRead \/ TickAll \/ TickWell \/ TickMark \/ TickGet \/ TickList \/ TickHold
        \/ \E p \in Pods : TickDelete(p)

-----------------------------------------------------------------------------
Up(t) == IF t = Hold THEN t ELSE t + 1

TimePasses ==
    /\ fresh' = FALSE
    /\ held' = IF held = 0 THEN 0 ELSE held - 1
    /\ lag' = IF step \in {"idle", "all", "walk"} THEN 0 ELSE Up(lag)
    /\ since' = Up(since)
    /\ UNCHANGED <<cluster, mode, marked, after, memory, step, snap, targets, due, users, spared, same, remedied, replaces, sent, repeated, faults>>

\* The entry after a restart: the key is gone, and Reconcile drops an entry
\* whose loop device is.
EntryLeft == {IF Encrypted /\ entry = "full" THEN "keyless" ELSE entry}
                 \cup (IF fs = "none" THEN {"none"} ELSE {})

\* The plugin restarts: the marks, the hold-off and the memory are gone.  A
\* re-stage may have got to its mount and not to its entry.
Restart ==
    /\ Fault("restart")
    /\ \/ UNCHANGED fs /\ entry' \in EntryLeft
       \/ pub = "restage" /\ fs' = "healthy" /\ entry' = "none"
    /\ mode' \in StartModes
    /\ marked' = FALSE /\ fresh' = FALSE /\ after' = {}
    /\ held' = 0
    /\ Forget
    /\ pub' = "idle" /\ who' = None
    /\ TickEnds
    /\ since' = Hold /\ sent' = {}
    /\ UNCHANGED <<pod, identity, bound, kstaged, remedied, replaces, repeated>>

Next ==
    \/ \E p \in Pods :
         \/ PodCreate(p) \/ PodStart(p) \/ PodDelete(p) \/ Unpublish(p) \/ PodGone(p)
         \/ PublishBegin(p)
    \/ PublishLock \/ Restage \/ PublishBind
    \/ Stage \/ Unstage \/ ForceReadOnly
    \/ Tick \/ TimePasses \/ Restart

Spec == Init /\ [][Next]_vars

\* The monitor ticks, time passes, the kubelet finishes with pods that
\* terminate and keeps publishing for those that run.
FairSpec ==
    /\ Spec
    /\ WF_vars(Tick) /\ WF_vars(TimePasses)
    /\ WF_vars(PublishLock \/ Restage \/ PublishBind)
    /\ WF_vars(Unstage)
    /\ SF_vars(\E p \in Pods : Unpublish(p))
    /\ SF_vars(\E p \in Pods : PublishBegin(p))

-----------------------------------------------------------------------------
(* Properties. *)

\* The variables stay within the values the monitor and the cluster use.
TypeOK ==
    /\ pod \in [Pods -> {"none", "pending", "running", "terminating", "gone"}]
    /\ owned \subseteq Pods /\ name \in [Pods -> Pods]
    /\ bound \in [Pods -> {"no", "fs", "bare"}]
    /\ pub \in {"idle", "lock", "restage", "bind"} /\ who \in Pods \cup {None}
    /\ kstaged \in BOOLEAN /\ fs \in {"none", "healthy", "ro"}
    /\ entry \in {"none", "old", "keyless", "full"}
    /\ mode \in {"blind", "report", "delete"}
    /\ marked \in BOOLEAN /\ fresh \in BOOLEAN /\ after \subseteq Pods
    /\ held \in 0..Hold
    /\ eventSent \in BOOLEAN /\ skipEvented \subseteq Pods
    /\ step \in Steps /\ snap \in {"none", "healthy", "ro"} /\ targets \subseteq Pods
    /\ due \in BOOLEAN /\ users \subseteq Pods /\ lag \in 0..Hold
    /\ since \in 0..Hold
    /\ remedied \in BOOLEAN /\ replaces \subseteq Pods /\ spared \subseteq Pods
    /\ sent \subseteq Kinds \X Pods /\ repeated \in BOOLEAN /\ same \in BOOLEAN
    /\ count \in 0..MaxFaults /\ happened \subseteq Hazards

\* A tick may delete only when its now is at least a Hold after the now of
\* the last round of deletions of this process, whether deletes fail or the
\* volume is re-staged and fails again in between (monitor.go handleFailed,
\* failures.go Hold: "Clear does not reset it").
RoundsApart == [][step = "walk" /\ step' = "get" /\ due' => since = Hold]_vars

\* A pod made after the monitor had deleted pods for a failure is not deleted
\* for that failure (README: "a replacement pod is never deleted for the
\* failure that replaced it"), as long as the plugin does not restart.
ReplacementSpared ==
    "restart" \notin happened /\ step = "delete" => users \cap spared = {}

\* The pods the monitor deletes had the failed filesystem mounted when it
\* looked and have a controller that makes a new one, also when the name has
\* gone to another pod meanwhile (kube/client.go DeletePod, monitor.go
\* skipReason).
OnlyUsersDeleted ==
    [][\A p \in Pods :
         step = "delete" /\ pod[p] # "terminating" /\ pod'[p] = "terminating" /\ users' # users
            => p \in owned \cap targets]_vars

\* While a mount and the process last, no pod gets the same event twice
\* (monitor.go eventSent, skipEvented, forget).
EventsOnce == ~repeated

\* A filesystem that was forced read-only does not stay: on a kernel that
\* shows it and with deletion on, every pod that uses it can be deleted or
\* goes by itself, and the volume is staged afresh or unstaged.  A pod
\* without a controller keeps it, and a re-stage needs an entry with its
\* context and key (monitor.go handleFailed, node.go restageFailed; README:
\* "the pod gets an event and must be deleted by hand").
Remediated ==
    Signal # "none" =>
        (fs = "ro" ~> \/ fs # "ro" \/ mode # "delete" \/ entry # "full"
                      \/ \E p \in Pods \ owned : bound[p] = "fs")
=============================================================================
