---------------------------- MODULE StoreRegistry ----------------------------
(***************************************************************************)
(* store.Registry (pkg/store/registry.go) for one NFS export: the mount at *)
(* <root>/<mountID> that all its stores share, the cache of it, and        *)
(* the staleness check that runs in a goroutine of its own because a stat  *)
(* on a hung export blocks for good.                                       *)
(*                                                                         *)
(* Get runs under one mutex per mount, so what a Get is doing is the state *)
(* of the mutex holder; the others wait.  Mounts drop, and the export      *)
(* hangs, at any moment.                                                   *)
(*                                                                         *)
(* Definitions named <operator>_<change> are mutants: the operator as a    *)
(* plausible bug would have it, to show that a property notices.           *)
(***************************************************************************)
EXTENDS StoreConfig

CONSTANTS
    Export,      \* the MountID of the export
    Gets,        \* BOUND: Get calls that can run at a time
    Hazards,     \* the kinds of fault that may happen
    MaxFaults,   \* BOUND on how many faults happen
    None         \* no store, no mutex holder, no answer

HazardKinds == {"cmd", "check", "findmnt", "timeout", "adopt", "drop", "hang", "restart"}

ASSUME RegistryAssumption ==
    /\ Hazards \subseteq HazardKinds
    /\ MaxFaults \in Nat
    /\ None \notin Gets \cup {"mounted", "gone", "error"}

\* The stores on the export, by the requests that lead to them.
Configs ==
    {c \in {ConfigFromParams(p) : p \in {q \in Params : Accepted(q)}} : MountID(c) = Export}
SubDirs == {SubDirOf(c) : c \in Configs} \ {<<>>}

VARIABLES
    depth,       \* mounts stacked on the mount directory
    hung,        \* the export does not answer
    dirs,        \* subDirs that exist on the export
    cached,      \* Registry.mounted has the mount
    stores,      \* Registry.stores: ids of the stores handed out since the mount
    pc, arg,     \* per Get: step and Config
    holder,      \* the Get that has the mount's mutex
    checking,    \* Registry.checking has a channel for the mount
    running,     \* check goroutines that have not answered
    answer,      \* what is in the channel
    live, unsure,\* of the holder: the mount was there since it started; no answer in time
    count,       \* how many faults happened
    happened     \* and of which kinds

calls == <<pc, arg, holder>>
check == <<checking, running, answer>>
seen  == <<live, unsure>>
faults == <<count, happened>>
vars   == <<depth, hung, dirs, cached, stores, calls, check, seen, faults>>

Init ==
    /\ depth = 0 /\ hung = FALSE /\ dirs = {}
    /\ cached = FALSE /\ stores = {}
    /\ pc = [g \in Gets |-> "idle"] /\ arg = [g \in Gets |-> None] /\ holder = None
    /\ checking = FALSE /\ running = 0 /\ answer = None
    /\ live = FALSE /\ unsure = FALSE
    /\ count = 0 /\ happened = {}

Fault(kind) ==
    /\ kind \in Hazards
    /\ count < MaxFaults
    /\ count' = count + 1
    /\ happened' = happened \cup {kind}

Goto(g, step) == pc' = [pc EXCEPT ![g] = step] /\ UNCHANGED <<arg, holder>>

\* The Get returns and unlocks.
Return(g) ==
    /\ pc' = [pc EXCEPT ![g] = "idle"]
    /\ arg' = [arg EXCEPT ![g] = None]
    /\ holder' = None
    /\ live' = FALSE /\ unsure' = FALSE

-----------------------------------------------------------------------------
(* Get. *)

Begin(g, c) ==
    /\ pc[g] = "idle"
    /\ pc' = [pc EXCEPT ![g] = "lock"]
    /\ arg' = [arg EXCEPT ![g] = c]
    /\ UNCHANGED <<depth, hung, dirs, cached, stores, holder, check, seen, faults>>

\* The mutex, then the cache: a cached mount is checked before it is used.
AfterLock_TrustsCache == IF cached THEN "sub" ELSE "mount"
AfterLock == IF cached THEN "check" ELSE "mount"

Lock_NoMutex(g) ==
    /\ pc[g] = "lock"
    /\ holder' = g
    /\ pc' = [pc EXCEPT ![g] = AfterLock]
    /\ live' = (depth > 0) /\ unsure' = FALSE
    /\ UNCHANGED <<depth, hung, dirs, cached, stores, arg, check, faults>>
Lock(g) ==
    /\ pc[g] = "lock" /\ holder = None
    /\ holder' = g
    /\ pc' = [pc EXCEPT ![g] = AfterLock]
    /\ live' = (depth > 0) /\ unsure' = FALSE
    /\ UNCHANGED <<depth, hung, dirs, cached, stores, arg, check, faults>>

\* evictStores: the mount and every store below it are forgotten.
Evicted_RootOnly == stores
Evicted == {}
Evict(g) == cached' = FALSE /\ stores' = Evicted /\ Goto(g, "mount") /\ UNCHANGED seen

\* The mount is taken to be there, though no check says so.
Assume(g) == Goto(g, "sub") /\ unsure' = TRUE /\ UNCHANGED <<cached, stores, live>>

\* checkMountPoint with a check already in flight: its answer, if it is
\* there by now, only frees the slot.
JoinCheck(g) ==
    /\ checking
    /\ checking' = (answer = None) /\ answer' = None
    /\ Assume(g)
    /\ UNCHANGED running

Check(g) ==
    /\ pc[g] = "check"
    /\ \/ JoinCheck(g)
       \/ /\ ~checking
          /\ checking' = TRUE /\ running' = running + 1
          /\ Goto(g, "wait")
          /\ UNCHANGED <<answer, cached, stores, seen>>
    /\ UNCHANGED <<depth, hung, dirs, faults>>

\* stillMounted: only a definitive "not a mount point" evicts.
Condemns_Error(a) == a \in {"gone", "error"}
Condemns(a) == a = "gone"

\* The answer is in time.
Answered(g) ==
    /\ pc[g] = "wait" /\ answer # None
    /\ checking' = FALSE /\ answer' = None
    /\ CASE Condemns(answer) -> Evict(g)
         [] ~Condemns(answer) /\ answer = "error" -> Assume(g)
         [] OTHER -> Goto(g, "sub") /\ UNCHANGED <<cached, stores, seen>>
    /\ UNCHANGED <<depth, hung, dirs, running, faults>>

TimerFires_Never(g) == FALSE /\ UNCHANGED vars
TimerFires_FreesSlot(g) ==
    /\ pc[g] = "wait"
    /\ Assume(g)
    /\ checking' = FALSE
    /\ UNCHANGED <<depth, hung, dirs, running, answer, faults>>
\* The check is abandoned: its channel stays in the slot.
TimerFires(g) ==
    /\ pc[g] = "wait"
    /\ Assume(g)
    /\ UNCHANGED <<depth, hung, dirs, check, faults>>

\* mkdir of the mount directory and mount(8), which a hung export holds up.
\* One killed by the deadline may have mounted all the same.
Mount(g) ==
    /\ pc[g] = "mount"
    /\ \/ ~hung /\ depth' = depth + 1 /\ cached' = TRUE /\ Goto(g, "sub") /\ live' = TRUE
          /\ UNCHANGED <<unsure, faults>>
       \/ Fault("cmd") /\ Return(g) /\ UNCHANGED <<depth, cached>>
       \/ Fault("timeout") /\ depth' \in {depth, depth + 1} /\ Return(g) /\ UNCHANGED cached
    /\ UNCHANGED <<hung, dirs, stores, check>>

\* A subDir is made once per mount (a mkdir on a hung export blocks), and
\* the store is recorded.  With no mount there, the mkdir lands in the bare
\* directory.
MakesSubDir(c) == SubDirOf(c) # <<>> /\ StoreID(c) \notin stores
SubDir(g) ==
    /\ pc[g] = "sub"
    /\ \/ /\ MakesSubDir(arg[g]) => ~(hung /\ depth > 0)
          /\ dirs' = IF MakesSubDir(arg[g]) /\ depth > 0 THEN dirs \cup {SubDirOf(arg[g])} ELSE dirs
          /\ stores' = stores \cup {StoreID(arg[g])}
          /\ UNCHANGED faults
       \/ MakesSubDir(arg[g]) /\ Fault("cmd") /\ UNCHANGED <<dirs, stores>>
    /\ Return(g)
    /\ UNCHANGED <<depth, hung, cached, check>>

Get(g) == Lock(g) \/ Check(g) \/ Answered(g) \/ TimerFires(g) \/ Mount(g) \/ SubDir(g)

-----------------------------------------------------------------------------
(* The check goroutine, and the world. *)

\* IsMountPoint: the truth, an error, or, when its second findmnt fails,
\* "not mounted".
CheckAnswers ==
    /\ running > 0 /\ ~hung
    /\ running' = running - 1
    /\ \/ answer' = (IF depth > 0 THEN "mounted" ELSE "gone") /\ UNCHANGED faults
       \/ Fault("check") /\ answer' = "error"
       \/ Fault("findmnt") /\ answer' = "gone"
    /\ UNCHANGED <<depth, hung, dirs, cached, stores, calls, checking, seen>>

\* The mount goes away under the process.
Drop ==
    /\ depth > 0
    /\ Fault("drop")
    /\ depth' = depth - 1
    /\ UNCHANGED <<hung, dirs, cached, stores, calls, check, seen>>

Hang ==
    /\ ~hung
    /\ Fault("hang")
    /\ hung' = TRUE
    /\ UNCHANGED <<depth, dirs, cached, stores, calls, check, seen>>

Recover == hung /\ hung' = FALSE /\ UNCHANGED <<depth, dirs, cached, stores, calls, check, seen, faults>>

\* The plugin restarts.  Its mounts survive under a hostPath, not in a new
\* pod's emptyDir; AdoptExisting caches a mount it finds, unless its check
\* fails.  A hung export holds start-up up until it answers.
Restart ==
    /\ Fault("restart")
    /\ depth' \in {0, depth}
    /\ hung => depth' = 0
    /\ cached' = (depth' > 0)
    /\ stores' = {}
    /\ pc' = [g \in Gets |-> "idle"] /\ arg' = [g \in Gets |-> None] /\ holder' = None
    /\ checking' = FALSE /\ running' = 0 /\ answer' = None
    /\ live' = FALSE /\ unsure' = FALSE
    /\ UNCHANGED <<hung, dirs>>

AdoptFails ==
    /\ Fault("adopt")
    /\ hung => depth = 0
    /\ cached' = FALSE
    /\ stores' = {}
    /\ pc' = [g \in Gets |-> "idle"] /\ arg' = [g \in Gets |-> None] /\ holder' = None
    /\ checking' = FALSE /\ running' = 0 /\ answer' = None
    /\ live' = FALSE /\ unsure' = FALSE
    /\ UNCHANGED <<depth, hung, dirs>>

Next ==
    \/ \E g \in Gets : (\E c \in Configs : Begin(g, c)) \/ Get(g)
    \/ CheckAnswers \/ Drop \/ Hang \/ Recover \/ Restart \/ AdoptFails

Spec == Init /\ [][Next]_vars

\* A Get runs on, and its timer fires.  Nothing is assumed of the export.
FairSpec == Spec /\ \A g \in Gets : WF_vars(Get(g))

-----------------------------------------------------------------------------
(* Properties. *)

\* The variables stay within the values Get and its check use, and only the
\* mutex holder is past the mutex.
TypeOK ==
    /\ depth \in Nat /\ hung \in BOOLEAN /\ dirs \subseteq SubDirs
    /\ cached \in BOOLEAN /\ stores \subseteq {StoreID(c) : c \in Configs}
    /\ pc \in [Gets -> {"idle", "lock", "check", "wait", "mount", "sub"}]
    /\ arg \in [Gets -> Configs \cup {None}]
    /\ holder \in Gets \cup {None}
    /\ \A g \in Gets : holder = g <=> pc[g] \notin {"idle", "lock"}
    /\ checking \in BOOLEAN /\ running \in Nat
    /\ answer \in {None, "mounted", "gone", "error"}
    /\ live \in BOOLEAN /\ unsure \in BOOLEAN
    /\ count \in 0..MaxFaults /\ happened \subseteq Hazards

\* No mount is stacked over one that is still there: nothing would ever
\* unstack it (registry.go stillMounted, checkMountPoint).  A mount(8) that
\* is killed, a misreading check and a failed adoption lose track of one.
NeverStacks == happened \cap {"timeout", "findmnt", "adopt"} = {} => depth <= 1

\* At most one check of the mount is in flight, so retries against a hung
\* export leak no goroutines (registry.go checkMountPoint).
OneCheckInFlight == running <= 1

\* A Get that succeeds hands out a path that was mounted at some moment of
\* the call, unless its check gave no answer: a dropped mount does not read
\* as a healthy, empty store (registry.go Get, stillMounted).
HandsOutLiveMount ==
    [][\A g \in Gets :
         pc[g] = "sub" /\ pc'[g] = "idle" /\ StoreID(arg[g]) \in stores' => live \/ unsure]_vars

\* A recorded store has its subDir on the mounted export, though a Get may
\* have made it in the bare directory of a dropped mount before
\* (registry.go Get, evictStores).  Nobody removes a directory of the export
\* by hand: Get does not make a recorded one again (README: "removed
\* out-of-band is not recreated until that export's mount is re-established").
RecordedSubDirExists ==
    depth > 0 => \A c \in Configs :
                     StoreID(c) \in stores => SubDirOf(c) \in dirs \cup {<<>>}

\* Every store handed out, and every one on another mount, is one the node
\* finds again from the volume context, with the format asked for, and no
\* two namespaces share it where the class keeps them apart (parse.go
\* resolveSubDir, ToVolumeContext; encryption.go formatToVolumeContext).
Placement ==
    LET elsewhere == {id \in StoreIDs : \A c \in Configs : id # StoreID(c)}
    IN  Misplaced \cap (stores \cup elsewhere) = {}

\* A Get never waits for good on a check, even of an export that stays hung
\* (registry.go checkMountPoint).
CheckNeverWedges ==
    \A g \in Gets : pc[g] \in {"check", "wait"} ~> pc[g] \notin {"check", "wait"}
=============================================================================
