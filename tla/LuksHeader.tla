------------------------------ MODULE LuksHeader ------------------------------
(***************************************************************************)
(* The LUKS2 headers of the encrypted volumes that share one node-stage    *)
(* Secret: crypt.Prepare (pkg/crypt/crypt.go) step by step, the key cache  *)
(* behind an internal re-stage (pkg/driver/node.go cacheKeys and           *)
(* restageFailed), and the operator who rotates the Secret as the README   *)
(* describes.                                                              *)
(*                                                                         *)
(* Calls for one volume are serialised by its mutex and, across nodes, by  *)
(* RWO, so pc[v] is the step v's call is at.  A step is one cryptsetup or  *)
(* mkfs command, or a run of reads with the decision taken on them.  The   *)
(* call's deadline can pass during any command, and the plugin can be      *)
(* killed between any two.                                                 *)
(*                                                                         *)
(* Definitions named <operator>_<change> are mutants: the operator as a    *)
(* plausible bug would have it, to show that a property notices.           *)
(***************************************************************************)
EXTENDS Naturals, FiniteSets

CONSTANTS
    Volumes,     \* encrypted volumes that share the Secret
    MaxKey,      \* BOUND: the last key the operator rotates to
    Hazards,     \* the kinds of fault that may happen
    MaxFaults    \* BOUND on how many faults happen

HazardKinds == {"cmd", "close", "timeout", "torn", "crash"}

ASSUME LuksAssumption ==
    /\ MaxKey \in Nat \ {0}
    /\ Hazards \subseteq HazardKinds
    /\ MaxFaults \in Nat

VARIABLES
    \* on the image
    header,      \* first 16 MiB: "blank", "luks", or "torn": neither
    slots,       \* the keys that open a slot of the header
    label,       \* "unformatted" until mkfs is done
    fs,          \* the filesystem inside: "none", "fresh", or "used" by a pod
    \* on the node
    open,        \* volumes whose mapping is open
    staged,      \* volumes that are mounted and recorded
    pc,          \* where v's call is
    k,           \* the keys the call was given
    cached,      \* NodeServer.keys
    held,        \* volumes the kubelet holds as staged, and publishes
    \* the operator, and what happened so far
    secret,      \* the Secret's key and previousKey
    confirmed,   \* volumes staged afresh with the Secret as it is
    count,       \* how many faults happened
    happened     \* and of which kinds

image    == <<header, slots, label, fs>>
call     == <<pc, k>>
operator == <<secret, confirmed>>
faults   == <<count, happened>>
vars     == <<image, open, staged, call, cached, held, operator, faults>>

NoKey    == 0
KeyPairs == [cur : 0..MaxKey, prev : 0..MaxKey]
NoKeys   == [cur |-> NoKey, prev |-> NoKey]

Pcs == {"idle", "probe", "format", "test", "add", "remove", "open", "dump", "mkfs", "relabel",
        "close", "mount"}

Init ==
    /\ header = [v \in Volumes |-> "blank"]
    /\ slots = [v \in Volumes |-> {}]
    /\ label = [v \in Volumes |-> "unformatted"]
    /\ fs = [v \in Volumes |-> "none"]
    /\ open = {} /\ staged = {} /\ held = {}
    /\ pc = [v \in Volumes |-> "idle"]
    /\ k = [v \in Volumes |-> NoKeys]
    /\ cached = [v \in Volumes |-> NoKeys]
    /\ secret = [cur |-> 1, prev |-> NoKey]
    /\ confirmed = {}
    /\ count = 0 /\ happened = {}

-----------------------------------------------------------------------------
(* Faults and the bookkeeping of a call. *)

Fault(kind) ==
    /\ kind \in Hazards
    /\ count < MaxFaults
    /\ count' = count + 1
    /\ happened' = happened \cup {kind}

\* The call is given the keys ks and starts Prepare.
Start(v, ks) ==
    /\ pc[v] = "idle"
    /\ pc' = [pc EXCEPT ![v] = "probe"]
    /\ k' = [k EXCEPT ![v] = ks]
    /\ UNCHANGED <<image, operator, faults>>

\* The call goes on to step l.
Goto(v, l) == pc' = [pc EXCEPT ![v] = l] /\ UNCHANGED k

\* The call returns.
End(v) ==
    /\ pc' = [pc EXCEPT ![v] = "idle"]
    /\ k' = [k EXCEPT ![v] = NoKeys]

\* A command at step l: it works and the call goes on to the next step, it
\* fails and the call goes on to the other, or the deadline passes while it
\* runs, with its effect or without, and the call is over.  Commands of a
\* call out of time do not start, so neither does the Close that follows.
Command(v, l, Effect, NoEffect, next, otherwise) ==
    /\ pc[v] = l
    /\ \/ Effect /\ Goto(v, next) /\ UNCHANGED faults
       \/ /\ Fault("cmd") /\ NoEffect
          /\ IF otherwise = "idle" THEN End(v) ELSE Goto(v, otherwise)
       \/ Fault("timeout") /\ (Effect \/ NoEffect) /\ End(v)
    /\ UNCHANGED <<staged, cached, held, operator>>

Same == UNCHANGED <<image, open>>

-----------------------------------------------------------------------------
(* crypt.Prepare. *)

\* isLuks and isBlank: only a blank image is formatted (ErrNotBlank).
Probe(v) ==
    /\ pc[v] = "probe"
    /\ CASE header[v] = "luks"  -> Goto(v, "test")
         [] header[v] = "blank" -> Goto(v, "format")
         [] header[v] = "torn"  -> End(v)
    /\ Same /\ UNCHANGED <<staged, cached, held, operator, faults>>

\* A probe, a test or a dump fails.
ReadFails(v) ==
    /\ pc[v] \in {"probe", "test", "dump"}
    /\ \/ /\ Fault("cmd")
          /\ IF pc[v] = "dump" THEN Goto(v, "close") ELSE End(v)
       \/ Fault("timeout") /\ End(v)
    /\ Same /\ UNCHANGED <<staged, cached, held, operator>>

\* luksFormat: one slot, for the current key, and the label that says mkfs
\* is still owed.
Formatted(v, lab) ==
    /\ header' = [header EXCEPT ![v] = "luks"]
    /\ slots' = [slots EXCEPT ![v] = {k[v].cur}]
    /\ label' = [label EXCEPT ![v] = lab]
    /\ fs' = [fs EXCEPT ![v] = "none"]
    /\ UNCHANGED <<open>>
LuksFormat_FinalLabel(v) == Formatted(v, "formatted")
LuksFormat(v) == Formatted(v, "unformatted")

Format(v) ==
    \/ Command(v, "format", LuksFormat(v), Same, "test", "idle")
    \/ /\ pc[v] = "format"  \* killed while it writes the header area
       /\ Fault("torn")
       /\ header' = [header EXCEPT ![v] = "torn"]
       /\ End(v)
       /\ UNCHANGED <<slots, label, fs, open, staged, cached, held, operator>>

\* rotate, up to its first change: which of the keys open, and what is left
\* to do; "idle" is ErrWrongKey.
AfterTest_NoAdd(v) ==
    LET cur  == k[v].cur \in slots[v]
        prev == k[v].prev \in slots[v]
    IN  CASE k[v].prev \in {NoKey, k[v].cur} -> IF cur THEN "open" ELSE "idle"
          [] OTHER -> IF prev THEN "remove" ELSE IF cur THEN "open" ELSE "idle"
AfterTest_KeepsOld(v) ==
    LET cur  == k[v].cur \in slots[v]
        prev == k[v].prev \in slots[v]
    IN  IF cur THEN "open" ELSE IF prev THEN "add" ELSE "idle"
AfterTest_RefusesBoth(v) ==
    LET cur  == k[v].cur \in slots[v]
        prev == k[v].prev \in slots[v]
    IN  IF cur /\ prev THEN "idle" ELSE IF cur THEN "open" ELSE IF prev THEN "add" ELSE "idle"
AfterTest(v) ==
    LET cur  == k[v].cur \in slots[v]
        prev == k[v].prev \in slots[v]
    IN  CASE k[v].prev \in {NoKey, k[v].cur} -> IF cur THEN "open" ELSE "idle"
          [] OTHER -> CASE prev /\ ~cur  -> "add"
                        [] prev /\ cur   -> "remove"
                        [] ~prev /\ cur  -> "open"
                        [] ~prev /\ ~cur -> "idle"

Test(v) ==
    /\ pc[v] = "test"
    /\ IF AfterTest(v) = "idle" THEN End(v) ELSE Goto(v, AfterTest(v))
    /\ Same /\ UNCHANGED <<staged, cached, held, operator, faults>>

LuksAddKey(v) ==
    /\ slots' = [slots EXCEPT ![v] = @ \cup {k[v].cur}]
    /\ UNCHANGED <<header, label, fs, open>>
AddKey(v) == Command(v, "add", LuksAddKey(v), Same, "remove", "idle")

LuksRemoveKey_Current(v) ==
    /\ slots' = [slots EXCEPT ![v] = @ \ {k[v].cur}]
    /\ UNCHANGED <<header, label, fs, open>>
LuksRemoveKey(v) ==
    /\ slots' = [slots EXCEPT ![v] = @ \ {k[v].prev}]
    /\ UNCHANGED <<header, label, fs, open>>
RemoveKey(v) == Command(v, "remove", LuksRemoveKey(v), Same, "open", "idle")

CryptOpen(v) == open' = open \cup {v} /\ UNCHANGED <<image>>
Open(v) == Command(v, "open", CryptOpen(v), Same, "dump", "idle")

\* ensureFilesystem: the label says whether mkfs is owed.
Dump(v) ==
    /\ pc[v] = "dump"
    /\ Goto(v, IF label[v] = "unformatted" THEN "mkfs" ELSE "mount")
    /\ Same /\ UNCHANGED <<staged, cached, held, operator, faults>>

MakeFs(v) == fs' = [fs EXCEPT ![v] = "fresh"] /\ UNCHANGED <<header, slots, label, open>>
Mkfs(v) == Command(v, "mkfs", MakeFs(v), Same, "relabel", "close")

SetLabel_Never(v) == Same
SetLabel(v) ==
    /\ label' = [label EXCEPT ![v] = "formatted"]
    /\ UNCHANGED <<header, slots, fs, open>>
Relabel(v) == Command(v, "relabel", SetLabel(v), Same, "mount", "close")

\* Prepare closes the mapping when ensureFilesystem failed; detachOnFail
\* does when a later step of the stage did.
CryptClose(v) == open' = open \ {v} /\ UNCHANGED <<image>>
CloseAfterFailure(v) ==
    /\ pc[v] = "close"
    /\ \/ CryptClose(v) /\ UNCHANGED faults
       \/ Fault("close") /\ Same
       \/ Fault("timeout") /\ (CryptClose(v) \/ Same)
    /\ End(v)
    /\ UNCHANGED <<staged, cached, held, operator>>

Prepare(v) ==
    \/ Probe(v) \/ ReadFails(v) \/ Format(v) \/ Test(v) \/ AddKey(v) \/ RemoveKey(v)
    \/ Open(v) \/ Dump(v) \/ Mkfs(v) \/ Relabel(v) \/ CloseAfterFailure(v)

-----------------------------------------------------------------------------
(* The calls around Prepare. *)

\* NodeStageVolume of a volume that is not staged; from a kubelet that
\* restarted, also of one it held as staged.
StageBegin(v) ==
    /\ v \notin staged \cup open
    /\ Start(v, secret)
    /\ held' = held \ {v}
    /\ UNCHANGED <<open, staged, cached>>

\* A mapping an earlier call left open is refused before anything is done.
StageRefuses(v) == pc[v] = "idle" /\ v \in open \ staged /\ UNCHANGED vars

\* NodeStageVolume of a staged volume: the keys are only cached, if none are.
StageAlready(v) ==
    /\ pc[v] = "idle" /\ v \in staged
    /\ cached[v] = NoKeys
    /\ cached' = [cached EXCEPT ![v] = secret]
    /\ held' = held \cup {v}
    /\ UNCHANGED <<image, open, staged, call, operator, faults>>

RestageBegin_KeepsStaged(v) ==
    /\ v \in held /\ cached[v] # NoKeys
    /\ v \in open => v \in staged
    /\ Start(v, cached[v])
    /\ open' = open \ {v}
    /\ UNCHANGED <<staged, cached, held>>
\* A publish of a failed volume, restageFailed: tear down, then stage with
\* the cached keys.
RestageBegin(v) ==
    /\ v \in held /\ cached[v] # NoKeys
    /\ v \in open => v \in staged
    /\ Start(v, cached[v])
    /\ staged' = staged \ {v}
    /\ open' = open \ {v}
    /\ UNCHANGED <<cached, held>>

\* Prepare returned: the rest of the stage (fsck, resize2fs, mount, Put)
\* runs.  A success caches the keys.
StageEnds(v) ==
    /\ pc[v] = "mount"
    /\ \/ /\ staged' = staged \cup {v}
          /\ held' = held \cup {v}
          /\ cached' = [cached EXCEPT ![v] = k[v]]
          /\ confirmed' = IF k[v] = secret THEN confirmed \cup {v} ELSE confirmed
          /\ End(v)
          /\ UNCHANGED faults
       \/ /\ Fault("cmd") /\ Goto(v, "close") /\ UNCHANGED <<staged, cached, held, confirmed>>
       \/ /\ Fault("timeout") /\ End(v) /\ UNCHANGED <<staged, cached, held, confirmed>>
    /\ UNCHANGED <<image, open, secret>>

\* NodeUnstageVolume, also of a volume a re-stage left torn down.
Unstage(v) ==
    /\ pc[v] = "idle"
    /\ v \in staged \/ (v \notin open /\ v \in held)
    /\ staged' = staged \ {v}
    /\ held' = held \ {v}
    /\ open' = open \ {v}
    /\ cached' = [cached EXCEPT ![v] = NoKeys]
    /\ UNCHANGED <<image, call, operator, faults>>

\* A pod writes to the filesystem.
PodWrites(v) ==
    /\ v \in staged /\ fs[v] = "fresh"
    /\ fs' = [fs EXCEPT ![v] = "used"]
    /\ UNCHANGED <<header, slots, label, open, staged, call, cached, held, operator, faults>>

\* The plugin is killed; its start-up closes the mappings no entry tracks.
Crash ==
    /\ Fault("crash")
    /\ pc' = [v \in Volumes |-> "idle"]
    /\ k' = [v \in Volumes |-> NoKeys]
    /\ cached' = [v \in Volumes |-> NoKeys]
    /\ open' = open \cap staged
    /\ UNCHANGED <<image, staged, held, operator>>

\* The operator changes the Secret only once every volume has restaged.
RotateSecret ==
    /\ confirmed = Volumes
    /\ secret.cur < MaxKey
    /\ secret' = [cur |-> secret.cur + 1, prev |-> secret.cur]
    /\ confirmed' = {}
    /\ UNCHANGED <<image, open, staged, call, cached, held, faults>>

DropPrevious ==
    /\ confirmed = Volumes
    /\ secret.prev # NoKey
    /\ secret' = [secret EXCEPT !.prev = NoKey]
    /\ UNCHANGED <<image, open, staged, call, cached, held, confirmed, faults>>

-----------------------------------------------------------------------------
Next ==
    \/ \E v \in Volumes :
         \/ StageBegin(v) \/ StageRefuses(v) \/ StageAlready(v) \/ RestageBegin(v)
         \/ Prepare(v) \/ StageEnds(v) \/ Unstage(v) \/ PodWrites(v)
    \/ Crash \/ RotateSecret \/ DropPrevious

Spec == Init /\ [][Next]_vars

\* The plugin's calls run on, the kubelet repeats a stage or a publish until
\* it succeeds, and the pod of a volume that has no key left is deleted.
FairSpec ==
    /\ Spec
    /\ \A v \in Volumes :
         /\ WF_vars(Prepare(v)) /\ WF_vars(StageEnds(v))
         /\ WF_vars(v \notin held /\ StageBegin(v))
         /\ WF_vars(v \notin staged /\ RestageBegin(v))
         /\ WF_vars(v \notin staged /\ cached[v] = NoKeys /\ Unstage(v))

-----------------------------------------------------------------------------
(* Properties. *)

\* The variables stay within the values Prepare and its callers use.
TypeOK ==
    /\ header \in [Volumes -> {"blank", "luks", "torn"}]
    /\ slots \in [Volumes -> SUBSET (1..MaxKey)]
    /\ label \in [Volumes -> {"unformatted", "formatted"}]
    /\ fs \in [Volumes -> {"none", "fresh", "used"}]
    /\ open \subseteq Volumes /\ staged \subseteq open /\ held \subseteq Volumes
    /\ pc \in [Volumes -> Pcs]
    /\ k \in [Volumes -> KeyPairs] /\ cached \in [Volumes -> KeyPairs]
    /\ secret \in KeyPairs
    /\ confirmed \subseteq Volumes
    /\ count \in 0..MaxFaults /\ happened \subseteq Hazards

\* Through every interrupted rotation the header keeps a slot that one of
\* the keys now in the Secret opens, while the operator follows the README:
\* no volume is ever locked out (crypt.go rotate, add then remove).
NeverLockedOut ==
    \A v \in Volumes : header[v] = "luks" => slots[v] \cap {secret.cur, secret.prev} # {}

\* A call past its rotation opens the volume with the key it was given, and
\* no other slot is left (crypt.go rotate: "leaves exactly the slot
\* k.Current opens").
OnlyCurrentSlot ==
    \A v \in Volumes :
        pc[v] \in {"open", "dump", "mkfs", "relabel", "mount"} => slots[v] = {k[v].cur}

\* A filesystem a pod has written to is never made anew, whatever was
\* interrupted before (crypt.go ensureFilesystem, isBlank).
UsedSurvives == [][\A v \in Volumes : fs[v] = "used" => fs'[v] = "used"]_vars

\* What Prepare hands to mount has a filesystem on it (crypt.go
\* ensureFilesystem: mkfs before relabel).
PreparedHasFilesystem ==
    \A v \in Volumes : pc[v] = "mount" => v \in open /\ fs[v] # "none"

\* A volume the kubelet keeps trying to stage gets staged: every step of
\* Prepare converges after an attempt that was interrupted midway (crypt.go
\* Prepare).  A header torn by luksFormat and a mapping whose close was missed
\* are not cleaned up by later attempts.
PrepareConverges ==
    \A v \in Volumes : []<>(v \in staged \/ happened \cap {"torn", "timeout", "close"} # {})

\* The commands, failures and crashes around a header keep the promise made
\* to the operator: slots, filesystem and Secret change only as KeyCustody
\* says (crypt.go Prepare and rotate, README on rotation).
Custody == INSTANCE KeyCustody WITH keys <- slots, data <- fs, secret <- secret
KeepsCustody == Custody!Spec
=============================================================================
