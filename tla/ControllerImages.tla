--------------------------- MODULE ControllerImages ---------------------------
(***************************************************************************)
(* The controller plugin (pkg/driver/controller.go) and the image files of *)
(* one backing store (pkg/image/image.go), with the CSI sidecars that call *)
(* it: csi-provisioner creates and deletes, csi-resizer expands.  They are *)
(* separate processes that know nothing of each other, and gRPC handlers   *)
(* run concurrently and hold no lock, so a delete may overlap an expand.   *)
(* Each sidecar has at most one call outstanding per volume; when its      *)
(* deadline passes it calls again, while the first handler runs on: the    *)
(* file operations do not look at the context, only mkfs is killed by it.  *)
(*                                                                         *)
(* Definitions named <operator>_<change> are mutants: the operator as a    *)
(* plausible bug would have it, to show that a property notices.           *)
(*                                                                         *)
(* A step is one file operation or command.  Volumes may be there already, *)
(* made by a version that did not round sizes or pin the block size.       *)
(***************************************************************************)
EXTENDS Capacity, FiniteSets

CONSTANTS
    Names,       \* volumes; a volume's name, and so its id, is used once
    Ranges,      \* BOUND: the capacity ranges that are asked for
    Old,         \* BOUND: images of older versions, [size, block, encrypted]
    Header,      \* size of a LUKS2 header
    MinEncrypted,\* minEncryptedCapacity
    MaxHandlers, \* BOUND: handlers that can run at a time
    Hazards,     \* the kinds of fault that may happen
    MaxFaults,   \* BOUND on how many faults happen
    None         \* no volume

HazardKinds == {"cmd", "truncate", "remove", "timeout", "restart"}

ASSUME ControllerAssumption ==
    /\ Ranges \subseteq Range64
    /\ Old \subseteq [size : 1..MaxInt, block : MinSector..BlockSize, encrypted : BOOLEAN]
    /\ Header \in Nat /\ Header % BlockSize = 0 /\ MinEncrypted \in (Header + BlockSize)..MaxInt
    /\ \A image \in Old : /\ image.size >= image.block /\ BlockSize % image.block = 0
                          /\ image.encrypted => image.size >= MinEncrypted
    /\ MaxHandlers \in Nat
    /\ Hazards \subseteq HazardKinds
    /\ MaxFaults \in Nat
    /\ None \notin Names

VARIABLES
    size,      \* size of each volume's .img, or Absent
    fs,        \* size of the ext4 in it, 0 when there is none
    block,     \* the block size its format records, 0 before
    encrypted, \* volumes created with Unformatted
    ask,       \* the range each volume is created with
    known,     \* Registry.configs has the store
    at,        \* the step each handler is at
    vol, arg,  \* the volume and the range its call is about
    late,      \* handlers whose caller gave up
    pv,        \* the PersistentVolume: "none", "bound", "released", "deleted"
    acked,     \* the capacity the cluster was told, 0 before
    count,     \* how many faults happened
    happened   \* and of which kinds; "overlap" when a delete met an expand

files   == <<size, fs, block>>
claims  == <<encrypted, ask>>
cluster == <<pv, acked>>
faults  == <<count, happened>>
vars    == <<files, claims, known, at, vol, arg, late, cluster, faults>>

Handlers == 1..MaxHandlers
Absent == 0 - 1
NoRange == [required |-> 0, limit |-> 0]
CreateSteps == {"get", "stat", "truncate", "mkfs", "remove"}
DeleteSteps == {"d_find", "unlink"}
ExpandSteps == {"e_find", "e_stat", "grow"}
Provisioning == CreateSteps \cup DeleteSteps \cup {"reply", "d_reply"}
Resizing == ExpandSteps \cup {"e_reply"}
Steps == {"idle"} \cup Provisioning \cup Resizing

\* An ext4 in blocks of b fills a device of s bytes.
Filled(s, b) == (s \div b) * b

\* A volume is yet to be created, or is one of an older version, whose store
\* this controller has seen again since it was upgraded.
OldVolumes(old, image) ==
    /\ encrypted \in SUBSET Names
    /\ ask \in {r \in [Names -> Ranges \cup {NoRange}] :
                 \A n \in Names : IF n \in old THEN r[n] = NoRange ELSE r[n] \in Ranges}
    /\ \A n \in old : n \in encrypted <=> image[n].encrypted
    /\ size  = [n \in Names |-> IF n \in old THEN image[n].size ELSE Absent]
    /\ block = [n \in Names |-> IF n \in old THEN image[n].block ELSE 0]
    /\ fs    = [n \in Names |->
              IF n \notin old THEN 0 ELSE
              IF n \in encrypted THEN Filled(size[n] - Header, block[n]) ELSE Filled(size[n], block[n])]
    /\ pv    = [n \in Names |-> IF n \in old THEN "bound" ELSE "none"]
    /\ acked = [n \in Names |-> IF n \in old THEN image[n].size ELSE 0]
    /\ known = (old # {})
InitVolumes == \E old \in SUBSET Names : \E image \in [old -> Old] : OldVolumes(old, image)

Init ==
    /\ InitVolumes
    /\ at = [h \in Handlers |-> "idle"]
    /\ vol = [h \in Handlers |-> None]
    /\ arg = [h \in Handlers |-> NoRange]
    /\ late = {}
    /\ count = 0 /\ happened = {}

-----------------------------------------------------------------------------
(* Calls. *)

Fault(kind) ==
    /\ kind \in Hazards
    /\ count < MaxFaults
    /\ count' = count + 1
    /\ happened' = happened \cup {kind}

\* The sidecar whose calls take these steps waits for no other call on n.
Free(n, steps) == \A h \in Handlers : at[h] \in steps /\ vol[h] = n => h \in late

Call(h, n, step, r) ==
    /\ at[h] = "idle" /\ \A g \in Handlers : g < h => at[g] # "idle"
    /\ at' = [at EXCEPT ![h] = step]
    /\ vol' = [vol EXCEPT ![h] = n]
    /\ arg' = [arg EXCEPT ![h] = r]
    /\ UNCHANGED <<files, claims, known, late, acked, count>>

\* The size the handler's call is for.
Asked(h) == AlignedCapacity(arg[h])

Create(h, n) ==
    /\ pv[n] = "none" /\ Free(n, Provisioning)
    /\ Call(h, n, "get", ask[n])
    /\ UNCHANGED <<pv, happened>>

\* The claim was deleted; from here on the volume is only to be removed.  The
\* provisioner does not wait for the resizer's call.
Delete(h, n) ==
    /\ pv[n] \in {"bound", "released"} /\ Free(n, Provisioning)
    /\ Call(h, n, "d_find", NoRange)
    /\ pv' = [pv EXCEPT ![n] = "released"]
    /\ happened' = IF Free(n, Resizing) THEN happened ELSE happened \cup {"overlap"}

Expand(h, n, r) ==
    /\ pv[n] = "bound" /\ Free(n, Resizing) /\ r.required > acked[n]
    /\ Call(h, n, "e_find", r)
    /\ UNCHANGED <<pv, happened>>

Goto(h, step) ==
    at' = [at EXCEPT ![h] = step] /\ UNCHANGED <<claims, vol, arg, late, cluster>>

\* The handler returns.
Return(h) ==
    /\ at' = [at EXCEPT ![h] = "idle"]
    /\ vol' = [vol EXCEPT ![h] = None]
    /\ arg' = [arg EXCEPT ![h] = NoRange]
    /\ late' = late \ {h}
    /\ UNCHANGED claims
Fails(h) == Return(h) /\ UNCHANGED cluster

\* The work is done and the answer on its way: a volume and its size, that
\* it is gone, or its new size.
Answers(h) == Goto(h, "reply")
Deletes(h) == Goto(h, "d_reply")
Grows(h)   == Goto(h, "e_reply")

\* The answer arrives; a late one reaches no one, and a new size no volume
\* that is deleted by then.
Reply(h) ==
    LET n == vol[h] IN
    /\ at[h] \in {"reply", "d_reply", "e_reply"}
    /\ Return(h)
    /\ IF h \in late \/ (at[h] = "e_reply" /\ pv[n] = "deleted") THEN UNCHANGED cluster
       ELSE /\ pv' = [pv EXCEPT ![n] = IF at[h] = "reply" THEN "bound"
                                      ELSE IF at[h] = "d_reply" THEN "deleted" ELSE @]
            /\ acked' = [acked EXCEPT ![n] = IF at[h] = "d_reply" THEN 0 ELSE Asked(h)]
    /\ UNCHANGED <<files, known, faults>>

\* The caller's deadline passes.
Timeout(h) ==
    /\ at[h] # "idle" /\ h \notin late
    /\ Fault("timeout")
    /\ late' = late \cup {h}
    /\ UNCHANGED <<files, claims, known, at, vol, arg, cluster>>

-----------------------------------------------------------------------------
(* CreateVolume. *)

\* What CreateVolume and Manager.Create refuse before they touch the image:
\* no size in the range, too small for a LUKS header, or an overflow.
Refused(n, r) ==
    \/ AlignedCapacity(r) <= 0
    \/ n \in encrypted /\ AlignedCapacity(r) < MinEncrypted

\* registry.Get: the store is mounted, and its Config is known from now on.
CreateGet(h) ==
    /\ at[h] = "get"
    /\ \/ /\ known' = TRUE
          /\ IF Refused(vol[h], arg[h]) THEN Fails(h) ELSE Goto(h, "stat")
          /\ UNCHANGED faults
       \/ Fault("cmd") /\ Fails(h) /\ UNCHANGED known
    /\ UNCHANGED files

\* An image of the size asked for, rounded or not, is adopted as it is; one
\* of another size is AlreadyExists.
Adopts_Never(h) == FALSE
Adopts(h) == size[vol[h]] \in {Asked(h), AlignUp(Asked(h))}

CreateStat(h) ==
    /\ at[h] = "stat"
    /\ IF size[vol[h]] = Absent THEN Goto(h, "truncate")
       ELSE IF Adopts(h) THEN Answers(h) ELSE Fails(h)
    /\ UNCHANGED <<files, known, faults>>

Truncated_GrowsBy(n, s) == size' = [size EXCEPT ![n] = @ + s] /\ UNCHANGED <<fs, block>>
Truncated_OnlyNew(n, s) ==
    size' = (IF size[n] = Absent THEN [size EXCEPT ![n] = s] ELSE size) /\ UNCHANGED <<fs, block>>
\* truncateSparse makes the file if it is not there, and sets its size.
Truncated(n, s) == size' = [size EXCEPT ![n] = s] /\ UNCHANGED <<fs, block>>

\* It fails when ftruncate does, on a file it may just have made.
TruncateFails(h) ==
    /\ Fault("truncate")
    /\ size' = [size EXCEPT ![vol[h]] = IF @ = Absent THEN 0 ELSE @]
    /\ UNCHANGED <<fs, block>>
    /\ Fails(h)

CreateTruncate(h) ==
    /\ at[h] = "truncate"
    /\ \/ /\ Truncated(vol[h], AlignUp(Asked(h)))
          /\ IF vol[h] \in encrypted THEN Answers(h) ELSE Goto(h, "mkfs")
          /\ UNCHANGED faults
       \/ TruncateFails(h)
    /\ UNCHANGED known

\* mkfs.ext4 on the image.  It fails on a file that is gone, and a late
\* handler's is killed, possibly when it was done.
Mkfs(n) ==
    /\ fs' = [fs EXCEPT ![n] = Filled(size[n], BlockSize)]
    /\ block' = [block EXCEPT ![n] = BlockSize]
CreateMkfs(h) ==
    LET n == vol[h]
        runs == size[n] > 0 /\ h \notin late
    IN
    /\ at[h] = "mkfs"
    /\ \/ runs /\ Mkfs(n) /\ Answers(h) /\ UNCHANGED faults
       \/ /\ IF runs THEN Fault("cmd") ELSE UNCHANGED faults
          /\ UNCHANGED <<fs, block>> \/ (size[n] > 0 /\ h \in late /\ Mkfs(n))
          /\ Goto(h, "remove")
    /\ UNCHANGED <<size, known>>

\* os.Remove of the path, whoever made the file.
Removed(n) ==
    /\ size' = [size EXCEPT ![n] = Absent]
    /\ fs' = [fs EXCEPT ![n] = 0] /\ block' = [block EXCEPT ![n] = 0]
CreateRemove_Forgotten(h) ==
    /\ at[h] = "remove"
    /\ Fails(h)
    /\ UNCHANGED <<files, known, faults>>
\* After a failed mkfs.  When the remove fails too, its error is discarded and
\* the unformatted image stays.
CreateRemove(h) ==
    /\ at[h] = "remove"
    /\ \/ Removed(vol[h]) /\ UNCHANGED faults
       \/ Fault("remove") /\ UNCHANGED files
    /\ Fails(h)
    /\ UNCHANGED known

-----------------------------------------------------------------------------
(* DeleteVolume and ControllerExpandVolume. *)

DeleteFind_SwallowsErrors(h) ==
    /\ at[h] = "d_find"
    /\ \/ ~known /\ Deletes(h) /\ UNCHANGED faults
       \/ known /\ Goto(h, "unlink") /\ UNCHANGED faults
       \/ known /\ Fault("cmd") /\ Deletes(h)
    /\ UNCHANGED <<files, known>>
\* imageManagerForVolumeID, then registry.Get.  A store this process has not
\* seen is NotFound: to a delete that means there is nothing to delete.
DeleteFind(h) ==
    /\ at[h] = "d_find"
    /\ \/ ~known /\ Deletes(h) /\ UNCHANGED faults
       \/ known /\ Goto(h, "unlink") /\ UNCHANGED faults
       \/ known /\ Fault("cmd") /\ Fails(h)
    /\ UNCHANGED <<files, known>>

\* Manager.Delete: a file that is not there is no error, another failure is.
DeleteUnlink(h) ==
    /\ at[h] = "unlink"
    /\ \/ Removed(vol[h]) /\ Deletes(h) /\ UNCHANGED faults
       \/ Fault("remove") /\ Fails(h) /\ UNCHANGED files
    /\ UNCHANGED known

\* A range with no size in it is refused first.
ExpandFind(h) ==
    /\ at[h] = "e_find"
    /\ \/ (Asked(h) = OutOfRange \/ ~known) /\ Fails(h) /\ UNCHANGED faults
       \/ Asked(h) # OutOfRange /\ known /\ Goto(h, "e_stat") /\ UNCHANGED faults
       \/ Asked(h) # OutOfRange /\ known /\ Fault("cmd") /\ Fails(h)
    /\ UNCHANGED <<files, known>>

\* Manager.Resize looks at the size first and refuses to shrink.
MayGrow_Always(h) == TRUE
MayGrow(h) == AlignUp(Asked(h)) > size[vol[h]]
ExpandStat(h) ==
    /\ at[h] = "e_stat"
    /\ IF size[vol[h]] = Absent THEN Fails(h)
       ELSE IF AlignUp(Asked(h)) = size[vol[h]] THEN Grows(h)
       ELSE IF MayGrow(h) THEN Goto(h, "grow") ELSE Fails(h)
    /\ UNCHANGED <<files, known, faults>>

\* The file may be gone by now: truncateSparse makes it anew, and empty.
ExpandGrow(h) ==
    /\ at[h] = "grow"
    /\ \/ Truncated(vol[h], AlignUp(Asked(h))) /\ Grows(h) /\ UNCHANGED faults
       \/ TruncateFails(h)
    /\ UNCHANGED known

Handler(h) ==
    \/ CreateGet(h) \/ CreateStat(h) \/ CreateTruncate(h) \/ CreateMkfs(h) \/ CreateRemove(h)
    \/ DeleteFind(h) \/ DeleteUnlink(h)
    \/ ExpandFind(h) \/ ExpandStat(h) \/ ExpandGrow(h) \/ Reply(h)

\* The controller restarts: AdoptExisting finds the mounts, not their Configs.
Restart ==
    /\ Fault("restart")
    /\ known' = FALSE
    /\ at' = [h \in Handlers |-> "idle"]
    /\ vol' = [h \in Handlers |-> None]
    /\ arg' = [h \in Handlers |-> NoRange]
    /\ late' = {}
    /\ UNCHANGED <<files, claims, cluster>>

-----------------------------------------------------------------------------
Next ==
    \/ \E h \in Handlers :
         \/ \E n \in Names : Create(h, n) \/ Delete(h, n) \/ \E r \in Ranges : Expand(h, n, r)
         \/ Handler(h) \/ Timeout(h)
    \/ Restart

Spec == Init /\ [][Next]_vars

-----------------------------------------------------------------------------
(* Properties. *)

\* The variables stay within the values the handlers and the cluster use.
TypeOK ==
    /\ size \in [Names -> 0..MaxInt \cup {Absent}] /\ fs \in [Names -> 0..MaxInt]
    /\ block \in [Names -> 0..BlockSize]
    /\ encrypted \subseteq Names /\ ask \in [Names -> Ranges \cup {NoRange}]
    /\ known \in BOOLEAN
    /\ at \in [Handlers -> Steps]
    /\ vol \in [Handlers -> Names \cup {None}] /\ arg \in [Handlers -> Ranges \cup {NoRange}]
    /\ late \subseteq {h \in Handlers : at[h] # "idle"}
    /\ pv \in [Names -> {"none", "bound", "released", "deleted"}]
    /\ acked \in [Names -> 0..MaxInt]
    /\ count \in 0..MaxFaults /\ happened \subseteq Hazards \cup {"overlap"}

\* A volume the cluster holds has an image of at least the capacity it was
\* told, until the claim is deleted (image.go Create, Resize).
BoundHasImage == \A n \in Names : pv[n] = "bound" => size[n] > 0 /\ size[n] >= acked[n]

\* The same unless a call is overtaken by its retry; and even then a bound
\* encrypted volume, which Create never formats, keeps an image (image.go
\* Create, Resize).
BoundKeepsImage ==
    /\ "timeout" \notin happened => BoundHasImage
    /\ \A n \in encrypted : pv[n] = "bound" => size[n] > 0

\* The capacity the cluster is told lies in the range it asked for, and is
\* in whole blocks (controller.go alignedCapacity: "rounded up [...] or down
\* when rounding up would pass limit_bytes").
AnswerInRange ==
    [][\A h \in Handlers : at[h] \in {"reply", "e_reply"} /\ at'[h] = "idle" /\ acked' # acked =>
         InRange(acked'[vol[h]], arg[h]) /\ acked'[vol[h]] % BlockSize = 0]_vars

\* A plain volume the cluster holds has a filesystem: a create whose mkfs
\* failed leaves no image behind that the next one would adopt (image.go
\* Create).  A controller killed before mkfs does, and so does a remove that
\* fails, whose error Create discards; and a retry that overtakes mkfs adopts
\* what is not formatted yet.
BoundIsFormatted ==
    happened \cap {"restart", "timeout", "remove"} = {}
        => \A n \in Names \ encrypted : pv[n] = "bound" => fs[n] > 0

\* An image never gets smaller while it exists (image.go Resize: "Refuses to
\* shrink"), as long as no call is overtaken by its retry.
NeverShrinks ==
    [][\A n \in Names :
         "timeout" \notin happened /\ size'[n] # Absent => size'[n] >= size[n]]_vars

\* A volume the cluster has deleted has no image left (controller.go
\* DeleteVolume, image.go Delete).
DeletedIsGone == \A n \in Names : pv[n] = "deleted" => size[n] = Absent

\* The same, whatever fails in between, for a controller that has not
\* restarted and so knows its stores, calls that are not overtaken, and no
\* expand under way when the delete is called: one that stats the file before
\* the delete removes it makes it anew when it truncates (controller.go
\* DeleteVolume, imageManagerForVolumeID; image.go truncateSparse O_CREATE).
DeletedIsGoneOnceKnown == happened \subseteq {"cmd", "truncate", "remove"} => DeletedIsGone

\* Every volume that can be had is provisioned in the end, whatever the
\* earlier attempts left behind (image.go Create: idempotent); unless one
\* failed in ftruncate, whose empty file every retry takes for another volume.
Provisioned ==
    \A n \in Names : <>(pv[n] # "none" \/ Refused(n, ask[n]) \/ "truncate" \in happened)
=============================================================================
