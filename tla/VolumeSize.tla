------------------------------ MODULE VolumeSize ------------------------------
(***************************************************************************)
(* How a capacity gets from a request to the filesystem in a pod: the      *)
(* controller and the image files of ControllerImages, composed with the   *)
(* layers the node plugin builds on an image (pkg/driver/node.go): a loop  *)
(* device in sectors of its own size, for an encrypted volume a dm-crypt   *)
(* mapping behind the LUKS header, and the ext4 in it.  Stage and          *)
(* NodeExpandVolume grow them bottom up while the controller may grow the  *)
(* image again.  What interrupted commands leave behind is NodeVolume's    *)
(* concern: here a stage that fails gives its devices back.                *)
(*                                                                         *)
(* Definitions named <operator>_<change> are mutants: the operator as a    *)
(* plausible bug would have it, to show that a property notices.           *)
(***************************************************************************)
EXTENDS ControllerImages

VARIABLES
    node,     \* where the stage or expand of each volume is
    sector,   \* sector size of its loop device
    loop,     \* size of the loop device, 0 when not attached
    dm,       \* size of the dm-crypt mapping, 0 when not open
    mounted,  \* volumes that are staged
    orphan,   \* attached volumes whose .img was unlinked
    due,      \* history: the capacity the cluster knew when the call began
    refused   \* history: volumes whose stage e2fsck or the kernel refused

devices == <<sector, loop, dm, mounted>>
layers  == <<node, devices, orphan, due, refused>>
all     == <<vars, layers>>

NodeSteps == {"idle", "attach", "grow", "open", "dm", "fsck", "resize"}

InitAll ==
    /\ Init
    /\ node = [n \in Names |-> "idle"]
    /\ sector = [n \in Names |-> 0] /\ loop = [n \in Names |-> 0] /\ dm = [n \in Names |-> 0]
    /\ mounted = {} /\ orphan = {}
    /\ due = [n \in Names |-> 0] /\ refused = {}

\* The volume has its loop device.
Attached(n) == n \in mounted \/ node[n] \notin {"idle", "attach"}

\* A step of the controller or its callers; a loop keeps an unlinked file.
Controller(A) ==
    /\ A
    /\ orphan' = orphan \cup {n \in Names : Attached(n) /\ size'[n] = Absent}
    /\ UNCHANGED <<node, devices, due, refused>>

-----------------------------------------------------------------------------
(* The node plugin; the kubelet runs one call of a volume at a time. *)

Elsewhere == <<claims, known, at, vol, arg, late, cluster, size>>

Step(n, s) == node' = [node EXCEPT ![n] = s] /\ UNCHANGED <<orphan, due, refused, faults, Elsewhere>>
Ends(n) == node' = [node EXCEPT ![n] = "idle"] /\ due' = [due EXCEPT ![n] = 0]

\* The block device that holds the filesystem.
Device(n) == IF n \in encrypted THEN dm[n] ELSE loop[n]

\* The size a loop device has after it looks at its file.
Capacity(n) == IF n \in orphan THEN loop[n] ELSE Filled(size[n], sector[n])

\* NodeStageVolume finds the image and picks the sector size.
StageBegin(n) ==
    /\ node[n] = "idle" /\ n \notin mounted
    /\ pv[n] = "bound" /\ size[n] > 0
    /\ node' = [node EXCEPT ![n] = "attach"]
    /\ due' = [due EXCEPT ![n] = acked[n]]
    /\ sector' = [sector EXCEPT ![n] = SectorSizeFor(block[n], size[n])]
    /\ UNCHANGED <<loop, dm, mounted, orphan, refused, faults, Elsewhere, fs, block>>

Release(n) ==
    /\ Ends(n)
    /\ sector' = [sector EXCEPT ![n] = 0]
    /\ loop' = [loop EXCEPT ![n] = 0] /\ dm' = [dm EXCEPT ![n] = 0]
    /\ mounted' = mounted \ {n} /\ orphan' = orphan \ {n}
    /\ UNCHANGED <<Elsewhere, fs, block>>

\* losetup --find; it fails when the image is gone by then.
StageAttach(n) ==
    /\ node[n] = "attach"
    /\ \/ /\ size[n] > 0
          /\ loop' = [loop EXCEPT ![n] = Filled(size[n], sector[n])]
          /\ Step(n, IF n \in encrypted THEN "grow" ELSE "fsck")
          /\ UNCHANGED <<sector, dm, mounted, fs, block>>
       \/ size[n] <= 0 /\ Release(n) /\ UNCHANGED <<refused, faults>>

\* losetup --set-capacity, of a stage or of NodeExpandVolume.
SetCapacity(n) ==
    /\ node[n] = "grow"
    /\ loop' = [loop EXCEPT ![n] = Capacity(n)]
    /\ Step(n, IF n \notin encrypted THEN "resize" ELSE IF n \in mounted THEN "dm" ELSE "open")
    /\ UNCHANGED <<sector, dm, mounted, fs, block>>

\* The LUKS sector size: as the header has it, or as luksFormat makes it.
Recorded(n) == IF block[n] = 0 THEN BlockSize ELSE block[n]

\* A mapping takes what the header leaves of the loop, in LUKS sectors.
Mapped(n, b) == dm' = [dm EXCEPT ![n] = Filled(loop[n] - Header, b)]

\* luks.Prepare: format, open, and mkfs where there is none yet.
StageOpen(n) ==
    /\ node[n] = "open"
    /\ Mapped(n, Recorded(n))
    /\ IF n \in orphan THEN UNCHANGED <<fs, block>>
       ELSE /\ block' = [block EXCEPT ![n] = Recorded(n)]
            /\ fs' = [fs EXCEPT ![n] = IF @ = 0 THEN dm'[n] ELSE @]
    /\ Step(n, "fsck")
    /\ UNCHANGED <<sector, loop, mounted>>

\* e2fsck and mount: the filesystem lies on its device, and the device's
\* sectors are no larger than its blocks.
Sound(n) == n \in orphan \/ (fs[n] \in 1..Device(n) /\ sector[n] <= block[n])
StageFsck(n) ==
    /\ node[n] = "fsck"
    /\ \/ Sound(n) /\ Step(n, IF n \in encrypted THEN "resize" ELSE "grow") /\ UNCHANGED <<devices, fs, block>>
       \/ ~Sound(n) /\ Release(n) /\ refused' = refused \cup {n} /\ UNCHANGED faults

\* cryptsetup resize, in NodeExpandVolume only.
ExpandMapping_Skipped(n) ==
    /\ node[n] = "dm"
    /\ Step(n, "resize")
    /\ UNCHANGED <<devices, fs, block>>
ExpandMapping(n) ==
    /\ node[n] = "dm"
    /\ Mapped(n, Recorded(n))
    /\ Step(n, "resize")
    /\ UNCHANGED <<sector, loop, mounted, fs, block>>

\* The device resize2fs is given.
Target_Loop(n) == loop[n]
Target(n) == Device(n)

\* resize2fs grows the filesystem to its device; a stage then mounts it.
Resize2fs(n) ==
    /\ node[n] = "resize"
    /\ fs' = [fs EXCEPT ![n] =
                IF n \in orphan \/ @ >= Target(n) THEN @ ELSE Filled(Target(n), Recorded(n))]
    /\ mounted' = mounted \cup {n}
    /\ Ends(n)
    /\ UNCHANGED <<sector, loop, dm, orphan, refused, faults, Elsewhere, block>>

\* Any of these commands fails: a stage cleans up, an expand just returns.
NodeFails(n) ==
    /\ node[n] # "idle" /\ Fault("cmd")
    /\ \/ n \notin mounted /\ Release(n) /\ UNCHANGED refused
       \/ /\ n \in mounted
          /\ Ends(n)
          /\ UNCHANGED <<devices, orphan, refused, Elsewhere, fs, block>>

NodeUnstage(n) ==
    /\ node[n] = "idle" /\ n \in mounted
    /\ Release(n)
    /\ UNCHANGED <<refused, faults>>

NodeExpand(n) ==
    /\ node[n] = "idle" /\ n \in mounted
    /\ node' = [node EXCEPT ![n] = "grow"]
    /\ due' = [due EXCEPT ![n] = acked[n]]
    /\ UNCHANGED <<devices, orphan, refused, faults, Elsewhere, fs, block>>

Node(n) ==
    \/ StageBegin(n) \/ StageAttach(n) \/ SetCapacity(n) \/ StageOpen(n) \/ StageFsck(n)
    \/ ExpandMapping(n) \/ Resize2fs(n) \/ NodeFails(n) \/ NodeUnstage(n) \/ NodeExpand(n)

-----------------------------------------------------------------------------
NextAll == Controller(Next) \/ \E n \in Names : Node(n)

\* As for the controller alone: handlers run on, the provisioner retries.
FairSpecAll ==
    /\ InitAll /\ [][NextAll]_all
    /\ \A h \in Handlers : WF_all(Controller(Handler(h)))
    /\ \A n \in Names : SF_all(\E h \in Handlers : Controller(Create(h, n)))

-----------------------------------------------------------------------------
(* Properties. *)

\* A staged filesystem ends where its device ends and the device within the
\* image, whatever grows in between; only a shrunk image can change that
\* (node.go stageLocked, NodeExpandVolume).  And whatever happened, an image
\* that a create left unformatted is not staged as an empty volume (image.go
\* Create: "the problem surfaces at NodeStageVolume's fsck").
FitsDevice ==
    /\ "timeout" \notin happened =>
         \A n \in mounted :
             /\ fs[n] <= Device(n) /\ (n \in encrypted => dm[n] + Header <= loop[n])
             /\ n \notin orphan => loop[n] <= size[n]
    /\ \A n \in mounted \ orphan : fs[n] > 0

\* When a stage or a NodeExpandVolume succeeds, the filesystem has the
\* capacity the cluster knew of when it began, less the LUKS header (node.go
\* NodeExpandVolume: set-capacity, cryptsetup resize, resize2fs).
GrowthLands ==
    [][\A n \in Names :
         node[n] = "resize" /\ n \in mounted' /\ faults' = faults /\ node'[n] = "idle"
         /\ "timeout" \notin happened /\ n \notin orphan
           => LET overhead == IF n \in encrypted THEN Header ELSE 0
              IN  fs'[n] >= Filled(due[n] - overhead, block[n])]_all

\* Every volume the cluster holds can be staged, those of older versions with
\* small blocks or odd sizes too (losetup.go SectorSizeFor: "what keeps
\* existing volumes mountable").  Plain images without a filesystem cannot:
\* those Create left so, after a restart, an overtaken call or a failed
\* remove, and those an expand that a delete overlaps makes anew.
AlwaysMountable == happened \subseteq {"cmd", "truncate"} => refused = {}
=============================================================================
