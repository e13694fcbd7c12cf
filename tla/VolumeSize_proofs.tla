-------------------------- MODULE VolumeSize_proofs --------------------------
(***************************************************************************)
(* Proofs about VolumeSize, for any volumes, sizes and number of handlers: *)
(* that a staged filesystem fits its devices, that the growth the cluster  *)
(* was told of lands in it, and that every bound volume can be staged; and *)
(* that the controller's properties hold with the node plugin beside it.   *)
(*                                                                         *)
(* The argument is about divisors.  A loop device is cut down to whole     *)
(* sectors of its image and a mapping to whole LUKS sectors.  Nothing of a *)
(* filesystem is lost by that, because SectorSizeFor picks a divisor of    *)
(* the recorded block size, and the recorded block size divides what was   *)
(* made in its blocks.                                                     *)
(***************************************************************************)
EXTENDS VolumeSize, ControllerImages_proofs

-----------------------------------------------------------------------------
(* The inductive invariant, one volume at a time. *)

\* The stage has got past e2fsck.
Checked(n) == n \in mounted \/ node[n] = "resize" \/ (node[n] = "grow" /\ n \notin encrypted)

\* The image is the one the loop device has.
Linked(n) == Attached(n) /\ n \notin orphan

LayerTypes ==
    /\ node \in [Names -> NodeSteps] /\ sector \in [Names -> 0..BlockSize]
    /\ loop \in [Names -> 0..MaxInt] /\ dm \in [Names -> 0..MaxInt]
    /\ mounted \subseteq Names /\ orphan \subseteq Names
    /\ due \in [Names -> 0..MaxInt] /\ refused \subseteq Names

\* Which steps a volume of a kind takes, and what it has before and after.
StepInv(n) ==
    /\ node[n] = "open" => n \in encrypted /\ n \notin mounted
    /\ node[n] = "dm" => n \in encrypted /\ n \in mounted
    /\ node[n] \in {"attach", "fsck"} => n \notin mounted
    /\ ~Attached(n) => loop[n] = 0 /\ dm[n] = 0 /\ n \notin orphan
    /\ node[n] # "idle" \/ n \in mounted => pv[n] # "none"
    /\ Linked(n) => size[n] > 0
    /\ Linked(n) /\ (Checked(n) \/ (node[n] = "fsck" /\ n \in encrypted)) => block[n] # 0
    /\ Linked(n) /\ Checked(n) => fs[n] > 0

\* The devices against each other.
DeviceInv(n) ==
    /\ node[n] # "idle" \/ n \in mounted =>
         sector[n] # 0 /\ Divides(sector[n], BlockSize) /\ Divides(sector[n], Recorded(n))
    /\ Attached(n) => Divides(sector[n], loop[n])
    /\ Attached(n) /\ n \in encrypted => loop[n] >= Header + BlockSize
    /\ node[n] \in {"fsck", "resize"} /\ n \in encrypted /\ n \notin orphan =>
         dm[n] = Filled(loop[n] - Header, Recorded(n))
    /\ node[n] = "fsck" /\ n \in encrypted /\ n \notin orphan => fs[n] > 0

\* The filesystem, the devices and the image, without timeouts.
FitInv(n) ==
    /\ Linked(n) => loop[n] <= size[n]
    /\ n \in orphan => fs[n] = 0
    /\ Checked(n) \/ node[n] = "fsck" => fs[n] <= Device(n)
    /\ node[n] = "open" => fs[n] = 0 \/ fs[n] + Header <= loop[n]
    /\ (node[n] \in {"fsck", "resize"} \/ n \in mounted) /\ n \in encrypted =>
         dm[n] + Header <= loop[n]

\* What the call under way still owes, without timeouts.
GrowInv(n) ==
    /\ node[n] # "idle" /\ n \notin orphan /\ size[n] > 0 => due[n] <= size[n]
    /\ (node[n] \in {"open", "dm", "resize"} \/ (node[n] = "fsck" /\ n \in encrypted))
       /\ n \notin orphan => Filled(due[n], sector[n]) <= loop[n]

VolumeInv(n) ==
    /\ StepInv(n) /\ DeviceInv(n)
    /\ "timeout" \notin happened => FitInv(n) /\ GrowInv(n)

\* What an expand is to grow a volume to is no less than what a call of the
\* node plugin owes: an image that is made anew is large enough too.
DueInv ==
    "timeout" \notin happened =>
      \A n \in Names : node[n] # "idle" =>
        /\ pv[n] # "deleted" => due[n] <= acked[n]
        /\ \A h \in Handlers : vol[h] = n /\ at[h] \in Resizing => Asked(h) <= 0 \/ Asked(h) >= due[n]

AllInv ==
    /\ IInv /\ LayerTypes /\ (\A n \in Names : VolumeInv(n)) /\ AlwaysMountable
    /\ DueInv

-----------------------------------------------------------------------------
(* What the controller's steps do to the layers. *)

\* A volume's files are left alone, removed, made or truncated, or formatted;
\* a volume the cluster has is grown, by an expand that may find it gone and
\* make it anew, and is formatted after a timeout only.
Effect(n) ==
    \/ size'[n] = size[n] /\ fs'[n] = fs[n] /\ block'[n] = block[n]
    \/ size'[n] = Absent /\ fs'[n] = 0 /\ block'[n] = 0
    \/ /\ fs'[n] = fs[n] /\ block'[n] = block[n]
       /\ size'[n] > 0 \/ (size[n] = Absent /\ size'[n] = 0)
       /\ "timeout" \notin happened /\ pv[n] # "none" =>
            /\ size'[n] >= size[n]
            /\ \/ size[n] > 0 \/ size'[n] = 0
               \/ \E h \in Handlers : /\ vol[h] = n /\ at[h] \in Resizing
                                     /\ Asked(h) > 0 /\ size'[n] = Asked(h)
    \/ /\ n \notin encrypted
       /\ size'[n] = size[n] /\ block'[n] = BlockSize /\ fs'[n] > 0
       /\ "timeout" \notin happened => pv[n] = "none"

LEMMA NextEffect ==
    ASSUME IInv, Next
    PROVE  \A n \in Names : Effect(n)
  <1> USE DEF IInv, TypeOK, files
  <1>1. CASE UNCHANGED files
    BY <1>1 DEF Effect
  <1>2. ASSUME NEW h \in Handlers, CreateTruncate(h) PROVE \A n \in Names : Effect(n)
    <2>1. vol[h] \in Names /\ AlignUp(Asked(h)) = Asked(h) /\ Asked(h) > 0
      BY <1>2, HandlerFacts DEF CreateTruncate, CallInv, Sane, Asked
    <2>2. "timeout" \notin happened => size[vol[h]] = Absent /\ pv[vol[h]] = "none"
      BY <1>2 DEF CreateTruncate, ImageInv, SidecarInv, CreateSteps
    <2>3. \/ size' = [size EXCEPT ![vol[h]] = Asked(h)]
          \/ size' = [size EXCEPT ![vol[h]] = IF size[vol[h]] = Absent THEN 0 ELSE size[vol[h]]]
      BY <1>2, <2>1 DEF CreateTruncate, Truncated, TruncateFails
    <2>4. fs' = fs /\ block' = block
      BY <1>2 DEF CreateTruncate, Truncated, TruncateFails
    <2> QED
      BY <2>1, <2>2, <2>3, <2>4 DEF Effect
  <1>3. ASSUME NEW h \in Handlers, ExpandGrow(h) PROVE \A n \in Names : Effect(n)
    <2>1. vol[h] \in Names /\ AlignUp(Asked(h)) = Asked(h) /\ Asked(h) > 0 /\ Asked(h) \in Int
      BY <1>3, HandlerFacts DEF ExpandGrow, CallInv, Sane, Asked
    <2>2. "timeout" \notin happened => size[vol[h]] < Asked(h)
      BY <1>3 DEF ExpandGrow, ImageInv
    <2>3. at[h] \in Resizing
      BY <1>3 DEF ExpandGrow, Resizing, ExpandSteps
    <2>4. \/ size' = [size EXCEPT ![vol[h]] = Asked(h)]
          \/ size' = [size EXCEPT ![vol[h]] = IF size[vol[h]] = Absent THEN 0 ELSE size[vol[h]]]
      BY <1>3, <2>1 DEF ExpandGrow, Truncated, TruncateFails
    <2>5. fs' = fs /\ block' = block
      BY <1>3 DEF ExpandGrow, Truncated, TruncateFails
    <2>6. size[vol[h]] \in Int
      BY <2>1, CapacityAssumption DEF Absent
    <2> QED
      BY <2>1, <2>2, <2>3, <2>4, <2>5, <2>6 DEF Effect, Absent
  <1>4. ASSUME NEW h \in Handlers, CreateMkfs(h) PROVE \A n \in Names : Effect(n)
    <2>1. vol[h] \in Names /\ vol[h] \notin encrypted
      BY <1>4 DEF CreateMkfs, CallInv
    <2>2. "timeout" \notin happened => pv[vol[h]] = "none"
      BY <1>4 DEF CreateMkfs, SidecarInv, CreateSteps
    <2>3. size' = size
      BY <1>4 DEF CreateMkfs
    <2>4. (fs' = fs /\ block' = block) \/ (Mkfs(vol[h]) /\ size[vol[h]] > 0)
      BY <1>4 DEF CreateMkfs
    <2>5. size[vol[h]] > 0 => Filled(size[vol[h]], BlockSize) > 0
      <3>1. size[vol[h]] > 0 => size[vol[h]] >= BlockSize
        BY <1>4, <2>1, CapacityAssumption DEF CreateMkfs, SizeInv, CreateSteps, Absent
      <3> QED
        BY <2>1, <3>1, MkfsFacts
    <2> QED
      BY <2>1, <2>2, <2>3, <2>4, <2>5 DEF Effect, Mkfs
  <1>5. ASSUME NEW h \in Handlers, CreateRemove(h) \/ DeleteUnlink(h)
        PROVE  \A n \in Names : Effect(n)
    <2>1. vol[h] \in Names /\ (Removed(vol[h]) \/ UNCHANGED files)
      BY <1>5 DEF CreateRemove, DeleteUnlink, CallInv
    <2> QED
      BY <2>1 DEF Effect, Removed
  <1>6. \/ UNCHANGED files
        \/ \E h \in Handlers :
             CreateTruncate(h) \/ ExpandGrow(h) \/ CreateMkfs(h) \/ CreateRemove(h) \/ DeleteUnlink(h)
    BY DEF Next, Handler, Create, Delete, Expand, Call, Reply, Timeout, CreateGet, CreateStat,
       DeleteFind, ExpandFind, ExpandStat, Restart
  <1> QED
    BY <1>1, <1>2, <1>3, <1>4, <1>5, <1>6

\* A name that was used stays used, and what happened stays on record.
LEMMA NextHistory ==
    ASSUME IInv, Next
    PROVE  /\ \A n \in Names : pv[n] # "none" => pv'[n] # "none"
           /\ encrypted' = encrypted /\ happened \subseteq happened'
  <1> USE DEF IInv, TypeOK, claims, cluster, faults, files
  <1>1. pv' = pv \/ \E n \in Names : \E s \in {"bound", "released", "deleted"} :
                      pv' = [pv EXCEPT ![n] = s]
    <2>1. ASSUME NEW h \in Handlers, Reply(h)
          PROVE  pv' = pv \/ \E n \in Names : \E s \in {"bound", "released", "deleted"} :
                               pv' = [pv EXCEPT ![n] = s]
      BY <2>1 DEF Reply, CallInv
    <2>2. ASSUME NEW h \in Handlers, NEW n \in Names, Delete(h, n)
          PROVE  pv' = [pv EXCEPT ![n] = "released"]
      BY <2>2 DEF Delete
    <2>3. \/ pv' = pv
          \/ \E h \in Handlers : Reply(h) \/ \E n \in Names : Delete(h, n)
      BY DEF Next, Handler, Create, Expand, Goto, Fails, Answers, Deletes, Grows, Timeout, CreateGet,
         CreateStat, CreateTruncate, TruncateFails, CreateMkfs, CreateRemove, DeleteFind,
         DeleteUnlink, ExpandFind, ExpandStat, ExpandGrow, Restart
    <2> QED
      BY <2>1, <2>2, <2>3
  <1>2. \A n \in Names : pv[n] # "none" => pv'[n] # "none"
    BY <1>1
  <1>3. encrypted' = encrypted
    BY DEF Next, Handler, Create, Delete, Expand, Call, Goto, Return, Fails, Answers, Deletes, Grows, Reply,
       Timeout, CreateGet, CreateStat, CreateTruncate, TruncateFails, CreateMkfs, CreateRemove,
       DeleteFind, DeleteUnlink, ExpandFind, ExpandStat, ExpandGrow, Restart
  <1>4. happened \subseteq happened'
    BY DEF Next, Handler, Create, Delete, Expand, Call, Fault, Reply, Timeout, CreateGet, CreateStat,
       CreateTruncate, TruncateFails, CreateMkfs, CreateRemove, DeleteFind, DeleteUnlink,
       ExpandFind, ExpandStat, ExpandGrow, Restart
  <1> QED
    BY <1>2, <1>3, <1>4

\* Without timeouts, the capacity of a volume the cluster has does not get
\* less before it is deleted, and an expand asks for more.
LEMMA NextCalls ==
    ASSUME IInv, Next, "timeout" \notin happened', NEW n \in Names, pv[n] # "none"
    PROVE  /\ pv'[n] # "deleted" => pv[n] # "deleted" /\ acked'[n] >= acked[n]
           /\ \A h \in Handlers : vol'[h] = n /\ at'[h] \in Resizing =>
                \/ vol[h] = n /\ at[h] \in Resizing /\ arg'[h] = arg[h]
                \/ /\ pv[n] = "bound"
                   /\ AlignedCapacity(arg'[h]) <= 0 \/ AlignedCapacity(arg'[h]) >= acked[n]
  <1> DEFINE Told == pv'[n] # "deleted" => pv[n] # "deleted" /\ acked'[n] >= acked[n]
             Kept(h) == vol[h] = n /\ at[h] \in Resizing /\ arg'[h] = arg[h]
             Calls == \A h \in Handlers : vol'[h] = n /\ at'[h] \in Resizing =>
                        \/ Kept(h)
                        \/ /\ pv[n] = "bound"
                           /\ AlignedCapacity(arg'[h]) <= 0 \/ AlignedCapacity(arg'[h]) >= acked[n]
  <1> USE DEF IInv, TypeOK, claims, cluster, faults, files
  <1>0. "timeout" \notin happened /\ late = {} /\ acked[n] \in Int
    BY NextHistory, CapacityAssumption DEF SidecarInv
  <1>1. ASSUME NEW h \in Handlers, NEW m \in Names, NEW r \in Ranges, Expand(h, m, r) PROVE Told /\ Calls
    <2>1. r.required \in Int
      BY ControllerAssumption DEF Range64, Int64
    <2>2. /\ AlignedCapacity(r) \in Int
          /\ AlignedCapacity(r) > 0 => InRange(AlignedCapacity(r), r)
      BY AskedFacts
    <2>3. m = n => pv[n] = "bound" /\ (AlignedCapacity(r) <= 0 \/ AlignedCapacity(r) >= acked[n])
      BY <1>0, <1>1, <2>1, <2>2 DEF Expand, InRange
    <2>4. /\ vol' = [vol EXCEPT ![h] = m] /\ at' = [at EXCEPT ![h] = "e_find"]
          /\ arg' = [arg EXCEPT ![h] = r] /\ UNCHANGED <<pv, acked>>
      BY <1>1 DEF Expand, Call
    <2> QED
      BY <1>0, <2>3, <2>4
  <1>2. ASSUME NEW h \in Handlers, NEW m \in Names, Create(h, m) \/ Delete(h, m) PROVE Told /\ Calls
    <2>1. /\ \E k \in Names : vol' = [vol EXCEPT ![h] = k]
          /\ \E t \in {"get", "d_find"} : at' = [at EXCEPT ![h] = t]
          /\ \E a \in Ranges \cup {NoRange} : arg' = [arg EXCEPT ![h] = a]
          /\ UNCHANGED acked
      BY <1>2 DEF Create, Delete, Call
    <2>2. pv' = pv \/ (pv' = [pv EXCEPT ![m] = "released"] /\ pv[m] # "deleted")
      BY <1>2 DEF Create, Delete
    <2>3. Calls
      BY <2>1 DEF Resizing, ExpandSteps
    <2> QED
      BY <1>0, <2>1, <2>2, <2>3
  <1>3. ASSUME NEW h \in Handlers, Reply(h) PROVE Told /\ Calls
    <2>1. /\ vol' = [vol EXCEPT ![h] = None] /\ at' = [at EXCEPT ![h] = "idle"]
          /\ arg' = [arg EXCEPT ![h] = NoRange]
      BY <1>3 DEF Reply, Return
    <2>2. Calls
      BY <2>1 DEF Resizing, ExpandSteps
    <2>3. vol[h] \in Names /\ (at[h] = "reply" => pv[vol[h]] = "none")
      BY <1>0, <1>3 DEF Reply, CallInv, SidecarInv
    <2>4. at[h] = "e_reply" => Asked(h) >= acked[vol[h]]
      BY <1>0, <1>3, <2>3, HandlerFacts DEF Reply, CallInv, ImageInv, Resizing, Sane, Asked
    <2>5. CASE UNCHANGED cluster
      BY <1>0, <2>2, <2>5
    <2>6. CASE at[h] = "d_reply" /\ pv' = [pv EXCEPT ![vol[h]] = "deleted"] /\ acked' = [acked EXCEPT ![vol[h]] = 0]
      BY <1>0, <2>2, <2>3, <2>6
    <2>7. CASE at[h] = "reply" /\ pv' = [pv EXCEPT ![vol[h]] = "bound"] /\ acked' = [acked EXCEPT ![vol[h]] = Asked(h)]
      BY <1>0, <2>2, <2>3, <2>7
    <2>8. CASE at[h] = "e_reply" /\ pv' = [pv EXCEPT ![vol[h]] = @] /\ acked' = [acked EXCEPT ![vol[h]] = Asked(h)]
      BY <1>0, <2>2, <2>3, <2>4, <2>8
    <2> QED
      BY <1>3, <2>5, <2>6, <2>7, <2>8 DEF Reply
  <1>4. ASSUME UNCHANGED cluster, NEW h \in Handlers,
               \/ UNCHANGED <<at, vol, arg>>
               \/ Return(h)
               \/ /\ \E t \in Steps : at' = [at EXCEPT ![h] = t] /\ (t \in Resizing => at[h] \in Resizing)
                  /\ UNCHANGED <<vol, arg>>
        PROVE  Told /\ Calls
    <2>1. Told
      BY <1>0, <1>4
    <2>2. Calls
      BY <1>4 DEF Return, Resizing, ExpandSteps
    <2> QED
      BY <2>1, <2>2
  <1>5. CASE Restart
    BY <1>0, <1>5 DEF Restart, Resizing, ExpandSteps
  <1>6. ASSUME NEW h \in Handlers, Handler(h) \/ Timeout(h)
        PROVE  \/ Reply(h)
               \/ /\ UNCHANGED cluster
                  /\ \/ UNCHANGED <<at, vol, arg>>
                     \/ Return(h)
                     \/ /\ \E t \in Steps : at' = [at EXCEPT ![h] = t] /\ (t \in Resizing => at[h] \in Resizing)
                        /\ UNCHANGED <<vol, arg>>
    <2> USE DEF Goto, Fails, Answers, Deletes, Grows, Steps, Provisioning, Resizing, CreateSteps, DeleteSteps,
                ExpandSteps
    <2>1. CASE CreateGet(h) \/ CreateStat(h) \/ CreateTruncate(h) \/ CreateMkfs(h) \/ CreateRemove(h)
      BY <2>1 DEF CreateGet, CreateStat, CreateTruncate, TruncateFails, CreateMkfs, CreateRemove
    <2>2. CASE DeleteFind(h) \/ DeleteUnlink(h) \/ ExpandFind(h) \/ ExpandStat(h) \/ ExpandGrow(h)
      BY <2>2 DEF DeleteFind, DeleteUnlink, ExpandFind, ExpandStat, ExpandGrow, TruncateFails
    <2>3. CASE Timeout(h)
      BY <2>3 DEF Timeout
    <2> QED
      BY <1>6, <2>1, <2>2, <2>3 DEF Handler
  <1> QED
    BY <1>1, <1>2, <1>3, <1>4, <1>5, <1>6 DEF Next

LEMMA ControllerKeeps ==
    ASSUME AllInv, Controller(Next)
    PROVE  AllInv'
  <1> USE CapacityAssumption DEF AllInv, Controller, devices
  <1>1. IInv'
    BY NextKeeps
  <1>2. LayerTypes'
    BY DEF LayerTypes
  <1>3. /\ \A n \in Names : pv[n] # "none" => pv'[n] # "none"
        /\ encrypted' = encrypted /\ happened \subseteq happened'
    BY NextHistory
  <1>4. AlwaysMountable'
    BY <1>3 DEF AlwaysMountable
  <1>5. ASSUME NEW n \in Names PROVE VolumeInv(n)'
    <2> USE DEF VolumeInv
    <2>0. /\ size[n] \in 0..MaxInt \cup {Absent} /\ size'[n] \in 0..MaxInt \cup {Absent}
          /\ loop[n] \in Int /\ dm[n] \in 0..MaxInt /\ fs[n] \in 0..MaxInt
          /\ loop[n] >= 0 /\ due[n] \in Int
      BY <1>1 DEF IInv, TypeOK, LayerTypes
    <2>1. /\ Attached(n)' = Attached(n)
          /\ n \in orphan' <=> n \in orphan \/ (Attached(n) /\ size'[n] = Absent)
          /\ Linked(n)' => Linked(n) /\ size'[n] # Absent
          /\ Checked(n)' = Checked(n) /\ Device(n)' = Device(n)
      BY <1>3 DEF Attached, Linked, Checked, Device
    <2>2. Effect(n)
      BY NextEffect
    <2>3. StepInv(n)'
      BY <1>3, <2>0, <2>1, <2>2 DEF StepInv, Effect, Absent, Linked, Attached
    <2>4. DeviceInv(n)'
      <3>1. n \in encrypted /\ Attached(n) /\ n \notin orphan' => block'[n] = block[n] /\ fs'[n] = fs[n]
        BY <2>0, <2>1, <2>2 DEF StepInv, Effect, Linked, Absent
      <3>2. Recorded(n)' \in {Recorded(n), BlockSize}
        BY <2>2 DEF Effect, Recorded
      <3> QED
        BY <1>3, <2>1, <3>1, <3>2 DEF DeviceInv, Recorded, Attached
    <2>5. "timeout" \notin happened /\ pv[n] # "none" =>
            /\ fs'[n] \in {fs[n], 0}
            /\ size'[n] > 0 =>
                 /\ size'[n] >= size[n]
                 /\ \/ size[n] > 0
                    \/ \E h \in Handlers : /\ vol[h] = n /\ at[h] \in Resizing
                                          /\ Asked(h) > 0 /\ size'[n] = Asked(h)
      BY <2>0, <2>2 DEF Effect, Absent
    <2>6. "timeout" \notin happened' => FitInv(n)'
      <3> SUFFICES ASSUME "timeout" \notin happened' PROVE FitInv(n)'
        OBVIOUS
      <3>1. FitInv(n) /\ "timeout" \notin happened /\ Device(n) \in Nat
        BY <1>3, <2>0 DEF Device
      <3>2. n \in orphan' => fs'[n] = 0
        BY <2>0, <2>1, <2>2, <2>5, <3>1 DEF StepInv, FitInv, Effect, Linked, Attached, Absent
      <3>3. Linked(n)' => loop[n] <= size'[n]
        BY <2>0, <2>1, <2>3, <2>5, <3>1 DEF StepInv, FitInv, Linked, Attached, Absent
      <3>4. Checked(n) \/ node[n] \in {"fsck", "open"} => fs'[n] \in {fs[n], 0}
        BY <2>5, <3>1 DEF StepInv, Checked
      <3>5. Checked(n) \/ node[n] = "fsck" => fs'[n] <= Device(n)
        BY <2>0, <3>1, <3>4 DEF FitInv
      <3> QED
        BY <1>3, <2>1, <3>1, <3>2, <3>3, <3>4, <3>5 DEF FitInv
    <2>7. "timeout" \notin happened' => GrowInv(n)'
      <3> SUFFICES ASSUME "timeout" \notin happened' PROVE GrowInv(n)'
        OBVIOUS
      <3>1. GrowInv(n) /\ "timeout" \notin happened
        BY <1>3
      <3>2. node[n] # "idle" => \A h \in Handlers :
              vol[h] = n /\ at[h] \in Resizing => Asked(h) <= 0 \/ Asked(h) >= due[n]
        BY <3>1 DEF DueInv
      <3>3. \A h \in Handlers : Asked(h) \in Int
        BY HandlerFacts DEF IInv, Sane, Asked
      <3>4. node[n] # "idle" /\ n \notin orphan' /\ size'[n] > 0 => due[n] <= size'[n]
        BY <2>0, <2>1, <2>5, <3>1, <3>2, <3>3 DEF StepInv, GrowInv, Absent
      <3> QED
        BY <1>3, <2>1, <3>1, <3>4 DEF GrowInv
    <2> QED
      BY <2>3, <2>4, <2>6, <2>7
  <1>6. DueInv'
    <2> SUFFICES ASSUME "timeout" \notin happened', NEW n \in Names, node[n] # "idle"
                 PROVE  /\ pv'[n] # "deleted" => due[n] <= acked'[n]
                        /\ \A h \in Handlers : vol'[h] = n /\ at'[h] \in Resizing =>
                             Asked(h)' <= 0 \/ Asked(h)' >= due[n]
      BY DEF DueInv
    <2>1. "timeout" \notin happened /\ pv[n] # "none"
      BY <1>3 DEF VolumeInv, StepInv
    <2>2. /\ pv[n] # "deleted" => due[n] <= acked[n]
          /\ \A h \in Handlers : vol[h] = n /\ at[h] \in Resizing =>
               AlignedCapacity(arg[h]) <= 0 \/ AlignedCapacity(arg[h]) >= due[n]
      BY <2>1 DEF DueInv, Asked
    <2>3. /\ pv'[n] # "deleted" => pv[n] # "deleted" /\ acked'[n] >= acked[n]
          /\ \A h \in Handlers : vol'[h] = n /\ at'[h] \in Resizing =>
               \/ vol[h] = n /\ at[h] \in Resizing /\ arg'[h] = arg[h]
               \/ /\ pv[n] = "bound"
                  /\ AlignedCapacity(arg'[h]) <= 0 \/ AlignedCapacity(arg'[h]) >= acked[n]
      BY <2>1, NextCalls
    <2>4. /\ due[n] \in Int /\ acked[n] \in Int /\ acked'[n] \in Int
          /\ \A h \in Handlers : AlignedCapacity(arg'[h]) \in Int
      BY <1>1, AskedFacts DEF IInv, TypeOK, LayerTypes
    <2> QED
      BY <2>2, <2>3, <2>4 DEF Asked
  <1> QED
    BY <1>1, <1>2, <1>4, <1>5, <1>6

-----------------------------------------------------------------------------
(* What the node plugin's steps leave alone. *)

\* A file as the controller's invariants want it.
FileKept(n) ==
    /\ IF block'[n] = 0 THEN fs'[n] = 0
       ELSE Divides(block'[n], BlockSize) /\ Divides(block'[n], fs'[n])
    /\ "timeout" \notin happened /\ fs'[n] > 0 => fs'[n] + Overhead(n) <= size[n]
    /\ fs[n] > 0 => fs'[n] > 0

\* Faults are counted and recorded.
FaultsOnRecord ==
    /\ count' \in 0..MaxFaults
    /\ happened \subseteq happened' /\ happened' \subseteq Hazards \cup {"overlap"}

LEMMA UnchangedFile ==
    ASSUME IInv, NEW n \in Names, fs'[n] = fs[n], block'[n] = block[n]
    PROVE  FileKept(n)
  BY DEF FileKept, IInv, SizeInv, ImageInv

LEMMA FilesKeep ==
    ASSUME IInv, UNCHANGED Elsewhere, FaultsOnRecord,
           fs' \in [Names -> 0..MaxInt], block' \in [Names -> 0..BlockSize],
           \A n \in Names : FileKept(n)
    PROVE  IInv'
  <1> USE DEF IInv, Elsewhere, claims, cluster, FaultsOnRecord, Asked
  <1>1. TypeOK'
    BY DEF TypeOK
  <1>2. CallInv' /\ SidecarInv'
    BY DEF CallInv, SidecarInv
  <1>3. SizeInv'
    BY DEF SizeInv, FileKept
  <1>4. EncryptedInv' /\ GoneInv'
    BY DEF EncryptedInv, GoneInv, DeletedIsGone
  <1>5. ImageInv'
    BY DEF ImageInv, FileKept, BoundHasImage, Overhead
  <1>6. FormatInv'
    <2>1. \A n \in Names : fs[n] > 0 => fs'[n] > 0
      BY DEF FileKept
    <2>2. \A h \in Handlers : at[h] = "reply" => vol[h] \in Names
      BY DEF CallInv
    <2> QED
      BY <2>1, <2>2 DEF FormatInv
  <1> QED
    BY <1>1, <1>2, <1>3, <1>4, <1>5, <1>6

\* A step of volume n's call: everything else stays as it is.
Only(n) ==
    /\ UNCHANGED Elsewhere /\ FaultsOnRecord
    /\ \A m \in Names \ {n} :
         /\ node'[m] = node[m] /\ sector'[m] = sector[m] /\ loop'[m] = loop[m] /\ dm'[m] = dm[m]
         /\ m \in mounted' <=> m \in mounted
         /\ m \in orphan' <=> m \in orphan
         /\ due'[m] = due[m] /\ fs'[m] = fs[m] /\ block'[m] = block[m]
    /\ node'[n] = "idle" \/ due'[n] = acked[n] \/ (node[n] # "idle" /\ due'[n] = due[n])

LEMMA OnlyKeeps ==
    ASSUME AllInv, NEW n \in Names, Only(n),
           fs' \in [Names -> 0..MaxInt], block' \in [Names -> 0..BlockSize], FileKept(n),
           LayerTypes', VolumeInv(n)', AlwaysMountable'
    PROVE  AllInv'
  <1> USE DEF AllInv, Only, FaultsOnRecord
  <1>1. \A m \in Names \ {n} : FileKept(m)
    BY UnchangedFile
  <1>2. IInv'
    BY <1>1, FilesKeep
  <1>3. ASSUME NEW m \in Names \ {n} PROVE VolumeInv(m)'
    <2> USE DEF Elsewhere, claims, cluster
    <2>1. /\ Attached(m)' = Attached(m) /\ Linked(m)' = Linked(m) /\ Checked(m)' = Checked(m)
          /\ Device(m)' = Device(m) /\ Recorded(m)' = Recorded(m)
      BY DEF Attached, Linked, Checked, Device, Recorded
    <2>2. StepInv(m)'
      BY <2>1 DEF VolumeInv, StepInv
    <2>3. DeviceInv(m)'
      BY <2>1 DEF VolumeInv, DeviceInv
    <2>4. "timeout" \notin happened' => FitInv(m)' /\ GrowInv(m)'
      BY <2>1 DEF VolumeInv, FitInv, GrowInv
    <2> QED
      BY <2>2, <2>3, <2>4 DEF VolumeInv
  <1>4. DueInv'
    <2> SUFFICES ASSUME "timeout" \notin happened', NEW m \in Names, node'[m] # "idle"
                 PROVE  /\ pv[m] # "deleted" => due'[m] <= acked[m]
                        /\ \A h \in Handlers : vol[h] = m /\ at[h] \in Resizing =>
                             AlignedCapacity(arg[h]) <= 0 \/ AlignedCapacity(arg[h]) >= due'[m]
      BY DEF DueInv, Elsewhere, claims, cluster, Asked
    <2>1. "timeout" \notin happened /\ acked[m] \in Int
      BY CapacityAssumption DEF IInv, TypeOK
    <2>2. \A h \in Handlers : vol[h] = m /\ at[h] \in Resizing =>
            AlignedCapacity(arg[h]) <= 0 \/ AlignedCapacity(arg[h]) >= acked[m]
      BY <2>1 DEF IInv, ImageInv, Asked
    <2>3. due'[m] = acked[m] \/ (node[m] # "idle" /\ due'[m] = due[m])
      OBVIOUS
    <2>4. CASE due'[m] = acked[m]
      BY <2>1, <2>2, <2>4
    <2>5. CASE node[m] # "idle" /\ due'[m] = due[m]
      BY <2>1, <2>5 DEF DueInv, Asked
    <2> QED
      BY <2>3, <2>4, <2>5
  <1> QED
    BY <1>2, <1>3, <1>4

\* What is known of a volume before a step.
LEMMA VolumeFacts ==
    ASSUME AllInv, NEW n \in Names
    PROVE  /\ BlockSize \in Nat \ {0} /\ MaxInt \in Nat /\ Header \in Nat
           /\ size[n] \in Int /\ size[n] >= 0 - 1 /\ size[n] <= MaxInt
           /\ fs[n] \in Nat /\ fs[n] <= MaxInt /\ block[n] \in 0..BlockSize
           /\ sector[n] \in 0..BlockSize
           /\ loop[n] \in Nat /\ loop[n] <= MaxInt /\ dm[n] \in Nat /\ dm[n] <= MaxInt
           /\ due[n] \in Nat /\ acked[n] \in Nat /\ acked[n] <= MaxInt
           /\ Device(n) \in Nat /\ Device(n) <= MaxInt
           /\ Recorded(n) \in Nat \ {0} /\ Recorded(n) <= BlockSize
           /\ Divides(Recorded(n), BlockSize) /\ Divides(Recorded(n), fs[n])
           /\ VolumeInv(n)
  <1>1. BlockSize \in Nat \ {0} /\ MaxInt \in Nat /\ Header \in Nat
    BY CapacityAssumption, ControllerAssumption
  <1>2. /\ size[n] \in 0..MaxInt \cup {Absent} /\ fs[n] \in 0..MaxInt /\ block[n] \in 0..BlockSize
        /\ sector[n] \in 0..BlockSize /\ loop[n] \in 0..MaxInt /\ dm[n] \in 0..MaxInt
        /\ due[n] \in 0..MaxInt /\ acked[n] \in 0..MaxInt
    BY DEF AllInv, IInv, TypeOK, LayerTypes
  <1>3. Divides(BlockSize, BlockSize) /\ Divides(BlockSize, 0)
    BY <1>1, DividesIff
  <1>4. Divides(Recorded(n), BlockSize) /\ Divides(Recorded(n), fs[n])
    BY <1>3 DEF AllInv, IInv, SizeInv, Recorded
  <1>5. Recorded(n) \in Nat \ {0} /\ Recorded(n) <= BlockSize
    BY <1>1, <1>2 DEF Recorded
  <1> QED
    BY <1>1, <1>2, <1>4, <1>5 DEF AllInv, Device, Absent

\* The sectors of a volume that a call is at work on, or that is staged.
LEMMA SectorFacts ==
    ASSUME AllInv, NEW n \in Names, node[n] # "idle" \/ n \in mounted
    PROVE  /\ sector[n] \in Nat \ {0}
           /\ Divides(sector[n], Recorded(n)) /\ Divides(sector[n], fs[n])
           /\ Divides(sector[n], Header) /\ Divides(sector[n], Header + BlockSize)
           /\ Divides(sector[n], fs[n] + Header)
           /\ block[n] # 0 => sector[n] <= block[n]
  <1>1. sector[n] \in Nat \ {0} /\ Divides(sector[n], BlockSize) /\ Divides(sector[n], Recorded(n))
    BY VolumeFacts DEF VolumeInv, DeviceInv
  <1>2. Divides(sector[n], fs[n])
    BY <1>1, VolumeFacts, DividesTrans
  <1>3. Divides(BlockSize, Header)
    BY ControllerAssumption DEF Divides
  <1>4. Divides(sector[n], Header)
    BY <1>1, <1>3, VolumeFacts, DividesTrans
  <1>5. Divides(sector[n], Header + BlockSize) /\ Divides(sector[n], fs[n] + Header)
    <2>1. Header \in Int /\ BlockSize \in Int /\ fs[n] \in Int
      BY VolumeFacts
    <2>2. Divides(sector[n], Header + BlockSize)
      BY ONLY <1>1, <1>4, <2>1, DividesSum
    <2>3. Divides(sector[n], fs[n] + Header)
      BY ONLY <1>1, <1>2, <1>4, <2>1, DividesSum
    <2> QED
      BY <2>2, <2>3
  <1>6. block[n] # 0 => sector[n] <= block[n]
    BY <1>1, VolumeFacts, DividesAtMost DEF Recorded
  <1> QED
    BY <1>1, <1>2, <1>4, <1>5, <1>6

\* A loop device in whole sectors of an image: it has room for what was made
\* on it and for what it is to hold.
LEMMA LoopFacts ==
    ASSUME AllInv, NEW n \in Names, node[n] # "idle" \/ n \in mounted, size[n] > 0
    PROVE  LET c == Filled(size[n], sector[n])
           IN  /\ c \in Nat /\ c <= size[n] /\ Divides(sector[n], c)
               /\ n \in encrypted => c >= Header + BlockSize
               /\ "timeout" \notin happened /\ fs[n] > 0 => fs[n] + Overhead(n) <= c
               /\ Divides(sector[n], loop[n]) /\ loop[n] <= size[n] => loop[n] <= c
               /\ due[n] <= size[n] => Filled(due[n], sector[n]) <= c
  <1> DEFINE c == Filled(size[n], sector[n])
  <1>1. sector[n] \in Nat \ {0} /\ size[n] \in Nat /\ size[n] \in Int
    BY VolumeFacts, SectorFacts
  <1>2. c \in Nat /\ c <= size[n] /\ Divides(sector[n], c)
    BY <1>1, FilledFacts
  <1>3. ASSUME NEW m \in Int, Divides(sector[n], m), m <= size[n]
        PROVE  m <= c
    BY <1>1, <1>3, FilledHolds
  <1> HIDE DEF c
  <1>4. n \in encrypted => c >= Header + BlockSize
    <2>1. n \in encrypted => size[n] >= Header + BlockSize
      BY <1>1, ControllerAssumption, CapacityAssumption DEF AllInv, IInv, SizeInv
    <2>2. Header + BlockSize \in Int /\ Divides(sector[n], Header + BlockSize)
      BY VolumeFacts, SectorFacts
    <2>3. n \in encrypted => Header + BlockSize <= c
      BY <1>3, <2>1, <2>2, VolumeFacts
    <2> QED
      BY <1>2, <2>2, <2>3
  <1>5. "timeout" \notin happened /\ fs[n] > 0 => fs[n] + Overhead(n) <= c
    <2>1. "timeout" \notin happened /\ fs[n] > 0 => fs[n] + Overhead(n) <= size[n]
      BY DEF AllInv, IInv, ImageInv
    <2>2. fs[n] + 0 = fs[n]
      BY VolumeFacts
    <2>3. fs[n] + Overhead(n) \in Int /\ Divides(sector[n], fs[n] + Overhead(n))
      BY <2>2, VolumeFacts, SectorFacts DEF Overhead
    <2> QED
      BY <1>3, <2>1, <2>3
  <1>6. Divides(sector[n], loop[n]) /\ loop[n] <= size[n] => loop[n] <= c
    BY <1>3, VolumeFacts
  <1>7. due[n] <= size[n] => Filled(due[n], sector[n]) <= c
    <2>1. due[n] \in Int /\ due[n] \in Nat
      BY VolumeFacts
    <2>2. /\ Filled(due[n], sector[n]) \in Int /\ Filled(due[n], sector[n]) <= due[n]
          /\ Divides(sector[n], Filled(due[n], sector[n]))
      BY <1>1, <2>1, FilledFacts
    <2> QED
      BY <1>1, <1>3, <2>1, <2>2
  <1> QED
    BY <1>2, <1>4, <1>5, <1>6, <1>7 DEF c

\* A mapping in whole LUKS sectors of what the header leaves of a loop device.
LEMMA MappingFacts ==
    ASSUME AllInv, NEW n \in Names, n \in encrypted, Attached(n)
    PROVE  LET d == Filled(loop[n] - Header, Recorded(n))
           IN  /\ d \in 1..MaxInt /\ d + Header <= loop[n] /\ Divides(Recorded(n), d)
               /\ fs[n] + Header <= loop[n] => fs[n] <= d
  <1> DEFINE r == Recorded(n)
             l == loop[n] - Header
             d == Filled(l, r)
  <1>1. /\ r \in Nat \ {0} /\ r <= BlockSize /\ Divides(r, fs[n])
        /\ fs[n] \in Int /\ loop[n] \in Nat /\ loop[n] <= MaxInt /\ Header \in Nat
        /\ BlockSize \in Nat /\ MaxInt \in Nat
    BY VolumeFacts
  <1>2. loop[n] >= Header + BlockSize
    BY VolumeFacts DEF VolumeInv, DeviceInv
  <1>3. l \in Int /\ l >= r
    BY <1>1, <1>2
  <1>4. d \in Int /\ d <= l /\ Divides(r, d) /\ d > 0
    BY <1>1, <1>3, FilledFacts
  <1>5. fs[n] <= l => fs[n] <= d
    BY <1>1, <1>3, FilledHolds
  <1> HIDE DEF d
  <1>6. /\ d \in 1..MaxInt /\ d + Header <= loop[n]
        /\ fs[n] + Header <= loop[n] => fs[n] <= d
    BY <1>1, <1>4, <1>5
  <1> QED
    BY <1>4, <1>6 DEF d

-----------------------------------------------------------------------------
(* The node plugin's steps. *)

LEMMA ReleaseKeeps ==
    ASSUME AllInv, NEW n \in Names, Release(n), FaultsOnRecord, refused' \subseteq Names,
           AlwaysMountable'
    PROVE  AllInv'
  <1> USE DEF Release, Ends
  <1>1. Only(n)
    BY DEF Only, AllInv, LayerTypes
  <1>2. /\ fs' \in [Names -> 0..MaxInt] /\ block' \in [Names -> 0..BlockSize]
        /\ fs'[n] = fs[n] /\ block'[n] = block[n]
    BY DEF AllInv, IInv, TypeOK
  <1>3. FileKept(n)
    BY <1>2, UnchangedFile DEF AllInv
  <1>4. LayerTypes'
    BY CapacityAssumption DEF AllInv, LayerTypes, NodeSteps
  <1>5. node'[n] = "idle" /\ n \notin mounted' /\ n \notin orphan' /\ loop'[n] = 0 /\ dm'[n] = 0
    BY DEF AllInv, LayerTypes
  <1>6. VolumeInv(n)'
    BY <1>5 DEF VolumeInv, StepInv, DeviceInv, FitInv, GrowInv, Attached, Linked, Checked
  <1> QED
    BY <1>1, <1>2, <1>3, <1>4, <1>6, OnlyKeeps

\* A step without a fault, or with one, that refuses no volume.
LEMMA NoFault ==
    ASSUME AllInv, UNCHANGED faults
    PROVE  /\ FaultsOnRecord
           /\ refused' = refused => AlwaysMountable'
  BY DEF AllInv, IInv, TypeOK, faults, FaultsOnRecord, AlwaysMountable

LEMMA CountedFault ==
    ASSUME AllInv, Fault("cmd")
    PROVE  /\ FaultsOnRecord
           /\ refused' = refused => AlwaysMountable'
  BY ControllerAssumption DEF AllInv, IInv, TypeOK, Fault, FaultsOnRecord, AlwaysMountable

\* A step that leaves the files alone.
LEMMA SameFiles ==
    ASSUME AllInv, NEW n \in Names, UNCHANGED <<fs, block>>
    PROVE  /\ fs' \in [Names -> 0..MaxInt] /\ block' \in [Names -> 0..BlockSize]
           /\ FileKept(n)
  BY UnchangedFile DEF AllInv, IInv, TypeOK

LEMMA StageBeginKeeps ==
    ASSUME AllInv, NEW n \in Names, StageBegin(n)
    PROVE  AllInv'
  <1> USE DEF StageBegin
  <1> DEFINE s == SectorSizeFor(block[n], size[n])
  <1>0. UNCHANGED faults /\ UNCHANGED <<fs, block>> /\ refused' = refused
    OBVIOUS
  <1>1. Only(n)
    BY NoFault DEF Only, AllInv, LayerTypes
  <1>2. s \in 1..BlockSize /\ Divides(s, Recorded(n))
    <2>1. block[n] \in 0..BlockSize /\ size[n] \in Nat /\ (block[n] # 0 => Divides(block[n], BlockSize))
      BY VolumeFacts DEF Recorded
    <2> QED
      BY <2>1, SectorFits DEF Recorded
  <1>3. Divides(s, BlockSize)
    BY <1>2, VolumeFacts, DividesTrans
  <1> HIDE DEF s
  <1>4. LayerTypes'
    <2>1. acked[n] \in 0..MaxInt /\ s \in 0..BlockSize
      BY <1>2, VolumeFacts
    <2> QED
      BY <2>1 DEF AllInv, LayerTypes, NodeSteps, s
  <1>5. /\ node'[n] = "attach" /\ sector'[n] = s /\ due'[n] = acked[n] /\ n \notin mounted'
        /\ n \notin orphan' /\ loop'[n] = 0 /\ dm'[n] = 0 /\ block'[n] = block[n] /\ size'[n] = size[n]
        /\ pv'[n] = "bound" /\ ~Attached(n)'
    BY VolumeFacts DEF AllInv, LayerTypes, VolumeInv, StepInv, Attached, Elsewhere, cluster, s
  <1>6. "timeout" \notin happened => acked[n] <= size[n]
    BY VolumeFacts DEF AllInv, IInv, ImageInv, BoundHasImage
  <1>7. StepInv(n)'
    BY <1>5 DEF StepInv, Linked
  <1>8. DeviceInv(n)'
    BY <1>2, <1>3, <1>5 DEF DeviceInv, Recorded
  <1>9. "timeout" \notin happened' => FitInv(n)' /\ GrowInv(n)'
    BY <1>0, <1>5, <1>6 DEF FitInv, GrowInv, Linked, Checked, faults
  <1> QED
    BY <1>0, <1>1, <1>4, <1>7, <1>8, <1>9, OnlyKeeps, SameFiles, NoFault DEF VolumeInv

LEMMA StageAttachKeeps ==
    ASSUME AllInv, NEW n \in Names, StageAttach(n)
    PROVE  AllInv'
  <1>0. CASE size[n] <= 0 /\ Release(n) /\ UNCHANGED <<refused, faults>>
    BY <1>0, ReleaseKeeps, NoFault DEF AllInv, LayerTypes
  <1>1. CASE /\ size[n] > 0
             /\ loop' = [loop EXCEPT ![n] = Filled(size[n], sector[n])]
             /\ Step(n, IF n \in encrypted THEN "grow" ELSE "fsck")
             /\ UNCHANGED <<sector, dm, mounted, fs, block>>
    <2> USE <1>1 DEF Step
    <2> DEFINE c == Filled(size[n], sector[n])
    <2>0. UNCHANGED faults /\ UNCHANGED <<fs, block>> /\ refused' = refused /\ node[n] = "attach"
      BY DEF StageAttach
    <2>1. Only(n)
      BY <2>0, NoFault DEF Only, AllInv, LayerTypes
    <2>2. /\ c \in Nat /\ c <= size[n] /\ Divides(sector[n], c)
          /\ n \in encrypted => c >= Header + BlockSize
          /\ "timeout" \notin happened /\ fs[n] > 0 => fs[n] + Overhead(n) <= c
      BY <2>0, LoopFacts
    <2> HIDE DEF c
    <2>3. c \in 0..MaxInt
      BY <2>2, VolumeFacts
    <2>4. LayerTypes'
      BY <2>3 DEF AllInv, LayerTypes, NodeSteps, c
    <2>5. /\ node'[n] = IF n \in encrypted THEN "grow" ELSE "fsck"
          /\ loop'[n] = c /\ n \notin mounted /\ n \notin orphan /\ pv[n] # "none"
      BY <2>0, VolumeFacts DEF AllInv, LayerTypes, VolumeInv, StepInv, Attached, c
    <2>6. UNCHANGED <<encrypted, size, pv, fs, block, orphan, mounted, sector, happened, due, dm>>
      BY DEF Elsewhere, claims, cluster, faults
    <2>7. Attached(n)' /\ ~Checked(n)'
      BY <2>5, <2>6 DEF Attached, Checked
    <2>8. StepInv(n)'
      BY <2>5, <2>6, <2>7 DEF StepInv, Linked
    <2>9. DeviceInv(n)'
      BY <2>0, <2>2, <2>5, <2>6, VolumeFacts DEF VolumeInv, DeviceInv, Recorded
    <2>10. "timeout" \notin happened => fs[n] + Overhead(n) <= c \/ fs[n] = 0
      BY <2>2, VolumeFacts
    <2>11. "timeout" \notin happened' => FitInv(n)'
      <3>1. fs[n] + 0 = fs[n]
        BY VolumeFacts
      <3>2. "timeout" \notin happened /\ n \notin encrypted => fs[n] <= c
        BY <2>2, <2>10, <3>1, VolumeFacts DEF Overhead
      <3> QED
        BY <2>2, <2>5, <2>6, <2>7, <3>2 DEF FitInv, Device
    <2>12. "timeout" \notin happened' => GrowInv(n)'
      BY <2>0, <2>5, <2>6, VolumeFacts DEF VolumeInv, GrowInv
    <2> QED
      BY <2>0, <2>1, <2>4, <2>8, <2>9, <2>11, <2>12, OnlyKeeps, SameFiles, NoFault DEF VolumeInv
  <1> QED
    BY <1>0, <1>1 DEF StageAttach

LEMMA SetCapacityKeeps ==
    ASSUME AllInv, NEW n \in Names, SetCapacity(n)
    PROVE  AllInv'
  <1> USE DEF SetCapacity, Step
  <1> DEFINE c == Capacity(n)
  <1>0. /\ UNCHANGED faults /\ UNCHANGED <<fs, block>> /\ refused' = refused /\ node[n] = "grow"
        /\ VolumeInv(n) /\ Attached(n)
    BY VolumeFacts DEF Attached
  <1>1. Only(n)
    BY NoFault DEF Only, AllInv, LayerTypes
  <1>2. Linked(n) => size[n] > 0
    BY <1>0 DEF VolumeInv, StepInv
  <1>3. n \in orphan => c = loop[n]
    BY DEF Capacity
  <1>4. n \notin orphan => Linked(n) /\ c = Filled(size[n], sector[n])
    BY <1>0 DEF Linked, Capacity
  <1>5. n \notin orphan =>
          /\ c \in Nat /\ c <= size[n] /\ Divides(sector[n], c)
          /\ n \in encrypted => c >= Header + BlockSize
          /\ "timeout" \notin happened /\ fs[n] > 0 => fs[n] + Overhead(n) <= c
          /\ Divides(sector[n], loop[n]) /\ loop[n] <= size[n] => loop[n] <= c
          /\ due[n] <= size[n] => Filled(due[n], sector[n]) <= c
    BY <1>0, <1>2, <1>4, LoopFacts
  <1>6. c \in 0..MaxInt
    BY <1>3, <1>5, VolumeFacts
  <1> HIDE DEF c
  <1>7. LayerTypes'
    BY <1>6 DEF AllInv, LayerTypes, NodeSteps, c
  <1>8. /\ node'[n] = IF n \notin encrypted THEN "resize" ELSE IF n \in mounted THEN "dm" ELSE "open"
        /\ loop'[n] = c
    BY DEF AllInv, LayerTypes, c
  <1>9. UNCHANGED <<encrypted, size, pv, fs, block, orphan, mounted, sector, happened, due, dm>>
    BY DEF Elsewhere, claims, cluster, faults
  <1>10. Attached(n)' /\ Checked(n)' = Checked(n) /\ Linked(n)' = Linked(n)
    BY <1>0, <1>8, <1>9 DEF Attached, Checked, Linked
  <1>11. StepInv(n)'
    BY <1>0, <1>8, <1>9, <1>10 DEF VolumeInv, StepInv
  <1>12. DeviceInv(n)'
    BY <1>0, <1>3, <1>5, <1>8, <1>9 DEF VolumeInv, DeviceInv, Recorded
  <1>13. ASSUME "timeout" \notin happened PROVE FitInv(n)' /\ GrowInv(n)'
    <2>1. FitInv(n) /\ GrowInv(n) /\ DeviceInv(n)
      BY <1>0, <1>13 DEF VolumeInv
    <2>2. loop[n] <= c
      BY <1>0, <1>3, <1>4, <1>5, <2>1, VolumeFacts DEF FitInv, DeviceInv
    <2>3. fs[n] = 0 \/ fs[n] + Overhead(n) <= c
      BY <1>5, <1>13, <2>1, VolumeFacts DEF FitInv
    <2>4. n \notin encrypted => fs[n] <= c
      <3>1. fs[n] + 0 = fs[n] /\ 0 <= c
        BY <1>6, VolumeFacts
      <3> QED
        BY <2>3, <3>1 DEF Overhead
    <2>5. n \in encrypted => fs[n] = 0 \/ fs[n] + Header <= c
      BY <2>3 DEF Overhead
    <2>6. n \in mounted /\ n \in encrypted => dm[n] + Header <= c
      <3>1. n \in mounted /\ n \in encrypted => dm[n] + Header <= loop[n]
        BY <2>1 DEF FitInv
      <3> QED
        BY <1>6, <2>2, <3>1, VolumeFacts
    <2>7. FitInv(n)'
      BY <1>4, <1>5, <1>8, <1>9, <1>10, <2>1, <2>4, <2>5, <2>6 DEF FitInv, Device, Linked, Checked
    <2>8. n \notin orphan => due[n] <= size[n]
      BY <1>0, <1>2, <1>4, <2>1, VolumeFacts DEF GrowInv, Absent
    <2>9. GrowInv(n)'
      BY <1>5, <1>8, <1>9, <2>8 DEF GrowInv
    <2> QED
      BY <2>7, <2>9
  <1> QED
    BY <1>0, <1>1, <1>7, <1>9, <1>11, <1>12, <1>13, OnlyKeeps, SameFiles, NoFault DEF VolumeInv

LEMMA StageOpenKeeps ==
    ASSUME AllInv, NEW n \in Names, StageOpen(n)
    PROVE  AllInv'
  <1> USE DEF StageOpen, Step, Mapped
  <1> DEFINE d == Filled(loop[n] - Header, Recorded(n))
             f == IF n \notin orphan /\ fs[n] = 0 THEN d ELSE fs[n]
             b == IF n \notin orphan THEN Recorded(n) ELSE block[n]
  <1>0. /\ UNCHANGED faults /\ refused' = refused /\ node[n] = "open"
        /\ VolumeInv(n) /\ Attached(n) /\ n \in encrypted /\ n \notin mounted
    BY VolumeFacts DEF Attached, VolumeInv, StepInv
  <1>1. /\ d \in 1..MaxInt /\ d + Header <= loop[n] /\ Divides(Recorded(n), d)
        /\ fs[n] + Header <= loop[n] => fs[n] <= d
    BY <1>0, MappingFacts
  <1>2. d = Filled(loop[n] - Header, Recorded(n))
    OBVIOUS
  <1> HIDE DEF d
  <1>3. dm' = [dm EXCEPT ![n] = d] /\ dm'[n] = d
    BY <1>2 DEF AllInv, LayerTypes
  <1>4. fs' = [fs EXCEPT ![n] = f] /\ block' = [block EXCEPT ![n] = b]
    BY <1>3 DEF AllInv, IInv, TypeOK
  <1>5. f \in 0..MaxInt /\ b \in 0..BlockSize
    BY <1>1, VolumeFacts
  <1>6. /\ fs' \in [Names -> 0..MaxInt] /\ block' \in [Names -> 0..BlockSize]
        /\ fs'[n] = f /\ block'[n] = b
    BY <1>4, <1>5 DEF AllInv, IInv, TypeOK
  <1>7. Only(n)
    BY <1>3, <1>4, NoFault DEF Only, AllInv, LayerTypes
  <1>8. LayerTypes'
    <2>1. d \in 0..MaxInt
      BY <1>1
    <2> QED
      BY <1>3, <2>1 DEF AllInv, LayerTypes, NodeSteps
  <1>9. UNCHANGED <<encrypted, size, pv, orphan, mounted, sector, happened, due, loop>>
    BY DEF Elsewhere, claims, cluster, faults
  <1>10. node'[n] = "fsck" /\ Attached(n)' /\ ~Checked(n)' /\ Linked(n)' = Linked(n)
    BY <1>0, <1>9 DEF AllInv, LayerTypes, Attached, Checked, Linked
  <1>11. Recorded(n)' = Recorded(n) /\ (n \notin orphan => b # 0 /\ f > 0)
    BY <1>1, <1>6, VolumeFacts DEF Recorded
  <1>12. FileKept(n)
    <2>1. IF b = 0 THEN f = 0 ELSE Divides(b, BlockSize) /\ Divides(b, f)
      <3>1. CASE n \in orphan
        BY <3>1 DEF AllInv, IInv, SizeInv
      <3>2. CASE n \notin orphan
        BY <1>1, <3>2, VolumeFacts
      <3> QED
        BY <3>1, <3>2
    <2>2. "timeout" \notin happened /\ f > 0 => f + Overhead(n) <= size[n]
      <3>1. CASE f = fs[n]
        BY <3>1 DEF AllInv, IInv, ImageInv
      <3>2. CASE n \notin orphan /\ f = d
        <4>1. "timeout" \notin happened => loop[n] <= size[n]
          BY <1>0, <3>2 DEF VolumeInv, FitInv, Linked
        <4> QED
          BY <1>0, <1>1, <3>2, <4>1, VolumeFacts DEF Overhead
      <3> QED
        BY <3>1, <3>2
    <2>3. fs[n] > 0 => f > 0
      BY VolumeFacts
    <2> QED
      BY <1>6, <2>1, <2>2, <2>3 DEF FileKept
  <1>13. StepInv(n)'
    BY <1>0, <1>6, <1>9, <1>10, <1>11 DEF VolumeInv, StepInv, Linked
  <1>14. DeviceInv(n)'
    BY <1>0, <1>2, <1>3, <1>6, <1>9, <1>10, <1>11 DEF VolumeInv, DeviceInv
  <1>15. ASSUME "timeout" \notin happened PROVE FitInv(n)' /\ GrowInv(n)'
    <2>1. FitInv(n) /\ GrowInv(n)
      BY <1>0, <1>15 DEF VolumeInv
    <2>2. f <= d
      BY <1>0, <1>1, <2>1, VolumeFacts DEF FitInv
    <2>3. n \in orphan => f = 0
      BY <2>1 DEF FitInv
    <2>4. FitInv(n)'
      BY <1>0, <1>1, <1>3, <1>6, <1>9, <1>10, <2>1, <2>2, <2>3 DEF FitInv, Device
    <2>5. GrowInv(n)'
      BY <1>0, <1>9, <1>10, <2>1 DEF GrowInv
    <2> QED
      BY <2>4, <2>5
  <1> QED
    BY <1>0, <1>6, <1>7, <1>8, <1>9, <1>12, <1>13, <1>14, <1>15, OnlyKeeps, NoFault DEF VolumeInv

LEMMA StageFsckKeeps ==
    ASSUME AllInv, NEW n \in Names, StageFsck(n)
    PROVE  AllInv'
  <1>0. node[n] = "fsck" /\ VolumeInv(n) /\ Attached(n) /\ StepInv(n) /\ DeviceInv(n)
    BY VolumeFacts DEF StageFsck, VolumeInv, Attached
  <1>1. CASE ~Sound(n) /\ Release(n) /\ refused' = refused \cup {n} /\ UNCHANGED faults
    <2>1. ~(happened \subseteq {"cmd", "truncate"})
      <3> SUFFICES ASSUME happened \subseteq {"cmd", "truncate"}
                   PROVE  Sound(n)
        BY <1>1
      <3>0. happened \cap {"timeout", "restart", "remove", "overlap"} = {}
        OBVIOUS
      <3>1. CASE n \in orphan
        BY <3>1 DEF Sound
      <3>2. CASE n \notin orphan
        <4>1. size[n] # Absent /\ pv[n] # "none"
          BY <1>0, <3>2, VolumeFacts DEF StepInv, Linked, Absent
        <4>2. fs[n] > 0
          BY <1>0, <3>0, <3>2, <4>1 DEF DeviceInv, AllInv, IInv, FormatInv
        <4>3. block[n] # 0
          BY <4>2, VolumeFacts DEF AllInv, IInv, SizeInv
        <4>4. sector[n] <= block[n]
          BY <1>0, <4>3, SectorFacts
        <4>5. fs[n] <= Device(n)
          BY <1>0, <3>0 DEF VolumeInv, FitInv
        <4> QED
          BY <4>2, <4>4, <4>5, VolumeFacts DEF Sound
      <3> QED
        BY <3>1, <3>2
    <2>2. AlwaysMountable'
      BY <1>1, <2>1 DEF AlwaysMountable, faults
    <2> QED
      BY <1>1, <2>2, ReleaseKeeps, NoFault DEF AllInv, LayerTypes
  <1>2. CASE /\ Sound(n) /\ Step(n, IF n \in encrypted THEN "resize" ELSE "grow")
             /\ UNCHANGED <<devices, fs, block>>
    <2> USE <1>2 DEF Step, devices
    <2>1. Only(n) /\ UNCHANGED faults /\ refused' = refused
      BY <1>0, NoFault DEF Only, AllInv, LayerTypes
    <2>2. LayerTypes'
      BY DEF AllInv, LayerTypes, NodeSteps
    <2>3. UNCHANGED <<encrypted, size, pv, fs, block, orphan, mounted, sector, happened, due, loop, dm>>
      BY DEF Elsewhere, claims, cluster, faults
    <2>4. /\ node'[n] = IF n \in encrypted THEN "resize" ELSE "grow"
          /\ Attached(n)' /\ Linked(n)' = Linked(n)
      BY <1>0, <2>3 DEF AllInv, LayerTypes, Attached, Linked
    <2>5. n \notin orphan => block[n] # 0 /\ fs[n] > 0
      BY <1>0, VolumeFacts, SectorFacts DEF Sound
    <2>6. StepInv(n)'
      BY <1>0, <2>3, <2>4, <2>5 DEF StepInv, Linked
    <2>7. DeviceInv(n)'
      BY <1>0, <2>3, <2>4 DEF DeviceInv, Recorded
    <2>8. "timeout" \notin happened => FitInv(n)'
      BY <1>0, <2>3, <2>4 DEF VolumeInv, FitInv, Device
    <2>9. "timeout" \notin happened => GrowInv(n)'
      BY <1>0, <2>3, <2>4 DEF VolumeInv, GrowInv
    <2> QED
      BY <2>1, <2>2, <2>3, <2>6, <2>7, <2>8, <2>9, OnlyKeeps, SameFiles, NoFault DEF VolumeInv
  <1> QED
    BY <1>1, <1>2 DEF StageFsck

LEMMA ExpandMappingKeeps ==
    ASSUME AllInv, NEW n \in Names, ExpandMapping(n)
    PROVE  AllInv'
  <1> USE DEF ExpandMapping, Step, Mapped
  <1> DEFINE d == Filled(loop[n] - Header, Recorded(n))
  <1>0. /\ UNCHANGED faults /\ UNCHANGED <<fs, block>> /\ refused' = refused /\ node[n] = "dm"
        /\ VolumeInv(n) /\ Attached(n) /\ n \in encrypted /\ n \in mounted
    BY VolumeFacts DEF Attached, VolumeInv, StepInv
  <1>1. /\ d \in 1..MaxInt /\ d + Header <= loop[n]
        /\ fs[n] + Header <= loop[n] => fs[n] <= d
    BY <1>0, MappingFacts
  <1>2. d = Filled(loop[n] - Header, Recorded(n))
    OBVIOUS
  <1> HIDE DEF d
  <1>3. dm' = [dm EXCEPT ![n] = d] /\ dm'[n] = d
    BY <1>2 DEF AllInv, LayerTypes
  <1>4. Only(n)
    BY <1>3, NoFault DEF Only, AllInv, LayerTypes
  <1>5. LayerTypes'
    <2>1. d \in 0..MaxInt
      BY <1>1
    <2> QED
      BY <1>3, <2>1 DEF AllInv, LayerTypes, NodeSteps
  <1>6. UNCHANGED <<encrypted, size, pv, fs, block, orphan, mounted, sector, happened, due, loop>>
    BY DEF Elsewhere, claims, cluster, faults
  <1>7. /\ node'[n] = "resize" /\ Attached(n)' /\ Checked(n) /\ Linked(n)' = Linked(n)
        /\ Recorded(n)' = Recorded(n)
    BY <1>0, <1>6 DEF AllInv, LayerTypes, Attached, Checked, Linked, Recorded
  <1>8. StepInv(n)'
    BY <1>0, <1>6, <1>7 DEF VolumeInv, StepInv
  <1>9. DeviceInv(n)'
    BY <1>0, <1>2, <1>3, <1>6, <1>7 DEF VolumeInv, DeviceInv
  <1>10. ASSUME "timeout" \notin happened PROVE FitInv(n)' /\ GrowInv(n)'
    <2>1. FitInv(n) /\ GrowInv(n)
      BY <1>0, <1>10 DEF VolumeInv
    <2>2. fs[n] <= dm[n] /\ dm[n] + Header <= loop[n]
      BY <1>0, <1>7, <2>1 DEF FitInv, Device
    <2>3. fs[n] <= d
      BY <1>1, <2>2, VolumeFacts
    <2>4. FitInv(n)'
      BY <1>0, <1>1, <1>3, <1>6, <1>7, <2>1, <2>3 DEF FitInv, Device
    <2>5. GrowInv(n)'
      BY <1>0, <1>6, <1>7, <2>1 DEF GrowInv
    <2> QED
      BY <2>4, <2>5
  <1> QED
    BY <1>0, <1>4, <1>5, <1>6, <1>8, <1>9, <1>10, OnlyKeeps, SameFiles, NoFault DEF VolumeInv

\* What resize2fs makes of a filesystem.
Resized(n) == IF n \in orphan \/ fs[n] >= Device(n) THEN fs[n] ELSE Filled(Device(n), Recorded(n))

LEMMA ResizeFacts ==
    ASSUME AllInv, NEW n \in Names
    PROVE  /\ Resized(n) \in 0..MaxInt /\ fs[n] <= Resized(n) /\ Divides(Recorded(n), Resized(n))
           /\ fs[n] <= Device(n) => Resized(n) <= Device(n)
           /\ \A m \in Int : n \notin orphan /\ Divides(Recorded(n), m) /\ m <= Device(n) =>
                m <= Resized(n)
  <1>1. /\ Device(n) \in Nat /\ Device(n) \in Int /\ Device(n) <= MaxInt /\ MaxInt \in Nat
        /\ Recorded(n) \in Nat \ {0} /\ fs[n] \in Nat /\ fs[n] \in Int /\ fs[n] <= MaxInt
        /\ Divides(Recorded(n), fs[n])
    BY VolumeFacts
  <1> DEFINE f == Filled(Device(n), Recorded(n))
  <1>2. f \in Nat /\ f <= Device(n) /\ Divides(Recorded(n), f)
    BY <1>1, FilledFacts
  <1>3. \A m \in Int : Divides(Recorded(n), m) /\ m <= Device(n) => m <= f
    BY <1>1, FilledHolds
  <1>4. Resized(n) = IF n \in orphan \/ fs[n] >= Device(n) THEN fs[n] ELSE f
    BY DEF Resized
  <1> HIDE DEF f
  <1>5. CASE n \in orphan \/ fs[n] >= Device(n)
    BY <1>1, <1>4, <1>5
  <1>6. CASE ~(n \in orphan \/ fs[n] >= Device(n))
    <2>1. fs[n] <= f
      BY <1>1, <1>3, <1>6
    <2> QED
      BY <1>1, <1>2, <1>3, <1>4, <1>6, <2>1
  <1> QED
    BY <1>5, <1>6

LEMMA Resize2fsKeeps ==
    ASSUME AllInv, NEW n \in Names, Resize2fs(n)
    PROVE  AllInv'
  <1> USE DEF Resize2fs, Ends
  <1>0. /\ UNCHANGED faults /\ refused' = refused /\ node[n] = "resize"
        /\ VolumeInv(n) /\ Attached(n) /\ Checked(n)
    BY VolumeFacts DEF Attached, Checked
  <1>1. fs' = [fs EXCEPT ![n] = Resized(n)] /\ block' = block
    BY DEF Resized, Target
  <1>2. /\ Resized(n) \in 0..MaxInt /\ fs[n] <= Resized(n) /\ Divides(Recorded(n), Resized(n))
        /\ fs[n] <= Device(n) => Resized(n) <= Device(n)
    BY ResizeFacts
  <1>3. /\ fs' \in [Names -> 0..MaxInt] /\ block' \in [Names -> 0..BlockSize]
        /\ fs'[n] = Resized(n)
    BY <1>1, <1>2 DEF AllInv, IInv, TypeOK
  <1>4. Only(n)
    BY <1>1, NoFault DEF Only, AllInv, LayerTypes
  <1>5. LayerTypes'
    BY CapacityAssumption DEF AllInv, LayerTypes, NodeSteps
  <1>6. UNCHANGED <<encrypted, size, pv, orphan, sector, happened, loop, dm>>
    BY DEF Elsewhere, claims, cluster, faults
  <1>7. /\ node'[n] = "idle" /\ n \in mounted' /\ Attached(n)' /\ Linked(n)' = Linked(n)
        /\ Recorded(n)' = Recorded(n) /\ Device(n)' = Device(n)
    BY <1>0, <1>1, <1>6 DEF AllInv, LayerTypes, Attached, Linked, Recorded, Device
  <1>8. n \notin orphan => block[n] # 0
    BY <1>0 DEF VolumeInv, StepInv, Linked
  <1>9. n \in orphan => Resized(n) = fs[n]
    BY DEF Resized
  <1>10. FileKept(n)
    <2>1. IF block[n] = 0 THEN Resized(n) = 0
          ELSE Divides(block[n], BlockSize) /\ Divides(block[n], Resized(n))
      <3>1. block[n] = 0 => fs[n] = 0
        BY DEF AllInv, IInv, SizeInv
      <3> QED
        BY <1>2, <1>8, <1>9, <3>1, VolumeFacts DEF Recorded
    <2>2. "timeout" \notin happened /\ Resized(n) > 0 => Resized(n) + Overhead(n) <= size[n]
      <3> SUFFICES ASSUME "timeout" \notin happened, Resized(n) > 0
                   PROVE  Resized(n) + Overhead(n) <= size[n]
        OBVIOUS
      <3>1. FitInv(n)
        BY <1>0 DEF VolumeInv
      <3>2. n \notin orphan
        BY <1>2, <1>9, <3>1 DEF FitInv
      <3>3. Resized(n) <= Device(n) /\ loop[n] <= size[n]
        BY <1>0, <1>2, <3>1, <3>2 DEF FitInv, Linked
      <3>4. CASE n \in encrypted
        <4>1. dm[n] + Header <= loop[n] /\ Resized(n) <= dm[n]
          BY <1>0, <3>1, <3>3, <3>4 DEF FitInv, Device
        <4> QED
          BY <1>2, <3>3, <3>4, <4>1, VolumeFacts DEF Overhead
      <3>5. CASE n \notin encrypted
        BY <1>2, <3>3, <3>5, VolumeFacts DEF Overhead, Device
      <3> QED
        BY <3>4, <3>5
    <2>3. fs[n] > 0 => Resized(n) > 0
      BY <1>2, VolumeFacts
    <2> QED
      BY <1>1, <1>3, <2>1, <2>2, <2>3 DEF FileKept
  <1>11. StepInv(n)'
    <2>1. Linked(n) => fs'[n] > 0
      BY <1>0, <1>2, <1>3, VolumeFacts DEF VolumeInv, StepInv
    <2> QED
      BY <1>0, <1>1, <1>6, <1>7, <1>8, <2>1 DEF VolumeInv, StepInv, Linked
  <1>12. DeviceInv(n)'
    BY <1>0, <1>6, <1>7 DEF VolumeInv, DeviceInv
  <1>13. "timeout" \notin happened => FitInv(n)'
    BY <1>0, <1>2, <1>3, <1>6, <1>7, <1>9 DEF VolumeInv, FitInv
  <1>14. GrowInv(n)'
    BY <1>7 DEF GrowInv
  <1> QED
    BY <1>0, <1>3, <1>4, <1>5, <1>6, <1>10, <1>11, <1>12, <1>13, <1>14, OnlyKeeps, NoFault
       DEF VolumeInv

LEMMA NodeFailsKeeps ==
    ASSUME AllInv, NEW n \in Names, NodeFails(n)
    PROVE  AllInv'
  <1>0. node[n] # "idle" /\ Fault("cmd") /\ VolumeInv(n) /\ FaultsOnRecord
    BY VolumeFacts, CountedFault DEF NodeFails
  <1>1. CASE n \notin mounted /\ Release(n) /\ UNCHANGED refused
    BY <1>0, <1>1, ReleaseKeeps, CountedFault DEF AllInv, LayerTypes
  <1>2. CASE /\ n \in mounted
             /\ Ends(n)
             /\ UNCHANGED <<devices, orphan, refused, Elsewhere, fs, block>>
    <2> USE <1>2 DEF Ends, devices
    <2>1. Only(n) /\ UNCHANGED <<fs, block>> /\ refused' = refused
      BY <1>0 DEF Only, AllInv, LayerTypes
    <2>2. LayerTypes'
      BY CapacityAssumption DEF AllInv, LayerTypes, NodeSteps
    <2>3. UNCHANGED <<encrypted, size, pv, fs, block, orphan, mounted, sector, loop, dm>>
      BY DEF Elsewhere, claims, cluster
    <2>4. /\ node'[n] = "idle" /\ Attached(n)' /\ Attached(n) /\ Linked(n)' = Linked(n)
          /\ Checked(n) /\ Recorded(n)' = Recorded(n) /\ Device(n)' = Device(n)
      BY <2>3 DEF AllInv, LayerTypes, Attached, Linked, Checked, Recorded, Device
    <2>5. StepInv(n)'
      BY <1>0, <2>3, <2>4 DEF VolumeInv, StepInv
    <2>6. DeviceInv(n)'
      BY <1>0, <2>3, <2>4 DEF VolumeInv, DeviceInv
    <2>7. "timeout" \notin happened => FitInv(n)'
      BY <1>0, <2>3, <2>4 DEF VolumeInv, FitInv
    <2>8. GrowInv(n)'
      BY <2>4 DEF GrowInv
    <2>9. "timeout" \notin happened' => "timeout" \notin happened
      BY <1>0 DEF FaultsOnRecord
    <2> QED
      BY <1>0, <2>1, <2>2, <2>5, <2>6, <2>7, <2>8, <2>9, OnlyKeeps, SameFiles, CountedFault
         DEF VolumeInv
  <1> QED
    BY <1>1, <1>2 DEF NodeFails

LEMMA NodeUnstageKeeps ==
    ASSUME AllInv, NEW n \in Names, NodeUnstage(n)
    PROVE  AllInv'
  BY ReleaseKeeps, NoFault DEF NodeUnstage, AllInv, LayerTypes

LEMMA NodeExpandKeeps ==
    ASSUME AllInv, NEW n \in Names, NodeExpand(n)
    PROVE  AllInv'
  <1> USE DEF NodeExpand, devices
  <1>0. UNCHANGED faults /\ UNCHANGED <<fs, block>> /\ refused' = refused /\ n \in mounted /\ VolumeInv(n)
    BY VolumeFacts
  <1>1. Only(n)
    BY NoFault DEF Only, AllInv, LayerTypes
  <1>2. LayerTypes'
    <2>1. acked[n] \in 0..MaxInt
      BY VolumeFacts
    <2> QED
      BY <2>1 DEF AllInv, LayerTypes, NodeSteps
  <1>3. UNCHANGED <<encrypted, size, pv, fs, block, orphan, mounted, sector, loop, dm, happened>>
    BY DEF Elsewhere, claims, cluster, faults
  <1>4. /\ node'[n] = "grow" /\ due'[n] = acked[n] /\ Attached(n)' /\ Attached(n)
        /\ Linked(n)' = Linked(n) /\ Checked(n)
        /\ Recorded(n)' = Recorded(n) /\ Device(n)' = Device(n)
    BY <1>3 DEF AllInv, LayerTypes, Attached, Linked, Checked, Recorded, Device
  <1>5. StepInv(n)'
    BY <1>0, <1>3, <1>4 DEF VolumeInv, StepInv
  <1>6. DeviceInv(n)'
    BY <1>0, <1>3, <1>4 DEF VolumeInv, DeviceInv
  <1>7. "timeout" \notin happened => FitInv(n)'
    BY <1>0, <1>3, <1>4 DEF VolumeInv, FitInv
  <1>8. "timeout" \notin happened => GrowInv(n)'
    <2>1. pv[n] # "none"
      BY <1>0 DEF VolumeInv, StepInv
    <2>2. "timeout" \notin happened /\ size[n] > 0 => acked[n] <= size[n]
      BY <2>1, VolumeFacts DEF AllInv, IInv, ImageInv
    <2> QED
      BY <1>3, <1>4, <2>2 DEF GrowInv
  <1> QED
    BY <1>0, <1>1, <1>2, <1>3, <1>5, <1>6, <1>7, <1>8, OnlyKeeps, SameFiles, NoFault DEF VolumeInv

-----------------------------------------------------------------------------
(* Every step. *)

LEMMA InitAllEstablishes == InitAll => AllInv
  <1> SUFFICES ASSUME InitAll PROVE AllInv
    OBVIOUS
  <1> USE DEF InitAll
  <1>1. IInv
    BY InitEstablishes
  <1>2. LayerTypes
    BY CapacityAssumption DEF LayerTypes, NodeSteps
  <1>3. \A n \in Names : VolumeInv(n)
    BY DEF VolumeInv, StepInv, DeviceInv, FitInv, GrowInv, Attached, Linked, Checked
  <1>4. AlwaysMountable /\ DueInv
    BY DEF AlwaysMountable, DueInv
  <1> QED
    BY <1>1, <1>2, <1>3, <1>4 DEF AllInv

LEMMA AllStutterKeeps ==
    ASSUME AllInv, UNCHANGED all
    PROVE  AllInv'
  <1> USE DEF AllInv, all, layers, devices
  <1>1. IInv'
    BY StutterKeeps
  <1>2. LayerTypes' /\ AlwaysMountable' /\ DueInv'
    BY DEF LayerTypes, AlwaysMountable, DueInv, Asked, vars, cluster, faults
  <1>3. \A n \in Names : VolumeInv(n)'
    BY DEF VolumeInv, StepInv, DeviceInv, FitInv, GrowInv, Attached, Linked, Checked, Device,
       Recorded, vars, files, claims, cluster, faults
  <1> QED
    BY <1>1, <1>2, <1>3

LEMMA NextAllKeeps ==
    ASSUME AllInv, [NextAll]_all
    PROVE  AllInv'
  <1>1. CASE UNCHANGED all
    BY <1>1, AllStutterKeeps
  <1>2. CASE Controller(Next)
    BY <1>2, ControllerKeeps
  <1>3. ASSUME NEW n \in Names, Node(n) PROVE AllInv'
    BY <1>3, StageBeginKeeps, StageAttachKeeps, SetCapacityKeeps, StageOpenKeeps, StageFsckKeeps,
       ExpandMappingKeeps, Resize2fsKeeps, NodeFailsKeeps, NodeUnstageKeeps, NodeExpandKeeps DEF Node
  <1> QED
    BY <1>1, <1>2, <1>3 DEF NextAll

LEMMA AllInvariance == FairSpecAll => []AllInv
  BY InitAllEstablishes, NextAllKeeps, PTL DEF FairSpecAll

-----------------------------------------------------------------------------
(* What the invariant says of a step. *)

\* The filesystem resize2fs leaves has what the cluster knew of: neither the
\* loop's sectors nor the mapping's cut it off.
LEMMA ResizeLands ==
    ASSUME AllInv, NEW n \in Names, node[n] = "resize", "timeout" \notin happened, n \notin orphan
    PROVE  Filled(due[n] - Overhead(n), block[n]) <= Resized(n)
  <1> DEFINE b == block[n]
             o == Overhead(n)
             x == Filled(due[n] - o, b)
             t == sector[n]
  <1>1. VolumeInv(n) /\ FitInv(n) /\ GrowInv(n) /\ Linked(n)
    BY VolumeFacts DEF VolumeInv, Linked, Attached
  <1>2. b \in Nat \ {0} /\ Recorded(n) = b
    BY <1>1, VolumeFacts DEF VolumeInv, StepInv, Checked, Recorded
  <1>3. /\ t \in Nat \ {0} /\ Divides(t, b) /\ Divides(t, Header)
        /\ due[n] \in Int /\ loop[n] \in Int /\ Header \in Int
    BY <1>2, VolumeFacts, SectorFacts
  <1>4. o \in Int /\ Divides(t, o)
    <2>1. Divides(t, 0)
      <3> HIDE DEF t
      <3>1. 0 = 0 * t
        BY <1>3
      <3> QED
        BY <1>3, <3>1, DividesIff
    <2> QED
      BY <1>3, <2>1 DEF Overhead
  <1> HIDE DEF o
  <1>5. due[n] - o \in Int
    BY <1>3, <1>4
  <1>6. x \in Int /\ x <= due[n] - o /\ Divides(b, x)
    BY <1>2, <1>5, FilledFacts
  <1> HIDE DEF x, b, t
  <1>7. Divides(t, x)
    BY <1>2, <1>3, <1>6, DividesTrans
  <1>8. x + o \in Int /\ Divides(t, x + o) /\ x + o <= due[n]
    <2>1. Divides(t, x + o)
      BY ONLY <1>3, <1>4, <1>6, <1>7, DividesSum
    <2> QED
      BY <1>3, <1>4, <1>6, <2>1
  <1>9. x + o <= Filled(due[n], t)
    BY <1>3, <1>8, FilledHolds
  <1>10. Filled(due[n], t) \in Int /\ Filled(due[n], t) <= loop[n]
    BY <1>1, <1>3, FilledFacts DEF GrowInv, t
  <1>11. x + o <= loop[n]
    BY <1>3, <1>8, <1>9, <1>10
  <1>12. x <= Device(n)
    <2>1. CASE n \in encrypted
      <3>1. Device(n) = Filled(loop[n] - Header, b)
        BY <1>1, <1>2, <2>1 DEF VolumeInv, DeviceInv, Device
      <3>2. loop[n] - Header \in Int /\ x <= loop[n] - Header
        BY <1>3, <1>4, <1>6, <1>11, <2>1 DEF o, Overhead
      <3> QED
        BY <1>2, <1>6, <3>1, <3>2, FilledHolds
    <2>2. CASE n \notin encrypted
      BY <1>3, <1>6, <1>11, <2>2 DEF o, Overhead, Device
    <2> QED
      BY <2>1, <2>2
  <1> QED
    BY <1>2, <1>6, <1>12, ResizeFacts DEF x, o, b

\* Only resize2fs ends a stage or an expand with success.
LEMMA StepLands ==
    ASSUME AllInv, [NextAll]_all, NEW n \in Names, node[n] = "resize", n \in mounted',
           faults' = faults, node'[n] = "idle", "timeout" \notin happened, n \notin orphan
    PROVE  fs'[n] >= Filled(due[n] - (IF n \in encrypted THEN Header ELSE 0), block[n])
  <1>1. node' # node /\ node \in [Names -> NodeSteps]
    BY DEF AllInv, LayerTypes
  <1>2. PICK m \in Names : Node(m)
    BY <1>1 DEF NextAll, Controller, all, layers
  <1>3. \A k \in Names \ {m} : node'[k] = node[k]
    BY <1>1, <1>2 DEF Node, StageBegin, StageAttach, SetCapacity, StageOpen, StageFsck, ExpandMapping,
       Resize2fs, NodeFails, NodeUnstage, NodeExpand, Step, Ends, Release
  <1>4. m = n
    BY <1>3
  <1>5. ~NodeFails(n)
    BY DEF NodeFails, Fault, faults, AllInv, IInv, TypeOK
  <1>6. Resize2fs(n)
    BY <1>2, <1>4, <1>5 DEF Node, StageBegin, StageAttach, SetCapacity, StageOpen, StageFsck,
       ExpandMapping, NodeUnstage, NodeExpand
  <1>7. fs'[n] = Resized(n)
    BY <1>6 DEF Resize2fs, Resized, Target, AllInv, IInv, TypeOK
  <1> DEFINE x == Filled(due[n] - Overhead(n), block[n])
  <1>8. x <= Resized(n) /\ Resized(n) \in Int
    BY ResizeLands, ResizeFacts
  <1>9. x = Filled(due[n] - (IF n \in encrypted THEN Header ELSE 0), block[n])
    BY DEF Overhead
  <1>10. x \in Int
    <2>1. due[n] - Overhead(n) \in Int /\ block[n] \in Nat \ {0}
      BY VolumeFacts DEF Overhead, VolumeInv, StepInv, Linked, Attached, Checked
    <2> DEFINE y == due[n] - Overhead(n)
    <2> HIDE DEF y
    <2>2. Filled(y, block[n]) \in Int
      BY <2>1, FilledFacts DEF y
    <2> QED
      BY <2>2 DEF y
  <1> HIDE DEF x
  <1> QED
    BY <1>7, <1>8, <1>9, <1>10

\* The node plugin tells the cluster nothing and changes no image's size.
LEMMA NodeLeavesController ==
    ASSUME NEW n \in Names, Node(n)
    PROVE  UNCHANGED <<size, acked>>
  BY DEF Node, StageBegin, StageAttach, SetCapacity, StageOpen, StageFsck, ExpandMapping,
     Resize2fs, NodeFails, NodeUnstage, NodeExpand, Step, Release, Elsewhere, cluster

-----------------------------------------------------------------------------
(* The theorems. *)

\* A staged filesystem ends where its device ends and the device within the
\* image, whatever the controller grows or deletes meanwhile, unless a call
\* was overtaken by its retry; and there is a filesystem, whatever a create
\* left behind (node.go stageLocked, NodeExpandVolume).
THEOREM FilesystemsFit == FairSpecAll => []FitsDevice
  <1>1. AllInv => FitsDevice
    <2> SUFFICES ASSUME AllInv, NEW n \in mounted
                 PROVE  /\ "timeout" \notin happened =>
                             /\ fs[n] <= Device(n) /\ (n \in encrypted => dm[n] + Header <= loop[n])
                             /\ n \notin orphan => loop[n] <= size[n]
                        /\ n \notin orphan => fs[n] > 0
      BY DEF FitsDevice
    <2>1. n \in Names /\ VolumeInv(n)
      BY DEF AllInv, LayerTypes
    <2> QED
      BY <2>1 DEF VolumeInv, StepInv, FitInv, Checked, Linked, Attached
  <1> QED
    BY <1>1, AllInvariance, PTL

\* e2fsck and the kernel accept every volume the cluster holds, whatever the
\* sizes and blocks of the versions that made it, unless a create that was cut
\* short left it unformatted (a restart, an overtaken call, a failed remove)
\* or an expand made it anew under a delete (losetup.go SectorSizeFor).
THEOREM BoundCanBeStaged == FairSpecAll => []AlwaysMountable
  <1>1. AllInv => AlwaysMountable
    BY DEF AllInv
  <1> QED
    BY <1>1, AllInvariance, PTL

\* When a stage or an expand succeeds the filesystem has grown to the capacity
\* the cluster knew of, less the LUKS header, in whole blocks (node.go
\* NodeExpandVolume: set-capacity, cryptsetup resize, resize2fs).
THEOREM GrowthReachesPods == FairSpecAll => GrowthLands
  <1>1. ASSUME AllInv, [NextAll]_all
        PROVE  \A n \in Names :
                 node[n] = "resize" /\ n \in mounted' /\ faults' = faults /\ node'[n] = "idle"
                 /\ "timeout" \notin happened /\ n \notin orphan
                   => LET overhead == IF n \in encrypted THEN Header ELSE 0
                      IN  fs'[n] >= Filled(due[n] - overhead, block[n])
    BY <1>1, StepLands
  <1> QED
    BY <1>1, AllInvariance, PTL DEF FairSpecAll, GrowthLands

\* What is proved of the controller alone, with the exceptions its properties
\* name, holds with the node plugin at work on the same images (controller.go,
\* image.go).
THEOREM ControllerStatesHold ==
    FairSpecAll => [](TypeOK /\ BoundKeepsImage /\ BoundIsFormatted /\ DeletedIsGoneOnceKnown)
  <1>1. AllInv => TypeOK /\ BoundKeepsImage /\ BoundIsFormatted /\ DeletedIsGoneOnceKnown
    BY InvImplies DEF AllInv
  <1> QED
    BY <1>1, AllInvariance, PTL

\* So do its properties of steps: images do not shrink, and answers are in
\* the range that was asked for (image.go Resize, controller.go
\* alignedCapacity).
THEOREM ControllerStepsHold == FairSpecAll => NeverShrinks /\ AnswerInRange
  <1>1. ASSUME AllInv, [NextAll]_all
        PROVE  [Next]_vars \/ UNCHANGED <<size, acked>>
    BY <1>1, NodeLeavesController DEF NextAll, Controller, all
  <1>2. ASSUME AllInv, [NextAll]_all
        PROVE  \A n \in Names :
                 "timeout" \notin happened /\ size'[n] # Absent => size'[n] >= size[n]
    BY <1>1, <1>2, StepKeepsSizes, VolumeFacts DEF AllInv
  <1>3. ASSUME AllInv, [NextAll]_all
        PROVE  \A h \in Handlers : at[h] \in {"reply", "e_reply"} /\ at'[h] = "idle" /\ acked' # acked =>
                 InRange(acked'[vol[h]], arg[h]) /\ acked'[vol[h]] % BlockSize = 0
    BY <1>1, <1>3, StepAnswersInRange DEF AllInv
  <1>4. ASSUME UNCHANGED all PROVE UNCHANGED vars
    BY <1>4 DEF all
  <1> QED
    BY <1>2, <1>3, <1>4, AllInvariance, PTL DEF FairSpecAll, NeverShrinks, AnswerInRange
=============================================================================
