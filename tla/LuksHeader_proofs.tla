-------------------------- MODULE LuksHeader_proofs --------------------------
(***************************************************************************)
(* Proofs about LuksHeader, for any volumes, any number of keys and any    *)
(* faults: its types, that no volume is ever locked out, that Prepare      *)
(* leaves the current slot only, and that it implements KeyCustody.        *)
(*                                                                         *)
(* What makes it inductive is who may still hold which keys.  A pair is    *)
(* the Secret as it was at some moment; the operator moves on only when    *)
(* every volume has the current slot only, so a pair is at most one        *)
(* rotation old, and then its current key is still the only slot.          *)
(***************************************************************************)
EXTENDS LuksHeader, TLAPS

\* A pair the Secret may have held: the previous key is the one before.
Pair(ks) == ks.cur \in 1..MaxKey /\ ks.prev \in {NoKey, ks.cur - 1}

\* A pair v's calls may use: of this rotation, or of the one before.
Uses(v, ks) ==
    /\ ks \in KeyPairs /\ Pair(ks)
    /\ \/ ks.cur = secret.cur /\ ks.prev \in {secret.prev, secret.cur - 1}
       \/ v \notin confirmed /\ ks.cur = secret.prev /\ slots[v] = {ks.cur}

\* The image: its slots against the Secret, its label against its content.
ImageOK(v) ==
    /\ header[v] = "luks" <=> slots[v] # {}
    /\ slots[v] \subseteq {secret.cur, secret.prev}
    /\ v \in confirmed => slots[v] = {secret.cur}
    /\ header[v] # "luks" => secret = [cur |-> 1, prev |-> NoKey]
    /\ header[v] # "luks" => fs[v] = "none" /\ label[v] = "unformatted"
    /\ label[v] = "formatted" => fs[v] # "none"
    /\ fs[v] = "used" => label[v] = "formatted"
    /\ v \in staged => label[v] = "formatted"

\* The cached pair, which a re-stage would use.
CacheOK(v) == v \in held /\ cached[v] # NoKeys => Uses(v, cached[v])

\* What is known of v when its call is at step l.
Rotated == {"open", "dump", "mkfs", "relabel", "mount"}
At(v, l) ==
    /\ l = "format" => header[v] = "blank"
    /\ l = "test" => header[v] = "luks"
    /\ l \in {"add", "remove"} => k[v] = secret /\ secret.prev # NoKey
    /\ l = "add" => slots[v] = {secret.prev}
    /\ l = "remove" => slots[v] = {secret.prev, secret.cur}
    /\ l \in Rotated => slots[v] = {k[v].cur}
    /\ l \in {"mkfs", "relabel"} => label[v] = "unformatted"
    /\ l = "relabel" => fs[v] # "none"
    /\ l = "mount" => label[v] = "formatted"
    /\ l \in {"dump", "mkfs", "relabel", "mount"} => v \in open

\* The call, if there is one.
CallOK(v) ==
    pc[v] # "idle" =>
        /\ v \notin staged
        /\ Uses(v, k[v])
        /\ v \in held => k[v] = cached[v]
        /\ At(v, pc[v])

IInv ==
    /\ TypeOK
    /\ Pair(secret)
    /\ \A v \in Volumes : ImageOK(v) /\ CacheOK(v) /\ CallOK(v)

-----------------------------------------------------------------------------
(* A step of one volume leaves the others and the Secret alone. *)

SameImage(w) ==
    /\ header'[w] = header[w] /\ slots'[w] = slots[w]
    /\ label'[w] = label[w] /\ fs'[w] = fs[w]
    /\ w \in open' <=> w \in open

SameCall(w) ==
    /\ w \in staged' <=> w \in staged
    /\ w \in held' <=> w \in held
    /\ w \in confirmed' <=> w \in confirmed
    /\ pc'[w] = pc[w] /\ k'[w] = k[w] /\ cached'[w] = cached[w]

\* A volume whose state is as it was keeps its invariant.
LEMMA SameKeeps ==
    ASSUME NEW w \in Volumes, ImageOK(w), CacheOK(w), CallOK(w),
           SameImage(w), SameCall(w), secret' = secret
    PROVE  ImageOK(w)' /\ CacheOK(w)' /\ CallOK(w)'
  <1> USE DEF SameImage, SameCall
  <1>1. ASSUME NEW ks, Uses(w, ks) PROVE Uses(w, ks)'
    BY <1>1 DEF Uses
  <1>2. ImageOK(w)'
    BY DEF ImageOK
  <1>3. CacheOK(w)'
    BY <1>1 DEF CacheOK
  <1>4. ASSUME NEW l, At(w, l) PROVE At(w, l)'
    BY <1>4 DEF At
  <1>5. CallOK(w)'
    BY <1>1, <1>4 DEF CallOK
  <1> QED
    BY <1>2, <1>3, <1>5

\* So a step of v keeps the whole invariant when it keeps v's.
LEMMA OneKeepsAll ==
    ASSUME IInv, NEW v \in Volumes, TypeOK', secret' = secret,
           \A w \in Volumes \ {v} : SameImage(w) /\ SameCall(w),
           ImageOK(v)', CacheOK(v)', CallOK(v)'
    PROVE  IInv'
  <1>1. ASSUME NEW w \in Volumes \ {v} PROVE ImageOK(w)' /\ CacheOK(w)' /\ CallOK(w)'
    BY SameKeeps DEF IInv
  <1>2. Pair(secret)'
    BY DEF IInv, Pair
  <1> QED
    BY <1>1, <1>2 DEF IInv

\* Every volume starts without a header.
LEMMA InitKeeps == Init => IInv
  <1> SUFFICES ASSUME Init PROVE IInv
    OBVIOUS
  <1>1. TypeOK
    BY LuksAssumption DEF Init, TypeOK, KeyPairs, NoKeys, NoKey, Pcs
  <1>2. Pair(secret)
    BY LuksAssumption DEF Init, Pair, NoKey
  <1>3. ASSUME NEW v \in Volumes PROVE ImageOK(v) /\ CacheOK(v) /\ CallOK(v)
    BY DEF Init, ImageOK, CacheOK, CallOK
  <1> QED
    BY <1>1, <1>2, <1>3 DEF IInv

\* A fault keeps the count within its bound.
LEMMA FaultTypes ==
    ASSUME TypeOK, UNCHANGED faults \/ \E kind : Fault(kind)
    PROVE  count' \in 0..MaxFaults /\ happened' \subseteq Hazards
  <1>1. ASSUME NEW kind, Fault(kind)
        PROVE  count' \in 0..MaxFaults /\ happened' \subseteq Hazards
    BY <1>1, LuksAssumption DEF Fault, TypeOK
  <1> QED
    BY <1>1 DEF faults, TypeOK

ImageType ==
    /\ header \in [Volumes -> {"blank", "luks", "torn"}]
    /\ slots \in [Volumes -> SUBSET (1..MaxKey)]
    /\ label \in [Volumes -> {"unformatted", "formatted"}]
    /\ fs \in [Volumes -> {"none", "fresh", "used"}]
    /\ open \subseteq Volumes

\* A step of Prepare that keeps the invariants of v's image and cached pair
\* keeps them all, when the call returns or goes on to a step it may be at.
LEMMA StepKeeps ==
    ASSUME IInv, NEW v \in Volumes, pc[v] # "idle",
           UNCHANGED faults \/ \E kind : Fault(kind),
           UNCHANGED <<staged, cached, held, operator>>,
           ImageType', \A w \in Volumes \ {v} : SameImage(w),
           ImageOK(v)', CacheOK(v)',
           \/ End(v)
           \/ \E l \in Pcs \ {"idle"} : Goto(v, l) /\ Uses(v, k[v])' /\ At(v, l)'
    PROVE  IInv'
  <1>1. v \notin staged /\ (v \in held => k[v] = cached[v])
    BY DEF IInv, CallOK
  <1>2. secret' = secret /\ confirmed' = confirmed
    BY DEF operator
  <1>3. pc' \in [Volumes -> Pcs] /\ k' \in [Volumes -> KeyPairs]
    <2>1. CASE End(v)
      <3>1. "idle" \in Pcs /\ NoKeys \in KeyPairs
        BY LuksAssumption DEF Pcs, KeyPairs, NoKeys, NoKey
      <3> QED
        BY <2>1, <3>1 DEF IInv, TypeOK, End
    <2>2. ASSUME NEW l \in Pcs, Goto(v, l)
          PROVE  pc' \in [Volumes -> Pcs] /\ k' \in [Volumes -> KeyPairs]
      <3>1. pc' = [pc EXCEPT ![v] = l] /\ k' = k
        BY <2>2 DEF Goto
      <3> QED
        BY <3>1 DEF IInv, TypeOK
    <2> QED
      BY <2>1, <2>2
  <1>4. staged' \subseteq open'
    BY <1>1 DEF IInv, TypeOK, ImageType, SameImage
  <1>5. TypeOK'
    <2>1. count' \in 0..MaxFaults /\ happened' \subseteq Hazards
      BY FaultTypes DEF IInv
    <2> QED
      BY <1>2, <1>3, <1>4, <2>1 DEF IInv, TypeOK, ImageType
  <1>6. ASSUME NEW w \in Volumes \ {v} PROVE SameCall(w)
    BY <1>2 DEF SameCall, End, Goto, IInv, TypeOK
  <1>7. CallOK(v)'
    <2>1. CASE End(v)
      BY <2>1 DEF CallOK, End, IInv, TypeOK
    <2>2. ASSUME NEW l \in Pcs \ {"idle"}, Goto(v, l), Uses(v, k[v])', At(v, l)' PROVE CallOK(v)'
      <3>1. pc'[v] = l /\ k'[v] = k[v]
        BY <2>2 DEF Goto, IInv, TypeOK
      <3> QED
        BY <1>1, <2>2, <3>1 DEF CallOK
    <2> QED
      BY <2>1, <2>2
  <1> QED
    BY <1>2, <1>5, <1>6, <1>7, OneKeepsAll

\* One that leaves the image alone keeps them.
LEMMA MoveKeeps ==
    ASSUME IInv, NEW v \in Volumes, pc[v] # "idle", Same,
           UNCHANGED faults \/ \E kind : Fault(kind),
           UNCHANGED <<staged, cached, held, operator>>,
           End(v) \/ \E l \in Pcs \ {"idle"} : Goto(v, l) /\ At(v, l)
    PROVE  IInv'
  <1> USE DEF Same, image, operator
  <1>1. ImageType' /\ \A w \in Volumes : SameImage(w)
    BY DEF IInv, TypeOK, ImageType, SameImage
  <1>2. ImageOK(v)'
    BY DEF IInv, ImageOK
  <1>3. ASSUME NEW ks, Uses(v, ks) PROVE Uses(v, ks)'
    BY <1>3 DEF Uses
  <1>4. CacheOK(v)'
    BY <1>3 DEF IInv, CacheOK
  <1>5. CASE End(v)
    BY <1>1, <1>2, <1>4, <1>5, StepKeeps
  <1>6. ASSUME NEW l \in Pcs \ {"idle"}, Goto(v, l), At(v, l) PROVE IInv'
    <2>1. At(v, l)'
      BY <1>6 DEF At, Goto
    <2>2. Uses(v, k[v])'
      BY <1>3, <1>6 DEF IInv, CallOK, Goto
    <2> QED
      BY <1>1, <1>2, <1>4, <1>6, <2>1, <2>2, StepKeeps
  <1> QED
    BY <1>5, <1>6

-----------------------------------------------------------------------------
(* crypt.Prepare. *)

\* isLuks and isBlank.
LEMMA ProbeKeeps ==
    ASSUME IInv, NEW v \in Volumes, Probe(v)
    PROVE  IInv'
  <1>1. End(v) \/ \E l \in Pcs \ {"idle"} : Goto(v, l) /\ At(v, l)
    <2>1. header[v] \in {"blank", "luks", "torn"}
      BY DEF IInv, TypeOK
    <2>2. CASE header[v] = "luks"
      BY <2>2 DEF Probe, At, Rotated, Pcs
    <2>3. CASE header[v] = "blank"
      BY <2>3 DEF Probe, At, Rotated, Pcs
    <2>4. CASE header[v] = "torn"
      BY <2>4 DEF Probe
    <2> QED
      BY <2>1, <2>2, <2>3, <2>4
  <1> QED
    BY <1>1, MoveKeeps DEF Probe

\* A read that fails.
LEMMA ReadFailsKeeps ==
    ASSUME IInv, NEW v \in Volumes, ReadFails(v)
    PROVE  IInv'
  <1>1. End(v) \/ \E l \in Pcs \ {"idle"} : Goto(v, l) /\ At(v, l)
    BY DEF ReadFails, At, Rotated, Pcs
  <1> QED
    BY <1>1, MoveKeeps DEF ReadFails

\* AfterTest: what is left to do, by what the keys open.
LEMMA TestKeeps ==
    ASSUME IInv, NEW v \in Volumes, Test(v)
    PROVE  IInv'
  <1>1. /\ slots[v] # {} /\ slots[v] \subseteq {secret.cur, secret.prev}
        /\ Uses(v, k[v]) /\ Pair(secret)
        /\ header[v] = "luks"
    BY DEF IInv, ImageOK, CallOK, At, Test
  <1>2. AfterTest(v) \in {"idle", "open", "add", "remove"}
    BY DEF AfterTest
  <1>3. CASE AfterTest(v) = "idle"
    BY <1>3, MoveKeeps DEF Test
  <1>4. CASE AfterTest(v) = "open"
    <2>1. k[v].cur \in slots[v] /\ (k[v].prev \notin slots[v] \/ k[v].prev \in {NoKey, k[v].cur})
      BY <1>4 DEF AfterTest
    <2>2. slots[v] \subseteq 1..MaxKey
      BY DEF IInv, TypeOK
    <2>3. slots[v] = {k[v].cur}
      BY <1>1, <2>1, <2>2, LuksAssumption DEF Uses, Pair, NoKey
    <2> QED
      BY <1>4, <2>3, MoveKeeps DEF Test, At, Rotated, Pcs
  <1>5. CASE AfterTest(v) = "add"
    <2>1. k[v] = secret /\ secret.prev # NoKey /\ slots[v] = {secret.prev}
      BY <1>1, <1>5 DEF AfterTest, Uses, Pair, NoKey, KeyPairs, IInv, TypeOK
    <2> QED
      BY <1>5, <2>1, MoveKeeps DEF Test, At, Rotated, Pcs
  <1>6. CASE AfterTest(v) = "remove"
    <2>1. k[v] = secret /\ secret.prev # NoKey /\ slots[v] = {secret.prev, secret.cur}
      BY <1>1, <1>6 DEF AfterTest, Uses, Pair, NoKey, KeyPairs, IInv, TypeOK
    <2> QED
      BY <1>6, <2>1, MoveKeeps DEF Test, At, Rotated, Pcs
  <1> QED
    BY <1>2, <1>3, <1>4, <1>5, <1>6

\* ensureFilesystem reads the label.
LEMMA DumpKeeps ==
    ASSUME IInv, NEW v \in Volumes, Dump(v)
    PROVE  IInv'
  <1>1. v \in open /\ slots[v] = {k[v].cur} /\ label[v] \in {"unformatted", "formatted"}
    BY DEF IInv, TypeOK, CallOK, At, Rotated, Dump
  <1>2. CASE label[v] = "unformatted"
    BY <1>1, <1>2, MoveKeeps DEF Dump, At, Rotated, Pcs
  <1>3. CASE label[v] = "formatted"
    BY <1>1, <1>3, MoveKeeps DEF Dump, At, Rotated, Pcs
  <1> QED
    BY <1>1, <1>2, <1>3

\* cryptsetup luksFormat.
LEMMA LuksFormatKeeps ==
    ASSUME IInv, NEW v \in Volumes, pc[v] = "format", LuksFormat(v),
           UNCHANGED faults \/ \E kind : Fault(kind),
           UNCHANGED <<staged, cached, held, operator>>,
           End(v) \/ Goto(v, "test")
    PROVE  IInv'
  <1>1. /\ header[v] = "blank" /\ secret = [cur |-> 1, prev |-> NoKey] /\ fs[v] = "none"
        /\ slots[v] = {} /\ Uses(v, k[v]) /\ v \notin staged /\ v \notin confirmed
        /\ k[v].cur = 1
    BY DEF IInv, ImageOK, CallOK, At, Uses
  <1>2. secret' = secret /\ confirmed' = confirmed
    BY DEF operator
  <1>3. ImageType' /\ \A w \in Volumes \ {v} : SameImage(w)
    BY <1>1, LuksAssumption DEF IInv, TypeOK, ImageType, SameImage, LuksFormat, Formatted
  <1>4. header'[v] = "luks" /\ slots'[v] = {1} /\ label'[v] = "unformatted" /\ fs'[v] = "none"
    BY <1>1 DEF LuksFormat, Formatted, IInv, TypeOK
  <1>5. ImageOK(v)'
    BY <1>1, <1>2, <1>4 DEF ImageOK
  <1>6. ASSUME NEW ks, Uses(v, ks) PROVE Uses(v, ks)'
    BY <1>1, <1>2, <1>6 DEF Uses
  <1>7. CacheOK(v)'
    BY <1>6 DEF IInv, CacheOK
  <1>8. Goto(v, "test") => Uses(v, k[v])' /\ At(v, "test")'
    BY <1>1, <1>4, <1>6 DEF At, Goto, Rotated
  <1> QED
    BY <1>3, <1>5, <1>7, <1>8, StepKeeps DEF Pcs

\* A luksFormat that works, fails, is cut off or is killed.
LEMMA FormatKeeps ==
    ASSUME IInv, NEW v \in Volumes, Format(v)
    PROVE  IInv'
  <1>1. CASE Command(v, "format", LuksFormat(v), Same, "test", "idle")
    <2>1. CASE LuksFormat(v)
      BY <1>1, <2>1, LuksFormatKeeps DEF Command
    <2>2. CASE Same /\ End(v)
      BY <1>1, <2>2, MoveKeeps DEF Command
    <2> QED
      BY <1>1, <2>1, <2>2 DEF Command
  <1>2. CASE pc[v] = "format" /\ ~Command(v, "format", LuksFormat(v), Same, "test", "idle")
    <2>0. /\ Fault("torn") /\ End(v)
          /\ header' = [header EXCEPT ![v] = "torn"]
          /\ UNCHANGED <<slots, label, fs, open, staged, cached, held, operator>>
      BY <1>2 DEF Format
    <2>1. ImageType' /\ \A w \in Volumes \ {v} : SameImage(w)
      BY <2>0 DEF IInv, TypeOK, ImageType, SameImage
    <2>2. header[v] = "blank" /\ header'[v] = "torn"
      BY <1>2, <2>0 DEF IInv, TypeOK, CallOK, At
    <2>3. ImageOK(v)'
      BY <2>0, <2>2 DEF IInv, ImageOK, operator
    <2>4. CacheOK(v)'
      BY <2>0 DEF IInv, CacheOK, Uses, operator
    <2> QED
      BY <1>2, <2>0, <2>1, <2>3, <2>4, StepKeeps
  <1> QED
    BY <1>1, <1>2 DEF Format

\* cryptsetup luksAddKey: the Secret's keys both open.
LEMMA LuksAddKeyKeeps ==
    ASSUME IInv, NEW v \in Volumes, pc[v] = "add", LuksAddKey(v),
           UNCHANGED faults \/ \E kind : Fault(kind),
           UNCHANGED <<staged, cached, held, operator>>,
           End(v) \/ Goto(v, "remove")
    PROVE  IInv'
  <1>1. /\ k[v] = secret /\ slots[v] = {secret.prev} /\ secret.prev # NoKey
        /\ Uses(v, k[v]) /\ v \notin confirmed /\ header[v] = "luks"
        /\ v \in held => k[v] = cached[v]
    BY DEF IInv, ImageOK, CallOK, At, Pair, NoKey
  <1>2. secret' = secret /\ confirmed' = confirmed
    BY DEF operator
  <1>3. slots'[v] = {secret.prev, secret.cur}
    BY <1>1 DEF LuksAddKey, IInv, TypeOK
  <1>4. ImageType' /\ \A w \in Volumes \ {v} : SameImage(w)
    BY <1>1 DEF IInv, TypeOK, ImageType, SameImage, LuksAddKey, Pair
  <1>5. ImageOK(v)'
    BY <1>1, <1>2, <1>3 DEF IInv, ImageOK, LuksAddKey
  <1>6. Uses(v, secret)'
    BY <1>1, <1>2 DEF Uses, IInv, TypeOK, Pair
  <1>7. CacheOK(v)'
    BY <1>1, <1>2, <1>6 DEF CacheOK
  <1>8. Goto(v, "remove") => Uses(v, k[v])' /\ At(v, "remove")'
    BY <1>1, <1>2, <1>3, <1>6 DEF At, Goto, Rotated
  <1> QED
    BY <1>4, <1>5, <1>7, <1>8, StepKeeps DEF Pcs

\* rotate's first change.
LEMMA AddKeyKeeps ==
    ASSUME IInv, NEW v \in Volumes, AddKey(v)
    PROVE  IInv'
  <1>1. CASE LuksAddKey(v)
    BY <1>1, LuksAddKeyKeeps DEF AddKey, Command
  <1>2. CASE Same /\ End(v)
    BY <1>2, MoveKeeps DEF AddKey, Command
  <1> QED
    BY <1>1, <1>2 DEF AddKey, Command

\* cryptsetup luksRemoveKey: only the current key opens.
LEMMA LuksRemoveKeyKeeps ==
    ASSUME IInv, NEW v \in Volumes, pc[v] = "remove", LuksRemoveKey(v),
           UNCHANGED faults \/ \E kind : Fault(kind),
           UNCHANGED <<staged, cached, held, operator>>,
           End(v) \/ Goto(v, "open")
    PROVE  IInv'
  <1>1. /\ k[v] = secret /\ slots[v] = {secret.prev, secret.cur} /\ secret.prev # NoKey
        /\ secret.prev # secret.cur
        /\ Uses(v, k[v]) /\ v \notin confirmed /\ header[v] = "luks"
        /\ v \in held => k[v] = cached[v]
    BY DEF IInv, ImageOK, CallOK, At, Pair, NoKey
  <1>2. secret' = secret /\ confirmed' = confirmed
    BY DEF operator
  <1>3. slots'[v] = {secret.cur}
    BY <1>1 DEF LuksRemoveKey, IInv, TypeOK
  <1>4. ImageType' /\ \A w \in Volumes \ {v} : SameImage(w)
    BY <1>1 DEF IInv, TypeOK, ImageType, SameImage, LuksRemoveKey
  <1>5. ImageOK(v)'
    BY <1>1, <1>2, <1>3 DEF IInv, ImageOK, LuksRemoveKey
  <1>6. Uses(v, secret)'
    BY <1>1, <1>2 DEF Uses, IInv, TypeOK, Pair
  <1>7. CacheOK(v)'
    BY <1>1, <1>2, <1>6 DEF CacheOK
  <1>8. Goto(v, "open") => Uses(v, k[v])' /\ At(v, "open")'
    BY <1>1, <1>2, <1>3, <1>6 DEF At, Goto, Rotated
  <1> QED
    BY <1>4, <1>5, <1>7, <1>8, StepKeeps DEF Pcs

\* rotate's second change.
LEMMA RemoveKeyKeeps ==
    ASSUME IInv, NEW v \in Volumes, RemoveKey(v)
    PROVE  IInv'
  <1>1. CASE LuksRemoveKey(v)
    BY <1>1, LuksRemoveKeyKeeps DEF RemoveKey, Command
  <1>2. CASE Same /\ End(v)
    BY <1>2, MoveKeeps DEF RemoveKey, Command
  <1> QED
    BY <1>1, <1>2 DEF RemoveKey, Command

\* A step on the mapping or the filesystem, behind slots that stay.
LEMMA BehindSlotsKeeps ==
    ASSUME IInv, NEW v \in Volumes, pc[v] # "idle",
           UNCHANGED faults \/ \E kind : Fault(kind),
           UNCHANGED <<header, slots, staged, cached, held, operator>>,
           ImageType', \A w \in Volumes \ {v} : SameImage(w),
           header[v] # "luks" => fs'[v] = "none" /\ label'[v] = "unformatted",
           label'[v] = "formatted" => fs'[v] # "none",
           fs'[v] = "used" => label'[v] = "formatted",
           End(v) \/ \E l \in Pcs \ {"idle"} : Goto(v, l) /\ At(v, l)'
    PROVE  IInv'
  <1>1. secret' = secret /\ confirmed' = confirmed /\ v \notin staged
    BY DEF operator, IInv, CallOK
  <1>2. ImageOK(v)'
    BY <1>1 DEF IInv, ImageOK
  <1>3. ASSUME NEW ks, Uses(v, ks) PROVE Uses(v, ks)'
    BY <1>1, <1>3 DEF Uses
  <1>4. CacheOK(v)'
    BY <1>3 DEF IInv, CacheOK
  <1>5. ASSUME NEW l, Goto(v, l) PROVE Uses(v, k[v])'
    BY <1>3, <1>5 DEF IInv, CallOK, Goto
  <1> QED
    BY <1>2, <1>4, <1>5, StepKeeps

\* The slots, the content and the mapping behind a call past its rotation.
LEMMA RotatedFacts ==
    ASSUME IInv, NEW v \in Volumes, pc[v] \in Rotated
    PROVE  /\ slots[v] = {k[v].cur} /\ header[v] = "luks"
           /\ pc[v] # "open" => v \in open
           /\ pc[v] \in {"mkfs", "relabel"} => label[v] = "unformatted"
           /\ pc[v] = "relabel" => fs[v] # "none"
           /\ pc[v] = "mount" => label[v] = "formatted"
           /\ label[v] = "formatted" => fs[v] # "none"
           /\ fs[v] = "used" => label[v] = "formatted"
  BY DEF IInv, CallOK, At, ImageOK, Rotated

\* cryptsetup open.
LEMMA OpenKeeps ==
    ASSUME IInv, NEW v \in Volumes, Open(v)
    PROVE  IInv'
  <1>0. pc[v] = "open" /\ pc[v] \in Rotated
    BY DEF Open, Command, Rotated
  <1>1. CASE CryptOpen(v)
    <2>1. /\ UNCHANGED <<header, slots, label, fs>> /\ v \in open'
          /\ ImageType' /\ \A w \in Volumes \ {v} : SameImage(w)
      BY <1>1 DEF CryptOpen, image, IInv, TypeOK, ImageType, SameImage
    <2>2. End(v) \/ (Goto(v, "dump") /\ At(v, "dump")')
      BY <1>0, <1>1, <2>1, RotatedFacts DEF Open, Command, Goto, At, Rotated
    <2> QED
      BY <1>0, <2>1, <2>2, RotatedFacts, BehindSlotsKeeps DEF Open, Command, Pcs
  <1>2. CASE Same /\ End(v)
    BY <1>2, MoveKeeps DEF Open, Command
  <1> QED
    BY <1>1, <1>2 DEF Open, Command

\* mkfs, owed while the label says so.
LEMMA MkfsKeeps ==
    ASSUME IInv, NEW v \in Volumes, Mkfs(v)
    PROVE  IInv'
  <1>0. pc[v] = "mkfs" /\ pc[v] \in Rotated
    BY DEF Mkfs, Command, Rotated
  <1>1. CASE MakeFs(v)
    <2>1. /\ UNCHANGED <<header, slots, label, open>> /\ fs'[v] = "fresh"
          /\ ImageType' /\ \A w \in Volumes \ {v} : SameImage(w)
      BY <1>1 DEF MakeFs, IInv, TypeOK, ImageType, SameImage
    <2>2. End(v) \/ Goto(v, "relabel") \/ Goto(v, "close")
      BY DEF Mkfs, Command
    <2>3. (Goto(v, "relabel") => At(v, "relabel")') /\ At(v, "close")'
      BY <1>0, <2>1, RotatedFacts DEF Goto, At, Rotated
    <2> QED
      BY <1>0, <2>1, <2>2, <2>3, RotatedFacts, BehindSlotsKeeps DEF Mkfs, Command, Pcs
  <1>2. CASE Same /\ (End(v) \/ Goto(v, "close"))
    <2>1. At(v, "close")
      BY DEF At, Rotated
    <2> QED
      BY <1>2, <2>1, MoveKeeps DEF Mkfs, Command, Pcs
  <1> QED
    BY <1>1, <1>2 DEF Mkfs, Command

\* cryptsetup config --label, after mkfs.
LEMMA RelabelKeeps ==
    ASSUME IInv, NEW v \in Volumes, Relabel(v)
    PROVE  IInv'
  <1>0. pc[v] = "relabel" /\ pc[v] \in Rotated
    BY DEF Relabel, Command, Rotated
  <1>1. CASE SetLabel(v)
    <2>1. /\ UNCHANGED <<header, slots, fs, open>> /\ label'[v] = "formatted"
          /\ ImageType' /\ \A w \in Volumes \ {v} : SameImage(w)
      BY <1>1 DEF SetLabel, IInv, TypeOK, ImageType, SameImage
    <2>2. End(v) \/ Goto(v, "mount") \/ Goto(v, "close")
      BY DEF Relabel, Command
    <2>3. (Goto(v, "mount") => At(v, "mount")') /\ At(v, "close")'
      BY <1>0, <2>1, RotatedFacts DEF Goto, At, Rotated
    <2> QED
      BY <1>0, <2>1, <2>2, <2>3, RotatedFacts, BehindSlotsKeeps DEF Relabel, Command, Pcs
  <1>2. CASE Same /\ (End(v) \/ Goto(v, "close"))
    <2>1. At(v, "close")
      BY DEF At, Rotated
    <2> QED
      BY <1>2, <2>1, MoveKeeps DEF Relabel, Command, Pcs
  <1> QED
    BY <1>1, <1>2 DEF Relabel, Command

\* The close after a failure.
LEMMA CloseKeeps ==
    ASSUME IInv, NEW v \in Volumes, CloseAfterFailure(v)
    PROVE  IInv'
  <1>1. CASE CryptClose(v)
    <2>1. /\ UNCHANGED <<header, slots, label, fs>>
          /\ ImageType' /\ \A w \in Volumes \ {v} : SameImage(w)
      BY <1>1 DEF CryptClose, image, IInv, TypeOK, ImageType, SameImage
    <2> QED
      BY <2>1, BehindSlotsKeeps DEF CloseAfterFailure, IInv, ImageOK
  <1>2. CASE Same
    BY <1>2, MoveKeeps DEF CloseAfterFailure
  <1> QED
    BY <1>1, <1>2 DEF CloseAfterFailure

\* Every step of Prepare.
LEMMA PrepareKeeps ==
    ASSUME IInv, NEW v \in Volumes, Prepare(v)
    PROVE  IInv'
  BY ProbeKeeps, ReadFailsKeeps, FormatKeeps, TestKeeps, AddKeyKeeps, RemoveKeyKeeps,
     OpenKeeps, DumpKeeps, MkfsKeeps, RelabelKeeps, CloseKeeps DEF Prepare

-----------------------------------------------------------------------------
(* The calls around Prepare, pods, crashes and the operator. *)

\* A stage or a re-stage begins: the call gets the Secret or the cached pair.
LEMMA BeginKeeps ==
    ASSUME IInv, NEW v \in Volumes, NEW ks, Uses(v, ks), Start(v, ks),
           \/ /\ v \notin staged /\ held' = held \ {v} /\ UNCHANGED <<open, staged, cached>>
           \/ /\ ks = cached[v] /\ staged' = staged \ {v} /\ open' = open \ {v}
              /\ UNCHANGED <<cached, held>>
    PROVE  IInv'
  <1> USE DEF Start, image, operator, faults
  <1>1. pc'[v] = "probe" /\ k'[v] = ks /\ v \notin staged' /\ (v \in held' => ks = cached[v])
    BY DEF IInv, TypeOK
  <1>2. TypeOK'
    <2>1. "probe" \in Pcs /\ ks \in KeyPairs
      BY DEF Pcs, Uses
    <2>2. pc' \in [Volumes -> Pcs] /\ k' \in [Volumes -> KeyPairs]
      BY <2>1 DEF IInv, TypeOK
    <2>3. open' \subseteq Volumes /\ staged' \subseteq open' /\ held' \subseteq Volumes
      BY DEF IInv, TypeOK
    <2> QED
      BY <2>2, <2>3 DEF IInv, TypeOK
  <1>3. ASSUME NEW w \in Volumes \ {v} PROVE SameImage(w) /\ SameCall(w)
    BY DEF SameImage, SameCall, IInv, TypeOK
  <1>4. ASSUME NEW u, Uses(v, u) PROVE Uses(v, u)'
    BY <1>4 DEF Uses
  <1>5. ImageOK(v)' /\ CacheOK(v)'
    BY <1>4 DEF IInv, ImageOK, CacheOK
  <1>6. At(v, "probe")'
    BY DEF At, Rotated
  <1>7. CallOK(v)'
    BY <1>1, <1>4, <1>6 DEF CallOK
  <1> QED
    BY <1>2, <1>3, <1>5, <1>7, OneKeepsAll

\* The Secret is a pair any call may use.
LEMMA SecretUses ==
    ASSUME IInv, NEW v \in Volumes
    PROVE  Uses(v, secret)
  BY DEF IInv, Uses, TypeOK

\* A step that only caches, records or forgets.
LEMMA StageAlreadyKeeps ==
    ASSUME IInv, NEW v \in Volumes, StageAlready(v)
    PROVE  IInv'
  <1> USE DEF StageAlready, image, call, operator, faults
  <1>1. TypeOK'
    BY DEF IInv, TypeOK
  <1>2. ASSUME NEW w \in Volumes \ {v} PROVE SameImage(w) /\ SameCall(w)
    BY DEF SameImage, SameCall, IInv, TypeOK
  <1>3. Uses(v, secret)'
    BY SecretUses DEF Uses
  <1>4. cached'[v] = secret /\ pc'[v] = "idle"
    BY DEF IInv, TypeOK
  <1>5. ImageOK(v)' /\ CacheOK(v)' /\ CallOK(v)'
    BY <1>3, <1>4 DEF IInv, ImageOK, CacheOK, CallOK
  <1> QED
    BY <1>1, <1>2, <1>5, OneKeepsAll

\* The rest of a stage.
LEMMA StageEndsKeeps ==
    ASSUME IInv, NEW v \in Volumes, StageEnds(v)
    PROVE  IInv'
  <1>1. CASE Fault("cmd") /\ Goto(v, "close") /\ UNCHANGED <<staged, cached, held, confirmed>>
    <2>1. At(v, "close")
      BY DEF At, Rotated
    <2> QED
      BY <1>1, <2>1, MoveKeeps DEF StageEnds, Same, image, operator, Pcs
  <1>2. CASE Fault("timeout") /\ End(v) /\ UNCHANGED <<staged, cached, held, confirmed>>
    BY <1>2, MoveKeeps DEF StageEnds, Same, image, operator
  <1>3. CASE /\ staged' = staged \cup {v}
             /\ held' = held \cup {v}
             /\ cached' = [cached EXCEPT ![v] = k[v]]
             /\ confirmed' = IF k[v] = secret THEN confirmed \cup {v} ELSE confirmed
             /\ End(v)
             /\ UNCHANGED faults
    <2> USE DEF StageEnds, image
    <2>1. v \in open /\ label[v] = "formatted" /\ slots[v] = {k[v].cur} /\ Uses(v, k[v])
      BY RotatedFacts DEF Rotated, IInv, CallOK
    <2>2. k[v] \in KeyPairs /\ NoKeys \in KeyPairs /\ "idle" \in Pcs
      BY LuksAssumption DEF IInv, TypeOK, NoKeys, NoKey, KeyPairs, Pcs
    <2>3. TypeOK'
      <3>1. pc' \in [Volumes -> Pcs] /\ k' \in [Volumes -> KeyPairs]
            /\ cached' \in [Volumes -> KeyPairs]
        BY <1>3, <2>2 DEF IInv, TypeOK, End
      <3>2. staged' \subseteq open' /\ held' \subseteq Volumes /\ confirmed' \subseteq Volumes
        BY <1>3, <2>1 DEF IInv, TypeOK
      <3> QED
        BY <1>3, <3>1, <3>2 DEF IInv, TypeOK, faults
    <2>4. ASSUME NEW w \in Volumes \ {v} PROVE SameImage(w) /\ SameCall(w)
      BY <1>3 DEF SameImage, SameCall, End, IInv, TypeOK
    <2>5. pc'[v] = "idle" /\ cached'[v] = k[v]
      BY <1>3 DEF End, IInv, TypeOK
    <2>6. ImageOK(v)'
      BY <1>3, <2>1 DEF IInv, ImageOK
    <2>7. Uses(v, k[v]) /\ slots' = slots /\ secret' = secret =>
             \A ks : ks = k[v] => Uses(v, ks)'
      BY <1>3 DEF Uses
    <2>8. CacheOK(v)'
      BY <2>1, <2>5, <2>7 DEF CacheOK
    <2>9. CallOK(v)'
      BY <2>5 DEF CallOK
    <2> QED
      BY <2>3, <2>4, <2>6, <2>8, <2>9, OneKeepsAll
  <1> QED
    BY <1>1, <1>2, <1>3 DEF StageEnds

\* NodeUnstageVolume.
LEMMA UnstageKeeps ==
    ASSUME IInv, NEW v \in Volumes, Unstage(v)
    PROVE  IInv'
  <1> USE DEF Unstage, image, call, operator, faults
  <1>1. NoKeys \in KeyPairs
    BY LuksAssumption DEF NoKeys, NoKey, KeyPairs
  <1>2. TypeOK'
    BY <1>1 DEF IInv, TypeOK
  <1>3. ASSUME NEW w \in Volumes \ {v} PROVE SameImage(w) /\ SameCall(w)
    BY DEF SameImage, SameCall, IInv, TypeOK
  <1>4. ImageOK(v)' /\ CacheOK(v)' /\ CallOK(v)'
    BY DEF IInv, ImageOK, CacheOK, CallOK
  <1> QED
    BY <1>2, <1>3, <1>4, OneKeepsAll

\* A pod writes.
LEMMA PodWritesKeeps ==
    ASSUME IInv, NEW v \in Volumes, PodWrites(v)
    PROVE  IInv'
  <1> USE DEF PodWrites, call, operator, faults
  <1>1. TypeOK'
    BY DEF IInv, TypeOK
  <1>2. ASSUME NEW w \in Volumes \ {v} PROVE SameImage(w) /\ SameCall(w)
    BY DEF SameImage, SameCall, IInv, TypeOK
  <1>3. pc[v] = "idle" /\ label[v] = "formatted" /\ fs'[v] = "used" /\ header[v] = "luks"
    BY DEF IInv, TypeOK, ImageOK, CallOK
  <1>4. ImageOK(v)'
    BY <1>3 DEF IInv, ImageOK
  <1>5. CacheOK(v)' /\ CallOK(v)'
    BY <1>3 DEF IInv, CacheOK, CallOK, Uses
  <1> QED
    BY <1>1, <1>2, <1>4, <1>5, OneKeepsAll

\* A crash ends every call and empties the cache.
LEMMA CrashKeeps ==
    ASSUME IInv, Crash
    PROVE  IInv'
  <1> USE DEF Crash, image, operator
  <1>1. TypeOK'
    <2>1. NoKeys \in KeyPairs /\ "idle" \in Pcs
      BY LuksAssumption DEF NoKeys, NoKey, KeyPairs, Pcs
    <2>2. count' \in 0..MaxFaults /\ happened' \subseteq Hazards
      BY FaultTypes DEF IInv
    <2> QED
      BY <2>1, <2>2 DEF IInv, TypeOK
  <1>2. ASSUME NEW v \in Volumes PROVE ImageOK(v)' /\ CacheOK(v)' /\ CallOK(v)'
    BY DEF IInv, ImageOK, CacheOK, CallOK
  <1> QED
    BY <1>1, <1>2 DEF IInv, Pair

\* When every volume was staged with the Secret as it is, its current key is
\* the only slot anywhere, and no call is between two slots.
LEMMA ConfirmedFacts ==
    ASSUME IInv, confirmed = Volumes, NEW v \in Volumes
    PROVE  /\ slots[v] = {secret.cur} /\ header[v] = "luks"
           /\ \A ks : Uses(v, ks) => ks.cur = secret.cur
           /\ pc[v] \notin {"add", "remove"}
  <1>1. slots[v] = {secret.cur} /\ header[v] = "luks"
    BY DEF IInv, ImageOK
  <1>2. \A ks : Uses(v, ks) => ks.cur = secret.cur
    BY DEF Uses
  <1>3. secret.prev # secret.cur
    BY DEF IInv, Pair, NoKey
  <1>4. pc[v] \notin {"add", "remove"}
    BY <1>1, <1>3 DEF IInv, CallOK, At
  <1> QED
    BY <1>1, <1>2, <1>4

\* The operator moves on to the next key.
LEMMA RotateSecretKeeps ==
    ASSUME IInv, RotateSecret
    PROVE  IInv'
  <1> USE DEF RotateSecret, image, call, faults
  <1>1. Pair(secret) /\ secret \in KeyPairs
    BY DEF IInv, TypeOK
  <1>2. Pair(secret)' /\ secret' \in KeyPairs
    BY <1>1, LuksAssumption DEF Pair, KeyPairs, NoKey
  <1>3. TypeOK'
    BY <1>2 DEF IInv, TypeOK
  <1>4. ASSUME NEW v \in Volumes PROVE ImageOK(v)' /\ CacheOK(v)' /\ CallOK(v)'
    <2>1. ImageOK(v)'
      BY <1>4, ConfirmedFacts DEF IInv, ImageOK
    <2>2. ASSUME NEW ks, Uses(v, ks) PROVE Uses(v, ks)'
      BY <2>2, ConfirmedFacts DEF Uses
    <2>3. CacheOK(v)'
      BY <2>2 DEF IInv, CacheOK
    <2>4. CallOK(v)'
      BY <2>2, ConfirmedFacts DEF IInv, CallOK, At
    <2> QED
      BY <2>1, <2>3, <2>4
  <1> QED
    BY <1>2, <1>3, <1>4 DEF IInv

\* The operator drops the previous key.
LEMMA DropPreviousKeeps ==
    ASSUME IInv, DropPrevious
    PROVE  IInv'
  <1> USE DEF DropPrevious, image, call, faults
  <1>1. Pair(secret) /\ secret \in KeyPairs
    BY DEF IInv, TypeOK
  <1>2. secret'.cur = secret.cur /\ secret'.prev = NoKey /\ secret.prev = secret.cur - 1
    BY <1>1 DEF Pair, KeyPairs
  <1>3. Pair(secret)' /\ secret' \in KeyPairs
    BY <1>1, <1>2, LuksAssumption DEF Pair, KeyPairs, NoKey
  <1>4. TypeOK'
    BY <1>3 DEF IInv, TypeOK
  <1>5. ASSUME NEW v \in Volumes PROVE ImageOK(v)' /\ CacheOK(v)' /\ CallOK(v)'
    <2>1. ImageOK(v)'
      BY <1>2, ConfirmedFacts DEF IInv, ImageOK
    <2>2. ASSUME NEW ks, Uses(v, ks) PROVE Uses(v, ks)'
      BY <1>2, <2>2, ConfirmedFacts DEF Uses
    <2>3. CacheOK(v)'
      BY <2>2 DEF IInv, CacheOK
    <2>4. CallOK(v)'
      BY <2>2, ConfirmedFacts DEF IInv, CallOK, At
    <2> QED
      BY <2>1, <2>3, <2>4
  <1> QED
    BY <1>3, <1>4, <1>5 DEF IInv

\* Every step keeps the invariant.
LEMMA StepInv == IInv /\ [Next]_vars => IInv'
  <1> SUFFICES ASSUME IInv, [Next]_vars PROVE IInv'
    OBVIOUS
  <1>1. ASSUME NEW v \in Volumes, StageBegin(v) PROVE IInv'
    BY <1>1, SecretUses, BeginKeeps DEF StageBegin
  <1>2. ASSUME NEW v \in Volumes, RestageBegin(v) PROVE IInv'
    <2>1. Uses(v, cached[v])
      BY <1>2 DEF RestageBegin, IInv, CacheOK
    <2> QED
      BY <1>2, <2>1, BeginKeeps DEF RestageBegin
  <1>3. CASE UNCHANGED vars
    <2>1. TypeOK' /\ Pair(secret)'
      BY <1>3 DEF IInv, TypeOK, Pair, vars, image, call, operator, faults
    <2>2. ASSUME NEW v \in Volumes PROVE SameImage(v) /\ SameCall(v) /\ secret' = secret
      BY <1>3 DEF SameImage, SameCall, vars, image, call, operator, faults
    <2> QED
      BY <2>1, <2>2, SameKeeps DEF IInv
  <1>4. ASSUME NEW v \in Volumes, StageRefuses(v) PROVE IInv'
    BY <1>3, <1>4 DEF StageRefuses
  <1> QED
    BY <1>1, <1>2, <1>3, <1>4, StageAlreadyKeeps, PrepareKeeps, StageEndsKeeps, UnstageKeeps,
       PodWritesKeeps, CrashKeeps, RotateSecretKeeps, DropPreviousKeeps DEF Next

-----------------------------------------------------------------------------
(* The theorems. *)

\* The invariant holds throughout.
LEMMA Invariance == Spec => []IInv
  BY InitKeeps, StepInv, PTL DEF Spec

\* The variables of Prepare and its callers keep their types; in particular
\* a staged volume's mapping is open.
THEOREM TypeCorrect == Spec => []TypeOK
  <1>1. IInv => TypeOK
    BY DEF IInv
  <1> QED
    BY <1>1, Invariance, PTL

\* However rotations are interrupted, some key of the Secret opens every
\* header (crypt.go rotate adds before it removes).
THEOREM NotLockedOut == Spec => []NeverLockedOut
  <1>1. IInv => NeverLockedOut
    BY DEF IInv, ImageOK, NeverLockedOut
  <1> QED
    BY <1>1, Invariance, PTL

\* A call past its rotation finds the slot of its current key and no other
\* (crypt.go rotate).
THEOREM OneSlotLeft == Spec => []OnlyCurrentSlot
  <1>1. IInv => OnlyCurrentSlot
    BY RotatedFacts DEF IInv, OnlyCurrentSlot, Rotated
  <1> QED
    BY <1>1, Invariance, PTL

\* What is mounted after Prepare has a filesystem (crypt.go
\* ensureFilesystem).
THEOREM MountsFilesystem == Spec => []PreparedHasFilesystem
  <1>1. ASSUME IInv PROVE PreparedHasFilesystem
    BY <1>1, RotatedFacts DEF PreparedHasFilesystem, Rotated
  <1> QED
    BY <1>1, Invariance, PTL

\* One way a step changes what KeyCustody sees, or none.
LEMMA CommandIsCustody ==
    ASSUME IInv, NEW v \in Volumes
    PROVE  /\ pc[v] = "format" /\ LuksFormat(v) /\ secret' = secret => Custody!FirstKey(v)
           /\ pc[v] = "add" /\ LuksAddKey(v) /\ secret' = secret => Custody!NewKey(v)
           /\ pc[v] = "remove" /\ LuksRemoveKey(v) /\ secret' = secret => Custody!OldKeyGoes(v)
           /\ pc[v] = "mkfs" /\ MakeFs(v) /\ secret' = secret =>
                Custody!Fill(v) \/ UNCHANGED <<slots, fs, secret>>
  <1>1. ASSUME pc[v] = "format", LuksFormat(v), secret' = secret PROVE Custody!FirstKey(v)
    <2>1. slots[v] = {} /\ fs[v] = "none" /\ k[v].cur = secret.cur
      BY <1>1 DEF IInv, ImageOK, CallOK, At, Uses, NoKey
    <2>2. fs' = fs
      BY <1>1, <2>1 DEF LuksFormat, Formatted, IInv, TypeOK
    <2> QED
      BY <1>1, <2>1, <2>2 DEF Custody!FirstKey, LuksFormat, Formatted
  <1>2. ASSUME pc[v] = "add", LuksAddKey(v), secret' = secret PROVE Custody!NewKey(v)
    <2>1. slots[v] = {secret.prev} /\ k[v] = secret
      BY <1>2 DEF IInv, CallOK, At
    <2>2. slots[v] \cup {k[v].cur} = {secret.prev, secret.cur}
      BY <2>1
    <2> QED
      BY <1>2, <2>1, <2>2 DEF Custody!NewKey, LuksAddKey
  <1>3. ASSUME pc[v] = "remove", LuksRemoveKey(v), secret' = secret PROVE Custody!OldKeyGoes(v)
    <2>1. slots[v] = {secret.prev, secret.cur} /\ k[v] = secret /\ secret.prev # secret.cur
      BY <1>3 DEF IInv, CallOK, At, Pair, NoKey
    <2>2. slots[v] \ {k[v].prev} = {secret.cur}
      BY <2>1
    <2> QED
      BY <1>3, <2>1, <2>2 DEF Custody!OldKeyGoes, LuksRemoveKey
  <1>4. ASSUME pc[v] = "mkfs", MakeFs(v), secret' = secret
        PROVE  Custody!Fill(v) \/ UNCHANGED <<slots, fs, secret>>
    <2>1. slots[v] # {} /\ fs[v] \in {"none", "fresh"}
      BY <1>4, RotatedFacts DEF IInv, TypeOK, Rotated
    <2>2. CASE fs[v] = "none"
      BY <1>4, <2>1, <2>2 DEF Custody!Fill, MakeFs
    <2>3. CASE fs[v] = "fresh"
      BY <1>4, <2>3 DEF MakeFs, IInv, TypeOK
    <2> QED
      BY <2>1, <2>2, <2>3
  <1> QED
    BY <1>1, <1>2, <1>3, <1>4

\* A step of Prepare is a step of KeyCustody or changes nothing it sees.
LEMMA PrepareIsCustody ==
    ASSUME IInv, NEW v \in Volumes, Prepare(v)
    PROVE  [Custody!Next]_(Custody!custody)
  <1> DEFINE Stutter == UNCHANGED <<slots, fs, secret>>
  <1>1. ASSUME Stutter PROVE [Custody!Next]_(Custody!custody)
    BY <1>1 DEF Custody!custody
  <1>2. ASSUME Custody!FirstKey(v) \/ Custody!NewKey(v) \/ Custody!OldKeyGoes(v) \/ Custody!Fill(v)
        PROVE  [Custody!Next]_(Custody!custody)
    BY <1>2 DEF Custody!Next
  <1>3. Same /\ secret' = secret => Stutter
    BY DEF Same, image
  <1>4. CASE Probe(v) \/ ReadFails(v) \/ Test(v) \/ Dump(v)
    BY <1>1, <1>3, <1>4 DEF Probe, ReadFails, Test, Dump, operator
  <1>5. CASE Format(v)
    BY <1>1, <1>2, <1>3, <1>5, CommandIsCustody DEF Format, Command, operator
  <1>6. CASE AddKey(v)
    BY <1>1, <1>2, <1>3, <1>6, CommandIsCustody DEF AddKey, Command, operator
  <1>7. CASE RemoveKey(v)
    BY <1>1, <1>2, <1>3, <1>7, CommandIsCustody DEF RemoveKey, Command, operator
  <1>8. CASE Open(v)
    BY <1>1, <1>3, <1>8 DEF Open, Command, CryptOpen, image, operator
  <1>9. CASE Mkfs(v)
    BY <1>1, <1>2, <1>3, <1>9, CommandIsCustody DEF Mkfs, Command, operator
  <1>10. CASE Relabel(v)
    BY <1>1, <1>3, <1>10 DEF Relabel, Command, SetLabel, operator
  <1>11. CASE CloseAfterFailure(v)
    BY <1>1, <1>3, <1>11 DEF CloseAfterFailure, CryptClose, image, operator
  <1> QED
    BY <1>4, <1>5, <1>6, <1>7, <1>8, <1>9, <1>10, <1>11 DEF Prepare

\* So is every other step.
LEMMA StepIsCustody ==
    ASSUME IInv, [Next]_vars
    PROVE  [Custody!Next]_(Custody!custody)
  <1> DEFINE Stutter == UNCHANGED <<slots, fs, secret>>
  <1>1. ASSUME Stutter PROVE [Custody!Next]_(Custody!custody)
    BY <1>1 DEF Custody!custody
  <1>2. ASSUME NEW v \in Volumes,
               StageBegin(v) \/ StageAlready(v) \/ RestageBegin(v) \/ StageEnds(v) \/ Unstage(v)
        PROVE  Stutter
    BY <1>2 DEF StageBegin, StageAlready, RestageBegin, StageEnds, Unstage, Start, image, operator
  <1>3. ASSUME UNCHANGED vars \/ \E v \in Volumes : StageRefuses(v) PROVE Stutter
    BY <1>3 DEF StageRefuses, vars, image, operator
  <1>4. ASSUME NEW v \in Volumes, PodWrites(v) PROVE [Custody!Next]_(Custody!custody)
    <2>1. slots[v] # {}
      BY <1>4 DEF PodWrites, IInv, ImageOK
    <2>2. Custody!Fill(v)
      BY <1>4, <2>1 DEF PodWrites, Custody!Fill, operator
    <2> QED
      BY <2>2 DEF Custody!Next
  <1>5. Crash => Stutter
    BY DEF Crash, image, operator
  <1>6. confirmed = Volumes => Custody!AllCurrent
    BY ConfirmedFacts DEF Custody!AllCurrent
  <1>7. RotateSecret => Custody!Rotate
    BY <1>6 DEF RotateSecret, Custody!Rotate, image
  <1>8. DropPrevious => Custody!Retire
    BY <1>6 DEF DropPrevious, Custody!Retire, Custody!NoKey, NoKey, image
  <1> HIDE DEF Stutter
  <1>9. ASSUME NEW v \in Volumes,
               \/ StageBegin(v) \/ StageRefuses(v) \/ StageAlready(v) \/ RestageBegin(v)
               \/ Prepare(v) \/ StageEnds(v) \/ Unstage(v) \/ PodWrites(v)
        PROVE  [Custody!Next]_(Custody!custody)
    BY <1>1, <1>2, <1>3, <1>4, <1>9, PrepareIsCustody
  <1>10. CASE Crash \/ UNCHANGED vars
    BY <1>1, <1>3, <1>5, <1>10
  <1>11. CASE RotateSecret \/ DropPrevious
    BY <1>7, <1>8, <1>11 DEF Custody!Next
  <1> QED
    BY <1>9, <1>10, <1>11 DEF Next

\* The commands, failed calls and crashes of Prepare and its callers
\* implement KeyCustody: keys and data change only as promised.
THEOREM Implements == Spec => KeepsCustody
  <1>1. Init => Custody!Init
    BY DEF Init, Custody!Init, Custody!NoKey, NoKey
  <1> QED
    BY <1>1, Invariance, StepIsCustody, PTL DEF Spec, KeepsCustody, Custody!Spec

\* What a pod wrote stays, through every mkfs and luksFormat (crypt.go
\* ensureFilesystem and isBlank): no step of KeyCustody touches it.
THEOREM UsedStays == Spec => UsedSurvives
  <1>1. ASSUME IInv, [Next]_vars PROVE [\A v \in Volumes : fs[v] = "used" => fs'[v] = "used"]_vars
    <2>1. [Custody!Next]_(Custody!custody)
      BY <1>1, StepIsCustody
    <2>2. fs \in [Volumes -> {"none", "fresh", "used"}]
      BY <1>1 DEF IInv, TypeOK
    <2>3. ASSUME NEW w \in Volumes, Custody!Fill(w), NEW v \in Volumes, fs[v] = "used"
          PROVE  fs'[v] = "used"
      BY <2>2, <2>3 DEF Custody!Fill
    <2>4. ASSUME NEW v \in Volumes, fs[v] = "used" PROVE fs'[v] = "used"
      <3>1. (\E w \in Volumes : Custody!Fill(w)) \/ UNCHANGED fs
        BY <2>1 DEF Custody!Next, Custody!custody, Custody!FirstKey, Custody!NewKey,
                    Custody!OldKeyGoes, Custody!Rotate, Custody!Retire
      <3> QED
        BY <2>3, <2>4, <3>1
    <2> QED
      BY <2>4
  <1> QED
    BY <1>1, Invariance, PTL DEF Spec, UsedSurvives
=============================================================================
