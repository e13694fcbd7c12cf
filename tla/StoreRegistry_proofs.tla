------------------------- MODULE StoreRegistry_proofs -------------------------
(***************************************************************************)
(* Proofs about StoreRegistry, for any stores, any number of Gets and any  *)
(* faults: its types, and that mounts are not stacked, checks do not pile  *)
(* up, recorded stores have their directory and dropped mounts are         *)
(* noticed.                                                                *)
(*                                                                         *)
(* All of them rest on the mutex: depth grows only when the holder mounts, *)
(* so what a check answers to a waiting holder still bounds depth when the *)
(* holder acts on it.                                                      *)
(***************************************************************************)
EXTENDS StoreRegistry, SequenceTheorems, FiniteSetTheorems, TLAPS

\* The check slot: a goroutine that runs, or its answer, never both.
SlotInv ==
    /\ running \in {0, 1}
    /\ running = 1 => checking /\ answer = None
    /\ answer # None => checking

\* The cache against the step of the holder, and what is recorded without
\* a mount.
CacheInv ==
    /\ \A g \in Gets : pc[g] # "idle" => arg[g] \in Configs
    /\ \A g \in Gets : pc[g] \in {"check", "wait", "sub"} => cached
    /\ \A g \in Gets : pc[g] = "mount" => ~cached
    /\ ~cached => stores = {}

\* What the holder knows of the mount.
LiveInv ==
    \A g \in Gets :
        /\ pc[g] \in {"check", "wait"} /\ depth > 0 => live
        /\ pc[g] = "wait" /\ answer = "mounted" => live
        /\ pc[g] = "sub" => live \/ unsure

\* A mount that is there is cached, and one that is condemned is gone.
Tracked ==
    happened \cap {"timeout", "findmnt", "adopt"} = {} =>
        /\ depth \in {0, 1}
        /\ ~cached => depth = 0
        /\ \A g \in Gets : pc[g] = "wait" /\ answer = "gone" => depth = 0

IInv ==
    /\ TypeOK /\ SlotInv /\ CacheInv /\ LiveInv /\ Tracked
    /\ RecordedSubDirExists

-----------------------------------------------------------------------------
(* Stores on one export are told apart by their subDir. *)

LEMMA AppendToFour ==
    ASSUME NEW a, NEW b, NEW c, NEW d, NEW e
    PROVE  /\ Len(Append(<<a, b, c, d>>, e)) = 5
           /\ Append(<<a, b, c, d>>, e)[5] = e
  <1> DEFINE s == <<a, b, c, d>>
             S == {a, b, c, d, e}
  <1>1. s \in Seq(S) /\ Len(s) = 4
    OBVIOUS
  <1>2. e \in S
    OBVIOUS
  <1> HIDE DEF s, S
  <1> QED
    BY <1>1, <1>2, AppendProperties, SMT

\* Of two stores with one id neither is in another directory
\* (store.go storeKey).
LEMMA SameStoreSameDir ==
    ASSUME NEW c \in Configs, NEW d \in Configs, StoreID(c) = StoreID(d)
    PROVE  SubDirOf(c) = SubDirOf(d)
  <1> DEFINE Four(x) == <<"nfs", x.server, x.path, CanonicalOptions(x.options)>>
  <1>1. MountID(c) = MountID(d)
    BY DEF Configs
  <1>2. ASSUME NEW x, SubDirOf(x) # <<>>
        PROVE  /\ MountID(x) = Four(x)
               /\ Len(StoreID(x)) = 5 /\ StoreID(x)[5] = x.subDir
    <2>1. x.type = "nfs"
      BY <1>2 DEF SubDirOf
    <2>2. MountID(x) = Four(x)
      BY <2>1 DEF MountID
    <2>3. StoreID(x) = Append(Four(x), x.subDir)
      BY <1>2, <2>2 DEF StoreID
    <2> QED
      BY <2>2, <2>3, AppendToFour
  <1>3. CASE SubDirOf(c) # <<>> /\ SubDirOf(d) # <<>>
    <2>1. c.subDir = d.subDir
      BY <1>2, <1>3
    <2> QED
      BY <2>1, <1>3 DEF SubDirOf
  <1>4. ASSUME NEW x, NEW y, SubDirOf(x) = <<>>, SubDirOf(y) # <<>>,
               MountID(x) = MountID(y), StoreID(x) = StoreID(y)
        PROVE  FALSE
    <2>1. StoreID(x) = Four(y)
      BY <1>4, <1>2 DEF StoreID
    <2>2. Len(Four(y)) = 4
      OBVIOUS
    <2>3. Len(StoreID(y)) = 5
      BY <1>2, <1>4
    <2> HIDE DEF Four
    <2> QED
      BY <1>4, <2>1, <2>2, <2>3
  <1> QED
    BY <1>1, <1>3, <1>4

-----------------------------------------------------------------------------
(* Every step keeps the invariant. *)

\* Only the holder is past the mutex.
LEMMA OneHolder ==
    ASSUME TypeOK, NEW g \in Gets, pc[g] \notin {"idle", "lock"}
    PROVE  /\ holder = g
           /\ \A h \in Gets : h # g => pc[h] \in {"idle", "lock"}
  BY DEF TypeOK

LEMMA BeginKeeps ==
    ASSUME IInv, NEW g \in Gets, NEW c \in Configs, Begin(g, c)
    PROVE  IInv'
  <1> USE RegistryAssumption DEF IInv, Begin, vars, calls, check, seen, faults
  <1>1. TypeOK'
    BY OneHolder DEF TypeOK, CacheInv
  <1>2. SlotInv'
    BY OneHolder DEF SlotInv, TypeOK
  <1>3. CacheInv'
    BY OneHolder DEF CacheInv, TypeOK
  <1>4. LiveInv'
    BY OneHolder DEF LiveInv, TypeOK, CacheInv, SlotInv
  <1>5. Tracked'
    BY OneHolder DEF Tracked, TypeOK, CacheInv, SlotInv
  <1>6. RecordedSubDirExists'
    BY OneHolder DEF RecordedSubDirExists, CacheInv, TypeOK
  <1> QED
    BY <1>1, <1>2, <1>3, <1>4, <1>5, <1>6

LEMMA LockKeeps ==
    ASSUME IInv, NEW g \in Gets, Lock(g)
    PROVE  IInv'
  <1> USE RegistryAssumption DEF IInv, Lock, AfterLock, vars, calls, check, seen, faults
  <1>1. TypeOK'
    <2>1. /\ pc' \in [Gets -> {"idle", "lock", "check", "wait", "mount", "sub"}]
          /\ arg' \in [Gets -> Configs \cup {None}]
          /\ holder' \in Gets \cup {None}
      BY DEF TypeOK, CacheInv
    <2>2. \A h \in Gets : holder' = h <=> pc'[h] \notin {"idle", "lock"}
      BY OneHolder DEF TypeOK
    <2>3. /\ cached' \in BOOLEAN /\ checking' \in BOOLEAN /\ hung' \in BOOLEAN
          /\ live' \in BOOLEAN /\ unsure' \in BOOLEAN
      <3>1. live' \in BOOLEAN
        <4> DEFINE there == depth > 0
        <4>1. live' = there /\ there \in BOOLEAN
          OBVIOUS
        <4> HIDE DEF there
        <4> QED
          BY <4>1, Zenon
      <3> QED
        BY <3>1 DEF TypeOK
    <2>4. /\ depth' \in Nat /\ dirs' \subseteq SubDirs
          /\ stores' \subseteq {StoreID(c) : c \in Configs}
          /\ running' \in Nat /\ answer' \in {None, "mounted", "gone", "error"}
          /\ count' \in 0..MaxFaults /\ happened' \subseteq Hazards
      BY DEF TypeOK, CacheInv, SubDirs
    <2> QED
      BY <2>1, <2>2, <2>3, <2>4 DEF TypeOK
  <1>2. SlotInv'
    BY OneHolder DEF SlotInv, TypeOK
  <1>3. CacheInv'
    BY OneHolder DEF CacheInv, TypeOK
  <1>4. LiveInv'
    BY OneHolder DEF LiveInv, TypeOK, CacheInv, SlotInv
  <1>5. Tracked'
    BY OneHolder DEF Tracked, TypeOK, CacheInv, SlotInv
  <1>6. RecordedSubDirExists'
    BY OneHolder DEF RecordedSubDirExists, CacheInv, TypeOK
  <1> QED
    BY <1>1, <1>2, <1>3, <1>4, <1>5, <1>6

LEMMA CheckKeeps ==
    ASSUME IInv, NEW g \in Gets, Check(g)
    PROVE  IInv'
  <1> USE RegistryAssumption DEF IInv, Check, JoinCheck, Assume, Goto, vars, calls, check, seen,
          faults
  <1>1. TypeOK'
    <2>1. /\ pc' \in [Gets -> {"idle", "lock", "check", "wait", "mount", "sub"}]
          /\ arg' \in [Gets -> Configs \cup {None}]
          /\ holder' \in Gets \cup {None}
      BY DEF TypeOK, CacheInv
    <2>2. \A h \in Gets : holder' = h <=> pc'[h] \notin {"idle", "lock"}
      BY OneHolder DEF TypeOK
    <2>3. /\ cached' \in BOOLEAN /\ checking' \in BOOLEAN /\ hung' \in BOOLEAN
          /\ live' \in BOOLEAN /\ unsure' \in BOOLEAN
      BY DEF TypeOK
    <2>4. /\ depth' \in Nat /\ dirs' \subseteq SubDirs
          /\ stores' \subseteq {StoreID(c) : c \in Configs}
          /\ running' \in Nat /\ answer' \in {None, "mounted", "gone", "error"}
          /\ count' \in 0..MaxFaults /\ happened' \subseteq Hazards
      BY DEF TypeOK, CacheInv, SubDirs
    <2> QED
      BY <2>1, <2>2, <2>3, <2>4 DEF TypeOK
  <1>2. SlotInv'
    BY OneHolder DEF SlotInv, TypeOK
  <1>3. CacheInv'
    BY OneHolder DEF CacheInv, TypeOK
  <1>4. LiveInv'
    BY OneHolder DEF LiveInv, TypeOK, CacheInv, SlotInv
  <1>5. Tracked'
    BY OneHolder DEF Tracked, TypeOK, CacheInv, SlotInv
  <1>6. RecordedSubDirExists'
    BY OneHolder DEF RecordedSubDirExists, CacheInv, TypeOK
  <1> QED
    BY <1>1, <1>2, <1>3, <1>4, <1>5, <1>6

LEMMA AnsweredKeeps ==
    ASSUME IInv, NEW g \in Gets, Answered(g)
    PROVE  IInv'
  <1> USE RegistryAssumption DEF IInv, Answered, Condemns, Evict, Evicted, Assume, Goto, vars,
          calls, check, seen, faults
  <1>1. TypeOK'
    <2>1. /\ holder = g /\ UNCHANGED <<arg, holder, count, happened>>
          /\ \E step \in {"mount", "sub"} : pc' = [pc EXCEPT ![g] = step]
      BY OneHolder DEF TypeOK
    <2>2. \A h \in Gets : holder' = h <=> pc'[h] \notin {"idle", "lock"}
      BY <2>1 DEF TypeOK
    <2>3. pc' \in [Gets -> {"idle", "lock", "check", "wait", "mount", "sub"}]
      BY <2>1 DEF TypeOK
    <2>4. /\ cached' \in BOOLEAN /\ stores' \subseteq stores /\ live' \in BOOLEAN
          /\ unsure' \in BOOLEAN /\ checking' \in BOOLEAN
      BY DEF TypeOK
    <2> QED
      BY <2>1, <2>2, <2>3, <2>4 DEF TypeOK
  <1>2. SlotInv'
    BY OneHolder DEF SlotInv, TypeOK
  <1>3. CacheInv'
    BY OneHolder DEF CacheInv, TypeOK
  <1>4. LiveInv'
    BY OneHolder DEF LiveInv, TypeOK, CacheInv, SlotInv
  <1>5. Tracked'
    BY OneHolder DEF Tracked, TypeOK, CacheInv, SlotInv
  <1>6. RecordedSubDirExists'
    BY OneHolder DEF RecordedSubDirExists, CacheInv, TypeOK
  <1> QED
    BY <1>1, <1>2, <1>3, <1>4, <1>5, <1>6

LEMMA TimerFiresKeeps ==
    ASSUME IInv, NEW g \in Gets, TimerFires(g)
    PROVE  IInv'
  <1> USE RegistryAssumption DEF IInv, TimerFires, Assume, Goto, vars, calls, check, seen, faults
  <1>1. TypeOK'
    BY OneHolder DEF TypeOK, CacheInv
  <1>2. SlotInv'
    BY OneHolder DEF SlotInv, TypeOK
  <1>3. CacheInv'
    BY OneHolder DEF CacheInv, TypeOK
  <1>4. LiveInv'
    BY OneHolder DEF LiveInv, TypeOK, CacheInv, SlotInv
  <1>5. Tracked'
    BY OneHolder DEF Tracked, TypeOK, CacheInv, SlotInv
  <1>6. RecordedSubDirExists'
    BY OneHolder DEF RecordedSubDirExists, CacheInv, TypeOK
  <1> QED
    BY <1>1, <1>2, <1>3, <1>4, <1>5, <1>6

LEMMA MountKeeps ==
    ASSUME IInv, NEW g \in Gets, Mount(g)
    PROVE  IInv'
  <1> USE RegistryAssumption DEF IInv, Mount, Goto, Return, Fault, vars, calls, check, seen, faults
  <1>1. TypeOK'
    <2>1. /\ pc' \in [Gets -> {"idle", "lock", "check", "wait", "mount", "sub"}]
          /\ arg' \in [Gets -> Configs \cup {None}]
          /\ holder' \in Gets \cup {None}
      BY DEF TypeOK, CacheInv
    <2>2. \A h \in Gets : holder' = h <=> pc'[h] \notin {"idle", "lock"}
      BY OneHolder DEF TypeOK
    <2>3. /\ cached' \in BOOLEAN /\ checking' \in BOOLEAN /\ hung' \in BOOLEAN
          /\ live' \in BOOLEAN /\ unsure' \in BOOLEAN
      BY DEF TypeOK
    <2>4. /\ depth' \in Nat /\ dirs' \subseteq SubDirs
          /\ stores' \subseteq {StoreID(c) : c \in Configs}
          /\ running' \in Nat /\ answer' \in {None, "mounted", "gone", "error"}
          /\ count' \in 0..MaxFaults /\ happened' \subseteq Hazards
      BY DEF TypeOK, CacheInv, SubDirs
    <2> QED
      BY <2>1, <2>2, <2>3, <2>4 DEF TypeOK
  <1>2. SlotInv'
    BY OneHolder DEF SlotInv, TypeOK
  <1>3. CacheInv'
    BY OneHolder DEF CacheInv, TypeOK
  <1>4. LiveInv'
    BY OneHolder DEF LiveInv, TypeOK, CacheInv, SlotInv
  <1>5. Tracked'
    BY OneHolder DEF Tracked, TypeOK, CacheInv, SlotInv
  <1>6. RecordedSubDirExists'
    BY OneHolder DEF RecordedSubDirExists, CacheInv, TypeOK
  <1> QED
    BY <1>1, <1>2, <1>3, <1>4, <1>5, <1>6

LEMMA SubDirKeeps ==
    ASSUME IInv, NEW g \in Gets, SubDir(g)
    PROVE  IInv'
  <1> USE RegistryAssumption DEF IInv, SubDir, MakesSubDir, Return, Fault, vars, calls, check,
          seen, faults
  <1>1. TypeOK'
    <2>1. /\ pc' \in [Gets -> {"idle", "lock", "check", "wait", "mount", "sub"}]
          /\ arg' \in [Gets -> Configs \cup {None}]
          /\ holder' \in Gets \cup {None}
      BY DEF TypeOK, CacheInv
    <2>2. \A h \in Gets : holder' = h <=> pc'[h] \notin {"idle", "lock"}
      BY OneHolder DEF TypeOK
    <2>3. /\ cached' \in BOOLEAN /\ checking' \in BOOLEAN /\ hung' \in BOOLEAN
          /\ live' \in BOOLEAN /\ unsure' \in BOOLEAN
      BY DEF TypeOK
    <2>4. /\ depth' \in Nat /\ dirs' \subseteq SubDirs
          /\ stores' \subseteq {StoreID(c) : c \in Configs}
          /\ running' \in Nat /\ answer' \in {None, "mounted", "gone", "error"}
          /\ count' \in 0..MaxFaults /\ happened' \subseteq Hazards
      BY DEF TypeOK, CacheInv, SubDirs
    <2> QED
      BY <2>1, <2>2, <2>3, <2>4 DEF TypeOK
  <1>2. SlotInv'
    BY OneHolder DEF SlotInv, TypeOK
  <1>3. CacheInv'
    BY OneHolder DEF CacheInv, TypeOK
  <1>4. LiveInv'
    BY OneHolder DEF LiveInv, TypeOK, CacheInv, SlotInv
  <1>5. Tracked'
    BY OneHolder DEF Tracked, TypeOK, CacheInv, SlotInv
  <1>6. RecordedSubDirExists'
    <2> SUFFICES ASSUME depth' > 0, NEW c \in Configs, StoreID(c) \in stores'
                 PROVE  SubDirOf(c) \in dirs' \cup {<<>>}
      BY DEF RecordedSubDirExists
    <2>1. depth > 0 /\ dirs \subseteq dirs'
      OBVIOUS
    <2>2. CASE StoreID(c) \in stores
      BY <2>1, <2>2 DEF RecordedSubDirExists
    <2>3. CASE StoreID(c) \notin stores
      <3>1. StoreID(c) = StoreID(arg[g]) /\ arg[g] \in Configs
        BY <2>3 DEF CacheInv
      <3>2. SubDirOf(c) = SubDirOf(arg[g])
        BY <3>1, SameStoreSameDir
      <3> QED
        BY <2>1, <2>3, <3>1, <3>2
    <2> QED
      BY <2>2, <2>3
  <1> QED
    BY <1>1, <1>2, <1>3, <1>4, <1>5, <1>6

LEMMA CheckAnswersKeeps ==
    ASSUME IInv, CheckAnswers
    PROVE  IInv'
  <1> USE RegistryAssumption DEF IInv, CheckAnswers, Fault, vars, calls, check, seen, faults
  <1>1. TypeOK'
    BY OneHolder DEF TypeOK, CacheInv
  <1>2. SlotInv'
    BY OneHolder DEF SlotInv, TypeOK
  <1>3. CacheInv'
    BY OneHolder DEF CacheInv, TypeOK
  <1>4. LiveInv'
    BY OneHolder DEF LiveInv, TypeOK, CacheInv, SlotInv
  <1>5. Tracked'
    BY OneHolder DEF Tracked, TypeOK, CacheInv, SlotInv
  <1>6. RecordedSubDirExists'
    BY OneHolder DEF RecordedSubDirExists, CacheInv, TypeOK
  <1> QED
    BY <1>1, <1>2, <1>3, <1>4, <1>5, <1>6

LEMMA DropKeeps ==
    ASSUME IInv, Drop
    PROVE  IInv'
  <1> USE RegistryAssumption DEF IInv, Drop, Fault, vars, calls, check, seen, faults
  <1>1. TypeOK'
    BY OneHolder DEF TypeOK, CacheInv
  <1>2. SlotInv'
    BY OneHolder DEF SlotInv, TypeOK
  <1>3. CacheInv'
    BY OneHolder DEF CacheInv, TypeOK
  <1>4. LiveInv'
    BY OneHolder DEF LiveInv, TypeOK, CacheInv, SlotInv
  <1>5. Tracked'
    BY OneHolder DEF Tracked, TypeOK, CacheInv, SlotInv
  <1>6. RecordedSubDirExists'
    BY OneHolder DEF RecordedSubDirExists, CacheInv, TypeOK
  <1> QED
    BY <1>1, <1>2, <1>3, <1>4, <1>5, <1>6

LEMMA HangKeeps ==
    ASSUME IInv, Hang
    PROVE  IInv'
  <1> USE RegistryAssumption DEF IInv, Hang, Fault, vars, calls, check, seen, faults
  <1>1. TypeOK'
    BY OneHolder DEF TypeOK, CacheInv
  <1>2. SlotInv'
    BY OneHolder DEF SlotInv, TypeOK
  <1>3. CacheInv'
    BY OneHolder DEF CacheInv, TypeOK
  <1>4. LiveInv'
    BY OneHolder DEF LiveInv, TypeOK, CacheInv, SlotInv
  <1>5. Tracked'
    BY OneHolder DEF Tracked, TypeOK, CacheInv, SlotInv
  <1>6. RecordedSubDirExists'
    BY OneHolder DEF RecordedSubDirExists, CacheInv, TypeOK
  <1> QED
    BY <1>1, <1>2, <1>3, <1>4, <1>5, <1>6

LEMMA RecoverKeeps ==
    ASSUME IInv, Recover
    PROVE  IInv'
  <1> USE RegistryAssumption DEF IInv, Recover, vars, calls, check, seen, faults
  <1>1. TypeOK'
    BY OneHolder DEF TypeOK, CacheInv
  <1>2. SlotInv'
    BY OneHolder DEF SlotInv, TypeOK
  <1>3. CacheInv'
    BY OneHolder DEF CacheInv, TypeOK
  <1>4. LiveInv'
    BY OneHolder DEF LiveInv, TypeOK, CacheInv, SlotInv
  <1>5. Tracked'
    BY OneHolder DEF Tracked, TypeOK, CacheInv, SlotInv
  <1>6. RecordedSubDirExists'
    BY OneHolder DEF RecordedSubDirExists, CacheInv, TypeOK
  <1> QED
    BY <1>1, <1>2, <1>3, <1>4, <1>5, <1>6

LEMMA RestartKeeps ==
    ASSUME IInv, Restart
    PROVE  IInv'
  <1> USE RegistryAssumption DEF IInv, Restart, Fault, vars, calls, check, seen, faults
  <1>1. TypeOK'
    <2>1. /\ pc' \in [Gets -> {"idle", "lock", "check", "wait", "mount", "sub"}]
          /\ arg' \in [Gets -> Configs \cup {None}]
          /\ holder' \in Gets \cup {None}
      BY DEF TypeOK, CacheInv
    <2>2. \A h \in Gets : holder' = h <=> pc'[h] \notin {"idle", "lock"}
      BY OneHolder DEF TypeOK
    <2>3. /\ cached' \in BOOLEAN /\ checking' \in BOOLEAN /\ hung' \in BOOLEAN
          /\ live' \in BOOLEAN /\ unsure' \in BOOLEAN
      <3>1. cached' \in BOOLEAN
        <4> DEFINE there == depth' > 0
        <4>1. cached' = there /\ there \in BOOLEAN
          OBVIOUS
        <4> HIDE DEF there
        <4> QED
          BY <4>1, Zenon
      <3> QED
        BY <3>1 DEF TypeOK
    <2>4. /\ depth' \in Nat /\ dirs' \subseteq SubDirs
          /\ stores' \subseteq {StoreID(c) : c \in Configs}
          /\ running' \in Nat /\ answer' \in {None, "mounted", "gone", "error"}
          /\ count' \in 0..MaxFaults /\ happened' \subseteq Hazards
      BY DEF TypeOK, CacheInv, SubDirs
    <2> QED
      BY <2>1, <2>2, <2>3, <2>4 DEF TypeOK
  <1>2. SlotInv'
    BY OneHolder DEF SlotInv, TypeOK
  <1>3. CacheInv'
    BY OneHolder DEF CacheInv, TypeOK
  <1>4. LiveInv'
    BY OneHolder DEF LiveInv, TypeOK, CacheInv, SlotInv
  <1>5. Tracked'
    BY OneHolder DEF Tracked, TypeOK, CacheInv, SlotInv
  <1>6. RecordedSubDirExists'
    BY OneHolder DEF RecordedSubDirExists, CacheInv, TypeOK
  <1> QED
    BY <1>1, <1>2, <1>3, <1>4, <1>5, <1>6

LEMMA AdoptFailsKeeps ==
    ASSUME IInv, AdoptFails
    PROVE  IInv'
  <1> USE RegistryAssumption DEF IInv, AdoptFails, Fault, vars, calls, check, seen, faults
  <1>1. TypeOK'
    <2>1. /\ pc' \in [Gets -> {"idle", "lock", "check", "wait", "mount", "sub"}]
          /\ arg' \in [Gets -> Configs \cup {None}]
          /\ holder' \in Gets \cup {None}
      BY DEF TypeOK, CacheInv
    <2>2. \A h \in Gets : holder' = h <=> pc'[h] \notin {"idle", "lock"}
      BY OneHolder DEF TypeOK
    <2>3. /\ cached' \in BOOLEAN /\ checking' \in BOOLEAN /\ hung' \in BOOLEAN
          /\ live' \in BOOLEAN /\ unsure' \in BOOLEAN
      BY DEF TypeOK
    <2>4. /\ depth' \in Nat /\ dirs' \subseteq SubDirs
          /\ stores' \subseteq {StoreID(c) : c \in Configs}
          /\ running' \in Nat /\ answer' \in {None, "mounted", "gone", "error"}
          /\ count' \in 0..MaxFaults /\ happened' \subseteq Hazards
      BY DEF TypeOK, CacheInv, SubDirs
    <2> QED
      BY <2>1, <2>2, <2>3, <2>4 DEF TypeOK
  <1>2. SlotInv'
    BY OneHolder DEF SlotInv, TypeOK
  <1>3. CacheInv'
    BY OneHolder DEF CacheInv, TypeOK
  <1>4. LiveInv'
    BY OneHolder DEF LiveInv, TypeOK, CacheInv, SlotInv
  <1>5. Tracked'
    BY OneHolder DEF Tracked, TypeOK, CacheInv, SlotInv
  <1>6. RecordedSubDirExists'
    BY OneHolder DEF RecordedSubDirExists, CacheInv, TypeOK
  <1> QED
    BY <1>1, <1>2, <1>3, <1>4, <1>5, <1>6

LEMMA InitEstablishes == Init => IInv
  <1> SUFFICES ASSUME Init PROVE IInv
    OBVIOUS
  <1> USE RegistryAssumption DEF Init
  <1>1. TypeOK
    <2>1. /\ pc \in [Gets -> {"idle", "lock", "check", "wait", "mount", "sub"}]
          /\ arg \in [Gets -> Configs \cup {None}]
      OBVIOUS
    <2>2. \A g \in Gets : holder = g <=> pc[g] \notin {"idle", "lock"}
      OBVIOUS
    <2>3. /\ hung \in BOOLEAN /\ cached \in BOOLEAN /\ checking \in BOOLEAN
          /\ live \in BOOLEAN /\ unsure \in BOOLEAN
      OBVIOUS
    <2>4. /\ depth \in Nat /\ dirs \subseteq SubDirs
          /\ stores \subseteq {StoreID(c) : c \in Configs}
          /\ holder \in Gets \cup {None} /\ running \in Nat
          /\ answer \in {None, "mounted", "gone", "error"}
          /\ count \in 0..MaxFaults /\ happened \subseteq Hazards
      OBVIOUS
    <2> QED
      BY <2>1, <2>2, <2>3, <2>4 DEF TypeOK
  <1>2. SlotInv
    BY DEF SlotInv
  <1>3. CacheInv
    BY DEF CacheInv
  <1>4. LiveInv
    BY DEF LiveInv
  <1>5. Tracked /\ RecordedSubDirExists
    BY DEF Tracked, RecordedSubDirExists
  <1> QED
    BY <1>1, <1>2, <1>3, <1>4, <1>5 DEF IInv

LEMMA StutterKeeps ==
    ASSUME IInv, UNCHANGED vars
    PROVE  IInv'
  BY DEF IInv, TypeOK, SlotInv, CacheInv, LiveInv, Tracked, RecordedSubDirExists,
         vars, calls, check, seen, faults

LEMMA NextKeeps ==
    ASSUME IInv, [Next]_vars
    PROVE  IInv'
  <1>1. CASE UNCHANGED vars
    BY <1>1, StutterKeeps
  <1>2. ASSUME NEW g \in Gets, NEW c \in Configs, Begin(g, c) PROVE IInv'
    BY <1>2, BeginKeeps
  <1>3. ASSUME NEW g \in Gets, Get(g) PROVE IInv'
    BY <1>3, LockKeeps, CheckKeeps, AnsweredKeeps, TimerFiresKeeps, MountKeeps, SubDirKeeps DEF Get
  <1>4. CASE CheckAnswers \/ Drop \/ Hang \/ Recover \/ Restart \/ AdoptFails
    BY <1>4, CheckAnswersKeeps, DropKeeps, HangKeeps, RecoverKeeps, RestartKeeps, AdoptFailsKeeps
  <1> QED
    BY <1>1, <1>2, <1>3, <1>4 DEF Next

LEMMA Invariance == Spec => []IInv
  BY InitEstablishes, NextKeeps, PTL DEF Spec

-----------------------------------------------------------------------------
(* The theorems. *)

\* The variables keep their types, and only the mutex holder is past the
\* mutex (registry.go Get, lockStore).
THEOREM TypeCorrect == Spec => []TypeOK
  <1>1. IInv => TypeOK
    BY DEF IInv
  <1> QED
    BY <1>1, Invariance, PTL

\* However often a hung export is asked for and checks are abandoned, one
\* goroutine at most is left behind (registry.go checkMountPoint).
THEOREM OneCheckLeft == Spec => []OneCheckInFlight
  <1>1. IInv => OneCheckInFlight
    BY DEF IInv, SlotInv, OneCheckInFlight
  <1> QED
    BY <1>1, Invariance, PTL

\* Unless a mount(8) is killed, a check misreads or an adoption fails, no
\* mount is put over one that is there (registry.go stillMounted).
THEOREM NotStacked == Spec => []NeverStacks
  <1>1. IInv => NeverStacks
    BY DEF IInv, Tracked, NeverStacks
  <1> QED
    BY <1>1, Invariance, PTL

\* Through drops, evictions, stacked mounts and restarts, a store that is
\* recorded while the export is mounted has its directory there (registry.go
\* Get, evictStores).
THEOREM SubDirsExist == Spec => []RecordedSubDirExists
  <1>1. IInv => RecordedSubDirExists
    BY DEF IInv
  <1> QED
    BY <1>1, Invariance, PTL

\* A Get that hands out a path had it mounted at some moment of the call,
\* unless its check gave no answer (registry.go stillMounted).
THEOREM DropsAreNoticed == Spec => HandsOutLiveMount
  <1>1. ASSUME IInv
        PROVE  \A g \in Gets :
                 pc[g] = "sub" /\ pc'[g] = "idle" /\ StoreID(arg[g]) \in stores' => live \/ unsure
    BY <1>1 DEF IInv, LiveInv
  <1> QED
    BY <1>1, Invariance, PTL DEF HandsOutLiveMount
-----------------------------------------------------------------------------
(***************************************************************************)
(* Placement.  No request is misplaced, whatever a StorageClass and a      *)
(* claim put into it.  What path.Clean makes of a path is known by ranks:  *)
(* the segments it keeps are numbered through, so two paths that keep the  *)
(* same places and come out the same agree at each of them.                *)
(***************************************************************************)

\* The elements of a set of places are numbered through by their ranks.
LEMMA Ranks ==
    ASSUME NEW n \in Nat, NEW K, K \subseteq 1..n
    PROVE  /\ Cardinality(K) \in Nat
           /\ \A i \in K : Cardinality(K \cap (1..i)) \in 1..Cardinality(K)
           /\ \A i, j \in K : Cardinality(K \cap (1..i)) = Cardinality(K \cap (1..j)) => i = j
           /\ \A k \in 1..Cardinality(K) : \E i \in K : Cardinality(K \cap (1..i)) = k
  <1> DEFINE rank(i) == Cardinality(K \cap (1..i))
             N == Cardinality(K)
  <1>1. IsFiniteSet(K) /\ N \in Nat
    <2>1. IsFiniteSet(1..n)
      BY FS_Interval
    <2> QED
      BY <2>1, FS_Subset, FS_CardinalityType
  <1>2. ASSUME NEW i \in K
        PROVE  IsFiniteSet(K \cap (1..i)) /\ rank(i) \in 1..N
    <2>1. K \cap (1..i) \in SUBSET K /\ i \in K \cap (1..i)
      OBVIOUS
    <2>2. IsFiniteSet(K \cap (1..i)) /\ rank(i) <= N /\ rank(i) \in Nat
      BY <1>1, <2>1, FS_Subset, FS_CardinalityType
    <2>3. rank(i) # 0
      BY <2>1, <2>2, FS_EmptySet
    <2> QED
      BY <1>1, <2>2, <2>3
  <1>3. ASSUME NEW i \in K, NEW j \in K, i < j PROVE rank(i) # rank(j)
    <2>1. K \cap (1..i) \in SUBSET (K \cap (1..j))
      BY <1>3
    <2>2. j \in K \cap (1..j) /\ j \notin K \cap (1..i)
      BY <1>3
    <2> QED
      BY <2>1, <2>2, <1>2, FS_Subset
  <1>4. \A i, j \in K : rank(i) = rank(j) => i = j
    <2> SUFFICES ASSUME NEW i \in K, NEW j \in K, i # j PROVE rank(i) # rank(j)
      OBVIOUS
    <2>1. i < j \/ j < i
      OBVIOUS
    <2> QED
      BY <2>1, <1>3
  <1>5. \A k \in 1..N : \E i \in K : rank(i) = k
    <2> DEFINE f == [i \in K |-> rank(i)]
    <2>1. f \in Injection(K, 1..N)
      BY <1>2, <1>4 DEF Injection, IsInjective
    <2>2. IsFiniteSet(1..N) /\ Cardinality(1..N) = N
      BY <1>1, FS_Interval
    <2>3. f \in Surjection(K, 1..N)
      <3> HIDE DEF f, rank, N
      <3>1. Cardinality(K) = Cardinality(1..N)
        BY <2>2 DEF N
      <3> QED
        BY <2>1, <2>2, <3>1, FS_Injection
    <2> QED
      BY <2>3 DEF Surjection
  <1> QED
    BY <1>1, <1>2, <1>4, <1>5

\* path.Clean: as many segments as are kept, each of them a kept one, and
\* each kept one at its rank.
LEMMA CleanKeeps ==
    ASSUME NEW S, NEW s \in Seq(S)
    PROVE  /\ Clean(s) \in Seq(S) /\ Len(Clean(s)) = Cardinality(Kept(s))
           /\ \A k \in 1..Len(Clean(s)) : \E i \in Kept(s) : Clean(s)[k] = s[i]
           /\ \A i \in Kept(s) :
                /\ Cardinality(Kept(s) \cap (1..i)) \in 1..Len(Clean(s))
                /\ Clean(s)[Cardinality(Kept(s) \cap (1..i))] = s[i]
  <1> DEFINE K == Kept(s)
             N == Cardinality(K)
             rank(i) == Cardinality(K \cap (1..i))
             at(k) == CHOOSE i \in K : rank(i) = k
  <1>1. Len(s) \in Nat /\ DOMAIN s = 1..Len(s) /\ \A i \in 1..Len(s) : s[i] \in S
    OBVIOUS
  <1>2. K \subseteq 1..Len(s)
    BY <1>1 DEF Kept
  <1>3. /\ N \in Nat
        /\ \A i \in K : rank(i) \in 1..N
        /\ \A i, j \in K : rank(i) = rank(j) => i = j
        /\ \A k \in 1..N : \E i \in K : rank(i) = k
    BY <1>1, <1>2, Ranks
  <1>4. Clean(s) = [k \in 1..N |-> s[at(k)]]
    BY DEF Clean
  <1> HIDE DEF K, N, rank
  <1>5. \A k \in 1..N : at(k) \in K /\ rank(at(k)) = k
    BY <1>3
  <1>6. \A i \in K : at(rank(i)) = i
    BY <1>3, <1>5
  <1> HIDE DEF at
  <1>7. \A k \in 1..N : s[at(k)] \in S
    BY <1>1, <1>2, <1>5
  <1>8. Clean(s) \in Seq(S) /\ Len(Clean(s)) = N
    BY <1>3, <1>4, <1>7
  <1>9. \A k \in 1..N : Clean(s)[k] = s[at(k)]
    BY <1>4
  <1>10. /\ \A k \in 1..N : \E i \in K : Clean(s)[k] = s[i]
         /\ \A i \in K : rank(i) \in 1..N /\ Clean(s)[rank(i)] = s[i]
    BY <1>3, <1>5, <1>6, <1>9
  <1> QED
    BY <1>8, <1>10 DEF K, N, rank

\* A path of which every segment says something is clean already.
LEMMA CleanAlready ==
    ASSUME NEW S, NEW s \in Seq(S), Kept(s) = 1..Len(s)
    PROVE  Clean(s) = s
  <1>1. Len(s) \in Nat
    OBVIOUS
  <1>2. ASSUME NEW m \in Nat PROVE Cardinality(1..m) = m
    <2>1. 1 \in Int /\ m \in Int /\ (1 > m => m = 0) /\ (1 <= m => m - 1 + 1 = m)
      OBVIOUS
    <2> QED
      BY <2>1, FS_Interval
  <1>3. ASSUME NEW i \in 1..Len(s) PROVE Clean(s)[i] = s[i]
    <2>1. i \in Nat /\ (1..Len(s)) \cap (1..i) = 1..i
      BY <1>1
    <2>2. Cardinality(Kept(s) \cap (1..i)) = i
      BY <2>1, <1>2
    <2>3. Clean(s)[Cardinality(Kept(s) \cap (1..i))] = s[i]
      BY CleanKeeps
    <2> QED
      BY <2>2, <2>3
  <1>4. Clean(s) \in Seq(S) /\ Len(Clean(s)) = Len(s)
    BY <1>1, <1>2, CleanKeeps
  <1> QED
    BY <1>3, <1>4, SeqEqual
\* What the segments of a request's path may be once its tokens are
\* replaced.
Segments(p) == STRING \cup {p.ns, p.pvc, p.pv, ""}

\* What a token stands for, once it is replaced.
LEMMA Replaced ==
    ASSUME NEW p \in Params
    PROVE  /\ Substituted(p) \in Seq(Segments(p)) /\ DOMAIN Substituted(p) = DOMAIN p.subDir
           /\ \A i \in DOMAIN p.subDir :
                /\ p.subDir[i] \notin TokenNames => Substituted(p)[i] = p.subDir[i]
                /\ p.subDir[i] \in TokenNames /\ Substituted(p)[i] \notin TokenNames =>
                     Substituted(p)[i] # "" /\ Substituted(p)[i] # "."
                /\ p.subDir[i] = "${pvc.namespace}" /\ Substituted(p)[i] \notin TokenNames =>
                     Substituted(p)[i] = p.ns
  <1> DEFINE t(k) == LET s == p.subDir[k]
                     IN  IF s \in TokenNames /\ Metadata(p)[s] # "" THEN Metadata(p)[s] ELSE s
  <1>1. p.subDir \in Seq(STRING) /\ p.ns # "." /\ p.pvc # "." /\ p.pv # "."
    BY ParamsAssumption
  <1>2. /\ Len(p.subDir) \in Nat /\ DOMAIN p.subDir = 1..Len(p.subDir)
        /\ \A k \in DOMAIN p.subDir : p.subDir[k] \in STRING
    BY <1>1
  <1>3. ASSUME NEW s \in TokenNames PROVE Metadata(p)[s] \in {p.ns, p.pvc, p.pv, ""}
    BY DEF Metadata
  <1>4. Metadata(p)["${pvc.namespace}"] \in {p.ns, ""}
    BY DEF Metadata, TokenNames
  <1>5. \A k \in DOMAIN p.subDir : t(k) \in Segments(p)
    BY <1>2, <1>3 DEF Segments
  <1>6. Substituted(p) = [k \in DOMAIN p.subDir |-> t(k)]
    BY DEF Substituted
  <1>7. Substituted(p) \in Seq(Segments(p))
    <2> HIDE DEF t
    <2> QED
      BY <1>2, <1>5, <1>6
  <1>8. DOMAIN Substituted(p) = DOMAIN p.subDir /\ \A i \in DOMAIN p.subDir : Substituted(p)[i] = t(i)
    BY <1>6
  <1>9. "${pvc.namespace}" \in TokenNames
    BY DEF TokenNames
  <1>10. \A s \in TokenNames : Metadata(p)[s] # "."
    BY <1>1, <1>3
  <1> HIDE DEF t
  <1>11. ASSUME NEW i \in DOMAIN p.subDir
         PROVE  /\ p.subDir[i] \notin TokenNames => t(i) = p.subDir[i]
                /\ p.subDir[i] \in TokenNames /\ t(i) \notin TokenNames => t(i) # "" /\ t(i) # "."
                /\ p.subDir[i] = "${pvc.namespace}" /\ t(i) \notin TokenNames => t(i) = p.ns
    BY <1>4, <1>9, <1>10 DEF t
  <1> QED
    BY <1>7, <1>8, <1>11

\* The segments of a path a request was not refused for, before and after
\* it is cleaned.
LEMMA NotRefused ==
    ASSUME NEW p \in Params, ResolveSubDir(p) # Refused, p.subDir # <<>>
    PROVE  /\ ResolveSubDir(p) = Clean(Substituted(p)) /\ ResolveSubDir(p) # <<>>
           /\ \A i \in DOMAIN Substituted(p) :
                ~IsToken(Substituted(p)[i]) /\ Substituted(p)[i] # ".."
  <1> DEFINE sub == Substituted(p)
             bad == \/ \E s \in Range(sub) : IsToken(s) \/ s = ".."
                    \/ Head(sub) = ""
                    \/ Clean(sub) = <<>>
  <1>1. ~bad /\ ResolveSubDir(p) = Clean(sub)
    BY DEF ResolveSubDir
  <1>2. \A i \in DOMAIN sub : sub[i] \in Range(sub)
    BY DEF Range
  <1> QED
    BY <1>1, <1>2
\* The three cases of ConfigFromParams.
NfsConfig(p) ==
    [type |-> "nfs", server |-> p.server, path |-> p.path, options |-> p.options,
     subDir |-> ResolveSubDir(p)]
LocalConfig(p) == [type |-> "local", path |-> p.localPath, shared |-> (p.shared = "true")]
IsNfs(p) == p.type = "nfs" /\ p.server # "" /\ p.path # "" /\ ResolveSubDir(p) # Refused
IsLocal(p) == p.type = "local" /\ p.localPath # "" /\ p.subDir = <<>>

LEMMA ConfigCases ==
    ASSUME NEW p
    PROVE  /\ IsNfs(p) => ConfigFromParams(p) = NfsConfig(p)
           /\ IsLocal(p) => ConfigFromParams(p) = LocalConfig(p)
           /\ ConfigFromParams(p) # NoConfig => IsNfs(p) \/ IsLocal(p)
           /\ NfsConfig(p) # NoConfig /\ LocalConfig(p) # NoConfig
  <1>1. ~(IsNfs(p) /\ IsLocal(p))
    BY DEF IsNfs, IsLocal
  <1>2. NfsConfig(p).type # NoConfig.type /\ LocalConfig(p).type # NoConfig.type
    BY DEF NfsConfig, LocalConfig, NoConfig
  <1>3. ConfigFromParams(p) = CASE IsNfs(p)   -> NfsConfig(p)
                                [] IsLocal(p) -> LocalConfig(p)
                                [] OTHER      -> NoConfig
    BY DEF ConfigFromParams, IsNfs, IsLocal, NfsConfig, LocalConfig
  <1> QED
    BY <1>1, <1>2, <1>3, Zenon
\* The format by the two parameters it depends on.
Format(cipher, keySize, encrypted) ==
    CASE cipher = "" /\ keySize = 0 -> DefaultFormat
      [] ~(cipher = "" /\ keySize = 0)
         /\ encrypted /\ cipher # "bad" /\ keySize % 8 = 0
         /\ (cipher # "" => keySize # 0) ->
            [cipher |-> IF cipher = "" THEN DefaultFormat.cipher ELSE cipher,
             keySize |-> IF keySize = 0 THEN DefaultFormat.keySize ELSE keySize]
      [] OTHER -> NoFormat

LEMMA FormatCases ==
    ASSUME NEW p
    PROVE  /\ \A e : FormatFromParams(p, e) = Format(p.cipher, p.keySize, e)
           /\ Format(p.cipher, p.keySize, FALSE) # NoFormat => p.cipher = "" /\ p.keySize = 0
           /\ \A e : Format("", 0, e) = DefaultFormat
  <1>1. \A e : FormatFromParams(p, e) = Format(p.cipher, p.keySize, e)
    BY DEF FormatFromParams, Format
  <1>2. Format(p.cipher, p.keySize, FALSE) # NoFormat => p.cipher = "" /\ p.keySize = 0
    BY Zenon DEF Format
  <1>3. \A e : Format("", 0, e) = DefaultFormat
    BY Zenon DEF Format
  <1> QED
    BY <1>1, <1>2, <1>3

\* A subDir that was resolved resolves to itself.
LEMMA ResolvedAgain ==
    ASSUME NEW p \in Params, ResolveSubDir(p) # Refused, NEW q,
           q.subDir = ResolveSubDir(p), q.extra = FALSE
    PROVE  ResolveSubDir(q) = ResolveSubDir(p)
  <1> DEFINE r == ResolveSubDir(p)
  <1>1. CASE p.subDir = <<>>
    BY <1>1 DEF ResolveSubDir
  <1>2. CASE p.subDir # <<>>
    <2>1. /\ r = Clean(Substituted(p)) /\ r # <<>>
          /\ \A i \in DOMAIN Substituted(p) :
               ~IsToken(Substituted(p)[i]) /\ Substituted(p)[i] # ".."
      BY <1>2, NotRefused
    <2>2. Substituted(p) \in Seq(Segments(p))
      BY Replaced
    <2>3. /\ r \in Seq(Segments(p))
          /\ \A k \in 1..Len(r) : \E i \in Kept(Substituted(p)) : r[k] = Substituted(p)[i]
      BY <2>1, <2>2, CleanKeeps
    <2>4. DOMAIN r = 1..Len(r) /\ Len(r) \in Nat
      BY <2>3
    <2> HIDE DEF r
    <2>5. \A k \in DOMAIN r : r[k] # "" /\ r[k] # "." /\ ~IsToken(r[k]) /\ r[k] # ".."
      <3>1. \A i \in Kept(Substituted(p)) :
              /\ Substituted(p)[i] # "" /\ Substituted(p)[i] # "."
              /\ ~IsToken(Substituted(p)[i]) /\ Substituted(p)[i] # ".."
        BY <2>1 DEF Kept
      <3>2. \A k \in DOMAIN r : \E i \in Kept(Substituted(p)) : r[k] = Substituted(p)[i]
        BY <2>3, <2>4
      <3> QED
        BY <3>1, <3>2, Zenon
    <2>6. Substituted(q) = [k \in DOMAIN r |-> r[k]]
      <3>1. \A k \in DOMAIN r : r[k] \notin TokenNames
        BY <2>5 DEF IsToken
      <3> QED
        BY <3>1 DEF Substituted, r
    <2>7. Substituted(q) = r
      BY <2>3, <2>6
    <2>8. Clean(r) = r
      <3>1. Kept(r) = 1..Len(r)
        BY <2>4, <2>5 DEF Kept
      <3> QED
        BY <3>1, <2>3, CleanAlready
    <2>9. Head(r) # ""
      <3>1. Head(r) = r[1] /\ 1 \in DOMAIN r
        BY <2>1, <2>3, <2>4, EmptySeq
      <3> QED
        BY <3>1, <2>5
    <2>10. ~ \E s \in Range(r) : IsToken(s) \/ s = ".."
      BY <2>5 DEF Range
    <2> QED
      BY <2>1, <2>7, <2>8, <2>9, <2>10 DEF ResolveSubDir, r
  <1> QED
    BY <1>1, <1>2
\* The node reads what the controller read.
LEMMA NodeReads ==
    ASSUME NEW p \in Params, Accepted(p)
    PROVE  NodeReadsTheSame(p)
  <1> DEFINE vc == VolumeContext(p)
             c == ConfigFromParams(p)
  <1>1. c # NoConfig /\ FormatFromParams(p, Encrypted(p)) # NoFormat
    BY DEF Accepted
  <1>2. ConfigFromParams(vc) = c
    <2>1. CASE IsNfs(p)
      <3>1. c = NfsConfig(p)
        BY <2>1, ConfigCases
      <3>2. /\ vc.type = "nfs" /\ vc.server = p.server /\ vc.path = p.path
            /\ vc.options = p.options /\ vc.subDir = ResolveSubDir(p) /\ vc.extra = FALSE
        BY <3>1 DEF VolumeContext, NfsConfig, SubDirOf
      <3> HIDE DEF vc
      <3>3. ResolveSubDir(vc) = ResolveSubDir(p)
        BY <2>1, <3>2, ResolvedAgain DEF IsNfs
      <3>4. IsNfs(vc) /\ NfsConfig(vc) = NfsConfig(p)
        BY <2>1, <3>2, <3>3 DEF IsNfs, NfsConfig
      <3> QED
        BY <3>1, <3>4, ConfigCases
    <2>2. CASE IsLocal(p)
      <3>1. c = LocalConfig(p)
        BY <2>2, ConfigCases
      <3>2. c.type = "local" /\ c.path = p.localPath /\ c.shared = (p.shared = "true")
        BY <3>1 DEF LocalConfig
      <3>3. vc.type = "local" /\ vc.localPath = p.localPath /\ vc.subDir = <<>>
        BY <3>2 DEF VolumeContext, SubDirOf
      <3>4. vc.shared = IF p.shared = "true" THEN "true" ELSE ""
        BY <3>2 DEF VolumeContext
      <3> HIDE DEF vc
      <3>5. IsLocal(vc)
        BY <2>2, <3>3 DEF IsLocal
      <3>6. LocalConfig(vc) = LocalConfig(p)
        BY <3>3, <3>4 DEF LocalConfig
      <3> QED
        BY <3>1, <3>5, <3>6, ConfigCases
    <2> QED
      BY <1>1, <2>1, <2>2, ConfigCases
  <1>3. /\ vc.encrypted = (IF Encrypted(p) THEN "true" ELSE "")
        /\ vc.cipher = (IF Encrypted(p) THEN p.cipher ELSE "")
        /\ vc.keySize = (IF Encrypted(p) THEN p.keySize ELSE 0)
    BY DEF VolumeContext
  <1> HIDE DEF vc, c
  <1>4. ValidEncrypted(vc) /\ Encrypted(vc) = Encrypted(p)
    BY <1>3 DEF ValidEncrypted, Encrypted
  <1>5. FormatFromParams(vc, Encrypted(vc)) = FormatFromParams(p, Encrypted(p))
    <2>1. CASE Encrypted(p)
      BY <2>1, <1>3, <1>4, FormatCases
    <2>2. CASE ~Encrypted(p)
      <3>1. Encrypted(p) = FALSE
        BY <2>2 DEF Encrypted
      <3>2. p.cipher = "" /\ p.keySize = 0
        BY <1>1, <3>1, FormatCases
      <3> QED
        BY <2>2, <3>2, <1>3, <1>4, FormatCases
    <2> QED
      BY <2>1, <2>2
  <1> QED
    BY <1>1, <1>2, <1>4, <1>5 DEF NodeReadsTheSame, Accepted, vc, c

\* Where the class names the namespace, two namespaces do not meet.
LEMMA NamespacesApart ==
    ASSUME NEW p \in Params, NEW q \in Params, Accepted(p), Accepted(q)
    PROVE  ~NamespacesMix(p, q)
  <1> SUFFICES ASSUME NamespacesMix(p, q) PROVE FALSE
    OBVIOUS
  <1> DEFINE sp == Substituted(p)
             sq == Substituted(q)
  <1>1. PICK i \in DOMAIN p.subDir : p.subDir[i] = "${pvc.namespace}"
    BY DEF NamespacesMix, Range
  <1>2. q.subDir = p.subDir /\ p.ns # q.ns /\ p.subDir # <<>>
    <2>1. p.subDir \in Seq(STRING)
      BY ParamsAssumption
    <2>2. p.subDir # <<>>
      <3>1. i \in 1..Len(p.subDir)
        BY <2>1, LenProperties
      <3>2. Len(p.subDir) # 0
        BY <3>1
      <3> QED
        BY <3>2
    <2> QED
      BY <2>2 DEF NamespacesMix
  <1>3. ASSUME NEW x \in {p, q}
        PROVE  /\ x \in Params /\ x.subDir # <<>> /\ IsNfs(x)
               /\ ConfigFromParams(x) = NfsConfig(x)
    <2>1. x \in Params /\ Accepted(x) /\ x.type = "nfs" /\ x.subDir # <<>>
      BY <1>2 DEF NamespacesMix
    <2> QED
      BY <2>1, ConfigCases DEF Accepted, IsLocal
  <1>4. ASSUME NEW x \in {p, q}
        PROVE  /\ ResolveSubDir(x) = Clean(Substituted(x)) /\ ResolveSubDir(x) # <<>>
               /\ \A k \in DOMAIN Substituted(x) : Substituted(x)[k] \notin TokenNames
    <2>1. x \in Params /\ x.subDir # <<>> /\ ResolveSubDir(x) # Refused
      BY <1>3 DEF IsNfs
    <2> QED
      BY <2>1, NotRefused DEF IsToken
  <1>5. ResolveSubDir(p) = ResolveSubDir(q)
    <2>1. ASSUME NEW x \in {p, q}
          PROVE  StoreID(ConfigFromParams(x))[5] = ResolveSubDir(x)
      <3> DEFINE c == NfsConfig(x)
      <3>1. c.type = "nfs" /\ c.subDir = ResolveSubDir(x) /\ SubDirOf(c) # <<>>
        BY <1>4 DEF NfsConfig, SubDirOf
      <3> HIDE DEF c
      <3>2. StoreID(c) = Append(<<"nfs", c.server, c.path, CanonicalOptions(c.options)>>, c.subDir)
        BY <3>1 DEF StoreID, MountID
      <3>3. StoreID(c)[5] = ResolveSubDir(x)
        BY <3>1, <3>2, AppendToFour
      <3> QED
        BY <3>3, <1>3 DEF c
    <2> QED
      BY <2>1 DEF NamespacesMix
  <1>6. ASSUME NEW x \in {p, q}
        PROVE  /\ Substituted(x) \in Seq(Segments(x)) /\ DOMAIN Substituted(x) = DOMAIN p.subDir
               /\ Kept(Substituted(x)) =
                    {k \in DOMAIN p.subDir : p.subDir[k] \in TokenNames \/ p.subDir[k] \notin {"", "."}}
               /\ Substituted(x)[i] = x.ns
    <2>1. x \in Params /\ x.subDir = p.subDir
      BY <1>2
    <2>2. /\ Substituted(x) \in Seq(Segments(x)) /\ DOMAIN Substituted(x) = DOMAIN p.subDir
          /\ \A k \in DOMAIN p.subDir :
               /\ p.subDir[k] \notin TokenNames => Substituted(x)[k] = p.subDir[k]
               /\ p.subDir[k] \in TokenNames => Substituted(x)[k] # "" /\ Substituted(x)[k] # "."
               /\ p.subDir[k] = "${pvc.namespace}" => Substituted(x)[k] = x.ns
      BY <2>1, <1>4, Replaced
    <2> QED
      BY <2>2, <1>1 DEF Kept
  <1>7. Kept(sp) = Kept(sq) /\ i \in Kept(sp)
    BY <1>1, <1>6 DEF TokenNames
  <1>8. ASSUME NEW x \in {p, q}
        PROVE  Clean(Substituted(x))[Cardinality(Kept(sp) \cap (1..i))] = x.ns
    <2>1. Kept(Substituted(x)) = Kept(sp) /\ i \in Kept(Substituted(x))
      BY <1>7
    <2>2. Clean(Substituted(x))[Cardinality(Kept(Substituted(x)) \cap (1..i))] = Substituted(x)[i]
      BY <2>1, <1>6, CleanKeeps
    <2> QED
      BY <2>1, <2>2, <1>6
  <1> QED
    BY <1>2, <1>4, <1>5, <1>8

\* Every store handed out is one the node finds again from the volume
\* context, with the format asked for, and one no two namespaces share
\* where the class keeps them apart, whatever the classes and claims are
\* (parse.go resolveSubDir, ToVolumeContext; encryption.go
\* formatToVolumeContext).
THEOREM PlacedRight == Spec => []Placement
  <1>1. Misplaced = {}
    BY NodeReads, NamespacesApart DEF Misplaced
  <1>2. Placement
    BY <1>1 DEF Placement
  <1> QED
    BY <1>2, PTL

=============================================================================
