----------------------- MODULE ControllerImages_proofs -----------------------
(***************************************************************************)
(* Proofs about ControllerImages, for any volumes, ranges, older images    *)
(* and number of handlers: its types, that a bound volume keeps an image   *)
(* of its size and its filesystem, that a deleted one leaves none behind,  *)
(* that images do not shrink and that answers are in the range asked for.  *)
(* The arithmetic of Capacity comes first, for every block size, integer   *)
(* width and capacity range: a size that alignedCapacity returns is one    *)
(* the caller asked for and a whole number of blocks, and a range is       *)
(* turned down only when no such size is in it, unless rounding up         *)
(* overflows.                                                              *)
(*                                                                         *)
(* Handlers take no lock.  What keeps them apart are the sidecars: of the  *)
(* handlers of a volume, at most one of csi-provisioner's and one of       *)
(* csi-resizer's is not late.  Without timeouts none is late; what such a  *)
(* handler found when it looked is there when it acts, except that a       *)
(* delete may take the file from under an expand.                          *)
(***************************************************************************)
EXTENDS ControllerImages, WellFoundedInduction, TLAPS

-----------------------------------------------------------------------------
(* Capacity ranges and sector sizes. *)

\* What division by a positive number leaves.
LEMMA DivFacts ==
    ASSUME NEW n \in Nat, NEW d \in Nat \ {0}
    PROVE  /\ n \div d \in Nat
           /\ (n \div d) * d \in Nat
           /\ (n \div d) * d <= n
           /\ n < (n \div d) * d + d
OBVIOUS

\* Multiplication by a positive number keeps the order.
LEMMA MulMono ==
    ASSUME NEW a \in Int, NEW b \in Int, NEW d \in Nat \ {0}, a * d < b * d
    PROVE a < b
OBVIOUS

\* A sum that fits is kept,
LEMMA WrapSmall ==
    ASSUME NEW n \in Int64
    PROVE  Wrap(n) = n
BY CapacityAssumption DEF Wrap, Int64

\* one that does not comes out negative.
LEMMA WrapLarge ==
    ASSUME NEW n \in Int, n > MaxInt, n <= 2 * MaxInt
    PROVE  Wrap(n) = n - 2 * (MaxInt + 1)
BY CapacityAssumption DEF Wrap

\* AlignUp of a size more than a block below the largest: the next multiple.
LEMMA AlignUpSmall ==
    ASSUME NEW n \in Int, n >= 1, n <= MaxInt - BlockSize + 1
    PROVE  /\ AlignUp(n) \in Nat
           /\ AlignUp(n) >= n
           /\ AlignUp(n) < n + BlockSize
           /\ \E i \in Nat : AlignUp(n) = i * BlockSize
<1> DEFINE m == n + BlockSize - 1
<1>1. m \in Int64 /\ m \in Nat /\ BlockSize \in Nat \ {0} /\ MaxInt \in Nat
  BY CapacityAssumption DEF Int64
<1>2. Wrap(m) = m
  BY <1>1, WrapSmall
<1>3. AlignUp(n) = (m \div BlockSize) * BlockSize
  <2>1. AlignUp(n) = Quotient(Wrap(m), BlockSize) * BlockSize
    BY DEF AlignUp
  <2>2. m >= 0
    BY <1>1
  <2> HIDE DEF m
  <2>3. Quotient(m, BlockSize) = m \div BlockSize
    BY <2>2 DEF Quotient
  <2>. QED
    BY <1>2, <2>1, <2>3
<1>4. /\ m \div BlockSize \in Nat
      /\ (m \div BlockSize) * BlockSize \in Nat
      /\ (m \div BlockSize) * BlockSize <= m
      /\ m < (m \div BlockSize) * BlockSize + BlockSize
  <2> HIDE DEF m
  <2>. QED BY <1>1, DivFacts
<1>. HIDE DEF m
<1>5. AlignUp(n) >= n /\ AlignUp(n) < n + BlockSize
  BY <1>1, <1>3, <1>4 DEF m
<1>. QED
  BY <1>3, <1>4, <1>5

\* AlignUp of a size in the last block overflows.
LEMMA AlignUpLarge ==
    ASSUME NEW n \in Int, n > MaxInt - BlockSize + 1, n <= MaxInt
    PROVE  AlignUp(n) \in Int /\ AlignUp(n) < 0
<1> DEFINE w == n + BlockSize - 1 - 2 * (MaxInt + 1)
<1>1. Wrap(n + BlockSize - 1) = w
  BY WrapLarge, CapacityAssumption
<1>2. w \in Int /\ w < 0 /\ 0 - w >= BlockSize
  BY CapacityAssumption
<1>3. (0 - w) \div BlockSize \in Nat /\ (0 - w) \div BlockSize >= 1
  BY <1>2, CapacityAssumption
<1>4. AlignUp(n) = (0 - ((0 - w) \div BlockSize)) * BlockSize
  BY <1>1, <1>2 DEF AlignUp, Quotient
<1>. QED
  BY <1>3, <1>4, CapacityAssumption

\* AlignDown of a limit: the multiple below it.
LEMMA AlignDownFacts ==
    ASSUME NEW n \in Nat
    PROVE  /\ AlignDown(n) \in Nat
           /\ AlignDown(n) <= n
           /\ n < AlignDown(n) + BlockSize
           /\ \E i \in Nat : AlignDown(n) = i * BlockSize
<1>1. BlockSize \in Nat \ {0}
  BY CapacityAssumption
<1>2. AlignDown(n) = (n \div BlockSize) * BlockSize
  BY <1>1 DEF AlignDown, Quotient
<1>. QED
  BY <1>1, <1>2, DivFacts

\* What is wanted is a positive int64.
LEMMA WantedFacts ==
    ASSUME NEW r \in Range64
    PROVE  /\ r.required \in Int /\ r.limit \in Int
           /\ r.required <= MaxInt /\ r.limit <= MaxInt
           /\ Wanted(r) \in Int /\ Wanted(r) >= 1 /\ Wanted(r) <= MaxInt
           /\ r.required > 0 => Wanted(r) = r.required
BY CapacityAssumption DEF Wanted, Range64, Int64

\* A size alignedCapacity returns, other than the negative one an overflow
\* leaves and CreateSparse refuses, is within what the caller asked for,
\* fits an int64 and is a whole number of blocks.
THEOREM AlignedInRange ==
    ASSUME NEW r \in Range64, AlignedCapacity(r) > 0
    PROVE  /\ InRange(AlignedCapacity(r), r)
           /\ AlignedCapacity(r) <= MaxInt
           /\ \E i \in Nat : AlignedCapacity(r) = i * BlockSize
<1> DEFINE up == AlignUp(Wanted(r))
           down == AlignDown(r.limit)
<1>0. BlockSize \in Nat \ {0} /\ MaxInt \in Nat
  BY CapacityAssumption
<1>1. CASE Wanted(r) > MaxInt - BlockSize + 1
  <2>1. up < 0 /\ up \in Int
    BY <1>0, <1>1, WantedFacts, AlignUpLarge
  <2>2. AlignedCapacity(r) = up
    BY <2>1, WantedFacts DEF AlignedCapacity
  <2>. QED
    BY <2>1, <2>2
<1>2. CASE Wanted(r) <= MaxInt - BlockSize + 1
  <2>1. /\ up \in Nat /\ up >= Wanted(r) /\ up < Wanted(r) + BlockSize
        /\ \E i \in Nat : up = i * BlockSize
    BY <1>2, WantedFacts, AlignUpSmall
  <2>2. CASE r.limit > 0 /\ up > r.limit
    <3>1. down <= r.limit /\ down \in Nat /\ \E i \in Nat : down = i * BlockSize
      BY <2>2, WantedFacts, AlignDownFacts
    <3>2. AlignedCapacity(r) = IF down = 0 \/ down < r.required THEN 0 ELSE down
      BY <2>2 DEF AlignedCapacity, OutOfRange
    <3>3. AlignedCapacity(r) = down /\ down >= r.required
      BY <3>1, <3>2, WantedFacts
    <3>. QED
      BY <1>0, <3>1, <3>3, <2>2, WantedFacts DEF InRange
  <2>3. CASE ~(r.limit > 0 /\ up > r.limit)
    <3>1. AlignedCapacity(r) = up
      BY <2>3 DEF AlignedCapacity
    <3>. QED
      BY <1>0, <1>2, <3>1, <2>1, <2>3, WantedFacts DEF InRange
  <2>. QED
    BY <2>2, <2>3
<1>. QED
  BY <1>0, <1>1, <1>2, WantedFacts

\* alignedCapacity turns a range down only when it holds no whole number of
\* blocks that is at least the size required, so no request that could have
\* been met is refused as OutOfRange.
THEOREM RefusedOnlyIfNone ==
    ASSUME NEW r \in Range64, AlignedCapacity(r) = OutOfRange,
           NEW i \in Nat \ {0}
    PROVE  ~InRange(i * BlockSize, r)
<1> DEFINE up == AlignUp(Wanted(r))
           down == AlignDown(r.limit)
           bytes == i * BlockSize
<1>0. BlockSize \in Nat \ {0} /\ MaxInt \in Nat
  BY CapacityAssumption
<1>1. bytes \in Nat /\ bytes >= BlockSize
  BY <1>0
<1>2. up \in Int /\ up # 0
  <2>1. CASE Wanted(r) > MaxInt - BlockSize + 1
    BY <1>0, <2>1, WantedFacts, AlignUpLarge
  <2>2. CASE Wanted(r) <= MaxInt - BlockSize + 1
    BY <2>2, WantedFacts, AlignUpSmall
  <2>. QED
    BY <1>0, <2>1, <2>2, WantedFacts
<1>3. r.limit > 0 /\ up > r.limit
  BY <1>2 DEF AlignedCapacity, OutOfRange
<1>4. down = 0 \/ down < r.required
  BY <1>3 DEF AlignedCapacity, OutOfRange
<1>5. PICK j \in Nat : down = j * BlockSize
  BY <1>3, WantedFacts, AlignDownFacts
<1>6. down <= r.limit /\ r.limit < down + BlockSize /\ down \in Nat
  BY <1>3, WantedFacts, AlignDownFacts
<1>7. SUFFICES ASSUME InRange(bytes, r) PROVE FALSE
  OBVIOUS
<1>8. bytes <= r.limit /\ (r.required > 0 => bytes >= r.required)
  BY <1>3, <1>7 DEF InRange
<1>9. bytes < (j + 1) * BlockSize
  BY <1>0, <1>1, <1>5, <1>6, <1>8, WantedFacts
<1>10. i < j + 1
  BY <1>0, <1>9, MulMono
<1>11. bytes <= down
  BY <1>0, <1>5, <1>10
<1>12. down # 0
  BY <1>0, <1>1, <1>11, <1>6
<1>. QED
  BY <1>1, <1>4, <1>6, <1>8, <1>11, <1>12, WantedFacts

-----------------------------------------------------------------------------
(* Divisibility. *)

Divides(d, n) == n % d = 0

LEMMA DividesIff ==
    ASSUME NEW d \in Nat \ {0}, NEW n \in Int
    PROVE  Divides(d, n) <=> \E k \in Int : n = k * d
<1>1. n = (n \div d) * d + (n % d) /\ n \div d \in Int
  OBVIOUS
<1>2. ASSUME NEW k \in Int, n = k * d PROVE n % d = 0
  BY <1>2
<1>3. n % d = 0 => n = (n \div d) * d
  BY <1>1
<1>4. n % d = 0 <=> \E k \in Int : n = k * d
  BY <1>1, <1>2, <1>3
<1>. QED
  BY <1>4 DEF Divides

LEMMA DividesTrans ==
    ASSUME NEW d \in Nat \ {0}, NEW e \in Nat \ {0}, NEW n \in Int, Divides(d, e), Divides(e, n)
    PROVE  Divides(d, n)
<1>0. e \in Int
  OBVIOUS
<1>1. PICK i \in Int : e = i * d
  BY <1>0, DividesIff
<1>2. PICK j \in Int : n = j * e
  BY DividesIff
<1>3. n = (j * i) * d /\ j * i \in Int
  BY <1>1, <1>2
<1>. QED
  BY <1>3, DividesIff

LEMMA DividesSum ==
    ASSUME NEW d \in Nat \ {0}, NEW m \in Int, NEW n \in Int, Divides(d, m), Divides(d, n)
    PROVE  Divides(d, m + n)
<1>1. PICK i \in Int : m = i * d
  BY DividesIff
<1>2. PICK j \in Int : n = j * d
  BY DividesIff
<1>3. m + n = (i + j) * d /\ i + j \in Int
  BY <1>1, <1>2
<1>. QED
  BY <1>3, DividesIff

LEMMA DividesAtMost ==
    ASSUME NEW d \in Nat \ {0}, NEW n \in Nat \ {0}, Divides(d, n)
    PROVE  d <= n
<1>1. PICK k \in Int : n = k * d
  BY DividesIff
<1>2. 0 * d < k * d
  BY <1>1
<1>3. 0 < k
  BY <1>2, MulMono
<1>. QED
  BY <1>1, <1>3

-----------------------------------------------------------------------------
(* SectorSizeFor: induction along the halvings, as a least counterexample. *)

LEMMA LeastNat ==
    ASSUME NEW T, T \subseteq Nat, T # {}
    PROVE  \E x \in T : \A y \in T : x <= y
<1>1. PICK x \in T : \A y \in T : ~(<<y, x>> \in OpToRel(<, Nat))
  <2> DEFINE R == OpToRel(<, Nat)
  <2>1. IsWellFoundedOn(R, Nat)
    BY NatLessThanWellFounded
  <2> HIDE DEF R
  <2>2. \E x \in T : \A y \in T : ~(<<y, x>> \in R)
    BY <2>1, WFMin
  <2>. QED
    BY <2>2 DEF R
<1>2. \A y \in T : ~(y < x)
  BY <1>1 DEF OpToRel
<1>. QED
  BY <1>2

\* The loop of SectorSizeFor ends: its recursion defines a function.
LEMMA HalveExists ==
    ASSUME NEW n \in Nat, NEW imageSize \in Nat
    PROVE  \E f : f = [t \in 0..n |->
                         IF t > MinSector /\ imageSize % t # 0 THEN f[t \div 2] ELSE t]
<1> DEFINE c(t) == t > MinSector /\ imageSize % t # 0
           Defines(f, m) == f = [t \in 0..m |-> IF c(t) THEN f[t \div 2] ELSE t]
           T == {m \in Nat : ~\E f : Defines(f, m)}
<1>0. MinSector \in Nat /\ MinSector >= 1
  BY CapacityAssumption
<1>1. SUFFICES T = {}
  OBVIOUS
<1>2. SUFFICES ASSUME T # {} PROVE FALSE
  OBVIOUS
<1>3. PICK x \in T : \A y \in T : x <= y
  <2>1. T \subseteq Nat
    OBVIOUS
  <2> HIDE DEF T
  <2>. QED
    BY <1>2, <2>1, LeastNat
<1>4. x \in Nat /\ ~\E f : Defines(f, x)
  OBVIOUS
<1>5. CASE x = 0
  <2> DEFINE f == [t \in 0..0 |-> t]
  <2>1. ~c(0)
    BY <1>0
  <2>2. Defines(f, 0)
    BY <2>1
  <2>. QED
    BY <1>4, <1>5, <2>2
<1>6. CASE x # 0
  <2>1. x - 1 \in Nat /\ x - 1 \notin T
    BY <1>3, <1>4, <1>6
  <2>2. PICK f : Defines(f, x - 1)
    BY <2>1
  <2> DEFINE g == [t \in 0..x |-> IF t < x THEN f[t] ELSE IF c(x) THEN f[x \div 2] ELSE x]
  <2>3. \A t \in 0..x : c(t) => t \div 2 \in 0..(x - 1) /\ t \div 2 < t
    BY <1>0, <1>4, <1>6
  <2>4. \A t \in 0..x : g[t] = IF c(t) THEN g[t \div 2] ELSE t
    <3>1. \A t \in 0..(x - 1) : f[t] = IF c(t) THEN f[t \div 2] ELSE t
      BY <2>2
    <3>2. \A t \in 0..(x - 1) : g[t] = f[t]
      BY <1>4
    <3>3. g[x] = IF c(x) THEN f[x \div 2] ELSE x
      BY <1>4
    <3>4. \A t \in 0..x : t = x \/ t \in 0..(x - 1)
      BY <1>4
    <3> HIDE DEF g, c
    <3>. QED
      BY <1>4, <2>3, <3>1, <3>2, <3>3, <3>4
  <2>5. Defines(g, x)
    <3> DEFINE h == [t \in 0..x |-> IF c(t) THEN g[t \div 2] ELSE t]
    <3>1. \A t \in 0..x : g[t] = h[t]
      BY <2>4
    <3>2. g = h
      BY <3>1
    <3>. QED
      BY <3>2
  <2>. QED
    BY <1>4, <2>5
<1>. QED
  BY <1>5, <1>6

\* An image is attached with sectors that divide it, or, where none of the
\* halvings does, with the smallest; and they divide the blocks its format
\* records, so that the kernel can mount it (losetup.go SectorSizeFor).
THEOREM SectorFits ==
    ASSUME NEW recorded \in 0..BlockSize, NEW imageSize \in Nat,
           recorded # 0 => Divides(recorded, BlockSize)
    PROVE  /\ SectorSizeFor(recorded, imageSize) \in 1..BlockSize
           /\ \/ Divides(SectorSizeFor(recorded, imageSize), imageSize)
              \/ SectorSizeFor(recorded, imageSize) <= MinSector
           /\ Divides(SectorSizeFor(recorded, imageSize),
                      IF recorded = 0 THEN BlockSize ELSE recorded)
<1> DEFINE first == IF recorded <= 0 THEN BlockSize ELSE recorded
           c(t) == t > MinSector /\ imageSize % t # 0
           halve[t \in 0..first] == IF c(t) THEN halve[t \div 2] ELSE t
           Good(t) == halve[t] \in 1..t /\ ~c(halve[t]) /\ Divides(halve[t], t)
           T == {t \in 1..first : Divides(t, BlockSize) /\ ~Good(t)}
<1>0. /\ MinSector \in Nat /\ MinSector >= 1 /\ BlockSize \in Nat \ {0}
      /\ first \in Nat /\ first >= 1 /\ first <= PageSize /\ PageSize \in Nat /\ first <= BlockSize
  BY CapacityAssumption
<1>1. Divides(first, BlockSize)
  BY <1>0, DividesIff
<1>2. SectorSizeFor(recorded, imageSize) = halve[first]
  BY <1>0 DEF SectorSizeFor
<1>3. halve = [t \in 0..first |-> IF c(t) THEN halve[t \div 2] ELSE t]
  <2> HIDE DEF first
  <2>1. \E f : f = [t \in 0..first |-> IF c(t) THEN f[t \div 2] ELSE t]
    BY <1>0, HalveExists
  <2>. QED
    BY <2>1
<1> HIDE DEF halve
<1>4. \A t \in 1..first : halve[t] = IF c(t) THEN halve[t \div 2] ELSE t
  BY <1>0, <1>3
<1>5. T = {}
  <2> SUFFICES ASSUME T # {} PROVE FALSE
    OBVIOUS
  <2>1. PICK x \in T : \A y \in T : x <= y
    <3>1. T \subseteq Nat
      BY <1>0
    <3> HIDE DEF T
    <3>. QED
      BY <3>1, LeastNat
  <2>2. x \in 1..first /\ Divides(x, BlockSize) /\ ~Good(x)
    OBVIOUS
  <2>3. CASE ~c(x)
    <3>1. halve[x] = x
      BY <1>4, <2>2, <2>3
    <3>2. Divides(x, x)
      BY <1>0, <2>2, DividesIff
    <3>. QED
      BY <1>0, <2>2, <2>3, <3>1, <3>2
  <2>4. CASE c(x)
    <3>1. x % 2 = 0
      BY <1>0, <2>2, <2>4, CapacityAssumption DEF Divides
    <3>2. x \div 2 \in 1..first /\ x \div 2 < x /\ x = 2 * (x \div 2)
      BY <1>0, <2>2, <2>4, <3>1
    <3> DEFINE y == x \div 2
    <3> HIDE DEF y
    <3>3. y \in 1..first /\ y < x /\ x = 2 * y
      BY <3>2 DEF y
    <3>4. Divides(y, x)
      BY <1>0, <3>3, DividesIff
    <3>5. Divides(y, BlockSize)
      BY <1>0, <2>2, <3>3, <3>4, DividesTrans
    <3>6. Good(y)
      BY <1>0, <2>1, <2>2, <3>3, <3>5
    <3>7. halve[x] = halve[y]
      BY <1>4, <2>2, <2>4 DEF y
    <3>8. Divides(halve[y], x)
      BY <1>0, <3>3, <3>4, <3>6, DividesTrans
    <3>9. halve[x] \in 1..x /\ ~c(halve[x]) /\ Divides(halve[x], x)
      BY <1>0, <2>2, <3>3, <3>6, <3>7, <3>8
    <3>. QED
      BY <2>2, <3>9
  <2>. QED
    BY <2>3, <2>4
<1>6. Good(first)
  BY <1>0, <1>5, <1>1
<1>7. halve[first] \in 1..BlockSize
  BY <1>0, <1>6
<1>. QED
  BY <1>0, <1>2, <1>6, <1>7 DEF Divides

-----------------------------------------------------------------------------
(* The inductive invariant. *)

\* What a handler is working on, and what it was checked for.
CallInv ==
    \A h \in Handlers :
      /\ at[h] # "idle" => vol[h] \in Names
      /\ at[h] \in {"stat", "truncate", "mkfs", "grow", "reply", "e_reply"} => Asked(h) > 0
      /\ at[h] = "e_stat" => Asked(h) # 0
      /\ at[h] \in {"mkfs", "remove"} => vol[h] \notin encrypted
      /\ at[h] \in {"stat", "truncate", "mkfs", "remove", "unlink", "e_stat", "grow", "reply"} => known

\* The sidecars: what is outstanding for a volume, by its state.
SidecarInv ==
    /\ \A h \in Handlers :
         /\ at[h] \in DeleteSteps \cup {"d_reply"} => pv[vol[h]] \in {"released", "deleted"}
         /\ at[h] \in Resizing => pv[vol[h]] # "none"
    /\ \A h \in Handlers \ late :
         /\ at[h] \in CreateSteps \cup {"reply"} => pv[vol[h]] = "none"
         /\ at[h] \in DeleteSteps \cup {"d_reply"} => pv[vol[h]] = "released"
         /\ at[h] \in Resizing => pv[vol[h]] = "bound" \/ "overlap" \in happened
    /\ \A g, h \in Handlers \ late :
         /\ at[g] \in Provisioning /\ at[h] \in Provisioning /\ vol[g] = vol[h] => g = h
         /\ at[g] \in Resizing /\ at[h] \in Resizing /\ vol[g] = vol[h] => g = h
    /\ "timeout" \notin happened => late = {}
    /\ "restart" \notin happened => \A n \in Names : pv[n] # "none" => known

\* Sizes, whatever happens: room for a LUKS header and a block behind it,
\* and filesystems in whole blocks.
SizeInv ==
    /\ \A n \in encrypted : size[n] > 0 => size[n] >= MinEncrypted
    /\ \A n \in encrypted : pv[n] = "bound" => acked[n] >= MinEncrypted
    /\ \A h \in Handlers :
         at[h] \in {"stat", "truncate", "reply"} \cup Resizing /\ vol[h] \in encrypted =>
           Asked(h) <= 0 \/ Asked(h) >= MinEncrypted
    /\ \A n \in Names :
         IF block[n] = 0 THEN fs[n] = 0 ELSE Divides(block[n], BlockSize) /\ Divides(block[n], fs[n])
    /\ \A n \in Names : pv[n] = "none" => size[n] <= 0 \/ size[n] >= BlockSize
    /\ \A h \in Handlers : at[h] \in CreateSteps => size[vol[h]] <= 0 \/ size[vol[h]] >= BlockSize

\* Encrypted volumes, whatever happens.
EncryptedInv ==
    \A n \in encrypted :
      /\ pv[n] = "bound" => size[n] > 0
      /\ \A h \in Handlers \ late : at[h] = "reply" /\ vol[h] = n => size[n] > 0

\* What a volume's image holds besides its filesystem.
Overhead(n) == IF n \in encrypted THEN Header ELSE 0

\* Sizes, without timeouts.
ImageInv ==
    "timeout" \notin happened =>
      /\ \A h \in Handlers :
           /\ at[h] = "truncate" => size[vol[h]] = Absent
           /\ at[h] = "mkfs" => size[vol[h]] = Asked(h)
           /\ at[h] = "grow" => size[vol[h]] < Asked(h)
           /\ at[h] = "reply" => size[vol[h]] >= Asked(h)
           /\ at[h] = "e_reply" => size[vol[h]] >= Asked(h) \/ (size[vol[h]] = Absent /\ pv[vol[h]] # "bound")
           /\ at[h] \in Resizing => Asked(h) <= 0 \/ Asked(h) >= acked[vol[h]]
      /\ BoundHasImage
      /\ \A n \in Names :
           /\ pv[n] # "none" /\ size[n] > 0 => size[n] >= acked[n]
           /\ pv[n] # "none" /\ size[n] = 0 => "overlap" \in happened
           /\ fs[n] > 0 => fs[n] + Overhead(n) <= size[n]

\* Filesystems, without timeouts, restarts and failed removes: only a create
\* at work leaves an image without one, or an expand that makes it anew.
FormatInv ==
    happened \cap {"restart", "timeout", "remove"} = {} =>
      /\ \A n \in Names \ encrypted :
           /\ pv[n] = "bound" => fs[n] > 0
           /\ pv[n] # "none" /\ size[n] # Absent => fs[n] > 0 \/ "overlap" \in happened
           /\ pv[n] = "none" /\ size[n] > 0 =>
                fs[n] > 0 \/ \E h \in Handlers : vol[h] = n /\ at[h] \in {"mkfs", "remove"}
      /\ \A h \in Handlers : at[h] = "reply" /\ vol[h] \notin encrypted => fs[vol[h]] > 0

\* Deleted images, without timeouts, restarts and expands under way.
GoneInv ==
    happened \cap {"restart", "timeout", "overlap"} = {} =>
      /\ DeletedIsGone
      /\ \A h \in Handlers : at[h] = "d_reply" => size[vol[h]] = Absent

IInv ==
    /\ TypeOK /\ CallInv /\ SidecarInv /\ SizeInv /\ EncryptedInv
    /\ ImageInv /\ FormatInv /\ GoneInv

-----------------------------------------------------------------------------
(* The sizes that are asked for. *)

LEMMA MultipleMod ==
    ASSUME NEW i \in Nat, NEW b \in Nat \ {0}
    PROVE  (i * b) % b = 0
  OBVIOUS

\* The blocks of an int64 are whole, and more than two.
LEMMA WholeBlocks == \E k \in Nat : MaxInt + 1 = k * BlockSize /\ k >= 3
  <1>0. BlockSize \in Nat \ {0} /\ MaxInt \in Nat
    BY CapacityAssumption
  <1> DEFINE k == (MaxInt + 1) \div BlockSize
  <1>1. MaxInt + 1 = k * BlockSize + ((MaxInt + 1) % BlockSize)
    BY <1>0
  <1>2. k \in Nat
    BY <1>0
  <1>3. MaxInt + 1 = k * BlockSize
    BY <1>1, <1>2, CapacityAssumption
  <1> HIDE DEF k
  <1>4. 2 * BlockSize < k * BlockSize
    BY <1>3, CapacityAssumption
  <1>5. 2 < k
    BY <1>0, <1>2, <1>4, MulMono
  <1> QED
    BY <1>2, <1>3, <1>5

\* A multiple of the block size is its own AlignUp.
LEMMA AlignUpMultiple ==
    ASSUME NEW i \in Nat \ {0}, i * BlockSize <= MaxInt
    PROVE  AlignUp(i * BlockSize) = i * BlockSize
  <1> DEFINE n == i * BlockSize
  <1>0. BlockSize \in Nat \ {0} /\ MaxInt \in Nat /\ n \in Nat /\ n >= 1
    BY CapacityAssumption
  <1>1. PICK k \in Nat : MaxInt + 1 = k * BlockSize
    BY WholeBlocks
  <1>2. i < k
    BY <1>0, <1>1, MulMono
  <1>3. n <= MaxInt - BlockSize + 1
    BY <1>0, <1>1, <1>2
  <1>4. PICK j \in Nat : AlignUp(n) = j * BlockSize
    BY <1>0, <1>3, AlignUpSmall
  <1>5. AlignUp(n) \in Nat /\ AlignUp(n) >= n /\ AlignUp(n) < n + BlockSize
    BY <1>0, <1>3, AlignUpSmall
  <1>6. j * BlockSize < (i + 1) * BlockSize /\ ~(j * BlockSize < i * BlockSize)
    BY <1>0, <1>4, <1>5
  <1>7. j < i + 1
    BY <1>0, <1>6, MulMono
  <1>8. ~(j < i)
    BY <1>0, <1>6
  <1> QED
    BY <1>4, <1>7, <1>8

\* A size that overflowed is two blocks below zero,
LEMMA AlignUpOverflow ==
    ASSUME NEW n \in Int, n > MaxInt - BlockSize + 1, n <= MaxInt
    PROVE  /\ AlignUp(n) \in Int
           /\ AlignUp(n) >= 0 - MaxInt - 1
           /\ AlignUp(n) <= 0 - 2 * BlockSize
  <1> DEFINE w == n + BlockSize - 1 - 2 * (MaxInt + 1)
  <1>0. BlockSize \in Nat \ {0} /\ MaxInt \in Nat /\ MaxInt + 1 >= 3 * BlockSize
    BY CapacityAssumption, WholeBlocks
  <1>1. Wrap(n + BlockSize - 1) = w
    BY WrapLarge, <1>0
  <1>2. w \in Int /\ w < 0 /\ 0 - w >= 2 * BlockSize /\ 0 - w <= MaxInt + 1
    BY <1>0
  <1>3. AlignUp(n) = (0 - ((0 - w) \div BlockSize)) * BlockSize
    BY <1>1, <1>2 DEF AlignUp, Quotient
  <1> HIDE DEF w
  <1>4. /\ (0 - w) \div BlockSize \in Nat
        /\ ((0 - w) \div BlockSize) * BlockSize <= 0 - w
        /\ 0 - w < ((0 - w) \div BlockSize) * BlockSize + BlockSize
    <2>1. 0 - w \in Nat
      BY <1>2
    <2> QED
      BY <1>0, <2>1, DivFacts
  <1>5. 1 < (0 - w) \div BlockSize
    <2>1. 1 * BlockSize < ((0 - w) \div BlockSize) * BlockSize
      BY <1>0, <1>2, <1>4
    <2> QED
      BY <1>0, <1>4, <2>1, MulMono
  <1> DEFINE q == (0 - w) \div BlockSize
  <1>6. q \in Nat /\ q >= 2 /\ q * BlockSize <= MaxInt + 1 /\ AlignUp(n) = (0 - q) * BlockSize
    BY <1>0, <1>2, <1>3, <1>4, <1>5
  <1> HIDE DEF q
  <1> QED
    BY <1>0, <1>6

\* and rounding it again leaves it negative.
LEMMA AlignUpNegative ==
    ASSUME NEW n \in Int, n <= 0 - 2 * BlockSize, n >= 0 - MaxInt - 1
    PROVE  AlignUp(n) \in Int /\ AlignUp(n) < 0
  <1> DEFINE m == n + BlockSize - 1
  <1>1. m \in Int64 /\ m < 0 /\ 0 - m > BlockSize /\ BlockSize \in Nat \ {0}
    BY CapacityAssumption DEF Int64
  <1>2. AlignUp(n) = Quotient(m, BlockSize) * BlockSize
    BY <1>1, WrapSmall DEF AlignUp
  <1> HIDE DEF m
  <1>3. (0 - m) \div BlockSize \in Nat /\ (0 - m) \div BlockSize >= 1
    BY <1>1 DEF Int64
  <1>4. Quotient(m, BlockSize) \in Int /\ Quotient(m, BlockSize) < 0
    BY <1>1, <1>3 DEF Quotient, Int64
  <1> QED
    BY <1>1, <1>2, <1>4

\* What a handler knows of the size it works with: it is in whole blocks of
\* the range, or it overflowed.
LEMMA AskedFacts ==
    ASSUME NEW r \in Ranges \cup {NoRange}
    PROVE  /\ AlignedCapacity(r) \in Int /\ AlignedCapacity(r) <= MaxInt
           /\ AlignedCapacity(r) > 0 =>
                /\ AlignUp(AlignedCapacity(r)) = AlignedCapacity(r)
                /\ AlignedCapacity(r) >= BlockSize
                /\ InRange(AlignedCapacity(r), r)
                /\ AlignedCapacity(r) % BlockSize = 0
           /\ AlignedCapacity(r) < 0 =>
                AlignUp(AlignedCapacity(r)) \in Int /\ AlignUp(AlignedCapacity(r)) < 0
  <1> DEFINE A == AlignedCapacity(r)
             up == AlignUp(Wanted(r))
  <1>0. BlockSize \in Nat \ {0} /\ MaxInt \in Nat /\ r \in Range64
    BY CapacityAssumption, ControllerAssumption DEF NoRange, Range64, Int64
  <1>1. CASE Wanted(r) > MaxInt - BlockSize + 1
    <2>1. up \in Int /\ up >= 0 - MaxInt - 1 /\ up <= 0 - 2 * BlockSize
      BY <1>0, <1>1, WantedFacts, AlignUpOverflow
    <2>2. A = up
      BY <1>0, <2>1, WantedFacts DEF AlignedCapacity
    <2>3. AlignUp(A) \in Int /\ AlignUp(A) < 0
      BY <2>1, <2>2, AlignUpNegative
    <2> QED
      BY <1>0, <2>1, <2>2, <2>3
  <1>2. CASE Wanted(r) <= MaxInt - BlockSize + 1
    <2>1. up \in Nat
      BY <1>0, <1>2, WantedFacts, AlignUpSmall
    <2>2. A \in Nat
      <3>0. r.limit \in Int
        BY <1>0, WantedFacts
      <3>1. r.limit > 0 => AlignDown(r.limit) \in Nat
        BY <3>0, AlignDownFacts
      <3>2. A \in {up, AlignDown(r.limit), 0} /\ (A = AlignDown(r.limit) => A = up \/ A = 0 \/ r.limit > 0)
        BY DEF AlignedCapacity, OutOfRange
      <3> QED
        BY <2>1, <3>1, <3>2
    <2>3. CASE A = 0
      BY <1>0, <2>3
    <2>4. CASE A > 0
      <3>1. InRange(A, r) /\ A <= MaxInt /\ \E i \in Nat : A = i * BlockSize
        BY <1>0, <2>4, AlignedInRange
      <3>2. PICK i \in Nat : A = i * BlockSize
        BY <3>1
      <3>3. i # 0
        BY <1>0, <2>4, <3>2
      <3>4. AlignUp(A) = A
        BY <3>1, <3>2, <3>3, AlignUpMultiple
      <3>5. A % BlockSize = 0
        BY <1>0, <3>2, MultipleMod
      <3>6. A >= BlockSize
        BY <1>0, <3>2, <3>3
      <3> QED
        BY <2>2, <2>4, <3>1, <3>4, <3>5, <3>6
    <2> QED
      BY <2>2, <2>3, <2>4
  <1> QED
    BY <1>0, <1>1, <1>2, WantedFacts

\* What fits a device, in whole blocks,
LEMMA FilledFacts ==
    ASSUME NEW s \in Int, NEW b \in Nat \ {0}
    PROVE  /\ Filled(s, b) \in Int /\ Filled(s, b) <= s /\ s < Filled(s, b) + b
           /\ Divides(b, Filled(s, b))
           /\ s \in Nat => Filled(s, b) \in Nat
           /\ s >= b => Filled(s, b) > 0
  <1>1. s = (s \div b) * b + (s % b) /\ s \div b \in Int /\ s % b \in 0..(b - 1)
    OBVIOUS
  <1>2. (s \div b) * b \in Int /\ (s \div b) * b <= s /\ s < (s \div b) * b + b
    BY <1>1
  <1>3. Divides(b, (s \div b) * b)
    BY <1>1, <1>2, DividesIff
  <1>4. s \in Nat => (s \div b) * b \in Nat
    BY DivFacts
  <1> QED
    BY <1>2, <1>3, <1>4 DEF Filled

\* and it holds every whole number of blocks that does.
LEMMA FilledHolds ==
    ASSUME NEW s \in Int, NEW b \in Nat \ {0}, NEW m \in Int, Divides(b, m), m <= s
    PROVE  m <= Filled(s, b)
  <1>1. PICK i \in Int : m = i * b
    BY DividesIff
  <1>2. PICK j \in Int : Filled(s, b) = j * b
    BY FilledFacts, DividesIff
  <1>3. Filled(s, b) \in Int /\ s < Filled(s, b) + b
    BY FilledFacts
  <1>4. (j + 1) * b = j * b + b
    BY <1>2
  <1>5. i * b < (j + 1) * b
    BY <1>1, <1>2, <1>3, <1>4
  <1>6. i < j + 1
    BY <1>5, MulMono
  <1>7. i * b <= j * b
    BY <1>6
  <1> QED
    BY <1>1, <1>2, <1>7

\* What mkfs makes of an image.
LEMMA MkfsFacts ==
    ASSUME NEW s \in 0..MaxInt \cup {Absent}, s > 0
    PROVE  /\ Filled(s, BlockSize) \in 0..MaxInt /\ Filled(s, BlockSize) <= s
           /\ s >= BlockSize => Filled(s, BlockSize) > 0
           /\ Divides(BlockSize, Filled(s, BlockSize)) /\ Divides(BlockSize, BlockSize)
  <1>1. s \in Nat /\ s <= MaxInt /\ BlockSize \in Nat \ {0} /\ MaxInt \in Nat
    BY CapacityAssumption DEF Absent
  <1>2. /\ Filled(s, BlockSize) \in Nat /\ Filled(s, BlockSize) <= s
        /\ s >= BlockSize => Filled(s, BlockSize) > 0
        /\ Divides(BlockSize, Filled(s, BlockSize))
    BY <1>1, FilledFacts
  <1>3. Divides(BlockSize, BlockSize)
    BY <1>1, DividesIff
  <1> QED
    BY <1>1, <1>2, <1>3

\* The same for the handler's own size.
Sane(a) ==
    /\ a \in Int /\ a <= MaxInt
    /\ a > 0 => AlignUp(a) = a /\ a >= BlockSize
    /\ a < 0 => AlignUp(a) \in Int /\ AlignUp(a) < 0

LEMMA HandlerFacts ==
    ASSUME TypeOK
    PROVE  \A h \in Handlers : Sane(AlignedCapacity(arg[h]))
  BY AskedFacts DEF TypeOK, Sane

-----------------------------------------------------------------------------
(* TypeOK in three parts, which the provers take one at a time. *)

FileTypes ==
    /\ size \in [Names -> 0..MaxInt \cup {Absent}] /\ fs \in [Names -> 0..MaxInt]
    /\ block \in [Names -> 0..BlockSize]

CallTypes ==
    /\ known \in BOOLEAN
    /\ at \in [Handlers -> Steps]
    /\ vol \in [Handlers -> Names \cup {None}] /\ arg \in [Handlers -> Ranges \cup {NoRange}]
    /\ late \subseteq {h \in Handlers : at[h] # "idle"}

ClusterTypes ==
    /\ encrypted \subseteq Names /\ ask \in [Names -> Ranges \cup {NoRange}]
    /\ pv \in [Names -> {"none", "bound", "released", "deleted"}]
    /\ acked \in [Names -> 0..MaxInt]
    /\ count \in 0..MaxFaults /\ happened \subseteq Hazards \cup {"overlap"}

LEMMA TypeParts ==
    /\ TypeOK <=> FileTypes /\ CallTypes /\ ClusterTypes
    /\ TypeOK' <=> FileTypes' /\ CallTypes' /\ ClusterTypes'
  BY DEF TypeOK, FileTypes, CallTypes, ClusterTypes

-----------------------------------------------------------------------------
(* Calls and answers. *)

LEMMA CreateKeeps ==
    ASSUME IInv, NEW h \in Handlers, NEW n \in Names, Create(h, n)
    PROVE  IInv'
  <1> USE ControllerAssumption, CapacityAssumption
      DEF IInv, Create, Call, files, claims, cluster, faults, Asked, Absent
  <1>1. TypeOK'
    <2> USE TypeParts
    <2>1. FileTypes' /\ ClusterTypes'
      BY DEF FileTypes, ClusterTypes
    <2>2. CallTypes'
      BY DEF CallTypes, Steps, CreateSteps, DeleteSteps, ExpandSteps, Provisioning, Resizing, ClusterTypes
    <2> QED
      BY ONLY <2>1, <2>2, TypeParts
  <1> USE DEF TypeOK, Steps, CreateSteps, DeleteSteps, ExpandSteps, Provisioning, Resizing
  <1>2. CallInv'
    BY DEF CallInv
  <1>3. SidecarInv'
    BY DEF CallInv, SidecarInv, Free
  <1>4. SizeInv'
    BY DEF CallInv, SidecarInv, SizeInv
  <1>5. EncryptedInv'
    BY DEF CallInv, SidecarInv, EncryptedInv
  <1>6. ImageInv'
    BY DEF CallInv, SidecarInv, BoundHasImage, Overhead, ImageInv
  <1>7. FormatInv'
    BY DEF CallInv, SidecarInv, ImageInv, BoundHasImage, FormatInv
  <1>8. GoneInv'
    BY DEF CallInv, SidecarInv, DeletedIsGone, GoneInv
  <1> QED
    BY <1>1, <1>2, <1>3, <1>4, <1>5, <1>6, <1>7, <1>8

LEMMA DeleteKeeps ==
    ASSUME IInv, NEW h \in Handlers, NEW n \in Names, Delete(h, n)
    PROVE  IInv'
  <1> USE ControllerAssumption, CapacityAssumption
      DEF IInv, Delete, Call, files, claims, cluster, faults, Asked, Absent
  <1>1. TypeOK'
    <2> USE TypeParts
    <2>1. FileTypes'
      BY DEF FileTypes
    <2>2. CallTypes'
      BY DEF CallTypes, Steps, CreateSteps, DeleteSteps, ExpandSteps, Provisioning, Resizing, ClusterTypes
    <2>3. ClusterTypes'
      BY DEF ClusterTypes, CallTypes, CallInv
    <2> QED
      BY ONLY <2>1, <2>2, <2>3, TypeParts
  <1> USE DEF TypeOK, Steps, CreateSteps, DeleteSteps, ExpandSteps, Provisioning, Resizing
  <1>2. CallInv'
    BY DEF CallInv
  <1>3. SidecarInv'
    BY DEF CallInv, SidecarInv, Free
  <1>4. SizeInv'
    BY DEF CallInv, SidecarInv, SizeInv
  <1>5. EncryptedInv'
    BY DEF CallInv, SidecarInv, EncryptedInv
  <1>6. ImageInv'
    BY DEF CallInv, SidecarInv, BoundHasImage, Overhead, ImageInv
  <1>7. FormatInv'
    BY DEF CallInv, SidecarInv, ImageInv, BoundHasImage, FormatInv
  <1>8. GoneInv'
    BY DEF CallInv, SidecarInv, DeletedIsGone, GoneInv
  <1> QED
    BY <1>1, <1>2, <1>3, <1>4, <1>5, <1>6, <1>7, <1>8

LEMMA ExpandKeeps ==
    ASSUME IInv, NEW h \in Handlers, NEW n \in Names, NEW r \in Ranges, Expand(h, n, r)
    PROVE  IInv'
  <1> USE ControllerAssumption, CapacityAssumption
      DEF IInv, Expand, Call, files, claims, cluster, faults, Asked, Absent
  <1>1. TypeOK'
    <2> USE TypeParts
    <2>1. FileTypes' /\ ClusterTypes'
      BY DEF FileTypes, ClusterTypes
    <2>2. CallTypes'
      BY DEF CallTypes, Steps, CreateSteps, DeleteSteps, ExpandSteps, Provisioning, Resizing, ClusterTypes
    <2> QED
      BY ONLY <2>1, <2>2, TypeParts
  <1> USE DEF TypeOK, Steps, CreateSteps, DeleteSteps, ExpandSteps, Provisioning, Resizing
  <1>2. CallInv'
    BY DEF CallInv
  <1>3. SidecarInv'
    BY DEF CallInv, SidecarInv, Free
  <1>9. AlignedCapacity(r) \in Int /\ (AlignedCapacity(r) > 0 => AlignedCapacity(r) >= acked[n])
    <2>1. r.required \in Int
      BY DEF Range64, Int64
    <2>2. AlignedCapacity(r) > 0 => InRange(AlignedCapacity(r), r)
      BY AskedFacts
    <2>3. AlignedCapacity(r) \in Int
      BY AskedFacts
    <2> QED
      BY <2>1, <2>2, <2>3 DEF InRange
  <1>4. SizeInv'
    <2>1. n \in encrypted /\ AlignedCapacity(r) > 0 => AlignedCapacity(r) >= MinEncrypted
      BY <1>9 DEF SizeInv
    <2> QED
      BY <1>9, <2>1 DEF CallInv, SizeInv
  <1>5. EncryptedInv'
    BY DEF CallInv, SidecarInv, EncryptedInv
  <1>6. ImageInv'
    BY <1>9 DEF CallInv, SidecarInv, BoundHasImage, Overhead, ImageInv
  <1>7. FormatInv'
    BY DEF CallInv, SidecarInv, ImageInv, BoundHasImage, FormatInv
  <1>8. GoneInv'
    BY DEF CallInv, SidecarInv, DeletedIsGone, GoneInv
  <1> QED
    BY <1>1, <1>2, <1>3, <1>4, <1>5, <1>6, <1>7, <1>8

LEMMA ReplyKeeps ==
    ASSUME IInv, NEW h \in Handlers, Reply(h)
    PROVE  IInv'
  <1> USE ControllerAssumption, CapacityAssumption
      DEF IInv, Reply, Return, files, claims, cluster, faults, Asked, Absent, Sane
  <1>0. \A g \in Handlers : Sane(AlignedCapacity(arg[g]))
    BY HandlerFacts
  <1>1. TypeOK'
    <2> USE TypeParts
    <2>1. FileTypes'
      BY DEF FileTypes
    <2>2. CallTypes'
      BY <1>0 DEF CallTypes, Steps, CreateSteps, DeleteSteps, ExpandSteps, Provisioning, Resizing, ClusterTypes
    <2>3. ClusterTypes'
      BY <1>0 DEF ClusterTypes, CallTypes, CallInv
    <2> QED
      BY ONLY <2>1, <2>2, <2>3, TypeParts
  <1> USE DEF TypeOK, Steps, CreateSteps, DeleteSteps, ExpandSteps, Provisioning, Resizing
  <1>2. CallInv'
    BY <1>0 DEF CallInv
  <1>3. SidecarInv'
    BY <1>0 DEF CallInv, SidecarInv
  <1>4. SizeInv'
    BY <1>0 DEF CallInv, SidecarInv, SizeInv
  <1>5. EncryptedInv'
    BY <1>0 DEF CallInv, SidecarInv, EncryptedInv
  <1>6. ImageInv'
    BY <1>0 DEF CallInv, SidecarInv, BoundHasImage, Overhead, ImageInv
  <1>7. FormatInv'
    BY <1>0 DEF CallInv, SidecarInv, ImageInv, BoundHasImage, FormatInv
  <1>8. GoneInv'
    BY <1>0 DEF CallInv, SidecarInv, DeletedIsGone, GoneInv
  <1> QED
    BY <1>1, <1>2, <1>3, <1>4, <1>5, <1>6, <1>7, <1>8

LEMMA TimeoutKeeps ==
    ASSUME IInv, NEW h \in Handlers, Timeout(h)
    PROVE  IInv'
  <1> USE ControllerAssumption, CapacityAssumption
      DEF IInv, Timeout, Fault, files, claims, cluster, faults, Asked, Absent
  <1>1. TypeOK'
    <2> USE TypeParts
    <2>1. FileTypes'
      BY DEF FileTypes
    <2>2. CallTypes'
      BY DEF CallTypes, Steps, CreateSteps, DeleteSteps, ExpandSteps, Provisioning, Resizing, ClusterTypes
    <2>3. ClusterTypes'
      BY DEF ClusterTypes, CallTypes, CallInv
    <2> QED
      BY ONLY <2>1, <2>2, <2>3, TypeParts
  <1> USE DEF TypeOK, Steps, CreateSteps, DeleteSteps, ExpandSteps, Provisioning, Resizing
  <1>2. CallInv' /\ SizeInv'
    BY DEF CallInv, SizeInv
  <1>3. SidecarInv'
    BY DEF CallInv, SidecarInv
  <1>4. EncryptedInv'
    BY DEF CallInv, SidecarInv, EncryptedInv
  <1>5. ImageInv'
    BY DEF CallInv, SidecarInv, BoundHasImage, Overhead, ImageInv
  <1>6. FormatInv'
    BY DEF CallInv, SidecarInv, ImageInv, BoundHasImage, FormatInv
  <1>7. GoneInv'
    BY DEF CallInv, SidecarInv, DeletedIsGone, GoneInv
  <1> QED
    BY <1>1, <1>2, <1>3, <1>4, <1>5, <1>6, <1>7

-----------------------------------------------------------------------------
(* CreateVolume. *)

LEMMA CreateGetKeeps ==
    ASSUME IInv, NEW h \in Handlers, CreateGet(h)
    PROVE  IInv'
  <1> USE ControllerAssumption, CapacityAssumption
      DEF IInv, CreateGet, Refused, Goto, Return, Fails, Fault, files, claims, cluster,
          faults, Asked, Absent, Sane
  <1>0. \A g \in Handlers : Sane(AlignedCapacity(arg[g]))
    BY HandlerFacts
  <1>1. TypeOK'
    <2> USE TypeParts
    <2>1. FileTypes'
      BY DEF FileTypes
    <2>2. CallTypes'
      BY <1>0 DEF CallTypes, Steps, CreateSteps, DeleteSteps, ExpandSteps, Provisioning, Resizing, ClusterTypes
    <2>3. ClusterTypes'
      BY <1>0 DEF ClusterTypes, CallTypes, CallInv
    <2> QED
      BY ONLY <2>1, <2>2, <2>3, TypeParts
  <1> USE DEF TypeOK, Steps, CreateSteps, DeleteSteps, ExpandSteps, Provisioning, Resizing
  <1>2. CallInv'
    BY <1>0 DEF CallInv
  <1>3. SidecarInv'
    BY <1>0 DEF CallInv, SidecarInv
  <1>4. SizeInv'
    <2>1. CASE at'[h] = "stat"
      BY <1>0, <2>1 DEF CallInv, SidecarInv, SizeInv
    <2>2. CASE Fails(h)
      BY <1>0, <2>2 DEF CallInv, SidecarInv, SizeInv
    <2> QED
      BY <2>1, <2>2
  <1>5. EncryptedInv'
    BY <1>0 DEF CallInv, SidecarInv, EncryptedInv
  <1>6. ImageInv'
    BY <1>0 DEF CallInv, SidecarInv, BoundHasImage, Overhead, ImageInv
  <1>7. FormatInv'
    BY <1>0 DEF CallInv, SidecarInv, ImageInv, BoundHasImage, FormatInv
  <1>8. GoneInv'
    BY <1>0 DEF CallInv, SidecarInv, DeletedIsGone, GoneInv
  <1> QED
    BY <1>1, <1>2, <1>3, <1>4, <1>5, <1>6, <1>7, <1>8

LEMMA CreateStatKeeps ==
    ASSUME IInv, NEW h \in Handlers, CreateStat(h)
    PROVE  IInv'
  <1> USE ControllerAssumption, CapacityAssumption
      DEF IInv, CreateStat, Adopts, Goto, Answers, Return, Fails, files, claims, cluster,
          faults, Asked, Absent, Sane
  <1>0. \A g \in Handlers : Sane(AlignedCapacity(arg[g]))
    BY HandlerFacts
  <1>1. TypeOK'
    <2> USE TypeParts
    <2>1. FileTypes' /\ ClusterTypes'
      BY DEF FileTypes, ClusterTypes
    <2>2. CallTypes'
      BY <1>0 DEF CallTypes, Steps, CreateSteps, DeleteSteps, ExpandSteps, Provisioning, Resizing, ClusterTypes
    <2> QED
      BY ONLY <2>1, <2>2, TypeParts
  <1> USE DEF TypeOK, Steps, CreateSteps, DeleteSteps, ExpandSteps, Provisioning, Resizing
  <1>2. CallInv'
    BY <1>0 DEF CallInv
  <1>3. SidecarInv'
    BY <1>0 DEF CallInv, SidecarInv
  <1>4. SizeInv'
    BY <1>0 DEF CallInv, SidecarInv, SizeInv
  <1>5. EncryptedInv'
    BY <1>0 DEF CallInv, SidecarInv, EncryptedInv
  <1>6. ImageInv'
    BY <1>0 DEF CallInv, SidecarInv, BoundHasImage, Overhead, ImageInv
  <1>7. FormatInv'
    BY <1>0 DEF CallInv, SidecarInv, ImageInv, BoundHasImage, FormatInv
  <1>8. GoneInv'
    BY <1>0 DEF CallInv, SidecarInv, DeletedIsGone, GoneInv
  <1> QED
    BY <1>1, <1>2, <1>3, <1>4, <1>5, <1>6, <1>7, <1>8

LEMMA CreateTruncateKeeps ==
    ASSUME IInv, NEW h \in Handlers, CreateTruncate(h)
    PROVE  IInv'
  <1> USE ControllerAssumption, CapacityAssumption
      DEF IInv, CreateTruncate, Truncated, TruncateFails, Answers, Goto, Return, Fails, Fault,
          files, claims, cluster, faults, Asked, Absent, Sane
  <1>0. \A g \in Handlers : Sane(AlignedCapacity(arg[g]))
    BY HandlerFacts
  <1>1. TypeOK'
    <2> USE TypeParts
    <2>1. FileTypes'
      BY <1>0 DEF FileTypes, CallTypes, CallInv
    <2>2. CallTypes'
      BY <1>0 DEF CallTypes, Steps, CreateSteps, DeleteSteps, ExpandSteps, Provisioning, Resizing, ClusterTypes
    <2>3. ClusterTypes'
      BY <1>0 DEF ClusterTypes, CallTypes, CallInv
    <2> QED
      BY ONLY <2>1, <2>2, <2>3, TypeParts
  <1> USE DEF TypeOK, Steps, CreateSteps, DeleteSteps, ExpandSteps, Provisioning, Resizing
  <1>2. CallInv'
    BY <1>0 DEF CallInv
  <1>3. SidecarInv'
    BY <1>0 DEF CallInv, SidecarInv
  <1>4. SizeInv'
    BY <1>0 DEF CallInv, SidecarInv, SizeInv
  <1>5. EncryptedInv'
    BY <1>0 DEF CallInv, SidecarInv, EncryptedInv
  <1>6. ImageInv'
    <2>1. CASE Truncated(vol[h], AlignUp(Asked(h)))
      BY <2>1, <1>0 DEF CallInv, SidecarInv, BoundHasImage, Overhead, ImageInv
    <2>2. CASE TruncateFails(h)
      BY <2>2, <1>0 DEF CallInv, SidecarInv, BoundHasImage, Overhead, ImageInv
    <2> QED
      BY <2>1, <2>2
  <1>7. FormatInv'
    BY <1>0 DEF CallInv, SidecarInv, ImageInv, BoundHasImage, FormatInv
  <1>8. GoneInv'
    BY <1>0 DEF CallInv, SidecarInv, DeletedIsGone, GoneInv
  <1> QED
    BY <1>1, <1>2, <1>3, <1>4, <1>5, <1>6, <1>7, <1>8

LEMMA CreateMkfsKeeps ==
    ASSUME IInv, NEW h \in Handlers, CreateMkfs(h)
    PROVE  IInv'
  <1> USE ControllerAssumption, CapacityAssumption
      DEF IInv, CreateMkfs, Mkfs, Answers, Goto, Fault, files, claims, cluster, faults, Asked,
          Absent, Sane
  <1>0. \A g \in Handlers : Sane(AlignedCapacity(arg[g]))
    BY HandlerFacts
  <1>10. /\ vol[h] \in Names /\ vol[h] \notin encrypted
         /\ size[vol[h]] > 0 =>
              /\ Filled(size[vol[h]], BlockSize) \in 0..MaxInt
              /\ Filled(size[vol[h]], BlockSize) <= size[vol[h]]
              /\ size[vol[h]] >= BlockSize => Filled(size[vol[h]], BlockSize) > 0
              /\ Divides(BlockSize, Filled(size[vol[h]], BlockSize)) /\ Divides(BlockSize, BlockSize)
    BY MkfsFacts DEF CallInv, TypeOK
  <1>1. TypeOK'
    <2> USE TypeParts
    <2>1. FileTypes'
      BY <1>10 DEF FileTypes
    <2>2. CallTypes'
      BY <1>0 DEF CallTypes, Steps, CreateSteps, DeleteSteps, ExpandSteps, Provisioning, Resizing, ClusterTypes
    <2>3. ClusterTypes'
      BY <1>0 DEF ClusterTypes, CallTypes, CallInv
    <2> QED
      BY ONLY <2>1, <2>2, <2>3, TypeParts
  <1> USE DEF TypeOK, Steps, CreateSteps, DeleteSteps, ExpandSteps, Provisioning, Resizing
  <1>2. CallInv'
    BY <1>0 DEF CallInv
  <1>3. SidecarInv'
    BY <1>0 DEF CallInv, SidecarInv
  <1>4. SizeInv'
    BY <1>0, <1>10 DEF CallInv, SidecarInv, SizeInv
  <1>5. EncryptedInv'
    BY <1>0 DEF CallInv, SidecarInv, EncryptedInv
  <1>6. ImageInv'
    BY <1>0, <1>10 DEF CallInv, SidecarInv, BoundHasImage, Overhead, ImageInv
  <1>7. FormatInv'
    BY <1>0, <1>10 DEF CallInv, SidecarInv, ImageInv, FormatInv
  <1>8. GoneInv'
    BY <1>0 DEF CallInv, SidecarInv, DeletedIsGone, GoneInv
  <1> QED
    BY <1>1, <1>2, <1>3, <1>4, <1>5, <1>6, <1>7, <1>8

LEMMA CreateRemoveKeeps ==
    ASSUME IInv, NEW h \in Handlers, CreateRemove(h)
    PROVE  IInv'
  <1> USE ControllerAssumption, CapacityAssumption
      DEF IInv, CreateRemove, Removed, Return, Fails, Fault, files, claims, cluster, faults, Asked,
          Absent
  <1>1. TypeOK'
    <2> USE TypeParts
    <2>1. ClusterTypes'
      BY DEF ClusterTypes
    <2>2. FileTypes'
      BY DEF FileTypes, CallTypes, CallInv
    <2>3. CallTypes'
      BY DEF CallTypes, Steps, CreateSteps, DeleteSteps, ExpandSteps, Provisioning, Resizing, ClusterTypes
    <2> QED
      BY ONLY <2>1, <2>2, <2>3, TypeParts
  <1> USE DEF TypeOK, Steps, CreateSteps, DeleteSteps, ExpandSteps, Provisioning, Resizing
  <1>2. CallInv'
    BY DEF CallInv
  <1>3. SidecarInv'
    BY DEF CallInv, SidecarInv
  <1>4. SizeInv'
    BY DEF CallInv, SidecarInv, SizeInv
  <1>5. EncryptedInv'
    BY DEF CallInv, SidecarInv, EncryptedInv
  <1>6. ImageInv'
    BY DEF CallInv, SidecarInv, BoundHasImage, Overhead, ImageInv
  <1>7. FormatInv'
    <2>1. CASE Removed(vol[h]) /\ UNCHANGED faults
      BY <2>1 DEF CallInv, SidecarInv, ImageInv, BoundHasImage, FormatInv
    <2>2. CASE Fault("remove")
      BY <2>2 DEF FormatInv
    <2> QED
      BY <2>1, <2>2
  <1>8. GoneInv'
    BY DEF CallInv, SidecarInv, DeletedIsGone, GoneInv
  <1> QED
    BY <1>1, <1>2, <1>3, <1>4, <1>5, <1>6, <1>7, <1>8

-----------------------------------------------------------------------------
(* DeleteVolume and ControllerExpandVolume. *)

LEMMA DeleteFindKeeps ==
    ASSUME IInv, NEW h \in Handlers, DeleteFind(h)
    PROVE  IInv'
  <1> USE ControllerAssumption, CapacityAssumption
      DEF IInv, DeleteFind, Deletes, Goto, Return, Fails, Fault, files, claims, cluster,
          faults, Asked, Absent
  <1>1. TypeOK'
    <2> USE TypeParts
    <2>1. FileTypes'
      BY DEF FileTypes
    <2>2. CallTypes'
      BY DEF CallTypes, Steps, CreateSteps, DeleteSteps, ExpandSteps, Provisioning, Resizing, ClusterTypes
    <2>3. ClusterTypes'
      BY DEF ClusterTypes, CallTypes, CallInv
    <2> QED
      BY ONLY <2>1, <2>2, <2>3, TypeParts
  <1> USE DEF TypeOK, Steps, CreateSteps, DeleteSteps, ExpandSteps, Provisioning, Resizing
  <1>2. CallInv'
    BY DEF CallInv
  <1>3. SidecarInv'
    BY DEF CallInv, SidecarInv
  <1>4. SizeInv'
    BY DEF CallInv, SidecarInv, SizeInv
  <1>5. EncryptedInv'
    BY DEF CallInv, SidecarInv, EncryptedInv
  <1>6. ImageInv'
    BY DEF CallInv, SidecarInv, BoundHasImage, Overhead, ImageInv
  <1>7. FormatInv'
    BY DEF CallInv, SidecarInv, ImageInv, BoundHasImage, FormatInv
  <1>8. GoneInv'
    BY DEF CallInv, SidecarInv, DeletedIsGone, GoneInv
  <1> QED
    BY <1>1, <1>2, <1>3, <1>4, <1>5, <1>6, <1>7, <1>8

LEMMA DeleteUnlinkKeeps ==
    ASSUME IInv, NEW h \in Handlers, DeleteUnlink(h)
    PROVE  IInv'
  <1> USE ControllerAssumption, CapacityAssumption
      DEF IInv, DeleteUnlink, Removed, Deletes, Goto, Return, Fails, Fault, files, claims, cluster, faults, Asked,
          Absent, Sane
  <1>0. \A g \in Handlers : Sane(AlignedCapacity(arg[g]))
    BY HandlerFacts
  <1>1. TypeOK'
    <2> USE TypeParts
    <2>1. ClusterTypes'
      BY DEF ClusterTypes
    <2>2. FileTypes'
      BY DEF FileTypes, CallTypes, CallInv
    <2>3. CallTypes'
      BY DEF CallTypes, Steps, CreateSteps, DeleteSteps, ExpandSteps, Provisioning, Resizing, ClusterTypes
    <2> QED
      BY ONLY <2>1, <2>2, <2>3, TypeParts
  <1> USE DEF TypeOK, Steps, CreateSteps, DeleteSteps, ExpandSteps, Provisioning, Resizing
  <1>2. CallInv'
    BY DEF CallInv
  <1>3. SidecarInv'
    BY DEF CallInv, SidecarInv
  <1>4. SizeInv'
    <2>1. CASE Removed(vol[h]) /\ Deletes(h) /\ UNCHANGED faults
      BY <2>1 DEF CallInv, SidecarInv, SizeInv
    <2>2. CASE Fault("remove") /\ Fails(h) /\ UNCHANGED files
      BY <2>2 DEF CallInv, SidecarInv, SizeInv
    <2> QED
      BY <2>1, <2>2
  <1>5. EncryptedInv'
    BY DEF CallInv, SidecarInv, EncryptedInv
  <1>6. ImageInv'
    <2>1. CASE Removed(vol[h]) /\ Deletes(h) /\ UNCHANGED faults
      <3> SUFFICES ASSUME "timeout" \notin happened PROVE ImageInv'
        BY <2>1 DEF ImageInv
      <3>1. late = {} /\ vol[h] \in Names /\ pv[vol[h]] = "released"
        BY DEF SidecarInv, CallInv
      <3>2. \A g \in Handlers : at[g] # "idle" => vol[g] \in Names
        BY DEF CallInv
      <3>10. \A g \in Handlers : at[g] \in {"truncate", "mkfs", "reply"} => pv[vol[g]] = "none"
        BY <3>1 DEF SidecarInv
      <3>11. \A g \in Handlers : AlignedCapacity(arg[g]) \in Int
        BY <1>0
      <3>3. \A n \in Names : size'[n] = (IF n = vol[h] THEN 0 - 1 ELSE size[n])
                            /\ fs'[n] = (IF n = vol[h] THEN 0 ELSE fs[n])
        BY <2>1, <3>1
      <3>4. \A g \in Handlers : at'[g] # at[g] => at'[g] = "d_reply"
        BY <2>1
      <3>5. UNCHANGED <<vol, arg, pv, acked, happened, encrypted>>
        BY <2>1
      <3>9. \A g \in Handlers :
              /\ at[g] = "truncate" => size[vol[g]] = 0 - 1
              /\ at[g] = "mkfs" => size[vol[g]] = AlignedCapacity(arg[g])
              /\ at[g] = "grow" => size[vol[g]] < AlignedCapacity(arg[g]) /\ AlignedCapacity(arg[g]) > 0
              /\ at[g] = "reply" => size[vol[g]] >= AlignedCapacity(arg[g])
              /\ at[g] = "e_reply" =>
                   size[vol[g]] >= AlignedCapacity(arg[g]) \/ (size[vol[g]] = 0 - 1 /\ pv[vol[g]] # "bound")
              /\ at[g] \in Resizing => AlignedCapacity(arg[g]) <= 0 \/ AlignedCapacity(arg[g]) >= acked[vol[g]]
        BY DEF ImageInv, CallInv
      <3>6. \A g \in Handlers :
              /\ at'[g] = "truncate" => size'[vol[g]] = 0 - 1
              /\ at'[g] = "mkfs" => size'[vol[g]] = AlignedCapacity(arg[g])
              /\ at'[g] = "reply" => size'[vol[g]] >= AlignedCapacity(arg[g])
        <4>0. SUFFICES ASSUME NEW g \in Handlers
                     PROVE  /\ at'[g] = "truncate" => size'[vol[g]] = 0 - 1
                            /\ at'[g] = "mkfs" => size'[vol[g]] = AlignedCapacity(arg[g])
                            /\ at'[g] = "reply" => size'[vol[g]] >= AlignedCapacity(arg[g])
          OBVIOUS
        <4>1. at[g] \in {"truncate", "mkfs", "reply"} => vol[g] \in Names /\ vol[g] # vol[h]
          BY <3>1, <3>2, <3>10
        <4>2. at'[g] \in {"truncate", "mkfs", "reply"} => at'[g] = at[g]
          BY ONLY <4>0, <3>4
        <4> QED
          BY ONLY <4>0, <3>3, <3>9, <4>1, <4>2
      <3>7. \A g \in Handlers :
              /\ at'[g] = "grow" => size'[vol[g]] < AlignedCapacity(arg[g])
              /\ at'[g] = "e_reply" =>
                   size'[vol[g]] >= AlignedCapacity(arg[g]) \/ (size'[vol[g]] = 0 - 1 /\ pv[vol[g]] # "bound")
              /\ at'[g] \in Resizing => AlignedCapacity(arg[g]) <= 0 \/ AlignedCapacity(arg[g]) >= acked[vol[g]]
        <4>0. SUFFICES ASSUME NEW g \in Handlers
                     PROVE  /\ at'[g] = "grow" => size'[vol[g]] < AlignedCapacity(arg[g])
                            /\ at'[g] = "e_reply" =>
                                 \/ size'[vol[g]] >= AlignedCapacity(arg[g])
                                 \/ size'[vol[g]] = 0 - 1 /\ pv[vol[g]] # "bound"
                            /\ at'[g] \in Resizing =>
                                 AlignedCapacity(arg[g]) <= 0 \/ AlignedCapacity(arg[g]) >= acked[vol[g]]
          OBVIOUS
        <4>1. at[g] \in Resizing => vol[g] \in Names
          BY <3>2 DEF Resizing, ExpandSteps
        <4>2. at'[g] \in Resizing => at'[g] = at[g]
          BY ONLY <4>0, <3>4 DEF Resizing, ExpandSteps
        <4> QED
          BY ONLY <4>0, <3>1, <3>3, <3>9, <3>11, <4>1, <4>2 DEF Resizing
      <3>8. BoundHasImage' /\ \A n \in Names :
              /\ pv[n] # "none" /\ size'[n] > 0 => size'[n] >= acked[n]
              /\ pv[n] # "none" /\ size'[n] = 0 => "overlap" \in happened
              /\ fs'[n] > 0 => fs'[n] + Overhead(n)' <= size'[n]
        BY <3>1, <3>3, <3>5 DEF ImageInv, BoundHasImage, Overhead
      <3> QED
        BY <3>5, <3>6, <3>7, <3>8 DEF ImageInv
    <2>2. CASE Fault("remove") /\ Fails(h) /\ UNCHANGED files
      BY <2>2 DEF CallInv, SidecarInv, BoundHasImage, Overhead, ImageInv
    <2> QED
      BY <2>1, <2>2
  <1>7. FormatInv'
    <2>1. CASE Removed(vol[h]) /\ Deletes(h) /\ UNCHANGED faults
      BY <2>1 DEF CallInv, SidecarInv, FormatInv
    <2>2. CASE Fault("remove")
      BY <2>2 DEF FormatInv
    <2> QED
      BY <2>1, <2>2
  <1>8. GoneInv'
    BY DEF CallInv, SidecarInv, DeletedIsGone, GoneInv
  <1> QED
    BY <1>1, <1>2, <1>3, <1>4, <1>5, <1>6, <1>7, <1>8

LEMMA ExpandFindKeeps ==
    ASSUME IInv, NEW h \in Handlers, ExpandFind(h)
    PROVE  IInv'
  <1> USE ControllerAssumption, CapacityAssumption
      DEF IInv, ExpandFind, Goto, Return, Fails, Fault, OutOfRange, files, claims, cluster,
          faults, Asked, Absent, Sane
  <1>0. \A g \in Handlers : Sane(AlignedCapacity(arg[g]))
    BY HandlerFacts
  <1>1. TypeOK'
    <2> USE TypeParts
    <2>1. FileTypes'
      BY DEF FileTypes
    <2>2. CallTypes'
      BY <1>0 DEF CallTypes, Steps, CreateSteps, DeleteSteps, ExpandSteps, Provisioning, Resizing, ClusterTypes
    <2>3. ClusterTypes'
      BY <1>0 DEF ClusterTypes, CallTypes, CallInv
    <2> QED
      BY ONLY <2>1, <2>2, <2>3, TypeParts
  <1> USE DEF TypeOK, Steps, CreateSteps, DeleteSteps, ExpandSteps, Provisioning, Resizing
  <1>2. CallInv'
    BY <1>0 DEF CallInv
  <1>3. SidecarInv'
    BY <1>0 DEF CallInv, SidecarInv
  <1>4. SizeInv'
    BY <1>0 DEF CallInv, SidecarInv, SizeInv
  <1>5. EncryptedInv'
    BY <1>0 DEF CallInv, SidecarInv, EncryptedInv
  <1>6. ImageInv'
    BY <1>0 DEF CallInv, SidecarInv, BoundHasImage, Overhead, ImageInv
  <1>7. FormatInv'
    BY <1>0 DEF CallInv, SidecarInv, ImageInv, BoundHasImage, FormatInv
  <1>8. GoneInv'
    BY <1>0 DEF CallInv, SidecarInv, DeletedIsGone, GoneInv
  <1> QED
    BY <1>1, <1>2, <1>3, <1>4, <1>5, <1>6, <1>7, <1>8

LEMMA ExpandStatKeeps ==
    ASSUME IInv, NEW h \in Handlers, ExpandStat(h)
    PROVE  IInv'
  <1> USE ControllerAssumption, CapacityAssumption
      DEF IInv, ExpandStat, MayGrow, Grows, Goto, Return, Fails, files, claims, cluster,
          faults, Asked, Absent, Sane
  <1>0. \A g \in Handlers : Sane(AlignedCapacity(arg[g]))
    BY HandlerFacts
  <1>1. TypeOK'
    <2> USE TypeParts
    <2>1. FileTypes' /\ ClusterTypes'
      BY DEF FileTypes, ClusterTypes
    <2>2. CallTypes'
      BY <1>0 DEF CallTypes, Steps, CreateSteps, DeleteSteps, ExpandSteps, Provisioning, Resizing, ClusterTypes
    <2> QED
      BY ONLY <2>1, <2>2, TypeParts
  <1> USE DEF TypeOK, Steps, CreateSteps, DeleteSteps, ExpandSteps, Provisioning, Resizing
  <1>2. CallInv'
    BY <1>0 DEF CallInv
  <1>3. SidecarInv'
    BY <1>0 DEF CallInv, SidecarInv
  <1>4. SizeInv'
    BY <1>0 DEF CallInv, SidecarInv, SizeInv
  <1>5. EncryptedInv'
    BY <1>0 DEF CallInv, SidecarInv, EncryptedInv
  <1>6. ImageInv'
    BY <1>0 DEF CallInv, SidecarInv, BoundHasImage, Overhead, ImageInv
  <1>7. FormatInv'
    BY <1>0 DEF CallInv, SidecarInv, ImageInv, BoundHasImage, FormatInv
  <1>8. GoneInv'
    BY <1>0 DEF CallInv, SidecarInv, DeletedIsGone, GoneInv
  <1> QED
    BY <1>1, <1>2, <1>3, <1>4, <1>5, <1>6, <1>7, <1>8

LEMMA ExpandGrowKeeps ==
    ASSUME IInv, NEW h \in Handlers, ExpandGrow(h)
    PROVE  IInv'
  <1> USE ControllerAssumption, CapacityAssumption
      DEF IInv, ExpandGrow, Truncated, TruncateFails, Grows, Goto, Return, Fails, Fault,
          files, claims, cluster, faults, Asked, Absent, Sane
  <1>0. \A g \in Handlers : Sane(AlignedCapacity(arg[g]))
    BY HandlerFacts
  <1>1. TypeOK'
    <2> USE TypeParts
    <2>1. FileTypes'
      BY <1>0 DEF FileTypes, CallTypes, CallInv
    <2>2. CallTypes'
      BY <1>0 DEF CallTypes, Steps, CreateSteps, DeleteSteps, ExpandSteps, Provisioning, Resizing, ClusterTypes
    <2>3. ClusterTypes'
      BY <1>0 DEF ClusterTypes, CallTypes, CallInv
    <2> QED
      BY ONLY <2>1, <2>2, <2>3, TypeParts
  <1> USE DEF TypeOK, Steps, CreateSteps, DeleteSteps, ExpandSteps, Provisioning, Resizing
  <1>2. CallInv'
    BY <1>0 DEF CallInv
  <1>3. SidecarInv'
    BY <1>0 DEF CallInv, SidecarInv
  <1>4. SizeInv'
    <2>1. CASE Truncated(vol[h], AlignUp(Asked(h))) /\ Grows(h) /\ UNCHANGED faults
      BY <1>0, <2>1 DEF CallInv, SidecarInv, SizeInv
    <2>2. CASE TruncateFails(h)
      BY <1>0, <2>2 DEF CallInv, SidecarInv, SizeInv
    <2> QED
      BY <2>1, <2>2
  <1>5. EncryptedInv'
    BY <1>0 DEF CallInv, SidecarInv, EncryptedInv
  <1>6. ImageInv'
    <2>1. CASE Truncated(vol[h], AlignUp(Asked(h))) /\ Grows(h) /\ UNCHANGED faults
      BY <2>1, <1>0 DEF CallInv, SidecarInv, BoundHasImage, Overhead, ImageInv
    <2>2. CASE TruncateFails(h)
      BY <2>2, <1>0 DEF CallInv, SidecarInv, BoundHasImage, Overhead, ImageInv
    <2> QED
      BY <2>1, <2>2
  <1>7. FormatInv'
    BY <1>0 DEF CallInv, SidecarInv, ImageInv, BoundHasImage, FormatInv
  <1>8. GoneInv'
    BY <1>0 DEF CallInv, SidecarInv, DeletedIsGone, GoneInv
  <1> QED
    BY <1>1, <1>2, <1>3, <1>4, <1>5, <1>6, <1>7, <1>8

LEMMA RestartKeeps ==
    ASSUME IInv, Restart
    PROVE  IInv'
  <1> USE ControllerAssumption, CapacityAssumption
      DEF IInv, Restart, Fault, files, claims, cluster, faults, Asked, Absent
  <1>1. TypeOK'
    <2> USE TypeParts
    <2>1. FileTypes'
      BY DEF FileTypes
    <2>2. CallTypes'
      BY DEF CallTypes, Steps, CreateSteps, DeleteSteps, ExpandSteps, Provisioning, Resizing, ClusterTypes
    <2>3. ClusterTypes'
      BY DEF ClusterTypes, CallTypes, CallInv
    <2> QED
      BY ONLY <2>1, <2>2, <2>3, TypeParts
  <1> USE DEF TypeOK, Steps, CreateSteps, DeleteSteps, ExpandSteps, Provisioning, Resizing
  <1>2. CallInv'
    BY DEF CallInv
  <1>3. SidecarInv'
    BY DEF CallInv, SidecarInv
  <1>4. SizeInv'
    BY DEF CallInv, SidecarInv, SizeInv
  <1>5. EncryptedInv'
    BY DEF CallInv, SidecarInv, EncryptedInv
  <1>6. ImageInv'
    BY DEF CallInv, SidecarInv, BoundHasImage, Overhead, ImageInv
  <1>7. FormatInv'
    BY DEF CallInv, SidecarInv, ImageInv, BoundHasImage, FormatInv
  <1>8. GoneInv'
    BY DEF CallInv, SidecarInv, DeletedIsGone, GoneInv
  <1> QED
    BY <1>1, <1>2, <1>3, <1>4, <1>5, <1>6, <1>7, <1>8

-----------------------------------------------------------------------------
(* Every step. *)

LEMMA InitEstablishes == Init => IInv
  <1> SUFFICES ASSUME Init PROVE IInv
    OBVIOUS
  <1> USE ControllerAssumption, CapacityAssumption DEF Absent
  <1>1. PICK old \in SUBSET Names : \E image \in [old -> Old] : OldVolumes(old, image)
    BY DEF Init, InitVolumes
  <1>2. MaxInt \in Nat
    OBVIOUS
  <1>3. PICK image \in [old -> Old] : OldVolumes(old, image)
    BY <1>1
  <1> USE DEF OldVolumes
  <1>4. \A n \in old :
          /\ image[n].size \in 1..MaxInt /\ image[n].block \in 1..BlockSize
          /\ image[n].size >= image[n].block /\ BlockSize % image[n].block = 0
          /\ image[n].encrypted => image[n].size >= MinEncrypted
    BY <1>3
  <1>5. \A n \in old : /\ size[n] \in 1..MaxInt /\ block[n] \in 1..BlockSize
                       /\ size[n] >= block[n] /\ BlockSize % block[n] = 0
                       /\ n \in encrypted => size[n] >= MinEncrypted
                       /\ pv[n] = "bound" /\ acked[n] = size[n]
    BY <1>3, <1>4
  <1>6. \A n \in Names \ old : size[n] = 0 - 1 /\ block[n] = 0 /\ pv[n] = "none" /\ fs[n] = 0
    BY <1>3
  <1>7. \A n \in old : /\ fs[n] \in 0..MaxInt /\ fs[n] + Overhead(n) <= size[n]
                       /\ Divides(block[n], fs[n]) /\ Divides(block[n], BlockSize)
                       /\ n \notin encrypted => fs[n] > 0
    <2> SUFFICES ASSUME NEW n \in old
                 PROVE  /\ fs[n] \in 0..MaxInt /\ fs[n] + Overhead(n) <= size[n]
                        /\ Divides(block[n], fs[n]) /\ Divides(block[n], BlockSize)
                        /\ n \notin encrypted => fs[n] > 0
      OBVIOUS
    <2> DEFINE s == size[n] - Overhead(n)
               b == block[n]
    <2>1. /\ s \in Nat /\ s <= MaxInt /\ b \in Nat \ {0}
          /\ n \notin encrypted => s >= b
      BY <1>5 DEF Overhead
    <2>2. size[n] = s + Overhead(n) /\ Overhead(n) \in Nat
      BY <1>5 DEF Overhead
    <2>3. fs[n] = Filled(s, b)
      <3>1. n \in Names /\ size[n] - 0 = size[n]
        BY <1>5
      <3> QED
        BY ONLY <1>3, <3>1 DEF OldVolumes, Overhead
    <2>4. Divides(b, BlockSize)
      BY <1>5 DEF Divides
    <2> HIDE DEF s, b
    <2>5. /\ Filled(s, b) \in Nat /\ Filled(s, b) <= s /\ Divides(b, Filled(s, b))
          /\ s >= b => Filled(s, b) > 0
      <3>1. s \in Int /\ s \in Nat /\ b \in Nat \ {0}
        BY <2>1
      <3> QED
        BY ONLY <3>1, FilledFacts
    <2>6. fs[n] \in 0..MaxInt /\ fs[n] + Overhead(n) <= size[n]
      BY ONLY <1>2, <2>1, <2>2, <2>3, <2>5
    <2> QED
      BY ONLY <2>1, <2>3, <2>4, <2>5, <2>6 DEF b
  <1>8. TypeOK
    <2>1. FileTypes
      <3>1. size \in [Names -> 0..MaxInt \cup {Absent}]
        BY <1>3, <1>4
      <3>2. block \in [Names -> 0..BlockSize]
        BY <1>3, <1>4
      <3>3. \A n \in Names : fs[n] \in 0..MaxInt
        BY ONLY <1>2, <1>6, <1>7
      <3>4. fs \in [Names -> 0..MaxInt]
        BY ONLY <1>3, <3>3 DEF OldVolumes
      <3> QED
        BY ONLY <3>1, <3>2, <3>4 DEF FileTypes
    <2>2. known \in BOOLEAN
      BY <1>3
    <2>3. CallTypes
      BY <2>2 DEF Init, CallTypes, Steps
    <2>4. ClusterTypes
      BY <1>3, <1>4 DEF Init, ClusterTypes
    <2> QED
      BY ONLY <2>1, <2>3, <2>4, TypeParts
  <1>9. CallInv
    BY DEF Init, CallInv
  <1>10. SidecarInv
    BY <1>3 DEF Init, SidecarInv, CreateSteps, DeleteSteps, ExpandSteps, Provisioning, Resizing
  <1>11. encrypted \subseteq Names /\ \A h \in Handlers : at[h] = "idle"
    BY <1>3 DEF Init
  <1>12. SizeInv
    <2>1. \A n \in encrypted : size[n] > 0 => size[n] >= MinEncrypted
      BY <1>5, <1>6, <1>11
    <2>2. \A n \in encrypted : pv[n] = "bound" => acked[n] >= MinEncrypted
      BY <1>5, <1>6, <1>11
    <2>3. \A n \in Names : IF block[n] = 0 THEN fs[n] = 0
                           ELSE Divides(block[n], BlockSize) /\ Divides(block[n], fs[n])
      BY <1>5, <1>6, <1>7
    <2>4. \A n \in Names : pv[n] = "none" => size[n] <= 0
      BY <1>5, <1>6
    <2> QED
      BY <1>11, <2>1, <2>2, <2>3, <2>4 DEF SizeInv, CreateSteps, ExpandSteps, Resizing
  <1>13. EncryptedInv
    BY <1>5, <1>6, <1>11 DEF EncryptedInv
  <1>14. ImageInv
    BY <1>5, <1>6, <1>7, <1>11 DEF ImageInv, BoundHasImage, ExpandSteps, Resizing
  <1>15. FormatInv
    BY <1>5, <1>6, <1>7, <1>11 DEF FormatInv
  <1>16. GoneInv
    BY <1>3 DEF Init, GoneInv, DeletedIsGone
  <1> QED
    BY <1>8, <1>9, <1>10, <1>12, <1>13, <1>14, <1>15, <1>16 DEF IInv

LEMMA StutterKeeps ==
    ASSUME IInv, UNCHANGED vars
    PROVE  IInv'
  <1> USE DEF IInv, vars, files, claims, cluster, faults, Asked
  <1>1. TypeOK' /\ CallInv' /\ SidecarInv' /\ SizeInv'
    BY DEF TypeOK, CallInv, SidecarInv, SizeInv
  <1>2. EncryptedInv' /\ ImageInv' /\ FormatInv' /\ GoneInv'
    BY DEF EncryptedInv, ImageInv, BoundHasImage, Overhead, FormatInv, GoneInv, DeletedIsGone
  <1> QED
    BY <1>1, <1>2

LEMMA NextKeeps ==
    ASSUME IInv, [Next]_vars
    PROVE  IInv'
  <1>1. CASE UNCHANGED vars
    BY <1>1, StutterKeeps
  <1>2. ASSUME NEW h \in Handlers, NEW n \in Names,
               Create(h, n) \/ Delete(h, n) \/ \E r \in Ranges : Expand(h, n, r)
        PROVE  IInv'
    BY <1>2, CreateKeeps, DeleteKeeps, ExpandKeeps
  <1>3. ASSUME NEW h \in Handlers, Handler(h) PROVE IInv'
    BY <1>3, CreateGetKeeps, CreateStatKeeps, CreateTruncateKeeps, CreateMkfsKeeps,
       CreateRemoveKeeps, DeleteFindKeeps, DeleteUnlinkKeeps, ExpandFindKeeps, ExpandStatKeeps,
       ExpandGrowKeeps, ReplyKeeps DEF Handler
  <1>4. ASSUME NEW h \in Handlers, Timeout(h) PROVE IInv'
    BY <1>4, TimeoutKeeps
  <1>5. CASE Restart
    BY <1>5, RestartKeeps
  <1> QED
    BY <1>1, <1>2, <1>3, <1>4, <1>5 DEF Next

LEMMA Invariance == Spec => []IInv
  BY InitEstablishes, NextKeeps, PTL DEF Spec

-----------------------------------------------------------------------------
(* What the invariant says of a state and of a step. *)

LEMMA InvImplies ==
    ASSUME IInv
    PROVE  TypeOK /\ BoundKeepsImage /\ BoundIsFormatted /\ DeletedIsGoneOnceKnown
  <1>1. TypeOK
    BY DEF IInv
  <1>2. BoundKeepsImage
    BY DEF IInv, ImageInv, EncryptedInv, BoundKeepsImage
  <1>3. BoundIsFormatted
    BY DEF IInv, FormatInv, ImageInv, BoundHasImage, BoundIsFormatted, Absent
  <1>4. DeletedIsGoneOnceKnown
    BY DEF IInv, GoneInv, DeletedIsGoneOnceKnown
  <1> QED
    BY <1>1, <1>2, <1>3, <1>4

LEMMA StepKeepsSizes ==
    ASSUME IInv, [Next]_vars
    PROVE  \A n \in Names : "timeout" \notin happened /\ size'[n] # Absent => size'[n] >= size[n]
  <1> DEFINE Kept == \A n \in Names :
               "timeout" \notin happened /\ size'[n] # Absent => size'[n] >= size[n]
  <1> USE DEF IInv, TypeOK, Absent
  <1>1. CASE UNCHANGED size
    BY <1>1
  <1>2. ASSUME NEW h \in Handlers, CreateTruncate(h) \/ ExpandGrow(h) PROVE Kept
    BY <1>2, HandlerFacts
       DEF Sane, CreateTruncate, ExpandGrow, Truncated, TruncateFails, Asked, CallInv, ImageInv
  <1>3. ASSUME NEW h \in Handlers, CreateRemove(h) \/ DeleteUnlink(h) PROVE Kept
    BY <1>3 DEF CreateRemove, DeleteUnlink, Removed, CallInv, files
  <1>4. \/ UNCHANGED size
        \/ \E h \in Handlers : CreateTruncate(h) \/ ExpandGrow(h)
        \/ \E h \in Handlers : CreateRemove(h) \/ DeleteUnlink(h)
    BY DEF Next, Handler, vars, files, claims, cluster, faults, Create, Delete, Expand, Call,
       Reply, Timeout, CreateGet, CreateStat, CreateMkfs, DeleteFind, ExpandFind, ExpandStat, Restart
  <1> QED
    BY <1>1, <1>2, <1>3, <1>4

LEMMA StepAnswersInRange ==
    ASSUME IInv, [Next]_vars, NEW h \in Handlers,
           at[h] \in {"reply", "e_reply"}, at'[h] = "idle", acked' # acked
    PROVE  InRange(acked'[vol[h]], arg[h]) /\ acked'[vol[h]] % BlockSize = 0
  <1>1. PICK g \in Handlers : Reply(g)
    BY DEF Next, Handler, vars, cluster, Create, Delete, Expand, Call, Timeout, Goto, Fails,
       Answers, Deletes, Grows, CreateGet, CreateStat, CreateTruncate, TruncateFails, CreateMkfs,
       CreateRemove, DeleteFind, DeleteUnlink, ExpandFind, ExpandStat, ExpandGrow, Restart
  <1>2. g = h
    BY <1>1 DEF Reply, Return, IInv, TypeOK
  <1>3. acked'[vol[h]] = AlignedCapacity(arg[h]) /\ AlignedCapacity(arg[h]) > 0
    BY <1>1, <1>2 DEF Reply, cluster, Asked, IInv, TypeOK, CallInv
  <1> QED
    BY <1>3, AskedFacts DEF IInv, TypeOK

-----------------------------------------------------------------------------
(* The theorems. *)

\* The variables keep their types: no overflow reaches an image's size or
\* what the cluster is told (controller.go, image.go).
THEOREM TypeCorrect == Spec => []TypeOK
  BY InvImplies, Invariance, PTL

\* A bound volume has an image of the capacity the cluster was told, unless a
\* call was overtaken by its retry; an encrypted one has an image even then
\* (image.go Create, Resize).
THEOREM BoundKeepsItsImage == Spec => []BoundKeepsImage
  BY InvImplies, Invariance, PTL

\* A bound plain volume has a filesystem, whatever command or truncate failed
\* while it was created, as long as the controller was not restarted or
\* overtaken and no remove failed: image.go:114 discards that error, and the
\* next create adopts what was to be removed (image.go Create).
THEOREM BoundHasFilesystem == Spec => []BoundIsFormatted
  BY InvImplies, Invariance, PTL

\* A deleted volume has no image left, whatever failed, removes included,
\* unless the controller was restarted, a call overtaken, or the delete called
\* with an expand of the volume under way, whose truncate would make the file
\* anew (controller.go DeleteVolume, imageManagerForVolumeID; image.go Resize).
THEOREM DeletedLeavesNothing == Spec => []DeletedIsGoneOnceKnown
  BY InvImplies, Invariance, PTL

\* Concurrent creates, deletes and expands never make an image smaller,
\* unless a call was overtaken by its retry (image.go Resize, truncateSparse).
THEOREM ImagesNeverShrink == Spec => NeverShrinks
  BY StepKeepsSizes, Invariance, PTL DEF Spec, NeverShrinks

\* Every capacity the cluster is told is in the range of the request it
\* answers and in whole blocks, also when rounding up would overflow an int64
\* (controller.go alignedCapacity).
THEOREM AnswersAreInRange == Spec => AnswerInRange
  <1>1. ASSUME IInv, [Next]_vars
        PROVE  \A h \in Handlers : at[h] \in {"reply", "e_reply"} /\ at'[h] = "idle" /\ acked' # acked =>
                 InRange(acked'[vol[h]], arg[h]) /\ acked'[vol[h]] % BlockSize = 0
    BY <1>1, StepAnswersInRange
  <1> QED
    BY <1>1, Invariance, PTL DEF Spec, AnswerInRange
=============================================================================
