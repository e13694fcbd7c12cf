------------------------------- MODULE Capacity -------------------------------
(***************************************************************************)
(* The arithmetic behind a volume's size: which image size a CSI capacity  *)
(* range gets (pkg/driver/controller.go alignedCapacity, pkg/image AlignUp)*)
(* and with which sector size an image is attached (pkg/loop               *)
(* SectorSizeFor).  Go's int64 wraps around and its division truncates.    *)
(*                                                                         *)
(* Definitions named <operator>_<change> are mutants: the operator as a    *)
(* plausible bug would have it, to show that a property notices.           *)
(***************************************************************************)
EXTENDS Integers

CONSTANTS
    BlockSize,       \* image.DefaultBlockSize
    MaxInt,          \* math.MaxInt64
    DefaultCapacity, \* defaultCapacityBytes
    MinSector,       \* minSectorSize
    PageSize         \* os.Getpagesize()

ASSUME CapacityAssumption ==
    /\ BlockSize \in Nat \ {0} /\ MaxInt \in Nat
    /\ 2 * BlockSize <= MaxInt /\ (MaxInt + 1) % BlockSize = 0
    /\ DefaultCapacity \in BlockSize..(MaxInt - BlockSize)
    /\ MinSector \in 1..BlockSize /\ PageSize \in Nat /\ BlockSize <= PageSize
    /\ \A t \in 1..BlockSize : t > MinSector /\ BlockSize % t = 0 => t % 2 = 0

Int64 == (0 - MaxInt - 1)..MaxInt

\* A CSI capacity range; 0 stands for a bound that is not given.
Range64 == [required : Int64, limit : Int64]

\* The sum or product n as an int64 holds it.
Wrap(n) == ((n + MaxInt + 1) % (2 * (MaxInt + 1))) - (MaxInt + 1)

\* Go's n / d for d > 0.
Quotient(n, d) == IF n >= 0 THEN n \div d ELSE 0 - ((0 - n) \div d)

AlignUp(n) == Quotient(Wrap(n + BlockSize - 1), BlockSize) * BlockSize
AlignDown(n) == Quotient(n, BlockSize) * BlockSize

Wanted(r) ==
    IF r.required > 0 THEN r.required
    ELSE IF r.limit > 0 THEN r.limit ELSE DefaultCapacity

OutOfRange == 0

\* alignedCapacity: a size, or OutOfRange.  A negative size is what a sum
\* that overflows leaves; the image manager refuses it.
AlignedCapacity_PastLimit(r) == AlignUp(Wanted(r))
AlignedCapacity(r) ==
    LET up   == AlignUp(Wanted(r))
        down == AlignDown(r.limit)
    IN  IF r.limit > 0 /\ up > r.limit
        THEN IF down = 0 \/ down < r.required THEN OutOfRange ELSE down
        ELSE up

\* What the caller asked for.
InRange(s, r) == (r.required > 0 => s >= r.required) /\ (r.limit > 0 => s <= r.limit)

\* SectorSizeFor: the recorded size or the default, at most a page, halved
\* until it divides the image.
SectorSizeFor_Default(recorded, imageSize) == BlockSize
SectorSizeFor(recorded, imageSize) ==
    LET s == IF recorded <= 0 THEN BlockSize ELSE recorded
        first == IF s <= PageSize THEN s ELSE PageSize
        halve[t \in 0..first] ==
            IF t > MinSector /\ imageSize % t # 0 THEN halve[t \div 2] ELSE t
    IN  halve[first]
=============================================================================
