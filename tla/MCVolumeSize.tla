----------------------------- MODULE MCVolumeSize -----------------------------
(***************************************************************************)
(* Sizes for VolumeSize in units of 256 bytes: sectors of 2 (512 bytes) and*)
(* up, blocks of 8.  The ranges reach every branch of alignedCapacity: the *)
(* default, round up, round down to the limit, no size in the range, and an*)
(* overflow.  The old images have small blocks, a size no sector divides,  *)
(* and a LUKS header with 512-byte sectors.                                *)
(***************************************************************************)
EXTENDS VolumeSize

Bytes(r, l) == [required |-> r, limit |-> l]
MCRanges == {Bytes(0, 0), Bytes(0, 12), Bytes(9, 12), Bytes(9, 20), Bytes(17, 0), Bytes(25, 31)}
MCOld == {[size |-> 12, block |-> 4, encrypted |-> FALSE],
          [size |-> 13, block |-> 4, encrypted |-> FALSE],
          [size |-> 20, block |-> 2, encrypted |-> TRUE]}
=============================================================================
