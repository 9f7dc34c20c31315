------------------------------ MODULE OtaImage ------------------------------
(***************************************************************************)
(* Firmware images as the OTA updater of src/ota/ota.c sees them: a binary *)
(* of Size bytes, the two bytes of its CRC trailer included, cut into      *)
(* blocks of BlockLen bytes.  A block is known by the image it was cut     *)
(* from and its number; its bytes never matter.                            *)
(*                                                                         *)
(* The CRC-16 over a sequence of blocks is modelled as the sequence itself *)
(* (no collisions), so two CRCs are equal exactly when what was summed is. *)
(***************************************************************************)
EXTENDS Integers, Sequences

CONSTANTS
    Image,       \* firmware images that can be in a flash bank of either node
    MasterImage, \* those that the master may hold as its OTA binary
    Version,     \* [Image -> Nat], OTA_FW_VERSION of the build
    Size,        \* [Image -> Nat], TotalBinSize: file size + OTA_APPEND_INFO_LEN
    Sealed,      \* [Image -> BOOLEAN], the trailer is the CRC of what precedes it
    BlockLen,    \* OTA_FRAME_PAYLOAD_MAX - 2
    BadCRC       \* the CRC value a trailer has when it is not its image's

OTA_APPEND_INFO_LEN == 2

(* The number of blocks of im: MaxBlockNum in OTA_MasterInit. *)
MaxBlockNum(im) == (Size[im] + BlockLen - 1) \div BlockLen

ASSUME BlockLenAssumption == BlockLen \in Nat \ {0}

ASSUME ImageAssumption ==
    /\ MasterImage \subseteq Image
    /\ Version \in [Image -> Nat]
    /\ Size \in [Image -> Nat \ {0}]
    /\ Sealed \in [Image -> BOOLEAN]

(* The trailer lies within the last block.  A binary whose size is 47 modulo
   48 would have its trailer cut in two, and OTA_SlaveStart would then compute
   a length of -1 for its last block. *)
ASSUME TrailerAssumption ==
    \A im \in Image : Size[im] - (MaxBlockNum(im) - 1) * BlockLen >= OTA_APPEND_INFO_LEN

Block(im, i) == [im |-> im, idx |-> i]

BlockOf == [im : Image, idx : Nat]

(* The bytes of block i that the master reads and sends: a full block, or
   what is left of the binary. *)
BlockBytes(im, i) ==
    IF Size[im] - (i - 1) * BlockLen > BlockLen
    THEN BlockLen
    ELSE Size[im] - (i - 1) * BlockLen

Blocks(im) == [i \in 1 .. MaxBlockNum(im) |-> Block(im, i)]

(* TargetFwCRC: the CRC found in the trailer of a block. *)
TrailerCRC(blk) ==
    IF /\ blk \in BlockOf
       /\ Sealed[blk.im]
       /\ blk.idx = MaxBlockNum(blk.im)
    THEN Blocks(blk.im)
    ELSE BadCRC
=============================================================================
