----------------------------- MODULE BootFlash ------------------------------
(***************************************************************************)
(* The slave's flash: two firmware banks, 0 at address 0 and 1 at          *)
(* OTA_SLAVE_BIN_ADDR.  A bank is a row of cells, one per OTA block, and   *)
(* the boot flag, byte 8 of the bank.  Programming flash can only clear    *)
(* bits; only erasing a sector sets them again.                            *)
(*                                                                         *)
(* The boot ROM is not in the repository.  How main() and the END state of *)
(* OTA_SlaveStart use the flags is what BootBank is modelled from.         *)
(***************************************************************************)
EXTENDS OtaImage, TLAPS

CONSTANTS
    FactoryImage, \* images that the factory may have put into bank 0
    MaxBlock,   \* blocks that fit in a bank
    EraseSpan,  \* blocks covered by the 15 sectors that OTA_FlashErase erases
    Erased,     \* content of an erased cell
    Garbage     \* content of a cell programmed over, or only in part

VARIABLE flash

Bank == {0, 1}
Other(b) == 1 - b

CellContent == BlockOf \cup {Erased, Garbage}
BankContent == [flag : {"blank", "set", "cleared"}, cell : [1 .. MaxBlock -> CellContent]]

ASSUME FlashAssumption ==
    /\ MaxBlock \in Nat \ {0}
    /\ EraseSpan \in 1 .. MaxBlock
    /\ \A im \in Image : MaxBlockNum(im) <= MaxBlock

ASSUME FactoryAssumption == FactoryImage \subseteq Image

ASSUME SentinelAssumption ==
    /\ Erased \notin BlockOf
    /\ Garbage \notin BlockOf
    /\ Erased # Garbage
    /\ BadCRC \notin Seq(CellContent)

(* A cell after data is programmed into it. *)
Program(old, data) ==
    IF old = Erased THEN data ELSE IF old = data THEN old ELSE Garbage

(* The flag byte after 0x4b, or after 0x00, is programmed into it. *)
SetFlag(bank) == [bank EXCEPT !.flag = IF @ = "blank" THEN "set" ELSE @]
ClearFlag(bank) == [bank EXCEPT !.flag = "cleared"]

(* OTA_FlashErase: the first sector, the flag's, is erased first. *)
Erase(bank) ==
    [flag |-> "blank",
     cell |-> [i \in 1 .. MaxBlock |-> IF i <= EraseSpan THEN Erased ELSE bank.cell[i]]]

(* Power fails after k cells: the cell then being erased may hold anything. *)
TornErase(bank, k, last) ==
    [flag |-> IF k > 0 THEN "blank" ELSE bank.flag,
     cell |-> [i \in 1 .. MaxBlock |->
                 IF i <= k THEN Erased ELSE IF i = k + 1 THEN last ELSE bank.cell[i]]]

TornErases(bank) ==
    {TornErase(bank, k, last) : k \in 0 .. EraseSpan - 1, last \in {Erased, Garbage}}

(* Which bank the boot ROM starts: also the test at main.c:160. *)
BootBank == IF flash[0].flag = "set" THEN 0 ELSE 1

(* The cells hold a whole image, and which. *)
Holds(cell, im) == \A i \in 1 .. MaxBlockNum(im) : cell[i] = Block(im, i)

(* The image that the cells hold, or the cells if they hold none. *)
ImageIn(cell) ==
    IF \E im \in Image : Holds(cell, im) THEN CHOOSE im \in Image : Holds(cell, im) ELSE cell

Bootable(bank) == bank.flag = "set" /\ \E im \in Image : Holds(bank.cell, im)

(* The factory programs an image into bank 0.  Bank 1 is erased, or has the
   firmware that an update before this one left there. *)
Factory(flag, im) ==
    [flag |-> flag,
     cell |-> [i \in 1 .. MaxBlock |-> IF i <= MaxBlockNum(im) THEN Block(im, i) ELSE Erased]]

BlankBank == [flag |-> "blank", cell |-> [i \in 1 .. MaxBlock |-> Erased]]

FlashInit ==
    \E im \in FactoryImage, left \in {BlankBank} \cup {Factory("cleared", last) : last \in Image} :
        flash = [b \in Bank |-> IF b = 0 THEN Factory("set", im) ELSE left]
-----------------------------------------------------------------------------
(***************************************************************************)
(* Lemmas about images and the two banks, which the proofs about both      *)
(* updaters use.                                                           *)
(***************************************************************************)
(* An image has a natural number of blocks. *)
LEMMA MaxBlockNumType ==
    ASSUME NEW im \in Image
    PROVE  MaxBlockNum(im) \in Nat
<1>1. Size[im] \in Nat \ {0} /\ BlockLen \in Nat \ {0}
  BY ImageAssumption, BlockLenAssumption
<1> DEFINE a == Size[im] + BlockLen - 1
<1>2. a \in Nat
  BY <1>1
<1>3. a \div BlockLen \in Nat
  BY <1>1, <1>2
<1> QED
  BY <1>3 DEF MaxBlockNum

LEMMA BlockBytesType ==
    ASSUME NEW im \in Image, NEW i \in Nat
    PROVE  BlockBytes(im, i) \in Int
<1>1. Size[im] \in Int /\ BlockLen \in Int
  BY ImageAssumption, BlockLenAssumption
<1>2. (i - 1) * BlockLen \in Int
  BY <1>1
<1> QED
  BY <1>1, <1>2 DEF BlockBytes

FlashTypeOK == flash \in [Bank -> BankContent]

(* The banks stay banks under every flash operation. *)
LEMMA FlagType ==
    ASSUME NEW bank \in BankContent
    PROVE  /\ SetFlag(bank) \in BankContent
           /\ ClearFlag(bank) \in BankContent
BY DEF SetFlag, ClearFlag, BankContent

LEMMA EraseType ==
    ASSUME NEW bank \in BankContent
    PROVE  /\ Erase(bank) \in BankContent
           /\ \A torn \in TornErases(bank) : torn \in BankContent
<1>1. Erased \in CellContent /\ Garbage \in CellContent
  BY DEF CellContent
<1>2. Erase(bank) \in BankContent
  BY <1>1 DEF Erase, BankContent
<1>3. ASSUME NEW k, NEW last \in {Erased, Garbage}
      PROVE  TornErase(bank, k, last) \in BankContent
  BY <1>1 DEF TornErase, BankContent
<1> QED
  BY <1>2, <1>3 DEF TornErases

LEMMA MaxBlockNumPositive ==
    ASSUME NEW im \in Image
    PROVE  MaxBlockNum(im) \in Nat \ {0}
<1>1. Size[im] \in Nat \ {0} /\ BlockLen \in Nat \ {0}
  BY ImageAssumption, BlockLenAssumption
<1> DEFINE a == Size[im] + BlockLen - 1
<1>2. a \in Nat /\ a >= BlockLen
  BY <1>1
<1>3. a \div BlockLen \in Nat \ {0}
  BY <1>1, <1>2
<1> QED
  BY <1>3 DEF MaxBlockNum

(* A row of cells holds at most one image, and a CRC is that of at most one. *)
LEMMA OneImage ==
    ASSUME NEW cell, NEW im1 \in Image, NEW im2 \in Image, Holds(cell, im1), Holds(cell, im2)
    PROVE  im1 = im2
<1>1. 1 \in 1 .. MaxBlockNum(im1) /\ 1 \in 1 .. MaxBlockNum(im2)
  BY MaxBlockNumPositive
<1>2. Block(im1, 1) = Block(im2, 1)
  BY <1>1 DEF Holds
<1> QED
  BY <1>2 DEF Block

LEMMA OneBlocks ==
    ASSUME NEW im1 \in Image, NEW im2 \in Image, Blocks(im1) = Blocks(im2)
    PROVE  im1 = im2
<1>1. 1 \in 1 .. MaxBlockNum(im1) /\ 1 \in 1 .. MaxBlockNum(im2)
  BY MaxBlockNumPositive
<1>2. Blocks(im1)[1] = Block(im1, 1) /\ Blocks(im2)[1] = Block(im2, 1)
  BY <1>1 DEF Blocks
<1>3. Block(im1, 1) = Block(im2, 1)
  BY <1>2
<1> QED
  BY <1>3 DEF Block

LEMMA ImageInHeld ==
    ASSUME NEW cell, NEW im \in Image, Holds(cell, im)
    PROVE  ImageIn(cell) = im
<1>1. ImageIn(cell) \in Image /\ Holds(cell, ImageIn(cell))
  BY DEF ImageIn
<1> QED
  BY <1>1, OneImage

LEMMA BankType == BootBank \in Bank /\ Other(BootBank) \in Bank /\ Other(Other(BootBank)) = BootBank
BY DEF BootBank, Other, Bank

LEMMA EraseFlag ==
    ASSUME NEW bank
    PROVE  /\ Erase(bank).flag = "blank"
           /\ \A torn \in TornErases(bank) : torn.flag \in {"blank", bank.flag}
BY DEF Erase, TornErases, TornErase

(* A step that leaves alone what boots. *)
BootKept == BootBank' = BootBank /\ flash'[BootBank] = flash[BootBank]

(* A step that does not write to the cells of what boots. *)
CellsKept == flash'[BootBank].cell = flash[BootBank].cell

(* Anything may happen to the bank that does not boot, but that its flag
   becomes set. *)
LEMMA OtherBankKept ==
    ASSUME FlashTypeOK, NEW bank,
           flash' = [flash EXCEPT ![Other(BootBank)] = bank],
           bank.flag = "set" => flash[Other(BootBank)].flag = "set"
    PROVE  BootKept
<1>1. CASE flash[0].flag = "set"
  BY <1>1 DEF BootKept, BootBank, Other, Bank
<1>2. CASE flash[0].flag # "set"
  BY <1>2 DEF BootKept, BootBank, Other, Bank
<1> QED
  BY <1>1, <1>2
=============================================================================
