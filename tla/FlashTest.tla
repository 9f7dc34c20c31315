------------------------------ MODULE FlashTest ------------------------------
(***************************************************************************)
(* The flash driver of src/drivers/flash.c and src/drivers/flash, and the  *)
(* demonstration that tests it, src/vendor/flash_operation/main.c: it      *)
(* erases and programs a sector, locks it, finds that it cannot be erased, *)
(* unlocks it, and erases it.  The first check that fails stops the        *)
(* program.  The lock is in the chip's status register, which keeps its    *)
(* value without power, and the test begins by erasing: a power failure    *)
(* between locking and unlocking is the case to think of.                  *)
(*                                                                         *)
(* A cell is half a page, 0x80 bytes: the test programs a page's length    *)
(* from the middle of a page.                                              *)
(***************************************************************************)
EXTENDS Integers, Sequences, FiniteSets

VARIABLES
    mid,         \* the chip
    area_cells,  \* the cells of the sector, and of the security register
    status,      \* the status register: the bits that are 1
    config,      \* the configure register
    step,        \* how far the test is
    programmed,  \* cells of the buffer programmed so far, by flash_page_program
    err_status,  \* the check that failed
    cut_locked   \* the power has failed while the sector was locked

flashVars == <<mid, area_cells, status, config, step, programmed, err_status, cut_locked>>

PAGE_SIZE == 2
Flash_Write_Buff == <<"first", "second">>
FLASH_BUFF_LEN == Len(Flash_Write_Buff)

Cell == 0 .. 3
Area == {"sector", "security"}
FlashContent == {"erased", "old", "mixed", "first", "second"}

(***************************************************************************)
(* The chips: the bits of the status register that flash_lock may change,  *)
(* and what the test sets them to.                                         *)
(***************************************************************************)
Lock(set, bits) == [set |-> set, bits |-> bits]

mid1160c8 == Lock({"BP2"}, {"BP0", "BP1", "BP2"})
mid1360c8 == Lock({"BP1", "BP2"}, {"BP0", "BP1", "BP2"})
mid114485 == Lock({"BP0", "BP3"}, {"BP0", "BP1", "BP2", "BP3", "BP4"})
mid136085 == Lock({"BP0", "BP3"}, {"BP0", "BP1", "BP2", "BP3", "BP4", "CMP"})
other == Lock({}, {})

Mid == {mid1160c8, mid1360c8, mid114485, mid136085, other}

(* Bits that lock and unlock have nothing to do with. *)
OtherBit == {"QE"}
Bit == OtherBit \cup mid136085.bits

(* flash_write_status_mid*: read, change, write. *)
flash_write_status(data, bits) == data \cup (status \ bits)

(* The sector cannot be erased or programmed.  With WPS the chip has locks of
   another kind, taken to be open, and the bits BP mean nothing. *)
Locked == status \cap mid.bits # {} /\ "WPS" \notin config

(***************************************************************************)
(* The driver, and what the chip does.                                     *)
(***************************************************************************)
(* Programming clears bits. *)
Programmed(old, data) == IF old \in {"erased", data} THEN data ELSE "mixed"

(* One program command: an address past the end of the page goes on at its
   beginning. *)
PageProgram(cells, addr, data) ==
    LET page == addr - (addr % PAGE_SIZE)
        To(i) == page + ((addr + i - 1) % PAGE_SIZE)
    IN [c \in Cell |-> IF \E i \in 1 .. Len(data) : To(i) = c
                       THEN Programmed(cells[c], data[CHOOSE i \in 1 .. Len(data) : To(i) = c])
                       ELSE cells[c]]

(* Mutant: as if every buffer began with a page. *)
PieceOfPage(addr, len) == IF len > PAGE_SIZE THEN PAGE_SIZE ELSE len

(* flash_page_program, flash_write_otp: what is left of the page, or of the
   buffer. *)
Piece(addr, len) ==
    LET ns == PAGE_SIZE - (addr % PAGE_SIZE)
    IN IF len > ns THEN ns ELSE len

(***************************************************************************)
(* The test.  An operation is of an area; a check reads two cells and      *)
(* compares them with erased ones or with what was programmed.             *)
(***************************************************************************)
Op(op, area) == [op |-> op, area |-> area, from |-> 0, err |-> "none"]
Check(op, area, from, err) == [op |-> op, area |-> area, from |-> from, err |-> err]

user_init ==
    <<Op("erase", "sector"), Check("blank", "sector", 0, "erase_err"),
      Op("program", "sector"), Check("same", "sector", 1, "write_err")>>

(* flash_lock and flash_unlock of mid136085 clear WPS first. *)
WpsFirst == IF mid = mid136085 THEN <<Op("wps", "sector")>> ELSE <<>>

flash_mid_test ==
    WpsFirst \o
    <<Op("lock", "sector"), Op("erase", "sector"), Check("same", "sector", 1, "lock_err")>>
    \o WpsFirst \o
    <<Op("unlock", "sector"), Op("erase", "sector"), Check("blank", "sector", 1, "unlock_err")>>

flash_otp_test ==
    <<Op("erase", "security"), Check("blank", "security", 0, "otp_erase_err"),
      Op("program", "security"), Check("same", "security", 1, "otp_write_err")>>

Test ==
    user_init \o (IF mid = other THEN <<>> ELSE flash_mid_test)
              \o (IF mid = mid136085 THEN flash_otp_test ELSE <<>>)

Done == step > Len(Test)
Now == Test[step]
Doing(ops) == ~Done /\ err_status = "none" /\ Now.op \in ops
Ignored == Now.area = "sector" /\ Locked
-----------------------------------------------------------------------------
FlashInit ==
    /\ mid \in Mid
    /\ area_cells \in [Area -> {[c \in Cell |-> x] : x \in {"old", "erased"}}]
    /\ status \in SUBSET OtherBit
    /\ config \in {{}} \cup (IF mid = mid136085 THEN {{"WPS"}} ELSE {})
    /\ step = 1 /\ programmed = 0
    /\ err_status = "none" /\ cut_locked = FALSE

flash_erase ==
    /\ Doing({"erase"})
    /\ area_cells' = IF Ignored THEN area_cells
                     ELSE [area_cells EXCEPT ![Now.area] = [c \in Cell |-> "erased"]]
    /\ step' = step + 1
    /\ UNCHANGED <<mid, status, config, programmed, err_status, cut_locked>>

(* One pass of the loop of flash_page_program. *)
flash_page_program ==
    /\ Doing({"program"})
    /\ LET addr == 1 + programmed
           len == FLASH_BUFF_LEN - programmed
           nw == Piece(addr, len)
           data == SubSeq(Flash_Write_Buff, programmed + 1, programmed + nw)
       IN /\ area_cells' = IF Ignored THEN area_cells
                           ELSE [area_cells EXCEPT ![Now.area] = PageProgram(@, addr, data)]
          /\ programmed' = IF len > nw THEN programmed + nw ELSE 0
          /\ step' = IF len > nw THEN step ELSE step + 1
    /\ UNCHANGED <<mid, status, config, err_status, cut_locked>>

flash_check ==
    /\ Doing({"blank", "same"})
    /\ LET Expected(i) == IF Now.op = "blank" THEN "erased" ELSE Flash_Write_Buff[i]
       IN IF \A i \in 1 .. FLASH_BUFF_LEN : area_cells[Now.area][Now.from + i - 1] = Expected(i)
          THEN step' = step + 1 /\ UNCHANGED err_status
          ELSE err_status' = Now.err /\ UNCHANGED step
    /\ UNCHANGED <<mid, area_cells, status, config, programmed, cut_locked>>

flash_lock ==
    /\ Doing({"lock"})
    /\ status' = flash_write_status(mid.set, mid.bits)
    /\ step' = step + 1
    /\ UNCHANGED <<mid, area_cells, config, programmed, err_status, cut_locked>>

flash_unlock ==
    /\ Doing({"unlock"})
    /\ status' = flash_write_status({}, mid.bits)
    /\ step' = step + 1
    /\ UNCHANGED <<mid, area_cells, config, programmed, err_status, cut_locked>>

flash_write_config ==
    /\ Doing({"wps"})
    /\ config' = config \ {"WPS"}
    /\ step' = step + 1
    /\ UNCHANGED <<mid, area_cells, status, programmed, err_status, cut_locked>>

(* main toggles a LED for ever, or the test has stopped at an error. *)
Rests == (Done \/ err_status # "none") /\ UNCHANGED flashVars

(* An operation that is cut short leaves cells that are neither. *)
PowerFails ==
    /\ area_cells' \in {area_cells} \cup
         (IF Doing({"erase", "program"}) /\ ~Ignored
          THEN {[area_cells EXCEPT ![Now.area] = [c \in Cell |-> "mixed"]]} ELSE {})
    /\ step' = 1 /\ programmed' = 0 /\ err_status' = "none"
    /\ cut_locked' = (cut_locked \/ Locked)
    /\ UNCHANGED <<mid, status, config>>

FlashNext ==
    \/ flash_erase \/ flash_page_program \/ flash_check
    \/ flash_lock \/ flash_unlock \/ flash_write_config
    \/ Rests \/ PowerFails

FlashSpec == FlashInit /\ [][FlashNext]_flashVars
-----------------------------------------------------------------------------
FlashTypeOK ==
    /\ mid \in Mid
    /\ area_cells \in [Area -> [Cell -> FlashContent]]
    /\ status \subseteq Bit /\ config \subseteq {"WPS"}
    /\ step \in 1 .. Len(Test) + 1
    /\ programmed \in 0 .. FLASH_BUFF_LEN - 1
    /\ cut_locked \in BOOLEAN

(* The test finds an error exactly if the power has failed while the sector
   was locked, and then for good: whatever its cause, a lock that is left on
   makes the first erasure fail at every start, since nothing unlocks the
   chip before.  A test that ends leaves the chip unlocked. *)
TestIsRight ==
    /\ err_status # "none" => cut_locked
    /\ cut_locked => ~Done /\ err_status \in {"none", "erase_err"}
    /\ Done => ~Locked
=============================================================================
