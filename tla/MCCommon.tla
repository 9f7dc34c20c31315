------------------------------ MODULE MCCommon ------------------------------
(***************************************************************************)
(* The parts of the SDK that work on their own, for TLC: they share no     *)
(* state, so that a behaviour is one of any one of them, the others        *)
(* standing still in one of their initial states.                          *)
(***************************************************************************)
EXTENDS TimerEvent, UpdateMsgQueue, RingBuffer, SoftUart, LinkedList,
        ManagedMemory, UsbControl, Keyboard, QuickSort, UtHash,
        RadioDemos, FlashTest, UartDemos, GpioPins

VARIABLE part

vars == <<part, timerVars, queueVars, ringVars, softVars, listVars, mmemVars,
          usbVars, hidVars, scanVars, sortVars, utVars, hashVars, demoVars,
          flashVars, uartVars, pinVars>>

(* A device descriptor, a string, and a HID descriptor. *)
MCDescLen == [device |-> 18, product |-> 16, hid |-> 9]

(* Nothing, a normal key with a system key, a media key. *)
MCKbData == {{}, {"normal", "sys"}, {"media"}}

(* Two of the elements are equal in rank and in hash value. *)
CONSTANTS e1, e2, e3
MCRank == [x \in ListItem |-> IF x = e2 THEN 0 ELSE 1]
MCHashv == [x \in HashItem |-> IF x = e1 THEN 4 ELSE IF x = e2 THEN 0 ELSE 1]

(* PA3, which is the debugger's, PC3 and PF0 are set; of the others a neighbour
   in a register, one with the same number, or one of another group is watched. *)
MCCalledPin == {<<0, 3>>, <<2, 3>>, <<5, 0>>}
MCWatchedPin ==
    MCCalledPin \cup {<<0, 1>>, <<0, 2>>, <<1, 3>>, <<3, 4>>, <<4, 0>>, <<5, 1>>}
MCBoardOutput == {<<5, 1>>}
MCBoardPull == <<2, 3>> :> 3

Init ==
    /\ part \in {"timer", "queue", "ring", "soft", "list", "mmem", "usb", "hid",
                "scan", "sort", "ut", "hash", "demo", "flash", "uart", "pins"}
    /\ TimerInit
    /\ part = "timer" \/ (clock = 0 /\ timer_list[1].interval = CHOOSE i \in Interval : TRUE)
    /\ QueueInit /\ (part = "queue" \/ updater = "ota")
    /\ RingInit
    /\ part = "ring" \/ (mem = [p \in Place |-> Data] /\ Data = CHOOSE b \in Byte : TRUE)
    /\ SoftInit
    /\ ListInit /\ (part = "list" \/ kind = "list")
    /\ MmemInit
    /\ UsbInit
    /\ (part = "sort" \/ array = <<CHOOSE k \in Key : TRUE>>) /\ SortInit
    /\ DemoInit /\ (part = "demo" \/ demo = gen_fsk_tx)
    /\ part = "flash" \/ (mid = other /\ status = {} /\ config = {}
                          /\ area_cells = [a \in Area |-> [c \in Cell |-> "erased"]])
    /\ FlashInit
    /\ HidInit /\ (part = "hid" \/ caller = "keyboard")
    /\ ScanInit
    /\ UtInit /\ (part = "ut" \/ flavour = "LL")
    /\ HashInit
    /\ UartInit /\ (part = "uart" \/ uart = "ndma")
    /\ PinInit

Others(p) ==
    /\ UNCHANGED part
    /\ p # "timer" => UNCHANGED timerVars
    /\ p # "queue" => UNCHANGED queueVars
    /\ p # "ring"  => UNCHANGED ringVars
    /\ p # "soft"  => UNCHANGED softVars
    /\ p # "list"  => UNCHANGED listVars
    /\ p # "mmem"  => UNCHANGED mmemVars
    /\ p # "usb"   => UNCHANGED usbVars
    /\ p # "sort"  => UNCHANGED sortVars
    /\ p # "demo"  => UNCHANGED demoVars
    /\ p # "flash" => UNCHANGED flashVars
    /\ p # "hid"   => UNCHANGED hidVars
    /\ p # "scan"  => UNCHANGED scanVars
    /\ p # "ut"    => UNCHANGED utVars
    /\ p # "hash"  => UNCHANGED hashVars
    /\ p # "uart"  => UNCHANGED uartVars
    /\ p # "pins"  => UNCHANGED pinVars

Next ==
    \/ part = "timer" /\ TimerNext /\ Others("timer")
    \/ part = "queue" /\ QueueNext /\ Others("queue")
    \/ part = "ring"  /\ RingNext  /\ Others("ring")
    \/ part = "soft"  /\ SoftNext  /\ Others("soft")
    \/ part = "list"  /\ ListNext  /\ Others("list")
    \/ part = "mmem"  /\ MmemNext  /\ Others("mmem")
    \/ part = "usb"   /\ UsbNext   /\ Others("usb")
    \/ part = "sort"  /\ SortNext  /\ Others("sort")
    \/ part = "demo"  /\ DemoNext  /\ Others("demo")
    \/ part = "flash" /\ FlashNext /\ Others("flash")
    \/ part = "hid"   /\ HidNext   /\ Others("hid")
    \/ part = "scan"  /\ ScanNext  /\ Others("scan")
    \/ part = "ut"    /\ UtNext    /\ Others("ut")
    \/ part = "hash"  /\ HashNext  /\ Others("hash")
    \/ part = "uart"  /\ UartNext  /\ Others("uart")
    \/ part = "pins"  /\ PinNext   /\ Others("pins")

Spec == Init /\ [][Next]_vars

(* Of the part that runs: the others stand still. *)
TypeOK ==
    /\ part = "timer" => TimerTypeOK
    /\ part = "queue" => QueueTypeOK
    /\ part = "ring"  => RingTypeOK
    /\ part = "soft"  => SoftTypeOK
    /\ part = "list"  => ListTypeOK
    /\ part = "mmem"  => MmemTypeOK
    /\ part = "usb"   => UsbTypeOK
    /\ part = "hid"   => HidTypeOK
    /\ part = "scan"  => ScanTypeOK
    /\ part = "sort"  => SortTypeOK
    /\ part = "ut"    => UtTypeOK
    /\ part = "hash"  => HashTypeOK
    /\ part = "demo"  => DemoTypeOK
    /\ part = "flash" => FlashTypeOK
    /\ part = "uart"  => UartTypeOK
    /\ part = "pins"  => PinTypeOK

(* The lists and tables made of macros hold what was put into them, in its order
   (utlist.h, hash.h), but for the order of a table that HASH_SELECT made. *)
ListsAndTables ==
    /\ part = "ut" => UtListIsOrder
    /\ part = "hash" => HashIsMap
=============================================================================
