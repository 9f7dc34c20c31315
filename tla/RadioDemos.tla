----------------------------- MODULE RadioDemos -----------------------------
(***************************************************************************)
(* The radio demonstrations of src/vendor: gen_fsk_*, tpsll_* and tpll_*.  *)
(* Each has an interrupt handler that turns the radio's interrupts into    *)
(* flags, and a main loop that starts the radio, waits for a flag, clears  *)
(* it and starts the radio again.  Nothing but a flag starts the radio     *)
(* again, so that a flag that is not raised ends the demonstration.        *)
(*                                                                         *)
(* A demonstration is a record: what its main loop starts the radio with   *)
(* first, what each flag makes it do, which interrupt raises which flag,   *)
(* and how the handler clears the interrupts.  The handler is two steps,   *)
(* since the radio goes on between its reading of the interrupts and its   *)
(* clearing of them.  What calls it is one bit of reg_irq_src, that of the *)
(* whole radio, which it clears at its end as well: an interrupt that came *)
(* up while it ran may lose its request so, and then waits in              *)
(* reg_rf_irq_status until another one calls the handler.                  *)
(***************************************************************************)
EXTENDS Integers

VARIABLES
    demo,        \* the demonstration that is built
    radio,       \* what the radio is doing
    rf_irq,      \* reg_rf_irq_status
    requested,   \* FLD_IRQ_ZB_RT_EN is set in reg_irq_src
    irq_src,     \* rf_irq_src of irq_handler, as it last read it
    handling,    \* irq_handler is running
    flags,       \* the flags that are 1
    main_pc,     \* where the main loop is
    command,     \* what it started last, or is about to (gen_fsk_current_mode)
    crc_ok,      \* whether the CRC of the last packet received is right
    written,     \* what TPLL_WriteTxPayload returned last
    pa,          \* the amplifier
    unseen       \* came up in a handler that clears them all, since the last start

demoVars == <<demo, radio, rf_irq, requested, irq_src, handling, flags, main_pc, command,
              crc_ok, written, pa, unseen>>

RfIrq == {"RX", "TX", "RX_TIMEOUT", "FIRST_TIMEOUT", "TX_DS", "RETRY_HIT", "RX_DR"}
Flag == {"rx_flag", "tx_done_flag", "rx_timeout_flag", "rx_first_timeout",
         "ds_flag", "maxretry_flag", "rx_dr_flag", "none"}

RadioIdle == [mode |-> "IDLE", phase |-> 0, timed |-> FALSE]
Do(mode, timed) == [mode |-> mode, phase |-> 1, timed |-> timed]
Forever == FALSE
Timed == TRUE
Nil == [f \in {} |-> RadioIdle]

(***************************************************************************)
(* The demonstrations.                                                     *)
(*   start   what main starts the radio with before the loop               *)
(*   on      for each flag the loop looks at, what it starts then, if      *)
(*           anything                                                      *)
(*   raises  for each interrupt enabled, the flag it raises                *)
(*   if_ok   RX raises its flag only if the CRC is right                   *)
(*   all     the handler ends by clearing FLD_RF_IRQ_ALL                   *)
(*   sends   what the loop starts, and spins until it is done              *)
(*   rounds  every second the loop starts from the beginning (gen_fsk_pa)  *)
(*   pa      rf_pa.c switches an amplifier                                 *)
(***************************************************************************)
Receiver(start, on, raises) ==
    [start |-> start, on |-> on, raises |-> raises, if_ok |-> FALSE, all |-> FALSE,
     sends |-> RadioIdle, rounds |-> FALSE, pa |-> FALSE]

Sender(mode, all) ==
    [Receiver(RadioIdle, Nil, [TX |-> "tx_done_flag"]) EXCEPT
        !.sends = Do(mode, Forever), !.all = all]

gen_fsk_tx == Sender("TX", TRUE)
gen_fsk_stx == Sender("STX", TRUE)

(* This one starts the radio before the loop, which starts it again. *)
tpsll_stx == [Sender("STX", FALSE) EXCEPT !.start = Do("STX", Forever)]

(* This one has no interrupts: it polls rf_tx_finish. *)
gen_fsk_stx_dpl_packet == [Sender("STX", FALSE) EXCEPT !.raises = Nil]

gen_fsk_rx ==
    [Receiver(Do("RX", Forever), [rx_flag |-> RadioIdle], [RX |-> "rx_flag"]) EXCEPT
        !.if_ok = TRUE, !.all = TRUE]

gen_fsk_srx ==
    Receiver(Do("SRX", Forever),
             [rx_flag |-> Do("SRX", Timed), rx_first_timeout |-> Do("SRX", Forever)],
             [RX |-> "rx_flag", FIRST_TIMEOUT |-> "rx_first_timeout"])

gen_fsk_srx2tx ==
    Receiver(Do("SRX2TX", Forever),
             [rx_flag |-> RadioIdle, tx_done_flag |-> Do("SRX2TX", Forever)],
             [RX |-> "rx_flag", TX |-> "tx_done_flag"])

gen_fsk_stx2rx ==
    Receiver(Do("STX2RX", Timed),
             [tx_done_flag |-> RadioIdle, rx_timeout_flag |-> Do("STX2RX", Timed),
              rx_flag |-> Do("STX2RX", Timed)],
             [RX |-> "rx_flag", RX_TIMEOUT |-> "rx_timeout_flag", TX |-> "tx_done_flag"])

tpsll_srx ==
    [Receiver(Do("SRX", Forever),
              [rx_flag |-> Do("SRX", Timed), rx_first_timeout |-> Do("SRX", Timed)],
              [RX |-> "rx_flag", FIRST_TIMEOUT |-> "rx_first_timeout"]) EXCEPT !.if_ok = TRUE]

tpsll_srx2tx ==
    [Receiver(Do("SRX2TX", Forever),
              [rx_flag |-> RadioIdle, tx_done_flag |-> Do("SRX2TX", Forever)],
              [RX |-> "rx_flag", FIRST_TIMEOUT |-> "rx_first_timeout", TX |-> "tx_done_flag"])
        EXCEPT !.if_ok = TRUE]

tpsll_stx2rx ==
    [Receiver(Do("STX2RX", Timed),
              [rx_timeout_flag |-> Do("STX2RX", Timed), rx_flag |-> Do("STX2RX", Timed)],
              [RX |-> "rx_flag", RX_TIMEOUT |-> "rx_timeout_flag", TX |-> "tx_done_flag"])
        EXCEPT !.if_ok = TRUE]

(* ds_flag is set before the loop, so that the first pass sends. *)
tpll_ptx ==
    [Receiver(RadioIdle,
              [ds_flag |-> Do("PTX", Timed), maxretry_flag |-> Do("PTX", Timed)],
              [TX |-> "none", TX_DS |-> "ds_flag", RETRY_HIT |-> "maxretry_flag",
               RX_DR |-> "rx_dr_flag"]) EXCEPT !.all = TRUE]

tpll_prx ==
    [Receiver(Do("PRX", Forever), [rx_dr_flag |-> RadioIdle],
              [TX |-> "none", TX_DS |-> "ds_flag", RX_DR |-> "rx_dr_flag"]) EXCEPT !.all = TRUE]

(* gen_fsk_pa, as FUNC_TEST chooses. *)
Amplified(d) ==
    [d EXCEPT
        !.raises = [RX |-> "rx_flag", TX |-> "tx_done_flag", RX_TIMEOUT |-> "rx_timeout_flag",
                    FIRST_TIMEOUT |-> "rx_first_timeout"],
        !.if_ok = TRUE, !.all = TRUE, !.pa = TRUE, !.rounds = d.sends = RadioIdle]

func_stx_test == Amplified(Sender("STX", TRUE))
func_srx_test == Amplified(gen_fsk_srx)
func_srx2tx_test == Amplified(gen_fsk_srx2tx)
func_stx2rx_test ==
    Amplified([gen_fsk_stx2rx EXCEPT !.on = tpsll_stx2rx.on])

(* Those whose radio raises one interrupt, goes on by itself, and raises another. *)
TwoOperations == {gen_fsk_srx2tx, gen_fsk_stx2rx, tpsll_srx2tx, tpsll_stx2rx}

Demo ==
    {gen_fsk_tx, gen_fsk_stx, gen_fsk_stx_dpl_packet, gen_fsk_rx, gen_fsk_srx, gen_fsk_srx2tx,
     gen_fsk_stx2rx, tpsll_stx, tpsll_srx, tpsll_srx2tx, tpsll_stx2rx, tpll_ptx, tpll_prx,
     func_stx_test, func_srx_test, func_srx2tx_test, func_stx2rx_test}

-----------------------------------------------------------------------------
DemoInit ==
    /\ demo \in Demo
    /\ radio = IF demo.rounds THEN RadioIdle ELSE demo.start
    /\ flags = IF demo = tpll_ptx THEN {"ds_flag"} ELSE {}
    /\ main_pc = IF demo.sends # RadioIdle THEN "top" ELSE IF demo.rounds THEN "round" ELSE "loop"
    /\ command = radio
    /\ rf_irq = {} /\ irq_src = {} /\ unseen = {}
    /\ requested = FALSE /\ handling = FALSE
    /\ crc_ok = TRUE /\ written = TRUE
    /\ pa = "off"

Pending == rf_irq \cap DOMAIN demo.raises

(* What the radio does next: the interrupts it raises and how it goes on. *)
Ahead(r) ==
    LET then == [r EXCEPT !.phase = 2]
        listening == {<<{"RX"}, RadioIdle>>}
    IN CASE r.mode \in {"TX", "STX"} -> {<<{"TX"}, RadioIdle>>}
         [] r.mode = "RX" -> {<<{"RX"}, r>>}
         [] r.mode = "SRX" ->
              listening \cup (IF r.timed THEN {<<{"FIRST_TIMEOUT"}, RadioIdle>>} ELSE {})
         [] r.mode = "SRX2TX" -> IF r.phase = 1 THEN {<<{"RX"}, then>>} ELSE {<<{"TX"}, RadioIdle>>}
         [] r.mode = "STX2RX" ->
              IF r.phase = 1 THEN {<<{"TX"}, then>>}
              ELSE listening \cup {<<{"RX_TIMEOUT"}, RadioIdle>>}
         [] r.mode = "PTX" ->
              IF r.phase = 1 THEN {<<{"TX"}, then>>}
              ELSE {<<{"TX_DS"}, RadioIdle>>, <<{"TX_DS", "RX_DR"}, RadioIdle>>,
                    <<{"RETRY_HIT"}, RadioIdle>>}
         [] r.mode = "PRX" -> {<<{i}, r>> : i \in {"RX_DR", "TX", "TX_DS"}}
         [] OTHER -> {}

RadioGoesOn ==
    /\ \E step \in Ahead(radio) :
        /\ rf_irq' = rf_irq \cup step[1]
        /\ requested' = (requested \/ step[1] \cap DOMAIN demo.raises # {})
        /\ radio' = step[2]
        /\ IF "RX" \in step[1] THEN crc_ok' \in BOOLEAN ELSE UNCHANGED crc_ok
    /\ UNCHANGED <<demo, irq_src, handling, flags, main_pc, command, written, pa, unseen>>

IrqRead ==
    /\ ~handling /\ requested
    /\ handling' = TRUE
    /\ irq_src' = rf_irq
    /\ UNCHANGED <<demo, radio, rf_irq, requested, flags, main_pc, command, crc_ok, written,
                   pa, unseen>>

(* Mutant: the CRC is looked at in every demonstration. *)
TakenIfOk == IF crc_ok THEN irq_src ELSE irq_src \ {"RX"}

Taken == IF demo.if_ok /\ ~crc_ok THEN irq_src \ {"RX"} ELSE irq_src

(* Mutant: rf_pa_handler without its last two cases. *)
PaHandlerNoTimeout(flag, p) ==
    IF \/ flag = "TX" /\ command.mode \in {"STX", "SRX2TX"}
       \/ flag = "RX" /\ command.mode \in {"SRX", "STX2RX"}
    THEN "off"
    ELSE IF flag = "TX" /\ command.mode = "STX2RX" THEN "rx_on"
    ELSE IF flag = "RX" /\ command.mode = "SRX2TX" THEN "tx_on"
    ELSE p

(* rf_pa_handler, for one interrupt. *)
rf_pa_handler(flag, p) ==
    IF \/ flag = "TX" /\ command.mode \in {"STX", "SRX2TX"}
       \/ flag = "RX" /\ command.mode \in {"SRX", "STX2RX"}
       \/ flag = "FIRST_TIMEOUT" /\ command.mode = "SRX"
       \/ flag = "RX_TIMEOUT" /\ command.mode = "STX2RX"
    THEN "off"
    ELSE IF flag = "TX" /\ command.mode = "STX2RX" THEN "rx_on"
    ELSE IF flag = "RX" /\ command.mode = "SRX2TX" THEN "tx_on"
    ELSE p

(* irq_handler calls it for each interrupt taken, in this order. *)
PaHandled ==
    LET tx == IF "TX" \in Taken THEN rf_pa_handler("TX", pa) ELSE pa
        rx == IF "RX" \in Taken THEN rf_pa_handler("RX", tx) ELSE tx
        first == IF "FIRST_TIMEOUT" \in Taken THEN rf_pa_handler("FIRST_TIMEOUT", rx) ELSE rx
    IN IF "RX_TIMEOUT" \in Taken THEN rf_pa_handler("RX_TIMEOUT", first) ELSE first

(* The interrupts that came up since irq_handler read them. *)
CameUp == Pending \ irq_src

(* The rest of irq_handler: the flags, and the two clearings, of the interrupts
   and of their request.  Each interrupt that came up may be before the first or
   after it, and its request before the second, which drops it, or after it. *)
IrqHandle ==
    /\ handling
    /\ handling' = FALSE
    /\ flags' = flags \cup {demo.raises[i] : i \in Taken \cap DOMAIN demo.raises}
    /\ pa' = IF demo.pa THEN PaHandled ELSE pa
    /\ IF demo.all THEN rf_irq' \in SUBSET CameUp /\ unseen' = unseen \cup CameUp
       ELSE rf_irq' = rf_irq \ (irq_src \cap DOMAIN demo.raises) /\ unseen' = unseen
    /\ requested' \in {FALSE, CameUp # {}}
    /\ UNCHANGED <<demo, radio, irq_src, main_pc, command, crc_ok, written>>

(* One flag found set by the loop.  tpll_ptx clears both of its flags, and
   triggers the radio only if TPLL_WriteTxPayload took the payload. *)
LoopFlag ==
    /\ main_pc = "loop" /\ ~handling
    /\ \E f \in flags \cap DOMAIN demo.on :
        /\ flags' = flags \ (IF demo = tpll_ptx THEN DOMAIN demo.on ELSE {f})
        /\ written' \in IF demo = tpll_ptx THEN BOOLEAN ELSE {TRUE}
        /\ IF written' /\ demo.on[f] # RadioIdle
           THEN main_pc' = "start" /\ command' = demo.on[f]
           ELSE UNCHANGED <<main_pc, command>>
    /\ UNCHANGED <<demo, radio, rf_irq, requested, irq_src, handling, crc_ok, pa, unseen>>

(* What a loop that sends waits for. *)
SendIsDone ==
    IF demo = gen_fsk_stx_dpl_packet THEN "TX" \in rf_irq ELSE "tx_done_flag" \in flags

(* A pass of the loop that finds nothing to do. *)
Poll ==
    /\ \/ main_pc = "loop" /\ flags \cap DOMAIN demo.on = {}
       \/ main_pc = "spin" /\ ~SendIsDone
    /\ ~handling
    /\ UNCHANGED demoVars

(* gen_fsk_pa: a second is over, or the demonstration begins. *)
Round ==
    /\ demo.rounds /\ main_pc \in {"round", "loop"} /\ ~handling
    /\ flags' = flags \ DOMAIN demo.on
    /\ main_pc' = "start"
    /\ command' = demo.start
    /\ UNCHANGED <<demo, radio, rf_irq, requested, irq_src, handling, crc_ok, written, pa, unseen>>

(* A loop that sends. *)
SendClear ==
    /\ main_pc = "top" /\ ~handling
    /\ flags' = flags \ {"tx_done_flag"}
    /\ main_pc' = "start"
    /\ command' = demo.sends
    /\ UNCHANGED <<demo, radio, rf_irq, requested, irq_src, handling, crc_ok, written, pa, unseen>>

(* *_start: the radio gives up what it is doing. *)
RadioStart ==
    /\ main_pc = "start" /\ ~handling
    /\ radio' = command
    /\ main_pc' = IF demo.sends = RadioIdle THEN "loop" ELSE "spin"
    /\ pa' = IF ~demo.pa THEN pa
             ELSE IF command.mode \in {"STX", "STX2RX"} THEN "tx_on" ELSE "rx_on"
    /\ unseen' = {}
    /\ UNCHANGED <<demo, rf_irq, requested, irq_src, handling, flags, command, crc_ok, written>>

SendDone ==
    /\ main_pc = "spin" /\ ~handling
    /\ SendIsDone
    /\ rf_irq' = IF demo = gen_fsk_stx_dpl_packet THEN rf_irq \ {"TX"} ELSE rf_irq
    /\ main_pc' = "top"
    /\ UNCHANGED <<demo, radio, requested, irq_src, handling, flags, command, crc_ok, written, pa, unseen>>

DemoNext ==
    \/ RadioGoesOn \/ IrqRead \/ IrqHandle
    \/ LoopFlag \/ Poll \/ Round \/ SendClear \/ RadioStart \/ SendDone

DemoSpec == DemoInit /\ [][DemoNext]_demoVars
-----------------------------------------------------------------------------
DemoTypeOK ==
    /\ demo \in Demo
    /\ radio.phase \in 0 .. 2 /\ radio.timed \in BOOLEAN
    /\ rf_irq \subseteq RfIrq /\ irq_src \subseteq RfIrq /\ unseen \subseteq RfIrq
    /\ requested \in BOOLEAN /\ handling \in BOOLEAN
    /\ crc_ok \in BOOLEAN /\ written \in BOOLEAN
    /\ flags \subseteq Flag
    /\ main_pc \in {"top", "start", "spin", "loop", "round"}
    /\ pa \in {"off", "tx_on", "rx_on"}

(* Nothing is left that could make this demonstration go on. *)
AtRest ==
    /\ radio = RadioIdle /\ ~requested /\ ~handling
    /\ \/ main_pc = "loop" /\ flags \cap DOMAIN demo.on = {} /\ ~demo.rounds
       \/ main_pc = "spin" /\ ~SendIsDone

(* A demonstration goes on for ever, whatever is received, but in four cases.
   tpsll_srx and tpsll_stx2rx drop a packet with a wrong CRC in the handler,
   which leaves the radio stopped and no flag to start it.  tpll_ptx does not
   start again when its payload is not taken.  And the interrupt that ends what
   the radio does may come up in the handler of an earlier one: tpll_ptx clears
   them all, and those whose radio goes on by itself clear its request and leave
   it pending. *)
DemoGoesOn ==
    AtRest =>
        \/ demo \in {tpsll_srx, tpsll_stx2rx} /\ ~crc_ok
        \/ demo = tpll_ptx /\ ~written
        \/ demo = tpll_ptx /\ unseen \cap {"TX_DS", "RETRY_HIT"} # {}
        \/ demo \in TwoOperations /\ Pending # {}

(* The amplifier is off when the radio rests and every interrupt is dealt
   with, unless the last packet had a wrong CRC, which rf_pa_handler is not
   told, or an interrupt came up in the handler, or the handler found the packet
   and the answer to it at once: it deals with the answer first, and then
   switches the amplifier on for it. *)
PaOffAtRest ==
    /\ demo.pa /\ radio = RadioIdle /\ Pending = {} /\ ~handling
    /\ crc_ok /\ unseen = {}
    /\ ~(command.mode = "SRX2TX" /\ {"RX", "TX"} \subseteq irq_src)
    => pa = "off"
=============================================================================
