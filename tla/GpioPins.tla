------------------------------ MODULE GpioPins ------------------------------
(***************************************************************************)
(* The pins of src/drivers/gpio.c, gpio.h and gpio_default.h, the hardware *)
(* timers of timer.c, and the watchdog of watchdog.h, which counts with    *)
(* timer 2.  Each function changes a few bits of registers that pins and   *)
(* timers share.                                                           *)
(*                                                                         *)
(* A pin is its group, 0 for PA up to 5 for PF, and its number.  The chip  *)
(* is what its registers mean, by their names in register.h; what it reads *)
(* from a pin and what a timer counts are left out.  The calls are those   *)
(* that the comments allow: no resistor is set for PE.                     *)
(***************************************************************************)
EXTENDS Integers, Functions

CONSTANTS
    CalledPin,      \* the pins that calls are made for
    WatchedPin,     \* the pins that are looked at, CalledPin and others
    BoardOutput,    \* what the board's header defines for gpio_init: the
    BoardPull,      \* pins that are outputs, and resistors other than the usual
    WdTicks,        \* intervals of the watchdog, in 2^18 ticks
    MaxCalls        \* bound: the calls that are made, not counting handlers'

VARIABLES
    on,      \* the bits that are set, each an address and a number
    mux,     \* the multiplexer registers that have been written
    src,     \* reg_irq_src and reg_gpio_irq_from_pad, as the pending interrupts
    told,    \* history: what calls have promised of a pin, and no other undoes,
    timed,   \* and of timers, the watchdog and the interrupt mask
    calls

pinVars == <<on, mux, src, told, timed, calls>>

Pin == (0 .. 3) \X (0 .. 7) \cup {4} \X (0 .. 3) \cup {5} \X (0 .. 1)
GroupC == 2
GroupE == 4
GroupF == 5
SWS == <<0, 3>>

UsbPin == {<<0, 1>>, <<0, 2>>}

AS_GPIO == 255

ASSUME PinAssumption ==
    /\ CalledPin \cup UsbPin \subseteq WatchedPin
    /\ WatchedPin \subseteq Pin
    /\ BoardOutput \subseteq Pin
    /\ DOMAIN BoardPull \subseteq Pin /\ \A p \in DOMAIN BoardPull : BoardPull[p] \in 0 .. 3
    /\ WdTicks \subseteq 0 .. 16383
    /\ MaxCalls \in Nat
-----------------------------------------------------------------------------
(***************************************************************************)
(* The registers, by their addresses: register.h has them in hexadecimal,  *)
(* and here they are decimal, as the prover reads no other numbers.        *)
(***************************************************************************)
Areg(a) == 4096 + a     \* analog registers have addresses of their own

Offset == [ie |-> 1, oen |-> 2, out |-> 3, pol |-> 4, ds |-> 5, func |-> 6,
           irq_wakeup_en |-> 7]

reg_gpio(field, group) == 1280 + 8 * group + Offset[field]    \* from 0x500 on

PinBit(field, p) == <<reg_gpio(field, p[1]), p[2]>>

(* Two of PC's registers are analog ones. *)
InputBit(p) == IF p[1] = GroupC THEN <<Areg(192), p[2]>> ELSE PinBit("ie", p)
StrengthBit(p) == IF p[1] = GroupC THEN <<Areg(194), p[2]>> ELSE PinBit("ds", p)
PullUp30Bit(p) == <<Areg(193), p[2]>>

reg_gpio_func_mux(p) == 1352 + (IF p[1] = GroupF THEN 36 ELSE 8 * p[1]) + p[2]

IrqKind == {"irq", "risc0", "risc1", "risc2"}

IrqBit(kind, p) ==
    CASE kind = "irq"   -> PinBit("irq_wakeup_en", p)
      [] kind = "risc0" -> <<1328 + p[1], p[2]>>
      [] kind = "risc1" -> <<1336 + p[1], p[2]>>
      [] kind = "risc2" -> <<1344 + p[1], p[2]>>

LevelBit(p) == <<1399, p[2]>>    \* of a pin with this number, whatever its group
PadMaskBit(p) == <<1398, p[2]>>
CoreInterruptBit == <<1396, 2>>
MaskBit(n) == <<1600, n>>       \* reg_irq_mask
FLD_IRQ_GPIO == [irq |-> 18, risc0 |-> 21, risc1 |-> 22, pad |-> 15]
DpPullUpBit == <<Areg(11), 7>>

reg_tmr_ctrl == 1568    \* 0x620
EnableBit(t) == <<reg_tmr_ctrl, 3 * t>>
ModeBits(t) == {<<reg_tmr_ctrl, 3 * t + 1>>, <<reg_tmr_ctrl, 3 * t + 2>>}
WdEnableBit == <<reg_tmr_ctrl, 23>>

(* Bits of one register, from number n on, that hold v. *)
Holding(addr, n, width, v) ==
    {<<addr, n + i>> : i \in {j \in 0 .. width - 1 : (v \div 2^j) % 2 = 1}}

ValueOf(bits, addr, n, width) ==
    LET at(i) == IF <<addr, n + i>> \in bits THEN 2^i ELSE 0
        sum[i \in 0 .. width] == IF i = 0 THEN 0 ELSE sum[i - 1] + at(i - 1)
    IN sum[width]

With(bits, b, v) == IF v THEN bits \cup {b} ELSE bits \ {b}
-----------------------------------------------------------------------------
(***************************************************************************)
(* The resistors: two bits of a pin, four pins to a register.              *)
(***************************************************************************)
(* As the names of the registers and the macros of gpio_default.h have it. *)
areg_pull(p) == Areg(IF p[1] = GroupF THEN 22 ELSE 14 + (8 * p[1] + p[2]) \div 4)

(* Mutant: PF is one group after PE, as it is everywhere else. *)
BaseOfGroup(p) == Areg(14 + 2 * p[1] + (IF p[2] > 3 THEN 1 ELSE 0))

(* As gpio_setup_up_down_resistor computes it. *)
base_ana_reg(p) ==
    IF p[1] = GroupF THEN Areg(22)
    ELSE Areg(14 + 2 * p[1] + (IF p[2] > 3 THEN 1 ELSE 0))

Resistor(bits, addr, p, v) ==
    (bits \ {<<addr, 2 * (p[2] % 4)>>, <<addr, 2 * (p[2] % 4) + 1>>})
        \cup Holding(addr, 2 * (p[2] % 4), 2, v)

PullOf(p) == ValueOf(on, areg_pull(p), 2 * (p[2] % 4), 2)
-----------------------------------------------------------------------------
(* What the chip makes of its registers. *)
Is(p, what) ==
    CASE what = "input"   -> InputBit(p) \in on
      [] what = "output"  -> PinBit("oen", p) \notin on
      [] what = "level"   -> PinBit("out", p) \in on
      [] what = "strong"  -> StrengthBit(p) \in on
      [] what = "gpio"    -> PinBit("func", p) \in on
      [] what = "mux"     -> mux[reg_gpio_func_mux(p)]
      [] what = "pull"    -> PullOf(p)
      [] what = "pull30"  -> PullUp30Bit(p) \in on
      [] what = "trigger" -> <<PinBit("pol", p) \in on, LevelBit(p) \in on>>
      [] what \in IrqKind -> IrqBit(what, p) \in on

gpio_is_output_en(p) == PinBit("oen", p) \notin on

(* Also for PC, whose input register is another one. *)
gpio_is_input_en(p) == PinBit("ie", p) \in on

TimerIs(t, what) ==
    CASE what = "on"      -> EnableBit(t) \in on
      [] what = "mode"    -> ValueOf(on, reg_tmr_ctrl, 3 * t + 1, 2)
      [] what = "dog"     -> WdEnableBit \in on /\ EnableBit(2) \in on
      [] what = "capture" -> ValueOf(on, reg_tmr_ctrl, 9, 14)
      [] what = "mask"    -> MaskBit(t) \in on
-----------------------------------------------------------------------------
(* What is known anew takes the place of what was known of the same: @@ of module
   TLC, which the prover cannot expand. *)
Onto(new, old) ==
    [s \in DOMAIN new \cup DOMAIN old |-> IF s \in DOMAIN new THEN new[s] ELSE old[s]]

NoneYet == [s \in {} |-> 0]

Says(p, what, v) == [s \in {<<p, what>>} |-> v]

PinInit ==
    on = {} /\ mux = NoneYet /\ src = {} /\ told = NoneYet /\ timed = NoneYet /\ calls = 0

OneCall == calls < MaxCalls /\ calls' = calls + 1

(* A call that sets registers of a pin, and what may be relied on from then. *)
Call(bits, promise) ==
    /\ OneCall
    /\ on' = bits /\ told' = Onto(promise, told)
    /\ UNCHANGED <<mux, src, timed>>

gpio_set_output_en(p, v) == Call(With(on, PinBit("oen", p), ~v), Says(p, "output", v))
gpio_set_input_en(p, v) == Call(With(on, InputBit(p), v), Says(p, "input", v))
gpio_set_data_strength(p, v) == Call(With(on, StrengthBit(p), v), Says(p, "strong", v))

(* And GPIO_Pxx_OUTPUT_LOW and HIGH. *)
gpio_write(p, v) == Call(With(on, PinBit("out", p), v), Says(p, "level", v))

(* And GPIO_Pxx_OUTPUT_TOGGLE. *)
gpio_toggle(p) ==
    /\ <<p, "level">> \in DOMAIN told
    /\ Call(With(on, PinBit("out", p), PinBit("out", p) \notin on),
            Says(p, "level", ~told[<<p, "level">>]))

(* The multiplexer is set before the pin is taken from the program. *)
gpio_set_func(p, f) ==
    LET m == [r \in IF f = AS_GPIO THEN {} ELSE {reg_gpio_func_mux(p)} |-> f]
        set == IF f = AS_GPIO THEN NoneYet ELSE Says(p, "mux", f)
    IN /\ OneCall
       /\ on' = With(on, PinBit("func", p), f = AS_GPIO)
       /\ mux' = Onto(m, mux)
       /\ told' = Onto(Onto(Says(p, "gpio", f = AS_GPIO), set), told)
       /\ UNCHANGED <<src, timed>>

gpio_setup_up_down_resistor(p, v) ==
    /\ p[1] # GroupE
    /\ Call(Resistor(on, base_ana_reg(p), p, v), Says(p, "pull", v))

(* GPIO_Pxx_PULL_TOGGLE: float and 1M, or 100K and 10K. *)
Toggled(v) == IF v % 2 = 0 THEN v + 1 ELSE v - 1

PULL_TOGGLE(p) ==
    /\ <<p, "pull">> \in DOMAIN told
    /\ Call(Resistor(on, areg_pull(p), p, Toggled(PullOf(p))),
            Says(p, "pull", Toggled(told[<<p, "pull">>])))

(* A digital pull-up, but for PC: the pin is no output any more, and high. *)
gpio_set_pullup_res_30k(p) ==
    IF p[1] = GroupC THEN Call(on \cup {PullUp30Bit(p)}, Says(p, "pull30", TRUE))
    ELSE Call(on \cup {PinBit("oen", p), PinBit("out", p)},
              [s \in {p} \X {"output", "level"} |-> s[2] = "level"])

(* The single wire pin that a debugger uses is left as it is. *)
Shut(p) ==
    [s \in {p} \X ({"output", "level"} \cup IF p = SWS THEN {} ELSE {"input", "gpio"})
       |-> s[2] = "gpio"]

gpio_shutdown(p) ==
    LET rest == IF p = SWS THEN on ELSE (on \ {InputBit(p)}) \cup {PinBit("func", p)}
    IN Call((rest \ {PinBit("out", p)}) \cup {PinBit("oen", p)}, Shut(p))

(* GPIO_ALL is without PE, and sets the single wire pin up. *)
gpio_shutdown_all ==
    LET groups == {0, 1, GroupC, 3, GroupF}
        cleared == {reg_gpio(f, g) : f \in {"out", "oen", "func"}, g \in groups}
                     \cup {reg_gpio("ie", g) : g \in groups \ {GroupC}} \cup {Areg(192)}
        high == {<<reg_gpio(f, g), n>> : f \in {"oen", "func"}, g \in groups, n \in 0 .. 7}
        shut == {<<p, w>> : p \in {q \in WatchedPin : q[1] # GroupE},
                            w \in {"output", "level", "input", "gpio"}}
    IN Call({b \in on : b[1] \notin cleared} \cup (high \ {PinBit("func", SWS)})
              \cup {InputBit(SWS)},
            [s \in shut |-> (s[2] = "gpio" /\ s[1] # SWS) \/ (s[2] = "input" /\ s[1] = SWS)])
-----------------------------------------------------------------------------
(***************************************************************************)
(* gpio_init, and what it makes of a pin that the board says nothing of:   *)
(* the inputs, the pins with a function, and the resistors of each group.  *)
(* No pin is an output, and all are strong and low.                        *)
(***************************************************************************)
PA_default == [input |-> {3}, func |-> {1, 2, 3}, pull |-> [n \in {3} |-> 1]]
PB_default == [input |-> {}, func |-> {3}, pull |-> NoneYet]
PC_default == [input |-> {}, func |-> {}, pull |-> NoneYet]
PD_default == [input |-> {}, func |-> {4}, pull |-> NoneYet]
PE_default == [input |-> 0 .. 3, func |-> 0 .. 3, pull |-> NoneYet]
PF_default == [input |-> {}, func |-> {}, pull |-> NoneYet]

Default(p) ==
    <<PA_default, PB_default, PC_default, PD_default, PE_default, PF_default>>[p[1] + 1]

DefaultPull(p) ==
    CASE p \in DOMAIN BoardPull -> BoardPull[p]
      [] p \notin DOMAIN BoardPull /\ p[2] \in DOMAIN Default(p).pull -> Default(p).pull[p[2]]
      [] OTHER -> 0

Written(anaRes_init_en) ==
    {reg_gpio(f, g) : f \in DOMAIN Offset, g \in {0, 1, 3, GroupF}}
      \cup {reg_gpio(f, GroupC) : f \in {"oen", "out", "func"}} \cup {Areg(192), Areg(194)}
      \cup {reg_gpio(f, GroupE) : f \in {"ie", "oen", "out", "ds", "func"}}
      \cup (IF anaRes_init_en THEN {Areg(a) : a \in 14 .. 22} ELSE {})

ConfiguredBits(anaRes_init_en) ==
    {InputBit(p) : p \in {q \in Pin : q[2] \in Default(q).input}}
      \cup {PinBit("oen", p) : p \in Pin \ BoardOutput}
      \cup {StrengthBit(p) : p \in Pin}
      \cup {PinBit("func", p) : p \in {q \in Pin : q[2] \notin Default(q).func}}
      \cup (IF anaRes_init_en
            THEN UNION {Holding(areg_pull(p), 2 * (p[2] % 4), 2, DefaultPull(p)) :
                        p \in {q \in Pin : q[1] # GroupE}}
            ELSE {})

Configured(p, what) ==
    CASE what = "input"  -> p[2] \in Default(p).input
      [] what = "output" -> p \in BoardOutput
      [] what = "level"  -> FALSE
      [] what = "strong" -> TRUE
      [] what = "gpio"   -> p[2] \notin Default(p).func
      [] what = "irq"    -> FALSE
      [] what = "pull"   -> DefaultPull(p)

(* What the settings of A, B, D and F set together: PC's and PE's interrupts
   are left as they are. *)
gpio_init(anaRes_init_en) ==
    LET cleared == {q \in WatchedPin : q[1] \notin {GroupC, GroupE}}
        promised == WatchedPin \X {"input", "output", "level", "strong", "gpio"}
                      \cup cleared \X {"irq"}
                      \cup (IF anaRes_init_en
                            THEN {q \in WatchedPin : q[1] # GroupE} \X {"pull"} ELSE {})
    IN /\ OneCall
       /\ on' = {b \in on : b[1] \notin Written(anaRes_init_en)}
                  \cup ConfiguredBits(anaRes_init_en)
       /\ told' = Onto([s \in promised |-> Configured(s[1], s[2])],
                       Restrict(told, DOMAIN told \ (cleared \X {"trigger"})))
       /\ UNCHANGED <<mux, src, timed>>
-----------------------------------------------------------------------------
(***************************************************************************)
(* Interrupts.                                                             *)
(***************************************************************************)
(* A falling edge is polarity TRUE.  The level bit is shared: what another
   pin with this number is triggered by cannot be relied on any more. *)
Trigger(bits, p, falling, level) ==
    With(With(bits, PinBit("pol", p), falling), LevelBit(p), level)

Disturbed(p) == {q \in WatchedPin : q[2] = p[2]} \X {"trigger"}

Triggered(p, falling, level, promise) ==
    Onto(Onto(promise, Says(p, "trigger", <<falling, level>>)),
         Restrict(told, DOMAIN told \ Disturbed(p)))

(* gpio_set_interrupt, and its like for risc0 and risc1.  The pending bits are
   cleared by writing ones, so that reg_irq_src |= bit clears all of them. *)
gpio_set_interrupt(kind, p, falling) ==
    /\ OneCall
    /\ on' = Trigger(on \cup {IrqBit(kind, p), MaskBit(FLD_IRQ_GPIO[kind])}
                        \cup (IF kind = "irq" THEN {CoreInterruptBit} ELSE {}),
                     p, falling, FALSE)
    /\ told' = Triggered(p, falling, FALSE, Says(p, kind, TRUE))
    /\ timed' = Onto(Says(FLD_IRQ_GPIO[kind], "mask", TRUE), timed)
    /\ src' = src \cap {"pad"}
    /\ UNCHANGED mux

gpio_en_interrupt(kind, p, en) ==
    Call(With(on, IrqBit(kind, p), en), Says(p, kind, en))

(* One of eight for the group that gpio_set_src_irq_group selects. *)
gpio_set_src_irq(p, falling, level) ==
    /\ OneCall
    /\ on' = Trigger(on \cup {PadMaskBit(p), MaskBit(FLD_IRQ_GPIO["pad"])},
                     p, falling, level)
    /\ told' = Triggered(p, falling, level, NoneYet)
    /\ timed' = Onto(Says(FLD_IRQ_GPIO["pad"], "mask", TRUE), timed)
    /\ src' = src \ {"pad"}
    /\ UNCHANGED mux

(* gpio_set_irq_mask and gpio_clr_irq_mask. *)
gpio_irq_mask(kind, v) ==
    /\ OneCall
    /\ on' = With(on, MaskBit(FLD_IRQ_GPIO[kind]), v)
    /\ timed' = Onto(Says(FLD_IRQ_GPIO[kind], "mask", v), timed)
    /\ UNCHANGED <<mux, src, told>>

(* What an interrupt handler does with the one it has served. *)
gpio_clr_irq_status(k) ==
    /\ k \in src /\ src' = src \ {k}
    /\ UNCHANGED <<on, mux, told, timed, calls>>

(* A pin, or another peripheral, interrupts. *)
Raise(k) ==
    /\ k \notin src
    /\ k # "other" => MaskBit(FLD_IRQ_GPIO[k]) \in on
    /\ src' = src \cup {k}
    /\ UNCHANGED <<on, mux, told, timed, calls>>

(* PA1 and PA2 are given to the USB controller. *)
usb_set_pin_en ==
    /\ OneCall
    /\ on' = (on \ {PinBit("func", p) : p \in UsbPin})
               \cup {InputBit(p) : p \in UsbPin} \cup {DpPullUpBit}
    /\ mux' = Onto([m \in {reg_gpio_func_mux(p) : p \in UsbPin} |-> 0], mux)
    /\ told' = Onto([s \in UsbPin \X {"gpio", "mux", "input"} |->
                      CASE s[2] = "gpio" -> FALSE [] s[2] = "mux" -> 0 [] OTHER -> TRUE], told)
    /\ UNCHANGED <<src, timed>>
-----------------------------------------------------------------------------
(***************************************************************************)
(* Timers.                                                                 *)
(***************************************************************************)
PM_PIN_PULLUP_10K == 3
PM_PIN_PULLDOWN_100K == 2

(* timerN_gpio_init: the pin that a timer counts, or the width of whose pulses
   it measures.  Those of timers 0 and 1 clear what is pending. *)
timer_gpio_init(t, p, falling) ==
    LET kind == <<"risc0", "risc1", "risc2">>[t + 1]
        pull == IF falling THEN PM_PIN_PULLUP_10K ELSE PM_PIN_PULLDOWN_100K
        set == on \cup {PinBit("oen", p), IrqBit(kind, p), InputBit(p), PinBit("func", p)}
    IN /\ OneCall
       /\ p[1] # GroupE
       /\ on' = Trigger(Resistor(set, base_ana_reg(p), p, pull), p, falling, FALSE)
       /\ told' = Triggered(p, falling, FALSE,
                     [s \in {p} \X {"output", kind, "input", "pull", "gpio"} |->
                        CASE s[2] = "output" -> FALSE [] s[2] = "pull" -> pull [] OTHER -> TRUE])
       /\ src' = IF t = 2 THEN src ELSE src \cap {"pad"}
       /\ UNCHANGED <<mux, timed>>

(* A call that sets registers of a timer. *)
TimerCall(bits, promise) ==
    /\ OneCall
    /\ on' = bits /\ timed' = Onto(promise, timed)
    /\ UNCHANGED <<mux, src, told>>

timer_set_mode(t, mode) ==
    TimerCall((on \ ModeBits(t)) \cup Holding(reg_tmr_ctrl, 3 * t + 1, 2, mode) \cup {MaskBit(t)},
              Onto(Says(t, "mode", mode), Says(t, "mask", TRUE)))

timer_start(t) ==
    TimerCall(on \cup {EnableBit(t)},
              Onto(Says(t, "on", TRUE),
                   IF t = 2 THEN Says(2, "dog", WdEnableBit \in on) ELSE NoneYet))

(* The watchdog ends with timer 2, by which it counts. *)
timer_stop(t) ==
    TimerCall(on \ {EnableBit(t)},
              Onto(Says(t, "on", FALSE), IF t = 2 THEN Says(2, "dog", FALSE) ELSE NoneYet))

(* The seven low bits, and those from bit 8 on one place too low: bit 7 is in
   neither. *)
Capture(v) == (v % 128) + 128 * ((v \div 256) % 128)

wd_set_interval_ms(v) ==
    TimerCall({b \in on : b[1] # reg_tmr_ctrl \/ b[2] \notin 9 .. 22}
                \cup Holding(reg_tmr_ctrl, 9, 7, v) \cup Holding(reg_tmr_ctrl, 16, 7, v \div 256),
              Says(2, "capture", Capture(v)))

wd_start ==
    TimerCall(on \cup {EnableBit(2), WdEnableBit}, [s \in {2} \X {"on", "dog"} |-> TRUE])

wd_stop == TimerCall(on \ {WdEnableBit}, Says(2, "dog", FALSE))
-----------------------------------------------------------------------------
PinSettings(p) ==
    \/ \E v \in BOOLEAN : \/ gpio_set_output_en(p, v) \/ gpio_set_input_en(p, v)
                          \/ gpio_set_data_strength(p, v) \/ gpio_write(p, v)
    \/ gpio_toggle(p)
    \/ \E f \in {0, AS_GPIO} : gpio_set_func(p, f)
    \/ \E v \in 0 .. 3 : gpio_setup_up_down_resistor(p, v)
    \/ PULL_TOGGLE(p)
    \/ gpio_set_pullup_res_30k(p)
    \/ gpio_shutdown(p)

PinInterrupts(p) ==
    \E falling \in BOOLEAN :
        \/ \E kind \in {"irq", "risc0", "risc1"} : gpio_set_interrupt(kind, p, falling)
        \/ \E kind \in {"irq", "risc0", "risc1"} : gpio_en_interrupt(kind, p, falling)
        \/ \E level \in BOOLEAN : gpio_set_src_irq(p, falling, level)
        \/ \E t \in 0 .. 2 : timer_gpio_init(t, p, falling)

Timers ==
    \/ \E t \in 0 .. 2 : \/ timer_start(t) \/ timer_stop(t)
                        \/ \E mode \in 0 .. 3 : timer_set_mode(t, mode)
    \/ \E v \in WdTicks : wd_set_interval_ms(v)
    \/ wd_start \/ wd_stop

PinNext ==
    \/ \E p \in CalledPin : PinSettings(p) \/ PinInterrupts(p)
    \/ \E v \in BOOLEAN : gpio_init(v)
    \/ gpio_shutdown_all
    \/ usb_set_pin_en
    \/ \E k \in {"irq", "risc0", "risc1", "pad"} :
         \/ \E v \in BOOLEAN : gpio_irq_mask(k, v)
    \/ \E k \in {"irq", "risc0", "risc1", "pad", "other"} :
         gpio_clr_irq_status(k) \/ Raise(k)
    \/ Timers

PinSpec == PinInit /\ [][PinNext]_pinVars
-----------------------------------------------------------------------------
(* The variables have their types: bits of registers, values of the multiplexer,
   and promises about the pins that are watched. *)
PinTypeOK ==
    /\ on \subseteq ((1280 .. 1632) \cup (Areg(0) .. Areg(255))) \X (0 .. 31)
    /\ \A m \in DOMAIN mux : mux[m] \in 0 .. 255
    /\ src \subseteq {"irq", "risc0", "risc1", "pad", "other"}
    /\ \A s \in DOMAIN told : s[1] \in Pin
    /\ calls \in 0 .. MaxCalls

(* gpio.c, gpio.h, gpio_default.h, timer.c, watchdog.h: what a call makes of a
   pin, a timer or the watchdog stays so until a call that says otherwise: no
   call for another pin, for all pins or for a timer disturbs it, although they
   share registers, PC has registers elsewhere, PF breaks the order of the
   groups, and two places compute where the resistors are.  Of the watchdog's
   interval this says that the two halves, in two registers, stay as they were
   written, and not that they are the interval asked for, which from 1.4 s on
   they are not (Capture). *)
PinsAsTold ==
    /\ \A s \in DOMAIN told : Is(s[1], s[2]) = told[s]
    /\ \A s \in DOMAIN told : s[2] = "output" => gpio_is_output_en(s[1]) = told[s]
    /\ \A s \in DOMAIN told :
         s[2] = "input" /\ s[1][1] # GroupC => gpio_is_input_en(s[1]) = told[s]
    /\ \A s \in DOMAIN timed : TimerIs(s[1], s[2]) = timed[s]
=============================================================================
