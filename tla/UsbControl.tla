----------------------------- MODULE UsbControl -----------------------------
(***************************************************************************)
(* The control endpoint of the USB device of src/vendor/usb_demo, in       *)
(* application/usbstd/usb.c, and the host at the other end.  The main loop *)
(* polls usb_handle_irq, which serves the stages of a transfer.            *)
(*                                                                         *)
(* A byte of a descriptor is its place in it.  A request reads a           *)
(* descriptor or a setting of the device, writes a setting, or is one that *)
(* the device refuses.  usb_g_feature, which only delays the handler,      *)
(* usb_g_config and the data endpoints are left out.                       *)
(***************************************************************************)
EXTENDS Integers, Sequences

CONSTANTS
    DeviceDesc, InterfaceDesc, \* the descriptors there are, and
    DescLen,                   \* how long each is
    AskLen,                    \* the lengths that a host asks for
    Value,                     \* of a setting, and
    DefaultValue,              \* what it has after a reset
    Patient  \* whether the host gives a transfer up only when no interrupt of
             \* it is pending, having waited longer than a turn of the main loop

VARIABLES
    usb,      \* the device and its endpoint
    irq,      \* the interrupts pending
    host,     \* the transfer that it is at, and the bytes it got
    believed  \* the values of which, as the host knows, a setting has one

usbVars == <<usb, irq, host, believed>>

Descriptor == DeviceDesc \cup InterfaceDesc

ASSUME UsbAssumption ==
    /\ DeviceDesc \cap InterfaceDesc = {}
    /\ DescLen \in [Descriptor -> Nat \ {0}] /\ AskLen \subseteq Nat \ {0}
    /\ DefaultValue \in Value /\ Patient \in BOOLEAN

Setting == {"LineCoding", "g_rate", "usb_mouse_report_proto"}

(* An interface has no report descriptor if that is unknown, while the device
   takes no notice of a request for any other descriptor that it lacks. *)
Request ==
    [kind : {"device"}, of : DeviceDesc \cup {"unknown"}, length : AskLen]
        \cup [kind : {"interface"}, of : InterfaceDesc \cup {"unknown", "ignored"},
              length : AskLen]
        \cup [kind : {"get"}, of : Setting, length : {7}]
        \cup [kind : {"set"}, of : Setting, value : Value, length : {7}]
        \cup [kind : {"refused"}, length : {0}]

Content(d) == [i \in 1 .. DescLen[d] |-> <<d, i>>]

Cut(s, n) == SubSeq(s, 1, IF Len(s) < n THEN Len(s) ELSE n)

NoTransfer == [stage |-> "idle"]

(* The device as the first reset of the bus leaves it. *)
UsbInit ==
    /\ usb = [g_response |-> << >>, g_stall |-> 0,
              usb_len_idx_0 |-> 0, usb_len_idx_s |-> 0, usb_len_idx_h |-> 0,
              reg_usb_sups_cyc_cali |-> "0x38",
              setting |-> [s \in Setting |-> DefaultValue],
              control_request |-> << >>,
              fifo |-> << >>, data_ctl |-> "nak", sta_ctl |-> "nak"]
    /\ irq = {}
    /\ host = NoTransfer
    /\ believed = [s \in Setting |-> {DefaultValue}]
-----------------------------------------------------------------------------
(* The host. *)
FirstStage(r) ==
    IF r.kind \in {"device", "interface", "get"} THEN "in"
    ELSE IF r.kind = "set" /\ r.of = "LineCoding" THEN "out" ELSE "status"

HostSetup(r) ==
    /\ Patient => irq = {}
    /\ usb' = [usb EXCEPT !.fifo = r, !.data_ctl = "nak", !.sta_ctl = "nak"]
    /\ irq' = irq \cup {"SETUP"}
    /\ host' = [stage |-> FirstStage(r), request |-> r, got |-> << >>, marked |-> TRUE]
    /\ believed' = IF r.kind = "set" THEN [believed EXCEPT ![r.of] = @ \cup {r.value}]
                                     ELSE believed

(* A packet that is short, or the last byte asked for, ends the stage. *)
HostIn ==
    LET got == host.got \o usb.fifo
        last == Len(usb.fifo) < 8 \/ Len(got) >= host.request.length
    IN
    /\ host.stage = "in" /\ usb.data_ctl = "ack"
    /\ host' = [host EXCEPT !.got = got,
                            !.stage = IF last THEN "status" ELSE "in",
                            !.marked = usb.fifo # << >>
                                          \/ usb.reg_usb_sups_cyc_cali = "0x18"]
    /\ usb' = [usb EXCEPT !.data_ctl = "nak"]
    /\ irq' = irq \cup {"DATA"}
    /\ UNCHANGED believed

HostOut ==
    /\ host.stage = "out" /\ usb.data_ctl = "ack"
    /\ host' = [host EXCEPT !.stage = "status"]
    /\ usb' = [usb EXCEPT !.data_ctl = "nak", !.fifo = <<host.request.value>>]
    /\ irq' = irq \cup {"DATA"}
    /\ UNCHANGED believed

HostStatus ==
    /\ host.stage = "status"
    /\ host' = [host EXCEPT !.stage = "ending"]
    /\ irq' = irq \cup {"STA"}
    /\ UNCHANGED <<usb, believed>>

HostDone ==
    /\ host.stage = "ending" /\ usb.sta_ctl = "ack"
    /\ host' = [host EXCEPT !.stage = "done"]
    /\ believed' = IF host.request.kind = "set"
                   THEN [believed EXCEPT ![host.request.of] = {host.request.value}]
                   ELSE believed
    /\ UNCHANGED <<usb, irq>>

HostStalled ==
    /\ \/ host.stage \in {"in", "out"} /\ usb.data_ctl = "stall"
       \/ host.stage = "ending" /\ usb.sta_ctl = "stall"
    /\ host' = [host EXCEPT !.stage = "stalled"]
    /\ UNCHANGED <<usb, irq, believed>>

(* A reset of the bus. *)
HostReset ==
    /\ Patient => irq = {}
    /\ irq' = irq \cup {"RESET"}
    /\ host' = NoTransfer
    /\ believed' = [believed EXCEPT !["usb_mouse_report_proto"] = {DefaultValue}]
    /\ UNCHANGED usb
-----------------------------------------------------------------------------
(* The device: what each part of usb_handle_irq makes of it. *)
Stall(d) == [d EXCEPT !.g_stall = 1]

(* Mutant: the bytes sent stay in the response. *)
SendAgain(d) ==
    LET n == IF Len(d.g_response) < 8 THEN Len(d.g_response) ELSE 8 IN
    [d EXCEPT !.usb_len_idx_0 = n, !.fifo = Cut(d.g_response, n)]

usb_send_response(d) ==
    LET n == IF Len(d.g_response) < 8 THEN Len(d.g_response) ELSE 8 IN
    [d EXCEPT !.usb_len_idx_0 = n,
              !.fifo = Cut(d.g_response, n),
              !.g_response = SubSeq(@, n + 1, Len(@))]

usb_prepare_desc_data(d) ==
    LET r == d.control_request IN
    IF r.of = "unknown"
    THEN Stall([d EXCEPT !.g_response = << >>, !.usb_len_idx_s = 0])
    ELSE [d EXCEPT !.g_response = Cut(Content(r.of), r.length),
                   !.usb_len_idx_s = DescLen[r.of]]

(* Where the device has no such descriptor it cuts what was left of the last. *)
usb_handle_std_intf_req(d) ==
    LET r == d.control_request
        content == IF r.of \in InterfaceDesc THEN Content(r.of) ELSE d.g_response
        cut == [d EXCEPT !.g_response = Cut(content, r.length)]
    IN IF r.of = "unknown" THEN Stall(cut) ELSE cut

(* LineCoding is written by the data, the others by the setup packet. *)
usb_handle_out_class_intf_req(d, data_request) ==
    LET r == d.control_request IN
    IF r.of # "LineCoding" THEN [d EXCEPT !.setting[r.of] = r.value]
    ELSE IF data_request THEN [d EXCEPT !.setting[r.of] = d.fifo[1]] ELSE d

usb_handle_in_class_intf_req(d) ==
    [d EXCEPT !.fifo = <<d.setting[d.control_request.of]>>]

usb_handle_request(d, data_request) ==
    LET kind == d.control_request.kind IN
    CASE kind = "device" ->
           usb_send_response(IF data_request THEN d ELSE usb_prepare_desc_data(d))
      [] kind = "interface" ->
           usb_send_response(IF data_request THEN d ELSE usb_handle_std_intf_req(d))
      [] kind = "set" -> usb_handle_out_class_intf_req(d, data_request)
      [] kind = "get" -> usb_handle_in_class_intf_req(d)
      [] kind = "refused" -> Stall(d)

usb_handle_ctl_ep_setup(d) ==
    LET asked == [d EXCEPT !.control_request = d.fifo, !.usb_len_idx_h = d.fifo.length,
                           !.reg_usb_sups_cyc_cali = "0x38", !.g_stall = 0]
        handled == usb_handle_request(asked, FALSE)
    IN [handled EXCEPT !.data_ctl = IF handled.g_stall = 1 THEN "stall" ELSE "ack"]

(* The empty packet that ends a descriptor needs another setting of the clock. *)
usb_handle_ctl_ep_data(d) ==
    LET handled == usb_handle_request([d EXCEPT !.g_stall = 0], TRUE)
        empty == /\ handled.usb_len_idx_s % 8 = 0
                 /\ handled.usb_len_idx_0 = 0
                 /\ handled.usb_len_idx_s # handled.usb_len_idx_h
    IN IF handled.g_stall = 1
       THEN [handled EXCEPT !.data_ctl = "stall", !.reg_usb_sups_cyc_cali = "0x38"]
       ELSE [handled EXCEPT !.data_ctl = "ack",
                            !.reg_usb_sups_cyc_cali = IF empty THEN "0x18" ELSE "0x38"]

usb_handle_ctl_ep_status(d) ==
    [d EXCEPT !.reg_usb_sups_cyc_cali = "0x38",
              !.sta_ctl = IF d.g_stall = 1 THEN "stall" ELSE "ack"]

BusReset(d) == [d EXCEPT !.setting["usb_mouse_report_proto"] = DefaultValue]

usb_handle_irq ==
    LET setup  == IF "SETUP" \in irq THEN usb_handle_ctl_ep_setup(usb)   ELSE usb
        data   == IF "DATA"  \in irq THEN usb_handle_ctl_ep_data(setup)  ELSE setup
        status == IF "STA"   \in irq THEN usb_handle_ctl_ep_status(data) ELSE data
    IN
    /\ irq # {}
    /\ usb' = IF "RESET" \in irq THEN BusReset(status) ELSE status
    /\ irq' = {}
    /\ UNCHANGED <<host, believed>>

UsbNext ==
    \/ \E r \in Request : HostSetup(r)
    \/ HostIn \/ HostOut \/ HostStatus
    \/ HostDone \/ HostStalled \/ HostReset
    \/ usb_handle_irq

UsbSpec == UsbInit /\ [][UsbNext]_usbVars
-----------------------------------------------------------------------------
UsbTypeOK ==
    /\ usb.g_stall \in {0, 1}
    /\ usb.usb_len_idx_0 \in 0 .. 8
    /\ usb.reg_usb_sups_cyc_cali \in {"0x38", "0x18"}
    /\ usb.setting \in [Setting -> Value]
    /\ usb.data_ctl \in {"nak", "ack", "stall"} /\ usb.sta_ctl \in {"nak", "ack", "stall"}
    /\ irq \subseteq {"SETUP", "DATA", "STA", "RESET"}
    /\ host.stage \in {"idle", "in", "out", "status", "ending", "done", "stalled"}
    /\ believed \in [Setting -> SUBSET Value]

(* Whatever transfers were given up before, a transfer that ends well has given
   the host the descriptor that it asked for, from the first byte on and to the
   length asked for, or the value that the setting was last given, and a request
   that the device cannot meet does not end well.  The packet that ends a
   descriptor of the device is marked if it is empty (usb.c:89-107, usb.c:632-793). *)
AnswerIsAsked ==
    LET r == host.request IN
    /\ host.stage = "done" =>
         /\ r.kind # "refused" /\ r.kind \in {"device", "interface"} => r.of # "unknown"
         /\ r.kind = "get" => \E v \in believed[r.of] : host.got = <<v>>
         /\ r.kind \in {"device", "interface"} /\ r.of # "ignored" =>
              host.got = Cut(Content(r.of), r.length)
         /\ r.kind = "device" => host.marked
    /\ host.stage = "stalled" => r.kind = "refused" \/ r.of = "unknown"
=============================================================================
