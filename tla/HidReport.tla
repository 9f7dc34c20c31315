------------------------------ MODULE HidReport ------------------------------
(***************************************************************************)
(* The HID reports of src/vendor/usb_demo/application/usb_app/usbkb.c and  *)
(* usbmouse.c: the keys of a keyboard, and the reports that they make of   *)
(* them for the host.  There are two endpoints, each with room for one     *)
(* report that the host has not fetched.  A report for a busy endpoint     *)
(* goes to usb_fifo, which forgets the oldest when it is full.             *)
(*                                                                         *)
(* caller is who makes the calls: a keyboard that uses usbkb_hid_report,   *)
(* usbkb_release_check and usb_hid_report_fifo_proc, or one of the two     *)
(* demonstrations, which report their buttons themselves.                  *)
(***************************************************************************)
EXTENDS Naturals, Sequences

CONSTANTS
    USB_FIFO_NUM,    \* reports that wait
    KbData           \* what kb_data_t may hold

VARIABLES
    caller,
    hid,         \* what usbkb.c and usbmouse.c keep, and the endpoints
    last_data,   \* static in usbkb_check_repeat_and_save
    host_keys,   \* the keys that the host believes to be down
    asked        \* the keys that the caller asked for last, until a report is queued

hidVars == <<caller, hid, last_data, host_keys, asked>>

(* A kind of key, of which one stands for all. *)
Kind == {"normal", "sys", "media", "mouse"}
KeyboardKind == Kind \ {"mouse"}
Endpoint == {"USB_EDP_KEYBOARD_IN", "USB_EDP_MOUSE"}
EndpointOf(k) == IF k = "normal" THEN "USB_EDP_KEYBOARD_IN" ELSE "USB_EDP_MOUSE"

Report == [kind : Kind, down : BOOLEAN]
Press(k) == [kind |-> k, down |-> TRUE]
Release(k) == [kind |-> k, down |-> FALSE]
NoReport == [kind |-> "none", down |-> FALSE]

(* kb_data_t: a normal key or none, and one of the others or none, since
   usbkb_separate_key_types keeps the last of those. *)
ASSUME KbDataAssumption ==
    KbData \subseteq {d \in SUBSET KeyboardKind : ~({"sys", "media"} \subseteq d)}

(* With a single place a pointer that is one round ahead would look like one
   that is not. *)
ASSUME UsbFifoAssumption == USB_FIFO_NUM \in Nat \ {0, 1}

(* The pointers are bytes, which are used modulo this only. *)
PtrMod == 2 * USB_FIFO_NUM

(* waiting, queued and pressQueued are history: what the fifo should hold,
   oldest first, whether any report was ever queued, and the kinds of key of
   which a press was. *)
HidInit ==
    /\ caller \in {"keyboard", "keyboard_app", "mouse_app"}
    /\ hid = [ep |-> [e \in Endpoint |-> NoReport],
              usb_fifo |-> [i \in 0 .. USB_FIFO_NUM - 1 |-> NoReport],
              usb_ff_wptr |-> 0, usb_ff_rptr |-> 0,
              usbkb_not_released |-> {},
              waiting |-> <<>>, queued |-> FALSE, pressQueued |-> {}]
    /\ last_data = {} /\ host_keys = {} /\ asked = {}

-----------------------------------------------------------------------------
(***************************************************************************)
(* What the functions do to hid.                                           *)
(***************************************************************************)
Busy(h, k) == h.ep[EndpointOf(k)] # NoReport

Overwrites(use) == use > USB_FIFO_NUM

Queue(h, r) ==
    LET wptr == (h.usb_ff_wptr + 1) % PtrMod
        fifo_use == (wptr + PtrMod - h.usb_ff_rptr) % PtrMod
        all == Append(h.waiting, r)
    IN [h EXCEPT !.usb_fifo[h.usb_ff_wptr % USB_FIFO_NUM] = r,
                 !.usb_ff_wptr = wptr,
                 !.usb_ff_rptr = IF Overwrites(fifo_use) THEN (@ + 1) % PtrMod ELSE @,
                 !.waiting = IF Len(all) > USB_FIFO_NUM THEN Tail(all) ELSE all,
                 !.queued = TRUE,
                 !.pressQueued = IF r.down THEN @ \cup {r.kind} ELSE @]

(* usbkb_hid_report_normal, usbmouse_hid_report *)
hid_report(h, r) ==
    IF Busy(h, r.kind) THEN Queue(h, r) ELSE [h EXCEPT !.ep[EndpointOf(r.kind)] = r]

(* Mutant: a key counts as released as soon as its release is queued. *)
ReleasedWhenQueued(h, k) ==
    [hid_report(h, Release(k)) EXCEPT !.usbkb_not_released = @ \ {k}]

(* usbkb_release_normal_key, usbkb_release_sys_key, usbkb_release_media_key *)
release_key(h, k) ==
    IF k \notin h.usbkb_not_released THEN h
    ELSE [hid_report(h, Release(k)) EXCEPT
             !.usbkb_not_released = IF Busy(h, k) THEN @ ELSE @ \ {k}]

(* usbkb_report_normal_key, usbkb_report_sys_key, usbkb_report_media_key *)
report_key(h, k, data) ==
    IF k \in data
    THEN [hid_report(h, Press(k)) EXCEPT
             !.usbkb_not_released = IF Busy(h, k) THEN @ ELSE @ \cup {k}]
    ELSE release_key(h, k)

(***************************************************************************)
(* The calls.                                                              *)
(***************************************************************************)
Asks(keys) == asked' = IF hid'.queued THEN {} ELSE keys

(* The same keys again are only a sign of life. *)
Repeated(data) == data # {} /\ data = last_data /\ hid.usbkb_not_released # {}

usbkb_hid_report(data) ==
    /\ caller = "keyboard"
    /\ last_data' = IF data = {} THEN last_data ELSE data
    /\ hid' = IF Repeated(data) THEN hid
              ELSE report_key(report_key(report_key(hid, "normal", data), "sys", data),
                              "media", data)
    /\ Asks(data)
    /\ UNCHANGED <<caller, host_keys>>

(* USB_KEYBOARD_RELEASE_TIMEOUT has passed since the last call. *)
usbkb_release_check ==
    /\ caller = "keyboard"
    /\ hid.usbkb_not_released # {}
    /\ hid' = release_key(release_key(release_key(hid, "sys"), "normal"), "media")
    /\ Asks({})
    /\ UNCHANGED <<caller, last_data, host_keys>>

(* A place is emptied when its report is sent, since no one looks at it again. *)
usb_hid_report_fifo_proc ==
    /\ caller = "keyboard"
    /\ hid.usb_ff_rptr # hid.usb_ff_wptr
    /\ LET r == hid.usb_fifo[hid.usb_ff_rptr % USB_FIFO_NUM]
       IN /\ ~Busy(hid, r.kind)
          /\ hid' = [hid_report(hid, r) EXCEPT
                        !.usb_fifo[hid.usb_ff_rptr % USB_FIFO_NUM] = NoReport,
                        !.usb_ff_rptr = (@ + 1) % PtrMod,
                        !.waiting = Tail(@)]
    /\ UNCHANGED <<caller, last_data, host_keys, asked>>

(* A button of keyboard_app.c or mouse_app.c has been pressed and let go: one
   button presses a key, the other releases it. *)
AppKind == IF caller = "keyboard_app" THEN "normal" ELSE "mouse"

AppButton(down) ==
    /\ caller # "keyboard"
    /\ hid' = hid_report(hid, [kind |-> AppKind, down |-> down])
    /\ Asks(IF down THEN {AppKind} ELSE {})
    /\ UNCHANGED <<caller, last_data, host_keys>>

(* The host fetches a report. *)
HostPolls(e) ==
    LET r == hid.ep[e]
    IN /\ r # NoReport
       /\ host_keys' = IF r.down THEN host_keys \cup {r.kind} ELSE host_keys \ {r.kind}
       /\ hid' = [hid EXCEPT !.ep[e] = NoReport]
       /\ UNCHANGED <<caller, last_data, asked>>

HidNext ==
    \/ \E data \in KbData : usbkb_hid_report(data)
    \/ usbkb_release_check
    \/ usb_hid_report_fifo_proc
    \/ \E down \in BOOLEAN : AppButton(down)
    \/ \E e \in Endpoint : HostPolls(e)
-----------------------------------------------------------------------------
HidTypeOK ==
    /\ hid.ep \in [Endpoint -> Report \cup {NoReport}]
    /\ hid.usb_fifo \in [0 .. USB_FIFO_NUM - 1 -> Report \cup {NoReport}]
    /\ hid.queued \in BOOLEAN /\ hid.pressQueued \subseteq Kind
    /\ hid.usb_ff_wptr \in 0 .. PtrMod - 1 /\ hid.usb_ff_rptr \in 0 .. PtrMod - 1
    /\ hid.usbkb_not_released \subseteq KeyboardKind
    /\ last_data \in KbData
    /\ host_keys \subseteq Kind /\ asked \subseteq Kind

Fetched == \A e \in Endpoint : hid.ep[e] = NoReport

(* The fifo holds the newest of the reports that were queued and not sent, in
   their order. *)
NewestWait ==
    LET n == (hid.usb_ff_wptr + PtrMod - hid.usb_ff_rptr) % PtrMod
    IN hid.waiting = [i \in 1 .. n |-> hid.usb_fifo[(hid.usb_ff_rptr + i - 1) % USB_FIFO_NUM]]

(* A key whose press was never queued is never left down at the host: while
   it may be down the mask says that it must be released. *)
NoStuckKey ==
    caller = "keyboard" /\ Fetched =>
        \A k \in host_keys : k \in hid.usbkb_not_released \/ k \in hid.pressQueued

(* The host sees the keys that were asked for last, if no endpoint was ever
   busy; and else still no key that nobody would release, unless its press
   was queued: then nothing is noted in usbkb_not_released, its release is not
   sent, and it stays down. *)
HostSeesKeys ==
    /\ ~hid.queued /\ Fetched => host_keys = asked
    /\ NoStuckKey
    /\ NewestWait
=============================================================================
