---------------------------- MODULE AtomicUpdate ----------------------------
(***************************************************************************)
(* What the OTA update promises, whatever happens to packets and power: at *)
(* every moment the slave has one whole image to start, and another one    *)
(* takes its place in a single step, after it was received from beginning  *)
(* to end and if its trailer is its CRC.                                   *)
(***************************************************************************)
CONSTANTS
    Image,  \* firmware images
    Sealed  \* those whose trailer is the CRC of what precedes it

VARIABLES
    installed, \* the image that starts at the next boot
    received   \* the images received from beginning to end

Init == installed \in Image /\ received = {}

Receive(im) == received' = received \cup {im} /\ UNCHANGED installed

Install(im) ==
    /\ im \in received \cap Sealed
    /\ installed' = im
    /\ UNCHANGED received

Next == \E im \in Image : Receive(im) \/ Install(im)

Spec == Init /\ [][Next]_<<installed, received>>
=============================================================================
