---------------------------- MODULE MCOtaUpdate -----------------------------
(***************************************************************************)
(* Small instances of OtaUpdate for TLC.                                   *)
(***************************************************************************)
EXTENDS OtaUpdate, TLC

CONSTANTS old, new, bad

(* The trailer of bad is not its CRC. *)
MCImage == {old, new, bad}
MCVersion == (old :> 0) @@ (new :> 1) @@ (bad :> 1)

MCVersionOld == (old :> 1) @@ (new :> 2) @@ (bad :> 2)

(* Two blocks, the second one short, and three full blocks. *)
MCSize == (old :> 90) @@ (new :> 144) @@ (bad :> 96)
MCSealed == [im \in MCImage |-> im # bad]
=============================================================================
