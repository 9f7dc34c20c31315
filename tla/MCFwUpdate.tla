----------------------------- MODULE MCFwUpdate -----------------------------
(***************************************************************************)
(* Small instances of FwUpdate for TLC.                                    *)
(***************************************************************************)
EXTENDS FwUpdate, TLC

CONSTANTS old, new, bad

(* The trailer of bad is not its CRC.  Blocks have 64 bytes. *)
MCImage == {old, new, bad}
MCVersion == (old :> 0) @@ (new :> 1) @@ (bad :> 1)
MCSize == (old :> 66) @@ (new :> 128) @@ (bad :> 100)
MCSealed == [im \in MCImage |-> im # bad]
=============================================================================
