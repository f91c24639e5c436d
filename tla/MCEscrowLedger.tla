---------------------------- MODULE MCEscrowLedger ---------------------------
(***************************************************************************)
(* TLC instances of EscrowLedger.  Two escrows with different amounts: e1   *)
(* carries temperature-limited cargo and leaves the platform a fee, e2      *)
(* declares no limit and pays the carrier everything.                       *)
(***************************************************************************)
EXTENDS EscrowLedger

CONSTANTS e1, e2

MCAmount == [e \in Escrow |-> IF e = e1 THEN 5 ELSE 3]
MCPayout == [e \in Escrow |-> IF e = e1 THEN 4 ELSE 3]
MCLimited == Escrow \cap {e1}
=============================================================================
