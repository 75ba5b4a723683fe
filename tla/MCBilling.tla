------------------------------ MODULE MCBilling ------------------------------
(***************************************************************************)
(* Small instances of Billing: any kind of purchase under each key.        *)
(***************************************************************************)
EXTENDS Billing

MCPurchases == [Keys -> Kinds]
=============================================================================
