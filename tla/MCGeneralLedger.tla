-------------------------- MODULE MCGeneralLedger --------------------------
(* An instance of GeneralLedger for TLC: the postings and the accrual are  *)
(* dated in a past period; the reversal of one of them is made today.      *)
EXTENDS GeneralLedger
CONSTANTS invoice, payment, accrual, reversal, past, today

MCAccounts == {1, 2}
MCPeriodOf == [e \in Events |-> IF e \in {reversal, today} THEN today ELSE past]
MCAccountsOf == [e \in Events |-> IF e = accrual THEN {2} ELSE {1, 2}]
MCTarget == [e \in Reversals |-> invoice]
=============================================================================
