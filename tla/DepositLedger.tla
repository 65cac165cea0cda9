---------------------------- MODULE DepositLedger ----------------------------
(***************************************************************************)
(* The deposits of one booking, in the order they were made                *)
(* (internal/domain/deposit.go, the deposit queries of internal/store and  *)
(* internal/payment).  Amounts, ids, times and reasons are left out.       *)
(***************************************************************************)
EXTENDS Integers, Sequences

CONSTANTS DepositKeys, None

Deposit == [key: DepositKeys \cup {None}, status: {"confirmed", "refunded"}]

\* The indices ConfirmedDepositByBooking can return.
ConfirmedDeposits(ledger) == {i \in DOMAIN ledger : ledger[i].status = "confirmed"}

M_OnlyDeposit(ledger, key, status) == <<[key |-> key, status |-> status]>>

AddDeposit(ledger, key, status) == Append(ledger, [key |-> key, status |-> status])

M_NoRefund(ledger) == ledger

\* RefundInTx: refund the confirmed deposit, if there is one.
RefundInTx(ledger) ==
  IF ConfirmedDeposits(ledger) = {}
  THEN ledger
  ELSE [ledger EXCEPT ![CHOOSE i \in ConfirmedDeposits(ledger) : TRUE].status = "refunded"]
==============================================================================
