----------------------------- MODULE Settlement -----------------------------
(***************************************************************************)
(* What the runtime ledger promises a reader of receipts: one logical      *)
(* request is opened at most once, is settled at most once with one        *)
(* outcome, and every receipt settles one logical request only.            *)
(***************************************************************************)
CONSTANTS Keys, Receipts, NoReceipt

VARIABLES
  outcome,    \* of each logical request
  receiptOf   \* the receipt that settled it

Outcome == {"finished", "error", "runtime_lost"}

Init == /\ outcome = [k \in Keys |-> "none"]
        /\ receiptOf = [k \in Keys |-> NoReceipt]

Open(k) ==
  /\ outcome[k] = "none"
  /\ outcome' = [outcome EXCEPT ![k] = "open"]
  /\ UNCHANGED receiptOf

Settle(k, o, c) ==
  /\ outcome[k] = "open"
  /\ \A j \in Keys : receiptOf[j] # c
  /\ outcome' = [outcome EXCEPT ![k] = o]
  /\ receiptOf' = [receiptOf EXCEPT ![k] = c]

Next == \E k \in Keys :
          Open(k) \/ \E o \in Outcome, c \in Receipts : Settle(k, o, c)

Spec == Init /\ [][Next]_<<outcome, receiptOf>>
=============================================================================
