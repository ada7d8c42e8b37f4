------------------------------- MODULE Ledger -------------------------------
(***************************************************************************)
(* What the current accounts promise, without locks, transactions or       *)
(* requests: a customer's balance changes by posting a charge, reversing a *)
(* posted charge once, or receiving money, each in a single step, and by   *)
(* nothing else.                                                           *)
(***************************************************************************)
EXTENDS Integers

CONSTANTS Documents, Customers, NoCustomer

VARIABLES charge, receipt, balance

ledger == <<charge, receipt, balance>>

Blank == [state |-> "blank", customer |-> NoCustomer, amount |-> 0]

Init ==
    /\ charge = [d \in Documents |-> Blank]
    /\ receipt = [d \in Documents |-> Blank]
    /\ balance = [c \in Customers |-> 0]

\* Document d is posted, for customer c and any natural amount.
Posted(doc, d, c) ==
    /\ doc[d] = Blank
    /\ doc'[d] = [state |-> "posted", customer |-> c, amount |-> doc'[d].amount]
    /\ doc'[d].amount \in Nat
    /\ \A e \in Documents \ {d} : doc'[e] = doc[e]

Charge(d, c) ==
    /\ Posted(charge, d, c)
    /\ balance' = [balance EXCEPT ![c] = @ + charge'[d].amount]
    /\ UNCHANGED receipt

Reverse(d) ==
    LET c == charge[d].customer
    IN  /\ charge[d].state = "posted"
        /\ charge' = [charge EXCEPT ![d] = [state |-> "reversed", customer |-> c,
                                            amount |-> charge[d].amount]]
        /\ balance' = [balance EXCEPT ![c] = @ - charge[d].amount]
        /\ UNCHANGED receipt

Receive(d, c) ==
    /\ Posted(receipt, d, c)
    /\ balance' = [balance EXCEPT ![c] = @ - receipt'[d].amount]
    /\ UNCHANGED charge

Next ==
    \E d \in Documents :
        \/ Reverse(d)
        \/ \E c \in Customers : Charge(d, c) \/ Receive(d, c)

Spec == Init /\ [][Next]_ledger
=============================================================================
