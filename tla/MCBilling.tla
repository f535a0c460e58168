----------------------------- MODULE MCBilling -----------------------------
(***************************************************************************)
(* Small instances of Billing for TLC.  Time is shrunk with its order kept: *)
(* the payment window is shorter than any plan, and a yearly plan longer     *)
(* than a monthly one.                                                      *)
(***************************************************************************)
EXTENDS Billing, TLC

PlusPro == {"plus_monthly", "pro_monthly"}
PlusOnly == {"plus_monthly"}
PlusMonthYear == {"plus_monthly", "plus_yearly"}

MCTier == [p \in Plans |-> IF p = "pro_monthly" THEN "pro" ELSE "plus"]
MCDays == [p \in Plans |-> IF p = "plus_yearly" THEN 2 ELSE 1]
MCPrice == [p \in Plans |->
              CASE p = "plus_monthly" -> 1 [] p = "pro_monthly" -> 2 [] OTHER -> 9]

\* Transfers: the price of an order, another amount, no order of ours.
PayBoth == {<<1, 1>>, <<2, 1>>, <<2, 2>>}
PayOwn == {<<1, 1>>, <<2, 1>>}
PayStray == PayOwn \cup {<<None, 1>>}
PayEither == {<<o, a>> : o \in {1, 2}, a \in {1, 9}}

\* Workers are interchangeable, and so are SePay's transaction ids: no action or
\* property tells one from another.
Symmetry == Permutations(Workers) \cup Permutations(Txns)
=============================================================================
