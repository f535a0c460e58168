--------------------------- MODULE BillingLedger ---------------------------
(***************************************************************************)
(* What billing promises, without requests, rows or locks: orders open and  *)
(* close, money settles an order once, and every change of a learner's plan *)
(* is one step computed from the plan as it stands.  Billing implements it  *)
(* (Billing!Ledger).                                                        *)
(***************************************************************************)
EXTENDS Naturals

CONSTANTS Users, Plans, Tier, Days, Orders, None

VARIABLES
    now,    \* the clock
    plan,   \* plan[u] = [tier, expires]: the plan of learner u
    due     \* due[o] = [user, plan, state]: what order o is for and where it stands

vars == <<now, plan, due>>

NoPlan == [tier |-> None, expires |-> 0]
NoDue  == [user |-> None, plan |-> None, state |-> "none"]

Runs(u, at) == plan[u] # NoPlan /\ plan[u].expires > at

Init ==
    /\ now = 0
    /\ plan = [u \in Users |-> NoPlan]
    /\ due = [o \in Orders |-> NoDue]

Tick == now' = now + 1 /\ UNCHANGED <<plan, due>>

Closed(S) == [o \in Orders |-> IF o \in S THEN [due[o] EXCEPT !.state = "closed"]
                                          ELSE due[o]]

OpenDues == {o \in Orders : due[o].state = "open"}

\* Open orders are cancelled or run out of time.
Close ==
    /\ \E S \in SUBSET OpenDues : due' = Closed(S)
    /\ UNCHANGED <<now, plan>>

\* A learner orders plan p; stale orders close at the same time.
Open(u, p) ==
    /\ \E o \in Orders, S \in SUBSET OpenDues :
          /\ due[o] = NoDue
          /\ due' = [Closed(S) EXCEPT ![o] = [user |-> u, plan |-> p, state |-> "open"]]
    /\ UNCHANGED <<now, plan>>

\* The money of order o arrives at instant i: it extends the running plan of the
\* same tier, starts the plan when none runs, and is set aside when another
\* tier runs.
Settle(o, i) ==
    LET u == due[o].user
        p == due[o].plan
    IN  /\ due[o].state \in {"open", "closed"}
        /\ \/ /\ Runs(u, i) /\ plan[u].tier # Tier[p]
              /\ due' = [due EXCEPT ![o].state = "unapplied"]
              /\ UNCHANGED plan
           \/ /\ Runs(u, i) /\ plan[u].tier = Tier[p]
              /\ due' = [due EXCEPT ![o].state = "paid"]
              /\ plan' = [plan EXCEPT ![u].expires = @ + Days[p]]
           \/ /\ ~Runs(u, i)
              /\ due' = [due EXCEPT ![o].state = "paid"]
              /\ plan' = [plan EXCEPT ![u] = [tier |-> Tier[p], expires |-> i + Days[p]]]
        /\ UNCHANGED now

\* The admin gives plan p from instant i, or ends the running one at i.
Grant(u, p, i) ==
    /\ plan' = [plan EXCEPT ![u] = [tier |-> Tier[p], expires |-> i + Days[p]]]
    /\ UNCHANGED <<now, due>>

Revoke(u, i) ==
    /\ Runs(u, i)
    /\ plan' = [plan EXCEPT ![u].expires = i]
    /\ UNCHANGED <<now, due>>

\* A request acts at an instant it took earlier than the step that commits.
Next ==
    \/ Tick
    \/ Close
    \/ \E u \in Users, p \in Plans : Open(u, p)
    \/ \E o \in Orders, i \in 0..now : Settle(o, i)
    \/ \E u \in Users, p \in Plans, i \in 0..now : Grant(u, p, i)
    \/ \E u \in Users, i \in 0..now : Revoke(u, i)

Spec == Init /\ [][Next]_vars
=============================================================================
