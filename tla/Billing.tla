------------------------------ MODULE Billing ------------------------------
(***************************************************************************)
(* Paid plans (app/features/billing): checkout, cancellation and expiry of  *)
(* orders, the SePay webhook that settles them, the admin's grant and       *)
(* revoke, and the purchase report to Google Analytics.                     *)
(*                                                                          *)
(* A worker runs one request at a time.  A request is one READ COMMITTED    *)
(* transaction of PostgreSQL: it interleaves with the others at every       *)
(* statement, waits at SELECT ... FOR UPDATE for the row's lock, keeps the  *)
(* lock to the end of the transaction, and publishes its writes in the one  *)
(* step that commits.  A transaction that fails leaves nothing behind.      *)
(* Statements that take a lock and commit with nothing in between are one   *)
(* step.  The unit of time is abstract; only its order matters.             *)
(***************************************************************************)
EXTENDS Naturals, FiniteSets, FiniteSetsExt

CONSTANTS
    Users,       \* learners
    Plans,       \* plan codes of the price list
    Tier,        \* Tier[p]: the tier plan p gives
    Days,        \* Days[p]: how long plan p lasts
    Price,       \* Price[p]: what plan p costs
    Txns,        \* SePay's ids of bank transactions
    Workers,     \* requests that can be in flight at a time
    None,        \* no user, plan, order, transaction or tier; a free lock
    Window,      \* payment_window_minutes
    Kinds,       \* bound: the kinds of request an instance looks at
    Payments,    \* bound: the <<order, amount>> pairs learners may transfer
    MaxOrders,   \* bound: orders ever made
    MaxTime,     \* bound: the last instant
    MaxAdmin,    \* bound: grants and revokes started per learner
    MaxFails     \* bound: requests that die before they commit

OrderIds == 1..MaxOrders
Tiers    == {Tier[p] : p \in Plans}

ASSUME PriceListAssumption ==
    /\ Price \in [Plans -> Nat \ {0}]
    /\ Days \in [Plans -> Nat \ {0}]
    /\ None \notin Users \cup Plans \cup Nat \cup Txns \cup Workers \cup Tiers

ASSUME BoundsAssumption ==
    /\ Window \in Nat /\ MaxOrders \in Nat /\ MaxTime \in Nat
    /\ MaxAdmin \in Nat /\ MaxFails \in Nat
    /\ Payments \subseteq (OrderIds \cup {0, None}) \X (Nat \ {0})

VARIABLES
    now,         \* the clock
    subs,        \* subs[u]: the subscriptions row of learner u, or NoSub
    orders,      \* orders[o]: the orders row with id o, or NoOrder
    events,      \* payment_events, the webhook log (equal rows are one)
    audit,       \* audit[u]: rows of the admin log about the plan of u
    orderLock,   \* orderLock[o]: the worker whose transaction locks order o
    subLock,     \* subLock[u]: the worker whose transaction locks u's plan
    pc,          \* pc[w]: the statement worker w runs next
    job,         \* job[w]: the arguments and local variables of w's request
    saw,         \* saw[w]: the subscriptions row w has read for update
    bank,        \* bank[t]: the transfer SePay knows as t, amount 0 if none
    acked,       \* transfers whose webhook was answered with success
    reports,     \* reports[o]: purchases of order o that reached Analytics
    fails        \* requests that died

rows  == <<subs, orders, events, audit>>
locks == <<orderLock, subLock>>
local == <<pc, job, saw>>
world == <<now, bank, reports, fails>>
vars  == <<rows, locks, local, world, acked>>

-----------------------------------------------------------------------------
(* Rows and transactions                                                   *)

Statuses == {"none", "pending", "paid", "paid_unapplied", "cancelled",
             "expired", "refunded"}

\* Statuses that say the money of an order has arrived.
Settled == {"paid", "paid_unapplied", "refunded"}

Subscription == [tier: Tiers \cup {None}, expires: Nat]
NoSub == [tier |-> None, expires |-> 0]

Order == [user: Users \cup {None}, plan: Plans \cup {None}, status: Statuses,
          created: Nat, txn: Txns \cup {None}, paidAt: Nat]
NoOrder == [user |-> None, plan |-> None, status |-> "none",
            created |-> 0, txn |-> None, paidAt |-> 0]

PaymentEvent == [order: OrderIds \cup {0, None}, txn: Txns,
                 valid: BOOLEAN, processed: BOOLEAN]

Transfer == [order: OrderIds \cup {0, None}, amount: Nat]
NoTransfer == [order |-> None, amount |-> 0]

Job == [user: Users \cup {None}, plan: Plans \cup {None},
        order: OrderIds \cup {None}, txn: Txns \cup {None}, at: Nat]
NoJob == [user |-> None, plan |-> None, order |-> None, txn |-> None, at |-> 0]

\* A plan runs at an instant when it expires later.
Running(sub, at) == sub # NoSub /\ sub.expires > at

\* No transaction holds the row.  (X_Y is a mutant of X: what a plausible bug
\* would make of it.  Here: a SELECT without FOR UPDATE.)
OrderFree_Unlocked(o) == TRUE
OrderFree(o) == orderLock[o] = None
SubFree_Unlocked(u) == TRUE
SubFree(u) == subLock[u] = None

Freed_Never(lock, w) == lock
Freed(lock, w) == [x \in DOMAIN lock |-> IF lock[x] = w THEN None ELSE lock[x]]

\* Worker w ends its transaction and goes on at `to` with the arguments j.
EndAt(w, to, j) ==
    /\ orderLock' = Freed(orderLock, w)
    /\ subLock' = Freed(subLock, w)
    /\ pc' = [pc EXCEPT ![w] = to]
    /\ job' = [job EXCEPT ![w] = j]
    /\ saw' = [saw EXCEPT ![w] = NoSub]

End(w) == EndAt(w, "idle", NoJob)

\* Worker w starts a request whose arguments are j.
Begin(w, to, j) ==
    /\ pc[w] = "idle"
    /\ pc' = [pc EXCEPT ![w] = to]
    /\ job' = [job EXCEPT ![w] = j]
    /\ UNCHANGED <<saw, locks>>

\* Worker w reads the subscriptions row of u for update.
LockSubscription(w, u, to) ==
    /\ subs[u] # NoSub => SubFree(u)
    /\ subLock' = IF subs[u] # NoSub THEN [subLock EXCEPT ![u] = w] ELSE subLock
    /\ saw' = [saw EXCEPT ![w] = subs[u]]
    /\ pc' = [pc EXCEPT ![w] = to]
    /\ UNCHANGED <<job, orderLock>>

\* Two transactions that both found no row both insert one: user_id is unique,
\* so the second to commit is rolled back.
InsertConflict_NoUniqueKey(w, u) == FALSE
InsertConflict(w, u) == saw[w] = NoSub /\ subs[u] # NoSub

-----------------------------------------------------------------------------
(* Checkout, cancel and expiry                                             *)

StaleOrders_TooEarly(u, at) ==
    {o \in OrderIds : /\ orders[o].user = u
                      /\ orders[o].status = "pending"
                      /\ orders[o].created + Window <= at}
StaleOrders(u, at) ==
    {o \in OrderIds : /\ orders[o].user = u
                      /\ orders[o].status = "pending"
                      /\ orders[o].created + Window < at}

OpenOrders(u, p) ==
    {o \in OrderIds : /\ orders[o].user = u
                      /\ orders[o].status = "pending"
                      /\ orders[o].plan = p}

\* ORDER BY id DESC, first row.
Newest(S) == IF S = {} THEN {None} ELSE {o \in S : \A q \in S : q <= o}

Expired(S) == [o \in OrderIds |-> IF o \in S
                                  THEN [orders[o] EXCEPT !.status = "expired"]
                                  ELSE orders[o]]

\* Bound: an id is left for every checkout in flight.
IdsLeft == Cardinality({o \in OrderIds : orders[o] = NoOrder})
             > Cardinality({w \in Workers : pc[w] \in {"checkout", "place", "reuse"}})

\* POST /checkout: the tier check.  A refusal changes nothing.
Checkout(w, u, p) ==
    /\ IdsLeft
    /\ Running(subs[u], now) => subs[u].tier = Tier[p]
    /\ Begin(w, "checkout", [NoJob EXCEPT !.user = u, !.plan = p, !.at = now])
    /\ UNCHANGED <<rows, world, acked>>

HeldBy(w) == {o \in OrderIds : orderLock[o] = w}

\* The UPDATE of expire_stale_orders locks the stale orders one after another, in
\* an order PostgreSQL chooses, and keeps them to the end of the transaction.
LockStale(w) ==
    /\ pc[w] \in {"checkout", "expire"}
    /\ \E o \in StaleOrders(job[w].user, job[w].at) :
          /\ OrderFree(o)
          /\ orderLock' = [orderLock EXCEPT ![o] = w]
    /\ UNCHANGED <<rows, subLock, local, world, acked>>

\* It has them all; then the newest open order for the plan is looked up.  If there
\* is one, the visit that led here may have to be written to it ("reuse").
FindOpenOrder(w) ==
    LET u == job[w].user
        stale == StaleOrders(u, job[w].at)
        open == OpenOrders(u, job[w].plan) \ stale
    IN  /\ pc[w] = "checkout"
        /\ stale \subseteq HeldBy(w)
        /\ \E found \in Newest(open), to \in {"place", "reuse"} :
              /\ found = None => to = "place"
              /\ job' = [job EXCEPT ![w].order = found]
              /\ pc' = [pc EXCEPT ![w] = to]
        /\ UNCHANGED <<rows, locks, saw, world, acked>>

\* The open order is handed out again; to write the visit its row must be free.
ReuseOrder(w) ==
    /\ \/ pc[w] = "place" /\ job[w].order # None
       \/ pc[w] = "reuse" /\ OrderFree(job[w].order)
    /\ orders' = Expired(HeldBy(w))
    /\ End(w)
    /\ UNCHANGED <<subs, events, audit, world, acked>>

\* There was none: a new one is inserted under the next id.
PlaceOrder(w) ==
    /\ pc[w] = "place"
    /\ job[w].order = None
    /\ \E o \in OrderIds :
          /\ orders[o] = NoOrder
          /\ \A q \in OrderIds : q < o => orders[q] # NoOrder
          /\ orders' = [Expired(HeldBy(w)) EXCEPT
                ![o] = [NoOrder EXCEPT !.user = job[w].user, !.plan = job[w].plan,
                                       !.status = "pending", !.created = job[w].at]]
    /\ End(w)
    /\ UNCHANGED <<subs, events, audit, world, acked>>

\* POST /orders/{id}/cancel locks the order; only a pending one goes on.
CancelOrder(w, o) ==
    /\ pc[w] = "idle"
    /\ orders[o].status = "pending"
    /\ OrderFree(o)
    /\ orderLock' = [orderLock EXCEPT ![o] = w]
    /\ pc' = [pc EXCEPT ![w] = "cancel"]
    /\ job' = [job EXCEPT ![w] = [NoJob EXCEPT !.order = o]]
    /\ UNCHANGED <<rows, subLock, saw, world, acked>>

CommitCancel(w) ==
    /\ pc[w] = "cancel"
    /\ orders' = [orders EXCEPT ![job[w].order].status = "cancelled"]
    /\ End(w)
    /\ UNCHANGED <<subs, events, audit, world, acked>>

\* GET /me, GET /orders/{id}/payment and the admin's view of a learner.
ReadBilling(w, u) ==
    /\ Begin(w, "expire", [NoJob EXCEPT !.user = u, !.at = now])
    /\ UNCHANGED <<rows, world, acked>>

\* expire_stale_orders has all the rows and commits, before anything is read.
ExpireStaleOrders(w) ==
    /\ pc[w] = "expire"
    /\ StaleOrders(job[w].user, job[w].at) \subseteq HeldBy(w)
    /\ orders' = Expired(HeldBy(w))
    /\ End(w)
    /\ UNCHANGED <<subs, events, audit, world, acked>>

-----------------------------------------------------------------------------
(* The SePay webhook                                                       *)

\* External: a learner transfers money, naming an order (0: one that does not
\* exist) or nothing we recognise (None).
PayByTransfer(t, o, amount) ==
    /\ bank[t] = NoTransfer
    /\ o \in OrderIds => orders[o] # NoOrder
    /\ bank' = [bank EXCEPT ![t] = [order |-> o, amount |-> amount]]
    /\ UNCHANGED <<rows, locks, local, now, reports, fails, acked>>

EventOf(t, valid, processed) ==
    [order |-> bank[t].order, txn |-> t, valid |-> valid, processed |-> processed]

\* Success is sent to SePay; the answer may get lost, and then it calls again.
Answered(t) == acked' \in {acked, acked \cup {t}}

\* The webhook's transaction commits its event and nothing else.
RecordOnly(w, t, processed) ==
    /\ events' = events \cup {EventOf(t, TRUE, processed)}
    /\ Answered(t)
    /\ End(w)
    /\ UNCHANGED <<subs, orders, audit, world>>

\* A call without our API key is recorded and refused.
RefuseWebhook(t) ==
    /\ bank[t] # NoTransfer
    /\ events' = events \cup {EventOf(t, FALSE, FALSE)}
    /\ UNCHANGED <<subs, orders, audit, locks, local, world, acked>>

\* A call with our key, the first one for t or a repeated one.
ReceiveWebhook(w, t) ==
    /\ bank[t] # NoTransfer
    /\ Begin(w, "order", [NoJob EXCEPT !.txn = t])
    /\ UNCHANGED <<rows, world, acked>>

IgnoreTransfer_Late(w) ==
    LET t == job[w].txn
    IN  /\ pc[w] = "order"
        /\ \/ bank[t].order \notin OrderIds
           \/ orders[bank[t].order].status \in {"cancelled", "expired"}
        /\ RecordOnly(w, t, FALSE)
\* "ignored": no order of ours in the content.
IgnoreTransfer(w) ==
    LET t == job[w].txn
    IN  /\ pc[w] = "order"
        /\ bank[t].order \notin OrderIds
        /\ RecordOnly(w, t, FALSE)

\* "duplicate": the order has its money already.
RecordDuplicate(w) ==
    LET t == job[w].txn
        o == bank[t].order
    IN  /\ pc[w] = "order"
        /\ o \in OrderIds
        /\ OrderFree(o)
        /\ orders[o].status \in Settled
        /\ RecordOnly(w, t, orders[o].txn = t)

AmountMatches(t, o) == bank[t].amount = Price[orders[o].plan]

\* "amount_mismatch"
RecordMismatch(w) ==
    LET t == job[w].txn
        o == bank[t].order
    IN  /\ pc[w] = "order"
        /\ o \in OrderIds
        /\ OrderFree(o)
        /\ orders[o].status \notin Settled
        /\ ~AmountMatches(t, o)
        /\ RecordOnly(w, t, FALSE)

\* Any order that is not settled is locked, a cancelled or expired one too, and
\* the instant of payment is taken.
LockOrder(w) ==
    LET t == job[w].txn
        o == bank[t].order
    IN  /\ pc[w] = "order"
        /\ o \in OrderIds
        /\ OrderFree(o)
        /\ orders[o].status \notin Settled
        /\ AmountMatches(t, o)
        /\ orderLock' = [orderLock EXCEPT ![o] = w]
        /\ job' = [job EXCEPT ![w] = [user |-> orders[o].user, plan |-> orders[o].plan,
                                      order |-> o, txn |-> t, at |-> now]]
        /\ pc' = [pc EXCEPT ![w] = "plan"]
        /\ UNCHANGED <<rows, subLock, saw, world, acked>>

LockPlan(w) ==
    /\ pc[w] = "plan"
    /\ LockSubscription(w, job[w].user, "settle")
    /\ UNCHANGED <<rows, world, acked>>

\* Another tier than the order's runs at the instant of payment.
Rival_EvenIfExpired(w) == saw[w] # NoSub /\ saw[w].tier # Tier[job[w].plan]
Rival(w) ==
    /\ Running(saw[w], job[w].at)
    /\ saw[w].tier # Tier[job[w].plan]

\* _apply_paid_order: the same tier still running is extended, otherwise the
\* plan starts at the instant of payment.
Extended_FromNow(sub, p, at) == [tier |-> Tier[p], expires |-> at + Days[p]]
Extended(sub, p, at) ==
    [tier |-> Tier[p],
     expires |-> Days[p] + IF Running(sub, at) /\ sub.tier = Tier[p]
                           THEN sub.expires ELSE at]

\* The order's row, with the money that paid it.
Paid(w, status) ==
    [orders EXCEPT ![job[w].order] = [@ EXCEPT !.status = status, !.txn = job[w].txn,
                                               !.paidAt = job[w].at]]

\* The event, the order and what they do to the plan commit together.
CommitSettlement(w, status, to, j) ==
    /\ pc[w] = "settle"
    /\ ~InsertConflict(w, job[w].user)
    /\ orders' = Paid(w, status)
    /\ events' = events \cup {EventOf(job[w].txn, TRUE, TRUE)}
    /\ Answered(job[w].txn)
    /\ EndAt(w, to, j)
    /\ UNCHANGED <<audit, world>>

\* "unapplied": the money is kept, a person decides.
SettleUnapplied(w) ==
    /\ CommitSettlement(w, "paid_unapplied", "idle", NoJob)
    /\ Rival(w)
    /\ UNCHANGED subs

\* "activated": the purchase is reported after SePay has its answer.
SettlePaid(w) ==
    /\ CommitSettlement(w, "paid", "report", [NoJob EXCEPT !.order = job[w].order])
    /\ ~Rival(w)
    /\ subs' = [subs EXCEPT ![job[w].user] = Extended(saw[w], job[w].plan, job[w].at)]

InsertFails_Answered(w) ==
    /\ pc[w] \in {"settle", "grant"}
    /\ InsertConflict(w, job[w].user)
    /\ Answered(job[w].txn)
    /\ End(w)
    /\ UNCHANGED <<rows, world>>
\* A worker whose insert violates the unique key answers 500: all of its
\* transaction, the event included, is undone.
InsertFails(w) ==
    /\ pc[w] \in {"settle", "grant"}
    /\ InsertConflict(w, job[w].user)
    /\ End(w)
    /\ UNCHANGED <<rows, world, acked>>

\* The background task posts the purchase, or fails and is only logged.
ReportPurchase(w) ==
    /\ pc[w] = "report"
    /\ \/ reports' = [reports EXCEPT ![job[w].order] = @ + 1]
       \/ UNCHANGED reports
    /\ End(w)
    /\ UNCHANGED <<rows, now, bank, fails, acked>>

-----------------------------------------------------------------------------
(* The admin's grant and revoke                                            *)

\* Both take their instant before they wait for the row.
AskGrant(w, u, p) ==
    /\ audit[u] < MaxAdmin
    /\ Begin(w, "lockGrant", [NoJob EXCEPT !.user = u, !.plan = p, !.at = now])
    /\ UNCHANGED <<rows, world, acked>>

LockGrant(w) ==
    /\ pc[w] = "lockGrant"
    /\ LockSubscription(w, job[w].user, "grant")
    /\ UNCHANGED <<rows, world, acked>>

CommitGrant_KeepsRow(w) ==    \* mutant: the answer is read with the row still locked
    LET u == job[w].user
        p == job[w].plan
    IN  /\ pc[w] = "grant"
        /\ ~InsertConflict(w, u)
        /\ subs' = [subs EXCEPT ![u] = [tier |-> Tier[p], expires |-> job[w].at + Days[p]]]
        /\ audit' = [audit EXCEPT ![u] = @ + 1]
        /\ pc' = [pc EXCEPT ![w] = "expire"]
        /\ job' = [job EXCEPT ![w] = [NoJob EXCEPT !.user = u, !.at = now]]
        /\ UNCHANGED <<orders, events, locks, saw, world, acked>>
\* After the commit the answer is read, which expires stale orders.
CommitGrant(w) ==
    LET u == job[w].user
        p == job[w].plan
    IN  /\ pc[w] = "grant"
        /\ ~InsertConflict(w, u)
        /\ subs' = [subs EXCEPT ![u] = [tier |-> Tier[p], expires |-> job[w].at + Days[p]]]
        /\ audit' = [audit EXCEPT ![u] = @ + 1]
        /\ EndAt(w, "expire", [NoJob EXCEPT !.user = u, !.at = now])
        /\ UNCHANGED <<orders, events, world, acked>>

AskRevoke(w, u) ==
    /\ audit[u] < MaxAdmin
    /\ Begin(w, "lockRevoke", [NoJob EXCEPT !.user = u, !.at = now])
    /\ UNCHANGED <<rows, world, acked>>

LockRevoke(w) ==
    /\ pc[w] = "lockRevoke"
    /\ LockSubscription(w, job[w].user, "revoke")
    /\ UNCHANGED <<rows, world, acked>>

CommitRevoke(w) ==
    LET u == job[w].user
    IN  /\ pc[w] = "revoke"
        /\ Running(saw[w], job[w].at)
        /\ subs' = [subs EXCEPT ![u].expires = job[w].at]
        /\ audit' = [audit EXCEPT ![u] = @ + 1]
        /\ EndAt(w, "expire", [NoJob EXCEPT !.user = u, !.at = now])
        /\ UNCHANGED <<orders, events, world, acked>>

\* 409: there is nothing to end.
RefuseRevoke(w) ==
    /\ pc[w] = "revoke"
    /\ ~Running(saw[w], job[w].at)
    /\ End(w)
    /\ UNCHANGED <<rows, world, acked>>

-----------------------------------------------------------------------------
(* Waiting for each other                                                  *)

\* The orders w still has to lock, and the workers that hold a row w needs.
NeedsOrders(w) ==
    CASE pc[w] = "order"                  -> {bank[job[w].txn].order} \cap OrderIds
      [] pc[w] = "reuse"                  -> {job[w].order}
      [] pc[w] \in {"checkout", "expire"} -> StaleOrders(job[w].user, job[w].at)
      [] OTHER                            -> {}
NeedsPlan(w) == pc[w] \in {"plan", "lockGrant", "lockRevoke"} /\ subs[job[w].user] # NoSub
WaitsFor(w) ==
    {x \in Workers \ {w} : \/ \E o \in NeedsOrders(w) : orderLock[o] = x
                           \/ NeedsPlan(w) /\ subLock[job[w].user] = x}

\* w is on a cycle of requests that wait for each other.
Deadlocked(w) ==
    \E S \in SUBSET Workers : w \in S /\
        \E next \in [S -> S] : /\ \A x \in S : next[x] \in WaitsFor(x)
                               /\ \A x \in S : \E y \in S : next[y] = x

\* External: PostgreSQL finds the cycle and rolls one of its transactions back.
AbortDeadlocked(w) ==
    /\ Deadlocked(w)
    /\ End(w)
    /\ UNCHANGED <<rows, world, acked>>

-----------------------------------------------------------------------------
(* Specification                                                           *)

\* A request dies before its commit (lost connection, process killed): the
\* database rolls its transaction back.
Fail(w) ==
    /\ fails < MaxFails
    /\ pc[w] # "idle"
    /\ fails' = fails + 1
    /\ End(w)
    /\ UNCHANGED <<rows, now, bank, reports, acked>>

Tick ==
    /\ now < MaxTime
    /\ now' = now + 1
    /\ UNCHANGED <<rows, locks, local, bank, reports, fails, acked>>

Init ==
    /\ now = 0
    /\ subs = [u \in Users |-> NoSub]
    /\ orders = [o \in OrderIds |-> NoOrder]
    /\ events = {}
    /\ audit = [u \in Users |-> 0]
    /\ orderLock = [o \in OrderIds |-> None]
    /\ subLock = [u \in Users |-> None]
    /\ pc = [w \in Workers |-> "idle"]
    /\ job = [w \in Workers |-> NoJob]
    /\ saw = [w \in Workers |-> NoSub]
    /\ bank = [t \in Txns |-> NoTransfer]
    /\ acked = {}
    /\ reports = [o \in OrderIds |-> 0]
    /\ fails = 0

\* A request in flight runs its next statement.
Resume(w) ==
    \/ LockStale(w) \/ FindOpenOrder(w) \/ ReuseOrder(w) \/ PlaceOrder(w)
    \/ CommitCancel(w) \/ ExpireStaleOrders(w)
    \/ IgnoreTransfer(w) \/ RecordDuplicate(w) \/ RecordMismatch(w)
    \/ LockOrder(w) \/ LockPlan(w)
    \/ SettleUnapplied(w) \/ SettlePaid(w) \/ InsertFails(w)
    \/ ReportPurchase(w)
    \/ LockGrant(w) \/ CommitGrant(w)
    \/ LockRevoke(w) \/ CommitRevoke(w) \/ RefuseRevoke(w)
    \/ AbortDeadlocked(w)

\* A learner, SePay or an admin sends a request.
Request(w) ==
    \/ "checkout" \in Kinds /\ \E u \in Users, p \in Plans : Checkout(w, u, p)
    \/ "cancel" \in Kinds /\ \E o \in OrderIds : CancelOrder(w, o)
    \/ "read" \in Kinds /\ \E u \in Users : ReadBilling(w, u)
    \/ "webhook" \in Kinds /\ \E t \in Txns : ReceiveWebhook(w, t)
    \/ "grant" \in Kinds /\ \E u \in Users, p \in Plans : AskGrant(w, u, p)
    \/ "revoke" \in Kinds /\ \E u \in Users : AskRevoke(w, u)

Next ==
    \/ \E w \in Workers : Resume(w) \/ Request(w) \/ Fail(w)
    \/ "refused" \in Kinds /\ \E t \in Txns : RefuseWebhook(t)
    \/ \E t \in Txns, p \in Payments : PayByTransfer(t, p[1], p[2])
    \/ Tick

Spec == Init /\ [][Next]_vars

\* Every request in flight goes on; PostgreSQL queues the waiters of a row, so
\* one that waits gets its turn; SePay repeats a call until it is answered.
Fairness ==
    /\ \A w \in Workers : SF_vars(Resume(w))
    /\ \A t \in Txns :
          SF_vars(t \notin acked /\ \E w \in Workers : ReceiveWebhook(w, t))

FairSpec == Spec /\ Fairness

-----------------------------------------------------------------------------
(* Properties                                                              *)

\* Every variable keeps the shape the code gives it.
TypeOK ==
    /\ now \in Nat
    /\ subs \in [Users -> Subscription]
    /\ orders \in [OrderIds -> Order]
    /\ events \subseteq PaymentEvent
    /\ audit \in [Users -> Nat]
    /\ orderLock \in [OrderIds -> Workers \cup {None}]
    /\ subLock \in [Users -> Workers \cup {None}]
    /\ pc \in [Workers -> {"idle", "checkout", "place", "reuse", "cancel", "expire",
                           "order", "plan", "settle", "report", "lockGrant", "grant",
                           "lockRevoke", "revoke"}]
    /\ job \in [Workers -> Job]
    /\ saw \in [Workers -> Subscription]
    /\ bank \in [Txns -> Transfer]
    /\ acked \subseteq Txns
    /\ reports \in [OrderIds -> Nat]
    /\ fails \in Nat

\* A transaction's view of the rows it locked is current until it ends: nobody
\* settles, closes or re-plans under it, and a lock is held by a transaction that
\* still needs it.  Everything else billing promises rests on this.
HoldsItsRows(w) ==
    LET j == job[w]
    IN  /\ pc[w] \in {"cancel", "plan", "settle"} =>
              j.order \in OrderIds /\ orderLock[j.order] = w
        /\ pc[w] = "cancel" => orders[j.order].status = "pending"
        /\ pc[w] \in {"plan", "settle"} =>
              /\ orders[j.order].status \notin Settled \cup {"none"}
              /\ j.user = orders[j.order].user
              /\ j.plan = orders[j.order].plan
        /\ pc[w] \in {"settle", "grant", "revoke"} /\ saw[w] # NoSub =>
              subLock[j.user] = w /\ subs[j.user] = saw[w]
        /\ \A o \in OrderIds : orderLock[o] = w =>
              \/ pc[w] \in {"checkout", "place", "reuse", "expire"} /\ orders[o].status = "pending"
              \/ pc[w] \in {"cancel", "plan", "settle"} /\ o = j.order
        /\ \A u \in Users : subLock[u] = w =>
              pc[w] \in {"settle", "grant", "revoke"} /\ u = j.user /\ saw[w] # NoSub

TransactionsHoldTheirRows == \A w \in Workers : HoldsItsRows(w)

\* The transfer t is the money order o waits for.
Pays(t, o) == bank[t].order = o /\ AmountMatches(t, o)

\* Acknowledged money is kept: when SePay has our success for a transfer that
\* pays an order, the order is settled and the call is in the log, whatever
\* crashed or was repeated on the way (SePay will not call again).
AckedMoneyIsKept ==
    \A t \in acked :
        /\ \E e \in events : e.txn = t /\ e.valid
        /\ \A o \in OrderIds : Pays(t, o) => orders[o].status \in Settled

\* The books reconcile: a settled order names a transfer that pays it and whose
\* event is marked processed; an event is marked processed only if its transfer
\* is the one that settled its order.  So a second transfer for an order, and a
\* call we refused, always stand out as unprocessed.
BooksReconcile ==
    /\ \A o \in OrderIds : orders[o].status \in Settled =>
          LET t == orders[o].txn
          IN  /\ t \in Txns
              /\ Pays(t, o)
              /\ EventOf(t, TRUE, TRUE) \in events
    /\ \A e \in events : e.processed =>
          /\ e.valid
          /\ e.order \in OrderIds
          /\ orders[e.order].status \in Settled
          /\ orders[e.order].txn = e.txn

\* Settled is final: once the money of an order has arrived, no cancellation,
\* expiry, repeated webhook or second transfer changes its row again.
SettledIsFinal ==
    [][\A o \in OrderIds : orders[o].status \in Settled => orders'[o] = orders[o]]_orders

PaidOrders(u) == {o \in OrderIds : orders[o].user = u /\ orders[o].status = "paid"}
DaysOf(S) == MapThenSumSet(LAMBDA o : Days[orders[o].plan], S)

\* A learner gets the time that was paid for, once: with no admin intervening,
\* the plan lasts at least the days of every paid order counted from any of
\* their payments on, and never longer than all of them from the last payment.
PaidTimeIsConserved ==
    \A u \in Users : audit[u] = 0 =>
        /\ \A o \in PaidOrders(u) :
              subs[u].expires >= orders[o].paidAt
                  + DaysOf({q \in PaidOrders(u) : orders[q].paidAt >= orders[o].paidAt})
        /\ subs[u].expires <= Max({0} \cup {orders[o].paidAt : o \in PaidOrders(u)})
                              + DaysOf(PaidOrders(u))

\* Money never replaces a running plan: only an admin changes the tier of a
\* plan that has not ended, although every webhook decides from an instant and
\* a row it may have waited for.
NoSwitchMidTerm ==
    [][\A u \in Users : Running(subs[u], now) /\ subs'[u].tier # subs[u].tier
                            => audit'[u] > audit[u]]_<<subs, audit>>

\* Money is set aside only for a reason: an order becomes paid_unapplied only
\* when the learner's plan, as it stands at that commit, is another tier's and
\* had not ended at the instant of payment.
ParkedOnlyAgainstRival ==
    [][\A o \in OrderIds :
          orders'[o].status = "paid_unapplied" /\ orders[o].status # "paid_unapplied" =>
              LET sub == subs[orders[o].user]
              IN  Running(sub, orders'[o].paidAt) /\ sub.tier # Tier[orders[o].plan]]_orders

\* A purchase is reported at most once and only for an order that gave a plan.
ReportedAtMostOnce ==
    \A o \in OrderIds : reports[o] > 0 => reports[o] = 1 /\ orders[o].status = "paid"

\* An order waits for its money through the whole payment window.
NeverExpiredEarly ==
    \A o \in OrderIds : orders[o].status = "expired" => now > orders[o].created + Window

\* Every transfer that pays an existing order settles it in the end, if not
\* the order then another transfer's: SePay repeats calls that failed.
MoneySettles ==
    \A t \in Txns, o \in OrderIds :
        (orders[o] # NoOrder /\ Pays(t, o)) ~> (orders[o].status \in Settled)

\* Requests that expire the orders of a learner may wait for each other in a circle,
\* and the database then rolls one of them back.  It is never a payment, a
\* cancellation, a grant or a revocation: these lock in one order, the order's row
\* before the plan's, and let go of the plan before they read.
DeadlocksSpareMoney ==
    \A w \in Workers : Deadlocked(w) => pc[w] \in {"checkout", "reuse", "expire"}

\* What PaymentEvent says of itself: every webhook SePay sent is in the log.  (A
\* request that dies, counted by fails, is not held to it.)
EveryCallIsRecorded ==
    [][\A w \in Workers :
          pc[w] \in {"order", "plan", "settle"} /\ pc'[w] \in {"idle", "report"} /\ fails' = fails
              => \E e \in events' : e.txn = job[w].txn /\ e.valid]_<<pc, events, fails>>

-----------------------------------------------------------------------------
(* The ledger billing implements                                           *)

LedgerState(status) ==
    CASE status = "pending"                  -> "open"
      [] status \in {"cancelled", "expired"} -> "closed"
      [] status = "paid_unapplied"           -> "unapplied"
      [] OTHER                               -> status

Due == [o \in OrderIds |-> [user |-> orders[o].user, plan |-> orders[o].plan,
                            state |-> LedgerState(orders[o].status)]]

Ledger == INSTANCE BillingLedger WITH plan <- subs, due <- Due, Orders <- OrderIds

\* Requests that interleave statement by statement act as if each were one step:
\* no renewal, grant or revocation is computed from a plan another request has
\* changed meanwhile, and no order is settled twice.
ImplementsLedger == Ledger!Spec
=============================================================================
