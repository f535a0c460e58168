--------------------------- MODULE BillingProofs ---------------------------
(***************************************************************************)
(* Theorems about Billing for every set of learners, plans, transactions    *)
(* and workers and every value of the bounds: first the shape of the state  *)
(* and the rows a transaction holds (IInv), then the money and the steps,   *)
(* and last the sums: the time that was paid for.                           *)
(***************************************************************************)
EXTENDS Billing, FiniteSetTheorems, WellFoundedInduction, TLAPS

\* What a request knows of its arguments at each statement, and the rows they
\* point to: the part of the invariant that type correctness alone needs.
JobIsComplete(w) ==
    LET j == job[w]
    IN  /\ pc[w] \in {"checkout", "place", "reuse", "plan", "settle", "lockGrant", "grant"} =>
              j.user \in Users /\ j.plan \in Plans
        /\ pc[w] \in {"expire", "lockRevoke", "revoke"} => j.user \in Users
        /\ pc[w] \in {"order", "plan", "settle"} => j.txn \in Txns
        /\ pc[w] \in {"plan", "settle"} => j.order = bank[j.txn].order
        /\ pc[w] \in {"cancel", "plan", "settle", "report", "reuse"} => j.order \in OrderIds

RowsAreComplete ==
    /\ \A o \in OrderIds : orders[o] # NoOrder =>
          orders[o].user \in Users /\ orders[o].plan \in Plans /\ orders[o].status # "none"
    /\ \A t \in Txns : bank[t].order \in OrderIds => orders[bank[t].order] # NoOrder

IInv ==
    /\ TypeOK
    /\ RowsAreComplete
    /\ \A w \in Workers : JobIsComplete(w)
    /\ TransactionsHoldTheirRows

-----------------------------------------------------------------------------

LEMMA Constants ==
    /\ None \notin OrderIds /\ None \notin Users /\ None \notin Plans
    /\ None \notin Txns /\ None \notin Workers /\ 0 \notin OrderIds
    /\ OrderIds \subseteq Nat
    /\ \A p \in Plans : Tier[p] \in Tiers /\ Days[p] \in Nat /\ Price[p] \in Nat
    /\ None \notin Tiers
  BY PriceListAssumption, BoundsAssumption DEF OrderIds, Tiers

LEMMA InitIInv == Init => IInv
  BY Constants
  DEF Init, IInv, TypeOK, RowsAreComplete, JobIsComplete, TransactionsHoldTheirRows,
      HoldsItsRows, NoSub, NoOrder, NoTransfer, NoJob, Subscription, Order, Transfer, Job,
      Statuses, Settled

LEMMA TypeNulls == NoJob \in Job /\ NoSub \in Subscription /\ NoOrder \in Order
  BY DEF NoJob, NoSub, NoOrder, Job, Subscription, Order, Statuses

\* The requests that take no part in a step keep their view when the step touches
\* no row they hold.
LEMMA OthersKeepTheirRows ==
    ASSUME IInv, NEW w \in Workers, NEW x \in Workers, x # w,
           pc'[x] = pc[x], job'[x] = job[x], saw'[x] = saw[x],
           \A o \in OrderIds : orderLock[o] = x <=> orderLock'[o] = x,
           \A u \in Users : subLock[u] = x <=> subLock'[u] = x,
           \A o \in OrderIds : orderLock[o] = x => orders'[o] = orders[o],
           \A u \in Users : subLock[u] = x => subs'[u] = subs[u],
           \A t \in Txns : bank[t] # NoTransfer => bank'[t] = bank[t]
    PROVE  JobIsComplete(x)' /\ HoldsItsRows(x)'
  <1>1. JobIsComplete(x) /\ HoldsItsRows(x)
    BY DEF IInv, TransactionsHoldTheirRows
  <1>2. JobIsComplete(x)'
    BY <1>1, Constants DEF JobIsComplete, NoTransfer
  <1>3. HoldsItsRows(x)'
    <2>1. (pc[x] \in {"settle", "grant", "revoke"} /\ saw[x] # NoSub) =>
             subLock'[job[x].user] = x /\ subs'[job[x].user] = saw[x]
      BY <1>1 DEF HoldsItsRows, JobIsComplete
    <2>2. pc[x] \in {"cancel", "plan", "settle"} =>
             orders'[job[x].order] = orders[job[x].order]
      BY <1>1 DEF HoldsItsRows
    <2>3. QED
      BY <1>1, <2>1, <2>2 DEF HoldsItsRows, JobIsComplete
  <1>4. QED
    BY <1>2, <1>3

\* What ending a transaction does to the locks and to the worker.
LEMMA EndFacts ==
    ASSUME IInv, NEW w \in Workers, NEW to, NEW j, EndAt(w, to, j)
    PROVE  /\ pc' = [pc EXCEPT ![w] = to] /\ pc'[w] = to
           /\ job' = [job EXCEPT ![w] = j] /\ job'[w] = j
           /\ saw' = [saw EXCEPT ![w] = NoSub] /\ saw'[w] = NoSub
           /\ orderLock' \in [OrderIds -> Workers \cup {None}]
           /\ subLock' \in [Users -> Workers \cup {None}]
           /\ \A o \in OrderIds : orderLock'[o] # w
           /\ \A u \in Users : subLock'[u] # w
           /\ \A x \in Workers \ {w} :
                 /\ pc'[x] = pc[x] /\ job'[x] = job[x] /\ saw'[x] = saw[x]
                 /\ \A o \in OrderIds : orderLock[o] = x <=> orderLock'[o] = x
                 /\ \A u \in Users : subLock[u] = x <=> subLock'[u] = x
  BY Constants DEF IInv, TypeOK, EndAt, Freed

\* A step that ends w's transaction at a place that holds nothing keeps the
\* invariant when the rows it writes keep their shape and nobody else holds them.
LEMMA EndStep ==
    ASSUME IInv, NEW w \in Workers, NEW to \in {"idle", "report", "expire"}, NEW j \in Job,
           EndAt(w, to, j),
           to = "report" => j.order \in OrderIds,
           to = "expire" => j.user \in Users,
           now' \in Nat, fails' \in Nat, acked' \subseteq Txns,
           reports' \in [OrderIds -> Nat], bank' = bank,
           events' \subseteq PaymentEvent, audit' \in [Users -> Nat],
           subs' \in [Users -> Subscription], orders' \in [OrderIds -> Order],
           RowsAreComplete',
           \A o \in OrderIds : orders'[o] # orders[o] => orderLock[o] \in {w, None},
           \A u \in Users : subs'[u] # subs[u] => subLock[u] \in {w, None}
    PROVE  IInv'
  <1>1. TypeOK'
    <2>1. /\ pc' = [pc EXCEPT ![w] = to] /\ job' = [job EXCEPT ![w] = j]
          /\ saw' = [saw EXCEPT ![w] = NoSub]
          /\ orderLock' \in [OrderIds -> Workers \cup {None}]
          /\ subLock' \in [Users -> Workers \cup {None}]
      BY EndFacts
    <2>2. QED
      BY <2>1, TypeNulls DEF IInv, TypeOK
  <1>2. JobIsComplete(w)' /\ HoldsItsRows(w)'
    BY EndFacts DEF JobIsComplete, HoldsItsRows
  <1>3. ASSUME NEW x \in Workers, x # w
        PROVE  JobIsComplete(x)' /\ HoldsItsRows(x)'
    BY <1>3, EndFacts, OthersKeepTheirRows, Constants
  <1>4. QED
    BY <1>1, <1>2, <1>3 DEF IInv, TransactionsHoldTheirRows

\* A step that starts a request, or moves one to a statement that holds nothing.
LEMMA BeginStep ==
    ASSUME IInv, NEW w \in Workers, NEW to, NEW j \in Job, Begin(w, to, j),
           to \in {"checkout", "expire", "order", "lockGrant", "lockRevoke"},
           to \in {"checkout", "lockGrant"} => j.user \in Users /\ j.plan \in Plans,
           to \in {"expire", "lockRevoke"} => j.user \in Users,
           to = "order" => j.txn \in Txns,
           UNCHANGED <<rows, world, acked>>
    PROVE  IInv'
  <1>0. UNCHANGED <<subs, orders, events, audit, now, bank, reports, fails, acked, saw,
                    orderLock, subLock>>
    BY DEF rows, world, Begin, locks
  <1>1. TypeOK'
    BY <1>0 DEF IInv, TypeOK, Begin
  <1>2. JobIsComplete(w)' /\ HoldsItsRows(w)'
    <2>1. pc[w] = "idle" /\ pc'[w] = to /\ job'[w] = j /\ HoldsItsRows(w)
      BY DEF Begin, IInv, TypeOK, TransactionsHoldTheirRows
    <2>2. QED
      BY <1>0, <2>1 DEF JobIsComplete, HoldsItsRows
  <1>3. ASSUME NEW x \in Workers, x # w
        PROVE  JobIsComplete(x)' /\ HoldsItsRows(x)'
    <2>1. pc'[x] = pc[x] /\ job'[x] = job[x]
      BY <1>3 DEF Begin, IInv, TypeOK
    <2>2. QED
      BY <1>0, <1>3, <2>1, OthersKeepTheirRows
  <1>4. RowsAreComplete'
    BY <1>0 DEF IInv, RowsAreComplete
  <1>5. QED
    BY <1>1, <1>2, <1>3, <1>4 DEF IInv, TransactionsHoldTheirRows

-----------------------------------------------------------------------------
(* One lemma per group of actions                                          *)

LEMMA RequestStep ==
    ASSUME IInv, NEW w \in Workers, Request(w)
    PROVE  IInv'
  <1>0. now \in Nat /\ orders \in [OrderIds -> Order]
    BY DEF IInv, TypeOK
  <1>1. CASE \E u \in Users, p \in Plans : Checkout(w, u, p)
    <2>1. PICK u \in Users, p \in Plans : Checkout(w, u, p)
      BY <1>1
    <2>2. [NoJob EXCEPT !.user = u, !.plan = p, !.at = now] \in Job
      BY <1>0 DEF NoJob, Job
    <2>3. QED
      BY <2>1, <2>2, BeginStep DEF Checkout, NoJob
  <1>2. CASE \E o \in OrderIds : CancelOrder(w, o)
    <2>1. PICK o \in OrderIds : CancelOrder(w, o)
      BY <1>2
    <2>2. UNCHANGED <<subs, orders, events, audit, now, bank, reports, fails, acked, saw, subLock>>
      BY <2>1 DEF CancelOrder, rows, world
    <2>3. TypeOK'
      BY <2>1, <2>2, Constants DEF IInv, TypeOK, CancelOrder, NoJob, Job
    <2>4. JobIsComplete(w)' /\ HoldsItsRows(w)'
      <3>1. pc[w] = "idle" /\ pc'[w] = "cancel" /\ job'[w].order = o /\ orderLock'[o] = w
        BY <2>1 DEF CancelOrder, IInv, TypeOK, NoJob
      <3>2. HoldsItsRows(w)
        BY DEF IInv, TransactionsHoldTheirRows
      <3>3. \A q \in OrderIds : q # o => orderLock'[q] = orderLock[q]
        BY <2>1 DEF CancelOrder, IInv, TypeOK
      <3>4. QED
        BY <2>1, <2>2, <3>1, <3>2, <3>3 DEF JobIsComplete, HoldsItsRows, CancelOrder
    <2>5. ASSUME NEW x \in Workers, x # w
          PROVE  JobIsComplete(x)' /\ HoldsItsRows(x)'
      <3>1. pc'[x] = pc[x] /\ job'[x] = job[x]
        BY <2>1, <2>5 DEF CancelOrder, IInv, TypeOK
      <3>2. \A q \in OrderIds : orderLock[q] = x <=> orderLock'[q] = x
        BY <2>1, <2>5, Constants DEF CancelOrder, OrderFree, IInv, TypeOK
      <3>3. QED
        BY <2>2, <2>5, <3>1, <3>2, OthersKeepTheirRows
    <2>6. RowsAreComplete'
      BY <2>2 DEF IInv, RowsAreComplete
    <2>7. QED
      BY <2>3, <2>4, <2>5, <2>6 DEF IInv, TransactionsHoldTheirRows
  <1>3. CASE \E u \in Users : ReadBilling(w, u)
    <2>1. PICK u \in Users : ReadBilling(w, u)
      BY <1>3
    <2>2. [NoJob EXCEPT !.user = u, !.at = now] \in Job
      BY <1>0 DEF NoJob, Job
    <2>3. QED
      BY <2>1, <2>2, BeginStep DEF ReadBilling, NoJob
  <1>4. CASE \E t \in Txns : ReceiveWebhook(w, t)
    <2>1. PICK t \in Txns : ReceiveWebhook(w, t)
      BY <1>4
    <2>2. [NoJob EXCEPT !.txn = t] \in Job
      BY DEF NoJob, Job
    <2>3. QED
      BY <2>1, <2>2, BeginStep DEF ReceiveWebhook, NoJob
  <1>5. CASE \E u \in Users, p \in Plans : AskGrant(w, u, p)
    <2>1. PICK u \in Users, p \in Plans : AskGrant(w, u, p)
      BY <1>5
    <2>2. [NoJob EXCEPT !.user = u, !.plan = p, !.at = now] \in Job
      BY <1>0 DEF NoJob, Job
    <2>3. QED
      BY <2>1, <2>2, BeginStep DEF AskGrant, NoJob
  <1>6. CASE \E u \in Users : AskRevoke(w, u)
    <2>1. PICK u \in Users : AskRevoke(w, u)
      BY <1>6
    <2>2. [NoJob EXCEPT !.user = u, !.at = now] \in Job
      BY <1>0 DEF NoJob, Job
    <2>3. QED
      BY <2>1, <2>2, BeginStep DEF AskRevoke, NoJob
  <1>7. QED
    BY <1>1, <1>2, <1>3, <1>4, <1>5, <1>6 DEF Request

\* Rows keep their shape when each is left alone or written in full.
WellFormed(row) ==
    row \in Order /\ row # NoOrder /\ row.user \in Users /\ row.plan \in Plans
        /\ row.status # "none"

LEMMA RowsKeepShape ==
    ASSUME IInv, bank' = bank, NEW f, orders' = f, DOMAIN f = OrderIds,
           f = [o \in OrderIds |-> f[o]],
           \A o \in OrderIds : f[o] = orders[o] \/ WellFormed(f[o])
    PROVE  orders' \in [OrderIds -> Order] /\ RowsAreComplete'
  BY DEF IInv, TypeOK, RowsAreComplete, WellFormed

\* Expiring a set of pending orders.
LEMMA ExpiredFacts ==
    ASSUME IInv, NEW S \in SUBSET OrderIds, \A o \in S : orders[o].status = "pending"
    PROVE  /\ DOMAIN Expired(S) = OrderIds
           /\ Expired(S) = [o \in OrderIds |-> Expired(S)[o]]
           /\ \A o \in OrderIds :
                 /\ o \in S => /\ Expired(S)[o] = [orders[o] EXCEPT !.status = "expired"]
                               /\ WellFormed(Expired(S)[o])
                 /\ o \notin S => Expired(S)[o] = orders[o]
  <1>1. ASSUME NEW o \in S
        PROVE  WellFormed([orders[o] EXCEPT !.status = "expired"])
    BY DEF WellFormed, IInv, TypeOK, RowsAreComplete, Order, Statuses, NoOrder
  <1>2. QED
    BY <1>1 DEF Expired

LEMMA LockStaleStep ==
    ASSUME IInv, NEW w \in Workers, LockStale(w)
    PROVE  IInv'
  <1>0. UNCHANGED <<subs, orders, events, audit, now, bank, reports, fails, acked,
                    pc, job, saw, subLock>>
    BY DEF LockStale, rows, world, local
  <1>1. PICK o \in StaleOrders(job[w].user, job[w].at) :
           OrderFree(o) /\ orderLock' = [orderLock EXCEPT ![o] = w]
    BY DEF LockStale
  <1>2. /\ o \in OrderIds /\ orders[o].status = "pending" /\ orderLock[o] = None
        /\ pc[w] \in {"checkout", "expire"} /\ orderLock \in [OrderIds -> Workers \cup {None}]
    BY <1>1 DEF StaleOrders, OrderFree, LockStale, IInv, TypeOK
  <1>3. TypeOK'
    BY <1>0, <1>1, <1>2 DEF IInv, TypeOK
  <1>4. JobIsComplete(w)' /\ HoldsItsRows(w)'
    <2>1. JobIsComplete(w) /\ HoldsItsRows(w)
      BY DEF IInv, TransactionsHoldTheirRows
    <2>2. JobIsComplete(w)'
      BY <1>0, <2>1 DEF JobIsComplete
    <2>3. \A q \in OrderIds : orderLock'[q] = w => orders[q].status = "pending"
      BY <1>1, <1>2, <2>1 DEF HoldsItsRows
    <2>4. HoldsItsRows(w)'
      BY <1>0, <1>2, <2>1, <2>3 DEF HoldsItsRows
    <2>5. QED
      BY <2>2, <2>4
  <1>5. ASSUME NEW x \in Workers, x # w
        PROVE  JobIsComplete(x)' /\ HoldsItsRows(x)'
    <2>1. \A q \in OrderIds : orderLock[q] = x <=> orderLock'[q] = x
      BY <1>1, <1>2, <1>5, Constants
    <2>2. QED
      BY <1>0, <1>5, <2>1, OthersKeepTheirRows
  <1>6. RowsAreComplete'
    BY <1>0 DEF IInv, RowsAreComplete
  <1>7. QED
    BY <1>3, <1>4, <1>5, <1>6 DEF IInv, TransactionsHoldTheirRows

LEMMA FindOpenOrderStep ==
    ASSUME IInv, NEW w \in Workers, FindOpenOrder(w)
    PROVE  IInv'
  <1> DEFINE open == OpenOrders(job[w].user, job[w].plan) \ StaleOrders(job[w].user, job[w].at)
  <1>0. UNCHANGED <<subs, orders, events, audit, now, bank, reports, fails, acked, saw,
                    orderLock, subLock>>
    BY DEF FindOpenOrder, rows, world, locks
  <1>1. PICK found \in Newest(open), to \in {"place", "reuse"} :
           /\ found = None => to = "place"
           /\ job' = [job EXCEPT ![w].order = found]
           /\ pc' = [pc EXCEPT ![w] = to]
    BY DEF FindOpenOrder
  <1>2. found \in OrderIds \cup {None} /\ (to = "reuse" => found \in OrderIds)
    BY <1>1 DEF Newest, OpenOrders
  <1>3. TypeOK'
    <2>1. job' \in [Workers -> Job]
      <3>1. job \in [Workers -> Job]
        BY DEF IInv, TypeOK
      <3>2. [job[w] EXCEPT !.order = found] \in Job
        BY <1>2, <3>1 DEF Job
      <3>3. QED
        BY <1>1, <3>1, <3>2
    <2>2. QED
      BY <1>0, <1>1, <2>1 DEF IInv, TypeOK
  <1>4. /\ pc[w] = "checkout" /\ pc'[w] = to
        /\ job'[w].user = job[w].user /\ job'[w].plan = job[w].plan /\ job'[w].order = found
    BY <1>1 DEF FindOpenOrder, IInv, TypeOK, Job
  <1>5. JobIsComplete(w)' /\ HoldsItsRows(w)'
    <2>1. JobIsComplete(w) /\ HoldsItsRows(w)
      BY DEF IInv, TransactionsHoldTheirRows
    <2>2. JobIsComplete(w)'
      BY <1>2, <1>4, <2>1 DEF JobIsComplete
    <2>3. HoldsItsRows(w)'
      BY <1>0, <1>4, <2>1 DEF HoldsItsRows
    <2>4. QED
      BY <2>2, <2>3
  <1>6. ASSUME NEW x \in Workers, x # w
        PROVE  JobIsComplete(x)' /\ HoldsItsRows(x)'
    <2>1. pc'[x] = pc[x] /\ job'[x] = job[x]
      BY <1>1, <1>6 DEF IInv, TypeOK
    <2>2. QED
      BY <1>0, <1>6, <2>1, OthersKeepTheirRows
  <1>7. RowsAreComplete'
    BY <1>0 DEF IInv, RowsAreComplete
  <1>8. QED
    BY <1>3, <1>5, <1>6, <1>7 DEF IInv, TransactionsHoldTheirRows

LEMMA ReuseOrPlaceStep ==
    ASSUME IInv, NEW w \in Workers, ReuseOrder(w) \/ PlaceOrder(w)
    PROVE  IInv'
  <1>0. UNCHANGED <<subs, events, audit, now, bank, reports, fails, acked>>
    BY DEF ReuseOrder, PlaceOrder, rows, world
  <1>1. pc[w] \in {"place", "reuse"} /\ EndAt(w, "idle", NoJob)
    BY DEF ReuseOrder, PlaceOrder, End
  <1>2. PICK E : E = Expired(HeldBy(w))
    OBVIOUS
  <1>3. /\ DOMAIN E = OrderIds /\ E = [q \in OrderIds |-> E[q]]
        /\ \A q \in OrderIds : E[q] = orders[q] \/ (WellFormed(E[q]) /\ orderLock[q] = w)
    <2>1. /\ HeldBy(w) \in SUBSET OrderIds
          /\ \A o \in HeldBy(w) : orders[o].status = "pending" /\ orderLock[o] = w
      BY <1>1 DEF HeldBy, IInv, TransactionsHoldTheirRows, HoldsItsRows
    <2>2. QED
      BY <1>2, <2>1, ExpiredFacts
  <1>4. CASE orders' = E
    <2>1. orders' \in [OrderIds -> Order] /\ RowsAreComplete'
      BY <1>0, <1>3, <1>4, RowsKeepShape
    <2>2. QED
      BY <1>0, <1>1, <1>3, <1>4, <2>1, EndStep, TypeNulls DEF IInv, TypeOK
  <1>5. CASE PlaceOrder(w)
    <2>1. PICK o \in OrderIds :
            /\ orders[o] = NoOrder
            /\ orders' = [E EXCEPT ![o] =
                  [NoOrder EXCEPT !.user = job[w].user, !.plan = job[w].plan,
                                  !.status = "pending", !.created = job[w].at]]
      BY <1>2, <1>5 DEF PlaceOrder
    <2>2. WellFormed(orders'[o])
      <3>1. JobIsComplete(w)
        BY DEF IInv
      <3>2. QED
        <4>1. job[w].user \in Users /\ job[w].plan \in Plans /\ job[w].at \in Nat
          BY <1>5, <3>1 DEF PlaceOrder, JobIsComplete, IInv, TypeOK, Job
        <4>2. [NoOrder EXCEPT !.user = job[w].user, !.plan = job[w].plan,
                              !.status = "pending", !.created = job[w].at] \in Order
          BY <4>1 DEF NoOrder, Order, Statuses
        <4>3. QED
          BY <1>3, <2>1, <4>1, <4>2 DEF WellFormed, NoOrder
    <2>3. /\ DOMAIN orders' = OrderIds /\ orders' = [q \in OrderIds |-> orders'[q]]
          /\ \A q \in OrderIds \ {o} : orders'[q] = E[q]
      BY <1>3, <2>1
    <2>4. orders' \in [OrderIds -> Order] /\ RowsAreComplete'
      BY <1>0, <1>3, <2>2, <2>3, RowsKeepShape
    <2>5. orderLock[o] \in {w, None}
      <3>1. orders[o].status = "none"
        BY <2>1 DEF NoOrder
      <3>2. \A x \in Workers : orderLock[o] # x
        BY <3>1 DEF IInv, TransactionsHoldTheirRows, HoldsItsRows
      <3>3. QED
        BY <3>2 DEF IInv, TypeOK
    <2>6. \A q \in OrderIds : orders'[q] # orders[q] => orderLock[q] \in {w, None}
      BY <1>3, <2>3, <2>5
    <2>7. QED
      BY <1>0, <1>1, <2>4, <2>6, EndStep, TypeNulls DEF IInv, TypeOK
  <1>6. QED
    BY <1>2, <1>4, <1>5 DEF ReuseOrder

LEMMA CommitCancelStep ==
    ASSUME IInv, NEW w \in Workers, CommitCancel(w)
    PROVE  IInv'
  <1> DEFINE o == job[w].order
  <1>0. UNCHANGED <<subs, events, audit, now, bank, reports, fails, acked>>
    BY DEF CommitCancel, rows, world
  <1>1. o \in OrderIds /\ orderLock[o] = w /\ orders[o].status = "pending"
    BY DEF CommitCancel, IInv, TransactionsHoldTheirRows, HoldsItsRows
  <1>2. /\ DOMAIN orders' = OrderIds /\ orders' = [q \in OrderIds |-> orders'[q]]
        /\ orders'[o] = [orders[o] EXCEPT !.status = "cancelled"]
        /\ \A q \in OrderIds \ {o} : orders'[q] = orders[q]
    BY <1>1 DEF CommitCancel, IInv, TypeOK
  <1>3. orders' \in [OrderIds -> Order] /\ RowsAreComplete'
    <2>1. WellFormed([orders[o] EXCEPT !.status = "cancelled"])
      BY <1>1 DEF WellFormed, IInv, TypeOK, RowsAreComplete, Order, Statuses, NoOrder
    <2>2. QED
      BY <1>0, <1>2, <2>1, RowsKeepShape
  <1>4. EndAt(w, "idle", NoJob)
    BY DEF CommitCancel, End
  <1>5. QED
    BY <1>0, <1>1, <1>2, <1>3, <1>4, EndStep, TypeNulls DEF IInv, TypeOK

LEMMA ExpireStaleStep ==
    ASSUME IInv, NEW w \in Workers, ExpireStaleOrders(w)
    PROVE  IInv'
  <1>0. UNCHANGED <<subs, events, audit, now, bank, reports, fails, acked>>
        /\ orders' = Expired(HeldBy(w)) /\ EndAt(w, "idle", NoJob) /\ pc[w] = "expire"
    BY DEF ExpireStaleOrders, rows, world, End
  <1>1. /\ HeldBy(w) \in SUBSET OrderIds
        /\ \A o \in HeldBy(w) : orders[o].status = "pending" /\ orderLock[o] = w
    BY <1>0 DEF HeldBy, IInv, TransactionsHoldTheirRows, HoldsItsRows
  <1>2. orders' \in [OrderIds -> Order] /\ RowsAreComplete'
    BY <1>0, <1>1, ExpiredFacts, RowsKeepShape
  <1>3. \A o \in OrderIds : orders'[o] # orders[o] => orderLock[o] \in {w, None}
    BY <1>0, <1>1, ExpiredFacts
  <1>4. QED
    BY <1>0, <1>2, <1>3, EndStep, TypeNulls DEF IInv, TypeOK

\* The webhook's event is a row of payment_events.
LEMMA EventType ==
    ASSUME IInv, NEW t \in Txns, NEW v \in BOOLEAN, NEW p \in BOOLEAN
    PROVE  EventOf(t, v, p) \in PaymentEvent
  BY DEF EventOf, PaymentEvent, IInv, TypeOK, Transfer

LEMMA RecordStep ==
    ASSUME IInv, NEW w \in Workers,
           IgnoreTransfer(w) \/ RecordDuplicate(w) \/ RecordMismatch(w)
    PROVE  IInv'
  <1>1. PICK p \in BOOLEAN : RecordOnly(w, job[w].txn, p) /\ pc[w] = "order"
    BY DEF IgnoreTransfer, RecordDuplicate, RecordMismatch
  <1>2. job[w].txn \in Txns
    BY <1>1 DEF IInv, JobIsComplete
  <1>3. events' \subseteq PaymentEvent /\ acked' \subseteq Txns
    BY <1>1, <1>2, EventType DEF RecordOnly, Answered, IInv, TypeOK
  <1>4. UNCHANGED <<subs, orders, audit, now, bank, reports, fails>> /\ EndAt(w, "idle", NoJob)
    BY <1>1 DEF RecordOnly, world, End
  <1>5. RowsAreComplete'
    BY <1>4 DEF IInv, RowsAreComplete
  <1>6. QED
    BY <1>3, <1>4, <1>5, EndStep, TypeNulls DEF IInv, TypeOK

\* A worker that locks one order, or a subscription, and stays in its transaction.
LEMMA LockOrderStep ==
    ASSUME IInv, NEW w \in Workers, LockOrder(w)
    PROVE  IInv'
  <1> DEFINE t == job[w].txn
             o == bank[t].order
  <1>0. UNCHANGED <<subs, orders, events, audit, now, bank, reports, fails, acked, saw, subLock>>
    BY DEF LockOrder, rows, world
  <1>1. /\ pc[w] = "order" /\ o \in OrderIds /\ OrderFree(o) /\ t \in Txns
        /\ orders[o].status \notin Settled
    BY DEF LockOrder, IInv, JobIsComplete
  <1>2. WellFormed(orders[o])
    BY <1>1 DEF WellFormed, IInv, TypeOK, RowsAreComplete
  <1>3. /\ pc'[w] = "plan"
        /\ job'[w] = [user |-> orders[o].user, plan |-> orders[o].plan,
                      order |-> o, txn |-> t, at |-> now]
    BY DEF LockOrder, IInv, TypeOK
  <1>4. TypeOK'
    <2>1. [user |-> orders[o].user, plan |-> orders[o].plan,
           order |-> o, txn |-> t, at |-> now] \in Job
      <3>1. orders[o].user \in Users /\ orders[o].plan \in Plans
        BY <1>2 DEF WellFormed
      <3>2. o \in OrderIds /\ t \in Txns /\ now \in Nat
        BY <1>1 DEF IInv, TypeOK
      <3>3. QED
        BY <3>1, <3>2 DEF Job
    <2>2. orderLock' = [orderLock EXCEPT ![o] = w] /\ pc' = [pc EXCEPT ![w] = "plan"]
          /\ job' = [job EXCEPT ![w] = [user |-> orders[o].user, plan |-> orders[o].plan,
                                        order |-> o, txn |-> t, at |-> now]]
      BY DEF LockOrder
    <2>3. QED
      BY <1>0, <2>1, <2>2 DEF IInv, TypeOK
  <1>5. \A q \in OrderIds : orderLock'[q] = IF q = o THEN w ELSE orderLock[q]
    BY DEF LockOrder, IInv, TypeOK
  <1>6. JobIsComplete(w)' /\ HoldsItsRows(w)'
    <2>1. HoldsItsRows(w)
      BY DEF IInv, TransactionsHoldTheirRows
    <2>2. JobIsComplete(w)'
      <3>1. orders[o].user \in Users /\ orders[o].plan \in Plans
        BY <1>2 DEF WellFormed
      <3>2. QED
        <4>1. /\ pc'[w] = "plan" /\ bank' = bank
              /\ job'[w].user \in Users /\ job'[w].plan \in Plans
              /\ job'[w].txn \in Txns /\ job'[w].order = bank[job'[w].txn].order
              /\ job'[w].order \in OrderIds
          BY <1>0, <1>1, <1>3, <3>1
        <4>2. QED
          BY <4>1 DEF JobIsComplete
    <2>3. \A q \in OrderIds : orderLock'[q] = w => q = o
      BY <1>1, <1>5, <2>1 DEF HoldsItsRows, LockOrder
    <2>4. \A u \in Users : subLock'[u] # w
      BY <1>0, <1>1, <2>1 DEF HoldsItsRows, LockOrder
    <2>5. QED
      <3>1. /\ orderLock'[o] = w /\ orders'[o] = orders[o]
            /\ job'[w].order = o /\ job'[w].user = orders[o].user
            /\ job'[w].plan = orders[o].plan
            /\ orders[o].status \notin Settled \cup {"none"}
        <4>1. orderLock'[o] = w /\ orders'[o] = orders[o]
          BY <1>0, <1>1, <1>5
        <4>2. /\ job'[w].order = o /\ job'[w].user = orders[o].user
              /\ job'[w].plan = orders[o].plan
          BY <1>3
        <4>3. QED
          BY <1>1, <1>2, <4>1, <4>2 DEF WellFormed
      <3>2. HoldsItsRows(w)'
        <4> HIDE DEF o, t
        <4>1. pc'[w] = "plan" /\ o \in OrderIds
          BY <1>1, <1>3
        <4>2. QED
          BY <2>3, <2>4, <3>1, <4>1 DEF HoldsItsRows
      <3>3. QED
        BY <2>2, <3>2
  <1>7. ASSUME NEW x \in Workers, x # w
        PROVE  JobIsComplete(x)' /\ HoldsItsRows(x)'
    <2>1. pc'[x] = pc[x] /\ job'[x] = job[x]
      BY <1>7 DEF LockOrder, IInv, TypeOK
    <2>2. \A q \in OrderIds : orderLock[q] = x <=> orderLock'[q] = x
      BY <1>1, <1>5, <1>7, Constants DEF OrderFree
    <2>3. QED
      BY <1>0, <1>7, <2>1, <2>2, OthersKeepTheirRows
  <1>8. RowsAreComplete'
    BY <1>0 DEF IInv, RowsAreComplete
  <1>9. QED
    BY <1>4, <1>6, <1>7, <1>8 DEF IInv, TransactionsHoldTheirRows

LEMMA LockSubscriptionStep ==
    ASSUME IInv, NEW w \in Workers, LockPlan(w) \/ LockGrant(w) \/ LockRevoke(w)
    PROVE  IInv'
  <1> DEFINE u == job[w].user
  <1>0. UNCHANGED <<subs, orders, events, audit, now, bank, reports, fails, acked, job, orderLock>>
    BY DEF LockPlan, LockGrant, LockRevoke, LockSubscription, rows, world
  <1>1. PICK to \in {"settle", "grant", "revoke"} :
          /\ pc[w] = (CASE to = "settle" -> "plan" [] to = "grant" -> "lockGrant"
                         [] OTHER -> "lockRevoke")
          /\ LockSubscription(w, u, to)
    BY DEF LockPlan, LockGrant, LockRevoke
  <1>2. u \in Users
    BY <1>1 DEF IInv, JobIsComplete
  <1>3. /\ pc'[w] = to /\ saw'[w] = subs[u]
        /\ subs[u] # NoSub => SubFree(u)
        /\ \A v \in Users :
              subLock'[v] = IF v = u /\ subs[u] # NoSub THEN w ELSE subLock[v]
    BY <1>1, <1>2 DEF LockSubscription, IInv, TypeOK
  <1>4. TypeOK'
    BY <1>0, <1>1, <1>2 DEF LockSubscription, IInv, TypeOK
  <1>5. JobIsComplete(w)' /\ HoldsItsRows(w)'
    <2>1. HoldsItsRows(w) /\ JobIsComplete(w)
      BY DEF IInv, TransactionsHoldTheirRows
    <2>2. JobIsComplete(w)'
      BY <1>0, <1>1, <1>3, <2>1 DEF JobIsComplete
    <2>3. HoldsItsRows(w)'
      BY <1>0, <1>1, <1>2, <1>3, <2>1 DEF HoldsItsRows
    <2>4. QED
      BY <2>2, <2>3
  <1>6. ASSUME NEW x \in Workers, x # w
        PROVE  JobIsComplete(x)' /\ HoldsItsRows(x)'
    <2>1. pc'[x] = pc[x] /\ saw'[x] = saw[x]
      BY <1>1, <1>6 DEF LockSubscription, IInv, TypeOK
    <2>2. \A v \in Users : subLock[v] = x <=> subLock'[v] = x
      BY <1>2, <1>3, <1>6, Constants DEF SubFree
    <2>3. QED
      BY <1>0, <1>6, <2>1, <2>2, OthersKeepTheirRows
  <1>7. RowsAreComplete'
    BY <1>0 DEF IInv, RowsAreComplete
  <1>8. QED
    BY <1>4, <1>5, <1>6, <1>7 DEF IInv, TransactionsHoldTheirRows

\* The subscription row a settling, granting or revoking worker decides from is
\* the current one, and nobody else holds it, unless its insert must fail.
LEMMA PlanIsCurrent ==
    ASSUME IInv, NEW w \in Workers, pc[w] \in {"settle", "grant", "revoke"},
           ~InsertConflict(w, job[w].user)
    PROVE  /\ job[w].user \in Users
           /\ saw[w] = subs[job[w].user]
           /\ subLock[job[w].user] \in {w, None}
  <1> DEFINE u == job[w].user
  <1>1. u \in Users
    BY DEF IInv, JobIsComplete
  <1>2. HoldsItsRows(w)
    BY DEF IInv, TransactionsHoldTheirRows
  <1>3. saw[w] = subs[u]
    BY <1>1, <1>2 DEF HoldsItsRows, InsertConflict
  <1>4. \A x \in Workers : subLock[u] = x => x = w
    <2>1. \A x \in Workers : HoldsItsRows(x)
      BY DEF IInv, TransactionsHoldTheirRows
    <2>2. QED
      BY <1>1, <1>2, <1>3, <2>1 DEF HoldsItsRows
  <1>5. QED
    BY <1>1, <1>3, <1>4 DEF IInv, TypeOK

LEMMA ExtendedType ==
    ASSUME NEW sub \in Subscription, NEW p \in Plans, NEW at \in Nat
    PROVE  Extended(sub, p, at) \in Subscription /\ Extended(sub, p, at) # NoSub
  BY Constants DEF Extended, Subscription, NoSub, Running

LEMMA SettleStep ==
    ASSUME IInv, NEW w \in Workers, SettleUnapplied(w) \/ SettlePaid(w)
    PROVE  IInv'
  <1> DEFINE o == job[w].order
             u == job[w].user
             t == job[w].txn
  <1>1. PICK status \in {"paid", "paid_unapplied"}, to \in {"idle", "report"}, j \in Job :
          /\ CommitSettlement(w, status, to, j)
          /\ to = "report" => j.order = o
    <2>1. pc[w] = "settle"
      BY DEF SettleUnapplied, SettlePaid, CommitSettlement
    <2>2. o \in OrderIds
      BY <2>1 DEF IInv, JobIsComplete
    <2>3. [NoJob EXCEPT !.order = o] \in Job
      BY <2>2 DEF NoJob, Job
    <2>4. QED
      BY <2>3, TypeNulls DEF SettleUnapplied, SettlePaid, NoJob
  <1>2. /\ pc[w] = "settle" /\ ~InsertConflict(w, u) /\ EndAt(w, to, j)
        /\ UNCHANGED <<audit, now, bank, reports, fails>>
    BY <1>1 DEF CommitSettlement, world
  <1>3. /\ o \in OrderIds /\ t \in Txns /\ job[w].plan \in Plans /\ orderLock[o] = w
        /\ orders[o].status # "none" /\ job[w].at \in Nat
    BY <1>2 DEF IInv, TypeOK, Job, JobIsComplete, TransactionsHoldTheirRows, HoldsItsRows
  <1>4. u \in Users /\ saw[w] = subs[u] /\ subLock[u] \in {w, None}
    BY <1>2, PlanIsCurrent
  <1>5. events' \subseteq PaymentEvent /\ acked' \subseteq Txns
    BY <1>1, <1>3, EventType DEF CommitSettlement, Answered, IInv, TypeOK
  <1>6. /\ DOMAIN orders' = OrderIds /\ orders' = [q \in OrderIds |-> orders'[q]]
        /\ orders'[o] = [orders[o] EXCEPT !.status = status, !.txn = t, !.paidAt = job[w].at]
        /\ \A q \in OrderIds \ {o} : orders'[q] = orders[q]
    BY <1>1, <1>3 DEF CommitSettlement, Paid, IInv, TypeOK
  <1>7. orders' \in [OrderIds -> Order] /\ RowsAreComplete'
    <2>0. orders[o] \in Order /\ orders[o].user \in Users /\ orders[o].plan \in Plans
      BY <1>3 DEF IInv, TypeOK, RowsAreComplete, NoOrder
    <2>1. WellFormed(orders'[o])
      <3>1. [orders[o] EXCEPT !.status = status, !.txn = t, !.paidAt = job[w].at] \in Order
        BY <1>3, <2>0 DEF Order, Statuses
      <3>2. /\ orders'[o].user = orders[o].user /\ orders'[o].plan = orders[o].plan
            /\ orders'[o].status = status
        BY <1>6, <2>0 DEF Order
      <3>3. orders'[o] \in Order
        BY <1>6, <3>1
      <3>4. orders'[o] # NoOrder /\ orders'[o].status # "none"
        BY <3>2 DEF NoOrder
      <3>5. QED
        BY <2>0, <3>2, <3>3, <3>4 DEF WellFormed
    <2>2. QED
      BY <1>2, <1>6, <2>1, RowsKeepShape
  <1>8. /\ subs' \in [Users -> Subscription]
        /\ \A v \in Users : subs'[v] # subs[v] => v = u
    <2>1. CASE UNCHANGED subs
      BY <2>1 DEF IInv, TypeOK
    <2>2. CASE subs' = [subs EXCEPT ![u] = Extended(saw[w], job[w].plan, job[w].at)]
      BY <1>3, <1>4, <2>2, ExtendedType DEF IInv, TypeOK
    <2>3. QED
      BY <2>1, <2>2 DEF SettleUnapplied, SettlePaid
  <1>9. QED
    BY <1>1, <1>2, <1>3, <1>4, <1>5, <1>6, <1>7, <1>8, EndStep DEF IInv, TypeOK

LEMMA AdminStep ==
    ASSUME IInv, NEW w \in Workers, CommitGrant(w) \/ CommitRevoke(w)
    PROVE  IInv'
  <1> DEFINE u == job[w].user
             j == [NoJob EXCEPT !.user = u, !.at = now]
  <1>1. /\ pc[w] \in {"grant", "revoke"} /\ EndAt(w, "expire", j)
        /\ UNCHANGED <<orders, events, now, bank, reports, fails, acked>>
        /\ audit' = [audit EXCEPT ![u] = @ + 1]
    BY DEF CommitGrant, CommitRevoke, world
  <1>2. ~InsertConflict(w, u)
    BY DEF CommitGrant, CommitRevoke, InsertConflict, Running
  <1>3. u \in Users /\ saw[w] = subs[u] /\ subLock[u] \in {w, None}
    BY <1>1, <1>2, PlanIsCurrent
  <1>4. /\ subs' \in [Users -> Subscription]
        /\ \A v \in Users : subs'[v] # subs[v] => v = u
    <2>1. job[w].at \in Nat
      BY DEF IInv, TypeOK, Job
    <2>2. CASE CommitGrant(w)
      <3>1. job[w].plan \in Plans
        BY <2>2 DEF CommitGrant, IInv, JobIsComplete
      <3>2. [tier |-> Tier[job[w].plan], expires |-> job[w].at + Days[job[w].plan]]
              \in Subscription
        BY <2>1, <3>1, Constants DEF Subscription
      <3>3. QED
        BY <2>2, <3>2 DEF CommitGrant, IInv, TypeOK
    <2>3. CASE CommitRevoke(w)
      <3>1. subs \in [Users -> Subscription]
        BY DEF IInv, TypeOK
      <3>2. \A v \in Users : [subs[v] EXCEPT !.expires = job[w].at] \in Subscription
        BY <2>1, <3>1 DEF Subscription
      <3>3. subs' = [subs EXCEPT ![job[w].user].expires = job[w].at]
        BY <2>3 DEF CommitRevoke
      <3>4. QED
        BY <3>1, <3>2, <3>3
    <2>4. QED
      BY <2>2, <2>3
  <1>5. j \in Job /\ j.user = u
    BY <1>3 DEF NoJob, Job, IInv, TypeOK
  <1>6. audit' \in [Users -> Nat] /\ RowsAreComplete'
    BY <1>1, <1>3 DEF IInv, TypeOK, RowsAreComplete
  <1>7. QED
    BY <1>1, <1>3, <1>4, <1>5, <1>6, EndStep DEF IInv, TypeOK

LEMMA EndOnlyStep ==
    ASSUME IInv, NEW w \in Workers,
           InsertFails(w) \/ ReportPurchase(w) \/ RefuseRevoke(w) \/ AbortDeadlocked(w) \/ Fail(w)
    PROVE  IInv'
  <1>1. End(w) /\ UNCHANGED <<rows, now, bank, acked>>
    BY DEF InsertFails, ReportPurchase, RefuseRevoke, AbortDeadlocked, Fail, world
  <1>2. fails' \in Nat /\ reports' \in [OrderIds -> Nat]
    BY DEF InsertFails, ReportPurchase, RefuseRevoke, AbortDeadlocked, Fail, world, IInv, TypeOK
  <1>3. UNCHANGED <<subs, orders, events, audit>> /\ RowsAreComplete'
    BY <1>1 DEF rows, IInv, RowsAreComplete
  <1>4. QED
    BY <1>1, <1>2, <1>3, EndStep, TypeNulls DEF End, IInv, TypeOK

LEMMA ResumeStep ==
    ASSUME IInv, NEW w \in Workers, Resume(w)
    PROVE  IInv'
  BY LockStaleStep, FindOpenOrderStep, ReuseOrPlaceStep, CommitCancelStep, ExpireStaleStep,
     RecordStep,
     LockOrderStep, LockSubscriptionStep, SettleStep, AdminStep, EndOnlyStep
  DEF Resume

\* Steps of the world outside the requests.
LEMMA WorldStep ==
    ASSUME IInv,
           \/ \E t \in Txns : RefuseWebhook(t)
           \/ \E t \in Txns, p \in Payments : PayByTransfer(t, p[1], p[2])
           \/ Tick
           \/ UNCHANGED vars
    PROVE  IInv'
  <1>1. UNCHANGED <<subs, orders, audit, locks, local, reports, fails, acked>>
    BY DEF RefuseWebhook, PayByTransfer, Tick, vars, rows, world
  <1>2. /\ \A t \in Txns : bank[t] # NoTransfer => bank'[t] = bank[t]
        /\ bank' \in [Txns -> Transfer]
        /\ \A t \in Txns : bank'[t].order \in OrderIds =>
              bank'[t] = bank[t] \/ orders[bank'[t].order] # NoOrder
    <2>1. CASE \E t \in Txns, p \in Payments : PayByTransfer(t, p[1], p[2])
      <3>1. PICK t \in Txns, p \in Payments : PayByTransfer(t, p[1], p[2])
        BY <2>1
      <3>2. [order |-> p[1], amount |-> p[2]] \in Transfer
        BY <3>1, BoundsAssumption DEF Transfer
      <3>3. QED
        BY <3>1, <3>2 DEF PayByTransfer, IInv, TypeOK
    <2>2. CASE UNCHANGED bank
      BY <2>2 DEF IInv, TypeOK
    <2>3. QED
      BY <2>1, <2>2 DEF RefuseWebhook, Tick, vars, world
  <1>3a. now' \in Nat
    <2>1. CASE Tick
      BY <2>1 DEF Tick, IInv, TypeOK
    <2>2. CASE UNCHANGED now
      BY <2>2 DEF IInv, TypeOK
    <2>3. QED
      BY <2>1, <2>2 DEF RefuseWebhook, PayByTransfer, vars, world
  <1>3. events' \subseteq PaymentEvent
    <2>1. CASE \E t \in Txns : RefuseWebhook(t)
      BY <2>1, EventType DEF RefuseWebhook, world, IInv, TypeOK
    <2>2. CASE UNCHANGED events
      BY <2>2 DEF IInv, TypeOK
    <2>3. QED
      BY <2>1, <2>2 DEF RefuseWebhook, PayByTransfer, Tick, vars, rows
  <1>4. TypeOK'
    BY <1>1, <1>2, <1>3, <1>3a DEF IInv, TypeOK, locks, local
  <1>5. RowsAreComplete'
    BY <1>1, <1>2 DEF IInv, RowsAreComplete
  <1>6. ASSUME NEW x \in Workers
        PROVE  JobIsComplete(x)' /\ HoldsItsRows(x)'
    <2>1. JobIsComplete(x) /\ HoldsItsRows(x)
      BY DEF IInv, TransactionsHoldTheirRows
    <2>2. JobIsComplete(x)'
      BY <1>1, <1>2, <2>1, Constants DEF JobIsComplete, local, NoTransfer
    <2>3. HoldsItsRows(x)'
      BY <1>1, <2>1 DEF HoldsItsRows, local, locks
    <2>4. QED
      BY <2>2, <2>3
  <1>7. QED
    BY <1>4, <1>5, <1>6 DEF IInv, TransactionsHoldTheirRows

LEMMA NextIInv == IInv /\ [Next]_vars => IInv'
  BY ResumeStep, RequestStep, EndOnlyStep, WorldStep DEF Next

-----------------------------------------------------------------------------
(* Theorems                                                                *)

LEMMA Invariance == Spec => []IInv
  BY InitIInv, NextIInv, PTL DEF Spec

\* Every variable keeps its shape in every reachable state.
THEOREM TypeCorrect == Spec => []TypeOK
  <1>1. IInv => TypeOK
    BY DEF IInv
  <1>2. QED
    BY <1>1, Invariance, PTL

\* In every reachable state each transaction's view of the rows it locked is
\* current: FOR UPDATE on the order, then on the subscription, is enough.
THEOREM RowsAreHeld == Spec => []TransactionsHoldTheirRows
  <1>1. IInv => TransactionsHoldTheirRows
    BY DEF IInv
  <1>2. QED
    BY <1>1, Invariance, PTL

\* Whoever waits for an order or a plan, and is waited for, is expiring orders:
\* a payment that waits for the plan waits for someone who waits for nothing.
LEMMA WaitingPlaces ==
    ASSUME IInv, NEW w \in Workers, NEW x \in Workers, NEW y \in Workers, NEW z \in Workers,
           x \in WaitsFor(w), w \in WaitsFor(y), z \in WaitsFor(x)
    PROVE  pc[w] \in {"checkout", "reuse", "expire"}
  <1>1. HoldsItsRows(w) /\ HoldsItsRows(x) /\ JobIsComplete(w) /\ JobIsComplete(y)
    BY DEF IInv, TransactionsHoldTheirRows
  <1>2. pc[w] \in {"checkout", "reuse", "expire", "order", "plan", "lockGrant", "lockRevoke"}
    BY DEF WaitsFor, NeedsOrders, NeedsPlan
  <1>3. pc[x] \notin {"settle", "grant", "revoke"}
    BY DEF WaitsFor, NeedsOrders, NeedsPlan
  <1>4. \/ \E o \in OrderIds : orderLock[o] = w
        \/ \E u \in Users : subLock[u] = w
    <2>1. CASE NeedsPlan(y) /\ subLock[job[y].user] = w
      BY <1>1, <2>1 DEF NeedsPlan, JobIsComplete
    <2>2. CASE \E o \in NeedsOrders(y) : orderLock[o] = w
      <3>1. NeedsOrders(y) \subseteq OrderIds
        BY <1>1 DEF NeedsOrders, StaleOrders, JobIsComplete
      <3>2. QED
        BY <2>2, <3>1
    <2>3. QED
      BY <2>1, <2>2 DEF WaitsFor
  <1>5. pc[w] \notin {"order", "lockGrant", "lockRevoke"}
    BY <1>1, <1>4 DEF HoldsItsRows
  <1>6. pc[w] # "plan"
    <2> SUFFICES ASSUME pc[w] = "plan" PROVE FALSE
      OBVIOUS
    <2>1. subLock[job[w].user] = x /\ job[w].user \in Users
      BY <1>1 DEF WaitsFor, NeedsOrders, NeedsPlan, JobIsComplete
    <2>2. pc[x] \in {"settle", "grant", "revoke"}
      BY <1>1, <2>1 DEF HoldsItsRows
    <2>3. QED
      BY <1>3, <2>2
  <1>7. QED
    BY <1>2, <1>5, <1>6

\* Of requests that wait for each other in a circle, however many, each is expiring
\* the orders of a learner: no payment, cancellation, grant or revocation is lost to
\* a deadlock.
THEOREM DeadlocksAreOfExpiries == Spec => []DeadlocksSpareMoney
  <1>1. ASSUME IInv, NEW w \in Workers, Deadlocked(w)
        PROVE  pc[w] \in {"checkout", "reuse", "expire"}
    <2>1. PICK S \in SUBSET Workers :
             w \in S /\ \E next \in [S -> S] : /\ \A x \in S : next[x] \in WaitsFor(x)
                                               /\ \A x \in S : \E y \in S : next[y] = x
      BY <1>1 DEF Deadlocked
    <2>2. PICK next \in [S -> S] : /\ \A x \in S : next[x] \in WaitsFor(x)
                                   /\ \A x \in S : \E y \in S : next[y] = x
      BY <2>1
    <2>3. PICK y \in S : next[y] = w
      BY <2>1, <2>2
    <2>4. next[w] \in S /\ next[w] \in WaitsFor(w) /\ w \in WaitsFor(y)
      BY <2>1, <2>2, <2>3
    <2>5. next[next[w]] \in S /\ next[next[w]] \in WaitsFor(next[w])
      BY <2>2, <2>4
    <2>6. QED
      BY <1>1, <2>1, <2>4, <2>5, WaitingPlaces
  <1>2. IInv => DeadlocksSpareMoney
    BY <1>1 DEF DeadlocksSpareMoney
  <1>3. QED
    BY <1>2, Invariance, PTL

-----------------------------------------------------------------------------
(***************************************************************************)
(* The money: the books reconcile, acknowledged money is kept, a settled    *)
(* order is final, no order runs out early, plans change only for a reason, *)
(* and billing implements BillingLedger.  Over IInv that takes four more    *)
(* invariants, one for each thing a request remembers across its            *)
(* statements: its instant, the orders it is about to expire, the money it  *)
(* follows and the purchase it reports.                                     *)
(***************************************************************************)

\* A request acts at an instant it took earlier.
InstantsPast == \A w \in Workers : job[w].at <= now

\* Where a request holds the orders it is going to expire: they ran out of time
\* before it began.
Expiring == {"checkout", "place", "reuse", "expire"}
HeldOrdersAreLate ==
    \A w \in Workers, o \in OrderIds :
        pc[w] \in Expiring /\ orderLock[o] = w => orders[o].created + Window < job[w].at

ExpiryInv == InstantsPast /\ HeldOrdersAreLate /\ NeverExpiredEarly

\* A webhook is about money that arrived, and past the check of the amount about
\* money that pays the order it has locked.
FollowsMoney(w) ==
    /\ pc[w] \in {"order", "plan", "settle"} => bank[job[w].txn] # NoTransfer
    /\ pc[w] \in {"plan", "settle"} => Pays(job[w].txn, job[w].order)

MoneyInv ==
    /\ \A w \in Workers : FollowsMoney(w)
    /\ \A t \in acked : bank[t] # NoTransfer
    /\ BooksReconcile
    /\ AckedMoneyIsKept

\* A purchase waiting to be reported is of a paid order nobody has reported yet
\* or is about to.
ReportInv ==
    /\ \A w \in Workers : pc[w] = "report" =>
          orders[job[w].order].status = "paid" /\ reports[job[w].order] = 0
    /\ \A w, x \in Workers :
          pc[w] = "report" /\ pc[x] = "report" /\ job[w].order = job[x].order => w = x
    /\ ReportedAtMostOnce

-----------------------------------------------------------------------------
(* What one step does to an order                                          *)

Places(w, o) ==
    /\ pc[w] = "place" /\ orders[o] = NoOrder
    /\ orders'[o] = [NoOrder EXCEPT !.user = job[w].user, !.plan = job[w].plan,
                                    !.status = "pending", !.created = job[w].at]

Lapses(w, o) ==
    /\ pc[w] \in Expiring /\ orderLock[o] = w
    /\ orders[o].status = "pending"
    /\ orders'[o] = [orders[o] EXCEPT !.status = "expired"]

Cancels(o) ==
    /\ orders[o].status = "pending"
    /\ orders'[o] = [orders[o] EXCEPT !.status = "cancelled"]

Settles(w, o) ==
    /\ SettleUnapplied(w) \/ SettlePaid(w)
    /\ o = job[w].order
    /\ orders'[o] = [orders[o] EXCEPT
          !.status = IF SettlePaid(w) THEN "paid" ELSE "paid_unapplied",
          !.txn = job[w].txn, !.paidAt = job[w].at]

LEMMA ExpiredChanges ==
    ASSUME IInv, NEW S \in SUBSET OrderIds, NEW o \in OrderIds,
           \A q \in S : orders[q].status = "pending",
           Expired(S)[o] # orders[o]
    PROVE  o \in S /\ Expired(S)[o] = [orders[o] EXCEPT !.status = "expired"]
  BY ExpiredFacts

LEMMA HeldOrdersArePending ==
    ASSUME IInv, NEW w \in Workers, pc[w] \in Expiring
    PROVE  /\ HeldBy(w) \in SUBSET OrderIds
           /\ \A o \in HeldBy(w) : orders[o].status = "pending" /\ orderLock[o] = w
  BY DEF Expiring, HeldBy, IInv, TransactionsHoldTheirRows, HoldsItsRows

\* The two ways to settle exclude each other.
LEMMA SettleExclusive ==
    ASSUME NEW w \in Workers
    PROVE  ~(SettleUnapplied(w) /\ SettlePaid(w))
  BY DEF SettleUnapplied, SettlePaid

\* Only four kinds of step write an order.
LEMMA OrderChanges ==
    ASSUME IInv, [Next]_vars, NEW o \in OrderIds, orders'[o] # orders[o]
    PROVE  \E w \in Workers : Places(w, o) \/ Lapses(w, o) \/ Cancels(o) \/ Settles(w, o)
  <1>1. PICK w \in Workers :
          \/ ReuseOrder(w) \/ PlaceOrder(w) \/ CommitCancel(w) \/ ExpireStaleOrders(w)
          \/ SettleUnapplied(w) \/ SettlePaid(w)
    <2>1. orders' # orders
      OBVIOUS
    <2>2. ~UNCHANGED orders
      BY <2>1
    <2>3. /\ \A w \in Workers : Request(w) \/ Fail(w) => UNCHANGED orders
          /\ \A t \in Txns : RefuseWebhook(t) => UNCHANGED orders
          /\ \A t \in Txns, p \in Payments : PayByTransfer(t, p[1], p[2]) => UNCHANGED orders
          /\ Tick \/ UNCHANGED vars => UNCHANGED orders
      BY DEF Request, Fail, Checkout, CancelOrder, ReadBilling, ReceiveWebhook, AskGrant,
             AskRevoke, RefuseWebhook, PayByTransfer, Tick, vars, rows
    <2>4. PICK w \in Workers : Resume(w)
      BY <2>2, <2>3 DEF Next
    <2>5. QED
      BY <2>2, <2>4
      DEF Resume, LockStale, AbortDeadlocked, FindOpenOrder, IgnoreTransfer,
          RecordDuplicate, RecordMismatch, RecordOnly,
          LockOrder, LockPlan, InsertFails, ReportPurchase, LockGrant, CommitGrant,
          LockRevoke, CommitRevoke, RefuseRevoke, rows
  <1>2. ASSUME pc[w] \in Expiring, Expired(HeldBy(w))[o] # orders[o]
        PROVE  Expired(HeldBy(w))[o] = [orders[o] EXCEPT !.status = "expired"]
                 /\ orders[o].status = "pending" /\ orderLock[o] = w
    BY <1>2, HeldOrdersArePending, ExpiredChanges
  <1>3. CASE ReuseOrder(w)
    BY <1>2, <1>3 DEF ReuseOrder, Lapses, Expiring
  <1>4. CASE PlaceOrder(w)
    <2>1. PICK q \in OrderIds :
            /\ orders[q] = NoOrder
            /\ orders' = [Expired(HeldBy(w)) EXCEPT ![q] =
                  [NoOrder EXCEPT !.user = job[w].user, !.plan = job[w].plan,
                                  !.status = "pending", !.created = job[w].at]]
      BY <1>4 DEF PlaceOrder
    <2>2. pc[w] = "place" /\ DOMAIN Expired(HeldBy(w)) = OrderIds
      BY <1>4 DEF PlaceOrder, Expired
    <2>3. CASE o = q
      BY <2>1, <2>2, <2>3 DEF Places
    <2>4. CASE o # q
      <3>1. orders'[o] = Expired(HeldBy(w))[o]
        BY <2>1, <2>2, <2>4
      <3>2. QED
        BY <1>2, <2>2, <3>1 DEF Lapses, Expiring
    <2>5. QED
      BY <2>3, <2>4
  <1>5. CASE CommitCancel(w)
    <2>1. HoldsItsRows(w) /\ orders \in [OrderIds -> Order]
      BY DEF IInv, TypeOK, TransactionsHoldTheirRows
    <2>2. QED
      BY <1>5, <2>1 DEF CommitCancel, HoldsItsRows, Cancels
  <1>6. CASE ExpireStaleOrders(w)
    BY <1>2, <1>6 DEF ExpireStaleOrders, Lapses, Expiring
  <1>7. CASE SettleUnapplied(w) \/ SettlePaid(w)
    <2>1. /\ orders' = Paid(w, IF SettlePaid(w) THEN "paid" ELSE "paid_unapplied")
          /\ pc[w] = "settle"
      BY <1>7, SettleExclusive DEF SettleUnapplied, SettlePaid, CommitSettlement
    <2>2. orders \in [OrderIds -> Order]
      BY DEF IInv, TypeOK
    <2>3. QED
      BY <1>7, <2>1, <2>2 DEF Paid, Settles
  <1>8. QED
    BY <1>1, <1>3, <1>4, <1>5, <1>6, <1>7

-----------------------------------------------------------------------------
(* What one step does to a request, to the bank and to the log             *)

Untouched(x) ==
    /\ pc'[x] = pc[x] /\ job'[x] = job[x]
    /\ \A o \in OrderIds : orderLock[o] = x <=> orderLock'[o] = x

\* A request is moved only by its own worker.
LEMMA OwnSteps ==
    ASSUME IInv, [Next]_vars, NEW x \in Workers
    PROVE  Untouched(x) \/ Resume(x) \/ Request(x) \/ Fail(x)
  <1>1. CASE /\ UNCHANGED <<pc, job, orderLock>>
    BY <1>1 DEF Untouched
  <1>2. ASSUME NEW w \in Workers, w # x, Resume(w) \/ Request(w) \/ Fail(w)
        PROVE  Untouched(x)
    <2>0. /\ pc = [v \in Workers |-> pc[v]] /\ job \in [Workers -> Job]
          /\ orderLock \in [OrderIds -> Workers \cup {None}] /\ None \notin Workers
      BY Constants DEF IInv, TypeOK
    <2>1. ASSUME NEW to, NEW j, EndAt(w, to, j)
          PROVE  Untouched(x)
      BY <1>2, <2>1, EndFacts DEF Untouched
    <2>2. ASSUME NEW to, NEW j, Begin(w, to, j)
          PROVE  Untouched(x)
      BY <1>2, <2>0, <2>2 DEF Begin, Untouched, locks
    <2>3. ASSUME NEW u, NEW to, LockSubscription(w, u, to)
          PROVE  Untouched(x)
      BY <1>2, <2>0, <2>3 DEF LockSubscription, Untouched
    <2>4. CASE LockStale(w) \/ FindOpenOrder(w)
      <3>1. CASE LockStale(w)
        <4>1. PICK o \in OrderIds : OrderFree(o) /\ orderLock' = [orderLock EXCEPT ![o] = w]
          BY <3>1 DEF LockStale, StaleOrders
        <4>2. pc' = pc /\ job' = job
          BY <3>1 DEF LockStale, local
        <4>3. QED
          BY <1>2, <2>0, <4>1, <4>2 DEF OrderFree, Untouched
      <3>2. CASE FindOpenOrder(w)
        <4>1. PICK to, f : /\ pc' = [pc EXCEPT ![w] = to]
                           /\ job' = [job EXCEPT ![w].order = f]
                           /\ orderLock' = orderLock
          BY <3>2 DEF FindOpenOrder, locks
        <4>2. QED
          BY <1>2, <2>0, <4>1 DEF Untouched
      <3>3. QED
        BY <2>4, <3>1, <3>2
    <2>5. CASE LockOrder(w)
      <3>1. PICK o, j : /\ o \in OrderIds
                        /\ OrderFree(o) /\ orderLock' = [orderLock EXCEPT ![o] = w]
                        /\ pc' = [pc EXCEPT ![w] = "plan"]
                        /\ job' = [job EXCEPT ![w] = j]
        BY <2>5 DEF LockOrder
      <3>2. QED
        BY <1>2, <2>0, <3>1 DEF OrderFree, Untouched
    <2>6. ASSUME NEW o \in OrderIds, CancelOrder(w, o)
          PROVE  Untouched(x)
      <3>1. PICK j : /\ OrderFree(o) /\ orderLock' = [orderLock EXCEPT ![o] = w]
                     /\ pc' = [pc EXCEPT ![w] = "cancel"]
                     /\ job' = [job EXCEPT ![w] = j]
        BY <2>6 DEF CancelOrder
      <3>2. QED
        BY <1>2, <2>0, <3>1 DEF OrderFree, Untouched
    <2>7. QED
      <3>1. CASE Request(w)
        BY <2>2, <2>6, <3>1
        DEF Request, Checkout, ReadBilling, ReceiveWebhook, AskGrant, AskRevoke
      <3>2. CASE Fail(w)
        BY <2>1, <3>2 DEF Fail, End
      <3>3. CASE Resume(w)
        BY <2>1, <2>3, <2>4, <2>5, <3>3
        DEF Resume, AbortDeadlocked, ReuseOrder, PlaceOrder, CommitCancel, ExpireStaleOrders,
          IgnoreTransfer,
            RecordDuplicate, RecordMismatch, RecordOnly, LockPlan, SettleUnapplied, SettlePaid,
            CommitSettlement, InsertFails, ReportPurchase, LockGrant, CommitGrant, LockRevoke,
            CommitRevoke, RefuseRevoke, End
      <3>4. QED
        BY <1>2, <3>1, <3>2, <3>3
  <1>3. QED
    BY <1>1, <1>2 DEF Next, RefuseWebhook, PayByTransfer, Tick, vars, locks, local

\* The statements at which a request remembers something, and how it gets there.
LEMMA Arrivals ==
    ASSUME IInv, [Next]_vars, NEW x \in Workers, ~Untouched(x)
    PROVE  /\ pc'[x] = "order" => \E t \in Txns : ReceiveWebhook(x, t)
           /\ pc'[x] = "plan" => LockOrder(x)
           /\ pc'[x] = "settle" => LockPlan(x)
           /\ pc'[x] = "report" => SettlePaid(x)
  <1>0. pc = [w \in Workers |-> pc[w]]
    BY DEF IInv, TypeOK
  <1>1. ASSUME NEW to, NEW j, EndAt(x, to, j) PROVE pc'[x] = to
    BY <1>0, <1>1 DEF EndAt
  <1>2. ASSUME NEW to, NEW j, Begin(x, to, j) PROVE pc'[x] = to
    BY <1>0, <1>2 DEF Begin
  <1>3. ASSUME NEW u, NEW to, LockSubscription(x, u, to) PROVE pc'[x] = to
    BY <1>0, <1>3 DEF LockSubscription
  <1>4. LockOrder(x) => pc'[x] = "plan"
    BY <1>0 DEF LockOrder
  <1>5. FindOpenOrder(x) \/ LockStale(x) => pc'[x] \in Expiring
    <2>1. FindOpenOrder(x) => pc'[x] \in {"place", "reuse"}
      BY <1>0 DEF FindOpenOrder
    <2>2. LockStale(x) => pc'[x] \in {"checkout", "expire"}
      BY DEF LockStale, local
    <2>3. QED
      BY <2>1, <2>2 DEF Expiring
  <1>6. \A o \in OrderIds : CancelOrder(x, o) => pc'[x] = "cancel"
    BY <1>0 DEF CancelOrder
  <1>7. CASE Request(x)
    <2>1. \/ \E t \in Txns : ReceiveWebhook(x, t)
          \/ pc'[x] \in {"checkout", "cancel", "expire", "lockGrant", "lockRevoke"}
      BY <1>2, <1>6, <1>7 DEF Request, Checkout, ReadBilling, AskGrant, AskRevoke
    <2>2. (\E t \in Txns : ReceiveWebhook(x, t)) => pc'[x] = "order"
      BY <1>2 DEF ReceiveWebhook
    <2>3. QED
      BY <2>1, <2>2
  <1>8. CASE Fail(x)
    BY <1>1, <1>8 DEF Fail, End
  <1>9. CASE Resume(x)
    <2>1. \/ FindOpenOrder(x) \/ LockStale(x) \/ LockOrder(x)
          \/ LockPlan(x) /\ pc'[x] = "settle"
          \/ SettlePaid(x) /\ pc'[x] = "report"
          \/ pc'[x] \in {"idle", "grant", "revoke", "expire"}
      BY <1>1, <1>3, <1>9
      DEF Resume, AbortDeadlocked, ReuseOrder, PlaceOrder, CommitCancel, ExpireStaleOrders,
          IgnoreTransfer,
          RecordDuplicate, RecordMismatch, RecordOnly, LockPlan, SettleUnapplied, SettlePaid,
          CommitSettlement, InsertFails, ReportPurchase, LockGrant, CommitGrant, LockRevoke,
          CommitRevoke, RefuseRevoke, End
    <2>2. QED
      BY <1>4, <1>5, <2>1 DEF Expiring
  <1>10. QED
    BY <1>7, <1>8, <1>9, OwnSteps

\* Whoever is about to expire an order it holds has locked it as a stale one.
LEMMA LocksOfTheLate ==
    ASSUME IInv, [Next]_vars, NEW x \in Workers, ~Untouched(x),
           pc'[x] \in Expiring, NEW o \in OrderIds, orderLock'[o] = x
    PROVE  LockStale(x) \/ FindOpenOrder(x)
  <1>0. pc = [w \in Workers |-> pc[w]] /\ HoldsItsRows(x)
    BY DEF IInv, TypeOK, TransactionsHoldTheirRows
  <1>1. ASSUME NEW to, NEW j, EndAt(x, to, j) PROVE FALSE
    BY <1>1, EndFacts
  <1>2. ASSUME NEW to, NEW j, Begin(x, to, j) PROVE FALSE
    BY <1>0, <1>2 DEF Begin, locks, HoldsItsRows
  <1>3. ASSUME NEW u, NEW to \in {"settle", "grant", "revoke"}, LockSubscription(x, u, to)
        PROVE  FALSE
    BY <1>0, <1>3 DEF LockSubscription, Expiring
  <1>4. ~LockOrder(x) /\ \A q \in OrderIds : ~CancelOrder(x, q)
    BY <1>0 DEF LockOrder, CancelOrder, Expiring
  <1>5. CASE Request(x)
    BY <1>2, <1>4, <1>5
    DEF Request, Checkout, ReadBilling, ReceiveWebhook, AskGrant, AskRevoke
  <1>6. CASE Fail(x)
    BY <1>1, <1>6 DEF Fail, End
  <1>7. CASE Resume(x)
    BY <1>1, <1>3, <1>4, <1>7
    DEF Resume, AbortDeadlocked, ReuseOrder, PlaceOrder, CommitCancel, ExpireStaleOrders,
        IgnoreTransfer, RecordDuplicate, RecordMismatch, RecordOnly, LockPlan, SettleUnapplied,
        SettlePaid, CommitSettlement, InsertFails, ReportPurchase, LockGrant, CommitGrant,
        LockRevoke, CommitRevoke, RefuseRevoke, End
  <1>8. QED
    BY <1>5, <1>6, <1>7, OwnSteps

LEMMA ClockAdvances ==
    ASSUME IInv, [Next]_vars
    PROVE  /\ now \in Nat /\ now' \in Nat /\ now <= now'
           /\ \A x \in Workers : job'[x] # job[x] => now' = now
  <1>0. now \in Nat
    BY DEF IInv, TypeOK
  <1>1. CASE Tick \/ (\E t \in Txns, p \in Payments : PayByTransfer(t, p[1], p[2]))
               \/ (\E t \in Txns : RefuseWebhook(t)) \/ UNCHANGED vars
    <2>1. now' = now \/ (now' = now + 1 /\ job' = job)
      BY <1>1 DEF Tick, PayByTransfer, RefuseWebhook, vars, local, world
    <2>2. QED
      BY <1>0, <2>1
  <1>2. ASSUME NEW w \in Workers, Resume(w) \/ Request(w) \/ Fail(w)
        PROVE  now' = now
    <2>1. CASE Resume(w)
      BY <2>1 DEF Resume, LockStale, AbortDeadlocked, FindOpenOrder, ReuseOrder,
          PlaceOrder, CommitCancel,
          ExpireStaleOrders, IgnoreTransfer, RecordDuplicate, RecordMismatch, RecordOnly,
          LockOrder, LockPlan, SettleUnapplied, SettlePaid, CommitSettlement, InsertFails,
          ReportPurchase, LockGrant, CommitGrant, LockRevoke, CommitRevoke, RefuseRevoke, world
    <2>2. CASE Request(w) \/ Fail(w)
      BY <2>2 DEF Request, Fail, Checkout, CancelOrder, ReadBilling, ReceiveWebhook, AskGrant,
          AskRevoke, world
    <2>3. QED
      BY <1>2, <2>1, <2>2
  <1>3. \/ \E w \in Workers : Resume(w) \/ Request(w) \/ Fail(w)
        \/ \E t \in Txns, p \in Payments : PayByTransfer(t, p[1], p[2])
        \/ \E t \in Txns : RefuseWebhook(t)
        \/ Tick
        \/ UNCHANGED vars
    BY DEF Next
  <1>4. CASE \E w \in Workers : Resume(w) \/ Request(w) \/ Fail(w)
    <2>1. now' = now
      BY <1>2, <1>4
    <2>2. QED
      BY <1>0, <2>1
  <1>5. QED
    BY <1>1, <1>3, <1>4

\* An instant a request holds was read off the clock or was there before.
LEMMA InstantChanges ==
    ASSUME IInv, [Next]_vars, NEW x \in Workers
    PROVE  job'[x].at \in {0, now, job[x].at}
  <1>0. job \in [Workers -> Job] /\ NoJob.at = 0
    BY DEF IInv, TypeOK, NoJob
  <1>1. ASSUME NEW to, NEW j, EndAt(x, to, j) PROVE job'[x] = j
    BY <1>0, <1>1 DEF EndAt
  <1>2. ASSUME NEW to, NEW j, Begin(x, to, j) PROVE job'[x] = j
    BY <1>0, <1>2 DEF Begin
  <1>3. ASSUME NEW u, NEW to, LockSubscription(x, u, to) PROVE job'[x] = job[x]
    BY <1>3 DEF LockSubscription
  <1>4. End(x) => job'[x].at = 0
    BY <1>0, <1>1 DEF End
  <1>5. CASE Request(x)
    <2>1. CASE \E o \in OrderIds : CancelOrder(x, o)
      BY <1>0, <2>1 DEF CancelOrder, NoJob
    <2>2. CASE (\E u \in Users, p \in Plans : Checkout(x, u, p) \/ AskGrant(x, u, p))
                 \/ (\E u \in Users : ReadBilling(x, u) \/ AskRevoke(x, u))
                 \/ (\E t \in Txns : ReceiveWebhook(x, t))
      <3>1. PICK j : job'[x] = j /\ j.at \in {0, now}
        BY <1>2, <2>2 DEF Checkout, AskGrant, ReadBilling, AskRevoke, ReceiveWebhook, NoJob
      <3>2. QED
        BY <3>1
    <2>3. QED
      BY <1>5, <2>1, <2>2 DEF Request
  <1>6. CASE Fail(x)
    BY <1>4, <1>6 DEF Fail
  <1>7. CASE Resume(x)
    <2>0. CASE LockStale(x)
      BY <2>0 DEF LockStale, local
    <2>1. CASE FindOpenOrder(x)
      <3>1. PICK f : job' = [job EXCEPT ![x].order = f]
        BY <2>1 DEF FindOpenOrder
      <3>2. job'[x] = [job[x] EXCEPT !.order = f]
        BY <1>0, <3>1
      <3>3. QED
        BY <1>0, <3>2 DEF Job
    <2>2. CASE LockOrder(x)
      BY <1>0, <2>2 DEF LockOrder
    <2>3. CASE LockPlan(x) \/ LockGrant(x) \/ LockRevoke(x)
      BY <1>3, <2>3 DEF LockPlan, LockGrant, LockRevoke
    <2>4. CASE SettlePaid(x) \/ CommitGrant(x) \/ CommitRevoke(x)
      <3>1. \/ job'[x] = [NoJob EXCEPT !.order = job[x].order]
            \/ job'[x] = [NoJob EXCEPT !.user = job[x].user, !.at = now]
        BY <1>1, <2>4 DEF SettlePaid, CommitSettlement, CommitGrant, CommitRevoke
      <3>2. QED
        BY <3>1 DEF NoJob
    <2>5. CASE End(x)
      BY <1>4, <2>5
    <2>6. QED
      BY <1>7, <2>0, <2>1, <2>2, <2>3, <2>4, <2>5
      DEF Resume, AbortDeadlocked, ReuseOrder, PlaceOrder, CommitCancel, ExpireStaleOrders,
          IgnoreTransfer,
          RecordDuplicate, RecordMismatch, RecordOnly, SettleUnapplied, CommitSettlement,
          InsertFails, ReportPurchase, RefuseRevoke, End
  <1>8. QED
    BY <1>5, <1>6, <1>7, OwnSteps DEF Untouched

-----------------------------------------------------------------------------
(* Time                                                                    *)

LEMMA ExpiryInit == Init => ExpiryInv
  BY Constants
  DEF Init, ExpiryInv, InstantsPast, HeldOrdersAreLate, NeverExpiredEarly, NoJob, NoOrder

LEMMA ExpiryStep ==
    ASSUME IInv, ExpiryInv, [Next]_vars
    PROVE  ExpiryInv'
  <1>0. /\ now \in Nat /\ now' \in Nat /\ now <= now' /\ Window \in Nat
        /\ orders \in [OrderIds -> Order]
        /\ \A x \in Workers : job[x].at \in Nat
    BY ClockAdvances, BoundsAssumption DEF IInv, TypeOK, Job
  <1>1. InstantsPast'
    <2> SUFFICES ASSUME NEW x \in Workers PROVE job'[x].at <= now'
      BY DEF InstantsPast
    <2>1. job'[x].at \in {0, now, job[x].at} /\ job[x].at <= now
      BY InstantChanges DEF ExpiryInv, InstantsPast
    <2>2. QED
      BY <1>0, <2>1
  <1>2. HeldOrdersAreLate'
    <2> SUFFICES ASSUME NEW w \in Workers, NEW o \in OrderIds,
                        pc'[w] \in Expiring, orderLock'[o] = w
                 PROVE  orders'[o].created + Window < job'[w].at
      BY DEF HeldOrdersAreLate
    <2>1. CASE Untouched(w)
      <3>1. /\ pc[w] \in Expiring /\ orderLock[o] = w /\ job'[w] = job[w]
            /\ orders[o].created + Window < job[w].at
        BY <2>1 DEF Untouched, ExpiryInv, HeldOrdersAreLate
      <3>2. orders'[o].created = orders[o].created
        <4>1. CASE orders'[o] = orders[o]
          BY <4>1
        <4>2. CASE orders'[o] # orders[o]
          <5>1. PICK x \in Workers :
                  Places(x, o) \/ Lapses(x, o) \/ Cancels(o) \/ Settles(x, o)
            BY <4>2, OrderChanges
          <5>2. orders[o].status = "pending"
            BY <3>1 DEF Expiring, IInv, TransactionsHoldTheirRows, HoldsItsRows
          <5>3. ~Places(x, o)
            BY <5>2 DEF Places, NoOrder
          <5>4. QED
            BY <1>0, <5>1, <5>3 DEF Lapses, Cancels, Settles, Order
        <4>3. QED
          BY <4>1, <4>2
      <3>3. QED
        BY <3>1, <3>2
    <2>2. CASE ~Untouched(w)
      <3>1. CASE LockStale(w)
        <4>1. PICK q \in StaleOrders(job[w].user, job[w].at) :
                 orderLock' = [orderLock EXCEPT ![q] = w]
          BY <3>1 DEF LockStale
        <4>2. job' = job /\ pc[w] \in Expiring /\ orders' = orders
          BY <3>1 DEF LockStale, local, rows, Expiring
        <4>3. orders[o].created + Window < job[w].at
          <5>1. CASE o = q
            BY <4>1, <5>1 DEF StaleOrders
          <5>2. CASE o # q
            <6>1. orderLock[o] = w
              BY <4>1, <5>2 DEF IInv, TypeOK
            <6>2. QED
              BY <4>2, <6>1 DEF ExpiryInv, HeldOrdersAreLate
          <5>3. QED
            BY <5>1, <5>2
        <4>4. QED
          BY <4>2, <4>3
      <3>2. CASE FindOpenOrder(w)
        <4>1. PICK f : job' = [job EXCEPT ![w].order = f]
          BY <3>2 DEF FindOpenOrder
        <4>2. job'[w] = [job[w] EXCEPT !.order = f] /\ job[w] \in Job
          BY <4>1 DEF IInv, TypeOK
        <4>3. job'[w].at = job[w].at
          BY <4>2 DEF Job
        <4>4. /\ pc[w] \in Expiring /\ orderLock' = orderLock /\ orders' = orders
          BY <3>2 DEF FindOpenOrder, locks, rows, Expiring
        <4>5. QED
          BY <4>3, <4>4 DEF ExpiryInv, HeldOrdersAreLate
      <3>3. QED
        BY <2>2, <3>1, <3>2, LocksOfTheLate
    <2>3. QED
      BY <2>1, <2>2
  <1>3. NeverExpiredEarly'
    <2> SUFFICES ASSUME NEW o \in OrderIds, orders'[o].status = "expired"
                 PROVE  now' > orders'[o].created + Window
      BY DEF NeverExpiredEarly
    <2>1. CASE orders'[o] = orders[o]
      <3>1. now > orders[o].created + Window /\ orders[o].created \in Nat
        BY <1>0, <2>1 DEF ExpiryInv, NeverExpiredEarly, Order
      <3>2. QED
        BY <1>0, <2>1, <3>1
    <2>2. CASE orders'[o] # orders[o]
      <3>1. PICK x \in Workers :
              Places(x, o) \/ Lapses(x, o) \/ Cancels(o) \/ Settles(x, o)
        BY <2>2, OrderChanges
      <3>2. Lapses(x, o)
        BY <1>0, <3>1 DEF Places, Cancels, Settles, Order, NoOrder
      <3>3. orders[o].created + Window < job[x].at
        BY <3>2 DEF Lapses, ExpiryInv, HeldOrdersAreLate
      <3>4. orders'[o].created = orders[o].created /\ orders[o].created \in Nat
        BY <1>0, <3>2 DEF Lapses, Order
      <3>5. job[x].at <= now
        BY DEF ExpiryInv, InstantsPast
      <3>6. QED
        BY <1>0, <3>3, <3>4, <3>5
    <2>3. QED
      BY <2>1, <2>2
  <1>4. QED
    BY <1>1, <1>2, <1>3 DEF ExpiryInv

-----------------------------------------------------------------------------
(* Money                                                                   *)

LEMMA BankKeeps ==
    ASSUME IInv, [Next]_vars, NEW t \in Txns, bank[t] # NoTransfer
    PROVE  bank'[t] = bank[t]
  <1>1. UNCHANGED bank \/ \E q \in Txns, p \in Payments : PayByTransfer(q, p[1], p[2])
    <2>1. ASSUME NEW w \in Workers, Resume(w) PROVE UNCHANGED bank
      BY <2>1 DEF Resume, LockStale, AbortDeadlocked, FindOpenOrder, ReuseOrder,
          PlaceOrder, CommitCancel,
          ExpireStaleOrders, IgnoreTransfer, RecordDuplicate, RecordMismatch, RecordOnly,
          LockOrder, LockPlan, SettleUnapplied, SettlePaid, CommitSettlement, InsertFails,
          ReportPurchase, LockGrant, CommitGrant, LockRevoke, CommitRevoke, RefuseRevoke, world
    <2>2. ASSUME NEW w \in Workers, Request(w) \/ Fail(w) PROVE UNCHANGED bank
      BY <2>2 DEF Request, Fail, Checkout, CancelOrder, ReadBilling, ReceiveWebhook, AskGrant,
          AskRevoke, world
    <2>3. QED
      BY <2>1, <2>2 DEF Next, RefuseWebhook, Tick, vars, world
  <1>2. bank = [q \in Txns |-> bank[q]]
    BY DEF IInv, TypeOK
  <1>3. QED
    BY <1>1, <1>2 DEF PayByTransfer

\* An order's learner and plan are fixed when it is placed.
LEMMA OrderTermsStay ==
    ASSUME IInv, [Next]_vars, NEW o \in OrderIds, orders[o] # NoOrder
    PROVE  orders'[o].plan = orders[o].plan /\ orders'[o].user = orders[o].user
  <1>1. CASE orders'[o] = orders[o]
    BY <1>1
  <1>2. CASE orders'[o] # orders[o]
    <2>1. PICK w \in Workers : Lapses(w, o) \/ Cancels(o) \/ Settles(w, o)
      BY <1>2, OrderChanges DEF Places
    <2>2. orders[o] \in Order
      BY DEF IInv, TypeOK
    <2>3. QED
      BY <2>1, <2>2 DEF Lapses, Cancels, Settles, Order
  <1>3. QED
    BY <1>1, <1>2

LEMMA PayingStays ==
    ASSUME IInv, [Next]_vars, NEW t \in Txns, NEW o \in OrderIds, bank[t] # NoTransfer
    PROVE  Pays(t, o)' <=> Pays(t, o)
  <1>1. bank'[t] = bank[t]
    BY BankKeeps
  <1>2. CASE bank[t].order = o
    <2>1. orders'[o].plan = orders[o].plan
      BY <1>2, OrderTermsStay DEF IInv, RowsAreComplete
    <2>2. QED
      BY <1>1, <1>2, <2>1 DEF Pays, AmountMatches
  <1>3. CASE bank[t].order # o
    BY <1>1, <1>3 DEF Pays
  <1>4. QED
    BY <1>2, <1>3

LEMMA SettlingFacts ==
    ASSUME IInv, NEW w \in Workers, SettleUnapplied(w) \/ SettlePaid(w)
    PROVE  /\ pc[w] = "settle" /\ job[w].order \in OrderIds /\ job[w].txn \in Txns
           /\ bank[job[w].txn].order = job[w].order
           /\ orders[job[w].order].status \notin Settled \cup {"none"}
           /\ job[w].user = orders[job[w].order].user
           /\ job[w].plan = orders[job[w].order].plan
           /\ job[w].user \in Users /\ job[w].plan \in Plans /\ job[w].at \in Nat
           /\ orders'[job[w].order] = [orders[job[w].order] EXCEPT
                !.status = IF SettlePaid(w) THEN "paid" ELSE "paid_unapplied",
                !.txn = job[w].txn, !.paidAt = job[w].at]
           /\ orders'[job[w].order].status = IF SettlePaid(w) THEN "paid" ELSE "paid_unapplied"
           /\ orders'[job[w].order].txn = job[w].txn
           /\ events' = events \cup {EventOf(job[w].txn, TRUE, TRUE)}
           /\ Answered(job[w].txn)
           /\ UNCHANGED <<bank, reports>>
  <1> DEFINE o == job[w].order
  <1>1. pc[w] = "settle" /\ orders' = Paid(w, IF SettlePaid(w) THEN "paid" ELSE "paid_unapplied")
    BY SettleExclusive DEF SettleUnapplied, SettlePaid, CommitSettlement
  <1>2. JobIsComplete(w) /\ HoldsItsRows(w) /\ orders \in [OrderIds -> Order]
        /\ job[w] \in Job
    BY DEF IInv, TypeOK, TransactionsHoldTheirRows
  <1>3. o \in OrderIds
    BY <1>1, <1>2 DEF JobIsComplete
  <1>4. orders'[o] = [orders[o] EXCEPT
          !.status = IF SettlePaid(w) THEN "paid" ELSE "paid_unapplied",
          !.txn = job[w].txn, !.paidAt = job[w].at]
    BY <1>1, <1>2, <1>3 DEF Paid
  <1>5. /\ orders'[o].status = IF SettlePaid(w) THEN "paid" ELSE "paid_unapplied"
        /\ orders'[o].txn = job[w].txn
    <2>1. orders[o] \in Order
      BY <1>2, <1>3
    <2> HIDE DEF o
    <2>2. QED
      BY <1>4, <2>1 DEF Order
  <1>6. /\ events' = events \cup {EventOf(job[w].txn, TRUE, TRUE)}
        /\ Answered(job[w].txn) /\ UNCHANGED <<bank, reports>>
    BY DEF SettleUnapplied, SettlePaid, CommitSettlement, world
  <1>7. /\ job[w].txn \in Txns /\ bank[job[w].txn].order = o
        /\ job[w].user \in Users /\ job[w].plan \in Plans /\ job[w].at \in Nat
    BY <1>1, <1>2 DEF JobIsComplete, Job
  <1>8. orders[o].status \notin Settled \cup {"none"}
        /\ job[w].user = orders[o].user /\ job[w].plan = orders[o].plan
    BY <1>1, <1>2 DEF HoldsItsRows
  <1>9. QED
    BY <1>1, <1>3, <1>4, <1>5, <1>6, <1>7, <1>8

LEMMA SettledStays ==
    ASSUME IInv, [Next]_vars, NEW o \in OrderIds, orders[o].status \in Settled
    PROVE  orders'[o] = orders[o]
  <1> SUFFICES ASSUME orders'[o] # orders[o] PROVE FALSE
    OBVIOUS
  <1>1. PICK w \in Workers : Places(w, o) \/ Lapses(w, o) \/ Cancels(o) \/ Settles(w, o)
    BY OrderChanges
  <1>2. ~Settles(w, o)
    BY SettlingFacts DEF Settles
  <1>3. QED
    BY <1>1, <1>2 DEF Places, Lapses, Cancels, Settled, NoOrder

\* Every row a step adds to the log, and what made it.
Logs(e) ==
    \/ \E t \in Txns : RefuseWebhook(t) /\ e = EventOf(t, FALSE, FALSE)
    \/ \E w \in Workers :
          \/ /\ IgnoreTransfer(w) \/ RecordMismatch(w)
             /\ e = EventOf(job[w].txn, TRUE, FALSE)
          \/ /\ RecordDuplicate(w)
             /\ e = EventOf(job[w].txn, TRUE,
                            orders[bank[job[w].txn].order].txn = job[w].txn)
          \/ /\ SettleUnapplied(w) \/ SettlePaid(w)
             /\ e = EventOf(job[w].txn, TRUE, TRUE)

LEMMA LogGrows ==
    ASSUME IInv, [Next]_vars
    PROVE  events \subseteq events' /\ \A e \in events' : e \in events \/ Logs(e)
  <1>1. CASE UNCHANGED events
    BY <1>1
  <1>2. CASE \E t \in Txns : RefuseWebhook(t)
    BY <1>2 DEF RefuseWebhook, Logs
  <1>3. CASE \E w \in Workers : IgnoreTransfer(w) \/ RecordDuplicate(w) \/ RecordMismatch(w)
    BY <1>3 DEF IgnoreTransfer, RecordDuplicate, RecordMismatch, RecordOnly, Logs
  <1>4. CASE \E w \in Workers : SettleUnapplied(w) \/ SettlePaid(w)
    <2>1. PICK w \in Workers : SettleUnapplied(w) \/ SettlePaid(w)
      BY <1>4
    <2>2. events' = events \cup {EventOf(job[w].txn, TRUE, TRUE)}
      BY <2>1, SettlingFacts
    <2>3. Logs(EventOf(job[w].txn, TRUE, TRUE))
      BY <2>1 DEF Logs
    <2>4. QED
      BY <2>2, <2>3
  <1>5. \/ UNCHANGED events
        \/ \E t \in Txns : RefuseWebhook(t)
        \/ \E w \in Workers : \/ IgnoreTransfer(w) \/ RecordDuplicate(w) \/ RecordMismatch(w)
                              \/ SettleUnapplied(w) \/ SettlePaid(w)
    <2>1. ASSUME NEW w \in Workers, Request(w) \/ Fail(w) PROVE UNCHANGED events
      BY <2>1 DEF Request, Fail, Checkout, CancelOrder, ReadBilling, ReceiveWebhook, AskGrant,
          AskRevoke, rows
    <2>2. ASSUME NEW w \in Workers, Resume(w)
          PROVE  \/ UNCHANGED events
                 \/ IgnoreTransfer(w) \/ RecordDuplicate(w) \/ RecordMismatch(w)
                 \/ SettleUnapplied(w) \/ SettlePaid(w)
      BY <2>2 DEF Resume, LockStale, AbortDeadlocked, FindOpenOrder, ReuseOrder,
          PlaceOrder, CommitCancel,
          ExpireStaleOrders, LockOrder, LockPlan, InsertFails, ReportPurchase, LockGrant,
          CommitGrant, LockRevoke, CommitRevoke, RefuseRevoke, rows
    <2>3. (\E t \in Txns, p \in Payments : PayByTransfer(t, p[1], p[2])) \/ Tick
            \/ UNCHANGED vars => UNCHANGED events
      BY DEF PayByTransfer, Tick, vars, rows
    <2>4. QED
      BY <2>1, <2>2, <2>3 DEF Next
  <1>6. QED
    BY <1>1, <1>2, <1>3, <1>4, <1>5

\* A transfer is acknowledged only by the step that dealt with it.
LEMMA AckGrows ==
    ASSUME IInv, [Next]_vars, NEW t \in acked', t \notin acked
    PROVE  \E w \in Workers :
              /\ t = job[w].txn
              /\ \/ IgnoreTransfer(w) \/ RecordDuplicate(w) \/ RecordMismatch(w)
                 \/ SettleUnapplied(w) \/ SettlePaid(w)
  <1>1. ASSUME NEW w \in Workers, Request(w) \/ Fail(w) PROVE UNCHANGED acked
    BY <1>1 DEF Request, Fail, Checkout, CancelOrder, ReadBilling, ReceiveWebhook, AskGrant,
        AskRevoke
  <1>2. ASSUME NEW w \in Workers, Resume(w)
        PROVE  \/ UNCHANGED acked
               \/ /\ Answered(job[w].txn)
                  /\ \/ IgnoreTransfer(w) \/ RecordDuplicate(w) \/ RecordMismatch(w)
                     \/ SettleUnapplied(w) \/ SettlePaid(w)
    <2>1. CASE \/ IgnoreTransfer(w) \/ RecordDuplicate(w) \/ RecordMismatch(w)
               \/ SettleUnapplied(w) \/ SettlePaid(w)
      BY <2>1, SettlingFacts DEF IgnoreTransfer, RecordDuplicate, RecordMismatch, RecordOnly
    <2>2. QED
      BY <1>2, <2>1 DEF Resume, LockStale, AbortDeadlocked, FindOpenOrder, ReuseOrder,
          PlaceOrder, CommitCancel,
          ExpireStaleOrders, LockOrder, LockPlan, InsertFails, ReportPurchase, LockGrant,
          CommitGrant, LockRevoke, CommitRevoke, RefuseRevoke
  <1>3. /\ \A q \in Txns : RefuseWebhook(q) => UNCHANGED acked
        /\ \A q \in Txns, p \in Payments : PayByTransfer(q, p[1], p[2]) => UNCHANGED acked
        /\ Tick \/ UNCHANGED vars => UNCHANGED acked
    BY DEF RefuseWebhook, PayByTransfer, Tick, vars
  <1>4. QED
    BY <1>1, <1>2, <1>3 DEF Next, Answered

LEMMA MoneyInit == Init => MoneyInv
  BY Constants
  DEF Init, MoneyInv, FollowsMoney, BooksReconcile, AckedMoneyIsKept, NoOrder, Settled

\* A transfer that names an order has arrived.
LEMMA PayingArrived ==
    ASSUME NEW t, NEW o \in OrderIds, Pays(t, o)
    PROVE  bank[t] # NoTransfer
  BY Constants DEF Pays, NoTransfer

LEMMA FollowsStep ==
    ASSUME IInv, MoneyInv, [Next]_vars, NEW x \in Workers
    PROVE  FollowsMoney(x)'
  <1>0. FollowsMoney(x) /\ JobIsComplete(x) /\ job = [w \in Workers |-> job[w]]
    BY DEF MoneyInv, IInv, TypeOK
  <1>1. CASE Untouched(x)
    <2>1. pc'[x] = pc[x] /\ job'[x] = job[x]
      BY <1>1 DEF Untouched
    <2>2. pc[x] \in {"order", "plan", "settle"} =>
             bank[job[x].txn] # NoTransfer /\ bank'[job[x].txn] = bank[job[x].txn]
      BY <1>0, BankKeeps DEF FollowsMoney, JobIsComplete
    <2>3. pc[x] \in {"plan", "settle"} => Pays(job[x].txn, job[x].order)'
      <3> SUFFICES ASSUME pc[x] \in {"plan", "settle"}
                   PROVE  Pays(job[x].txn, job[x].order)'
        OBVIOUS
      <3>1. job[x].txn \in Txns /\ job[x].order \in OrderIds /\ bank[job[x].txn] # NoTransfer
        BY <1>0 DEF FollowsMoney, JobIsComplete
      <3>2. PICK t \in Txns, o \in OrderIds : t = job[x].txn /\ o = job[x].order
        BY <3>1
      <3>3. Pays(t, o)'
        BY <1>0, <3>1, <3>2, PayingStays DEF FollowsMoney
      <3>4. QED
        BY <2>1, <3>2, <3>3 DEF Pays, AmountMatches
    <2>4. QED
      BY <2>1, <2>2, <2>3 DEF FollowsMoney, Pays, AmountMatches
  <1>2. CASE ~Untouched(x)
    <2>1. CASE pc'[x] = "order"
      <3>1. PICK t \in Txns : ReceiveWebhook(x, t)
        BY <1>2, <2>1, Arrivals
      <3>2. job'[x].txn = t /\ bank[t] # NoTransfer
        BY <1>0, <3>1 DEF ReceiveWebhook, Begin, NoJob
      <3>3. QED
        BY <2>1, <3>2, BankKeeps DEF FollowsMoney
    <2>2. CASE pc'[x] = "plan"
      <3>1. LockOrder(x)
        BY <1>2, <2>2, Arrivals
      <3>2. PICK t \in Txns, o \in OrderIds :
              /\ t = job[x].txn /\ o = bank[t].order
              /\ AmountMatches(t, o) /\ bank[t] # NoTransfer
        BY <1>0, <3>1 DEF LockOrder, FollowsMoney, JobIsComplete
      <3>3. job'[x].txn = t /\ job'[x].order = o
        BY <1>0, <3>1, <3>2 DEF LockOrder
      <3>4. Pays(t, o)'
        BY <3>2, PayingStays DEF Pays
      <3>5. bank'[t] = bank[t]
        BY <3>2, BankKeeps
      <3>6. QED
        BY <2>2, <3>2, <3>3, <3>4, <3>5 DEF FollowsMoney, Pays, AmountMatches
    <2>3. CASE pc'[x] = "settle"
      <3>1. LockPlan(x)
        BY <1>2, <2>3, Arrivals
      <3>2. pc[x] = "plan" /\ UNCHANGED <<job, bank, orders>>
        BY <3>1 DEF LockPlan, LockSubscription, rows, world
      <3>3. QED
        BY <1>0, <3>2 DEF FollowsMoney, Pays, AmountMatches
    <2>4. QED
      BY <2>1, <2>2, <2>3 DEF FollowsMoney
  <1>3. QED
    BY <1>1, <1>2

LEMMA BooksStep ==
    ASSUME IInv, MoneyInv, [Next]_vars
    PROVE  BooksReconcile'
  <1>1. ASSUME NEW o \in OrderIds, orders'[o].status \in Settled
        PROVE  /\ orders'[o].txn \in Txns
               /\ Pays(orders[o].txn, o)'
               /\ EventOf(orders[o].txn, TRUE, TRUE)' \in events'
    <2>1. PICK t \in Txns : /\ t = orders'[o].txn /\ Pays(t, o)
                            /\ EventOf(t, TRUE, TRUE) \in events'
      <3>1. CASE orders'[o] = orders[o]
        BY <1>1, <3>1, LogGrows DEF MoneyInv, BooksReconcile
      <3>2. CASE orders'[o] # orders[o]
        <4>1. PICK w \in Workers : Places(w, o) \/ Lapses(w, o) \/ Cancels(o) \/ Settles(w, o)
          BY <3>2, OrderChanges
        <4>2. orders \in [OrderIds -> Order]
          BY DEF IInv, TypeOK
        <4>3. Settles(w, o)
          BY <1>1, <4>1, <4>2 DEF Places, Lapses, Cancels, Settled, NoOrder, Order
        <4>4. /\ o = job[w].order /\ pc[w] = "settle" /\ job[w].txn \in Txns
              /\ orders'[o].txn = job[w].txn
              /\ EventOf(job[w].txn, TRUE, TRUE) \in events'
          BY <4>3, SettlingFacts DEF Settles
        <4>5. Pays(job[w].txn, o)
          BY <4>4 DEF MoneyInv, FollowsMoney
        <4>6. QED
          BY <4>4, <4>5
      <3>3. QED
        BY <3>1, <3>2
    <2>2. bank[t] # NoTransfer
      BY <2>1, PayingArrived
    <2>3. Pays(t, o)' /\ bank'[t] = bank[t]
      BY <2>1, <2>2, PayingStays, BankKeeps
    <2>4. Pays(orders[o].txn, o)'
      BY <2>1, <2>3 DEF Pays, AmountMatches
    <2>5. EventOf(orders[o].txn, TRUE, TRUE)' \in events'
      BY <2>1, <2>3 DEF EventOf
    <2>6. QED
      BY <2>1, <2>4, <2>5
  <1>2. ASSUME NEW e \in events', e.processed
        PROVE  /\ e.valid /\ e.order \in OrderIds
               /\ orders'[e.order].status \in Settled /\ orders'[e.order].txn = e.txn
    <2>1. CASE e \in events
      BY <1>2, <2>1, SettledStays DEF MoneyInv, BooksReconcile
    <2>2. CASE Logs(e)
      <3>1. CASE \E t \in Txns : RefuseWebhook(t) /\ e = EventOf(t, FALSE, FALSE)
        BY <1>2, <3>1 DEF EventOf
      <3>2. CASE \E w \in Workers : e = EventOf(job[w].txn, TRUE, FALSE)
        BY <1>2, <3>2 DEF EventOf
      <3>3. ASSUME NEW w \in Workers, RecordDuplicate(w),
                   e = EventOf(job[w].txn, TRUE,
                               orders[bank[job[w].txn].order].txn = job[w].txn)
            PROVE  /\ e.valid /\ e.order \in OrderIds
                   /\ orders'[e.order].status \in Settled /\ orders'[e.order].txn = e.txn
        <4>1. /\ e.valid /\ e.order = bank[job[w].txn].order /\ e.txn = job[w].txn
              /\ orders[e.order].txn = e.txn
          BY <1>2, <3>3 DEF EventOf
        <4>2. e.order \in OrderIds /\ orders[e.order].status \in Settled
          BY <3>3, <4>1 DEF RecordDuplicate
        <4>3. QED
          BY <4>1, <4>2, SettledStays
      <3>4. ASSUME NEW w \in Workers, SettleUnapplied(w) \/ SettlePaid(w),
                   e = EventOf(job[w].txn, TRUE, TRUE)
            PROVE  /\ e.valid /\ e.order \in OrderIds
                   /\ orders'[e.order].status \in Settled /\ orders'[e.order].txn = e.txn
        <4>1. e.valid /\ e.order = job[w].order /\ e.txn = job[w].txn
          BY <3>4, SettlingFacts DEF EventOf
        <4>2. /\ job[w].order \in OrderIds /\ orders'[job[w].order].txn = job[w].txn
              /\ orders'[job[w].order].status \in {"paid", "paid_unapplied"}
          BY <3>4, SettlingFacts
        <4>3. QED
          BY <4>1, <4>2 DEF Settled
      <3>5. QED
        BY <2>2, <3>1, <3>2, <3>3, <3>4 DEF Logs
    <2>3. QED
      BY <2>1, <2>2, LogGrows
  <1>3. QED
    BY <1>1, <1>2 DEF BooksReconcile

LEMMA AckedStep ==
    ASSUME IInv, MoneyInv, [Next]_vars, NEW t \in acked'
    PROVE  /\ bank'[t] # NoTransfer
           /\ \E e \in events' : e.txn = t /\ e.valid
           /\ \A o \in OrderIds : Pays(t, o)' => orders'[o].status \in Settled
  <1>1. CASE t \in acked
    <2>1. t \in Txns /\ bank[t] # NoTransfer
      BY <1>1 DEF IInv, TypeOK, MoneyInv
    <2>2. \E e \in events' : e.txn = t /\ e.valid
      BY <1>1, LogGrows DEF MoneyInv, AckedMoneyIsKept
    <2>3. ASSUME NEW o \in OrderIds, Pays(t, o)' PROVE orders'[o].status \in Settled
      <3>1. Pays(t, o)
        BY <2>1, <2>3, PayingStays
      <3>2. orders[o].status \in Settled
        BY <1>1, <3>1 DEF MoneyInv, AckedMoneyIsKept
      <3>3. QED
        BY <3>2, SettledStays
    <2>4. QED
      BY <2>1, <2>2, <2>3, BankKeeps
  <1>2. CASE t \notin acked
    <2>1. PICK w \in Workers :
            /\ t = job[w].txn
            /\ \/ IgnoreTransfer(w) \/ RecordDuplicate(w) \/ RecordMismatch(w)
               \/ SettleUnapplied(w) \/ SettlePaid(w)
      BY <1>2, AckGrows
    <2>2. pc[w] \in {"order", "settle"}
      BY <2>1, SettlingFacts DEF IgnoreTransfer, RecordDuplicate, RecordMismatch
    <2>3. t \in Txns /\ bank[t] # NoTransfer
      BY <2>1, <2>2 DEF IInv, JobIsComplete, MoneyInv, FollowsMoney
    <2>4. \E e \in events' : e.txn = t /\ e.valid
      <3>1. \E p : EventOf(t, TRUE, p) \in events'
        BY <2>1, SettlingFacts DEF IgnoreTransfer, RecordDuplicate, RecordMismatch, RecordOnly
      <3>2. QED
        BY <3>1 DEF EventOf
    <2>5. ASSUME NEW o \in OrderIds, Pays(t, o)' PROVE orders'[o].status \in Settled
      <3>1. Pays(t, o)
        BY <2>3, <2>5, PayingStays
      <3>2. bank[t].order = o /\ AmountMatches(t, o)
        BY <3>1 DEF Pays
      <3>3. CASE SettleUnapplied(w) \/ SettlePaid(w)
        BY <2>1, <3>2, <3>3, SettlingFacts DEF Settled
      <3>4. RecordDuplicate(w) => orders[o].status \in Settled
        BY <2>1, <3>2 DEF RecordDuplicate
      <3>5. ~IgnoreTransfer(w) /\ ~RecordMismatch(w)
        BY <2>1, <3>2 DEF IgnoreTransfer, RecordMismatch
      <3>6. QED
        BY <2>1, <3>3, <3>4, <3>5, SettledStays
    <2>6. QED
      BY <2>3, <2>4, <2>5, BankKeeps
  <1>3. QED
    BY <1>1, <1>2

LEMMA MoneyStep ==
    ASSUME IInv, MoneyInv, [Next]_vars
    PROVE  MoneyInv'
  <1>1. AckedMoneyIsKept' /\ \A t \in acked' : bank'[t] # NoTransfer
    BY AckedStep DEF AckedMoneyIsKept
  <1>2. QED
    BY <1>1, FollowsStep, BooksStep DEF MoneyInv

-----------------------------------------------------------------------------
(* The purchase report                                                     *)

LEMMA ReportInit == Init => ReportInv
  BY DEF Init, ReportInv, ReportedAtMostOnce

LEMMA ReportChanges ==
    ASSUME IInv, [Next]_vars, NEW o \in OrderIds, reports'[o] # reports[o]
    PROVE  \E w \in Workers : /\ ReportPurchase(w) /\ o = job[w].order
                              /\ reports'[o] = reports[o] + 1
  <1>1. PICK w \in Workers : ReportPurchase(w)
    <2>1. ASSUME NEW w \in Workers, Request(w) \/ Fail(w) PROVE UNCHANGED reports
      BY <2>1 DEF Request, Fail, Checkout, CancelOrder, ReadBilling, ReceiveWebhook, AskGrant,
          AskRevoke, world
    <2>2. ASSUME NEW w \in Workers, Resume(w) PROVE UNCHANGED reports \/ ReportPurchase(w)
      BY <2>2 DEF Resume, LockStale, AbortDeadlocked, FindOpenOrder, ReuseOrder,
          PlaceOrder, CommitCancel,
          ExpireStaleOrders, IgnoreTransfer, RecordDuplicate, RecordMismatch, RecordOnly,
          LockOrder, LockPlan, SettleUnapplied, SettlePaid, CommitSettlement, InsertFails,
          LockGrant, CommitGrant, LockRevoke, CommitRevoke, RefuseRevoke, world
    <2>3. QED
      BY <2>1, <2>2 DEF Next, RefuseWebhook, PayByTransfer, Tick, vars, world
  <1>2. reports \in [OrderIds -> Nat]
    BY DEF IInv, TypeOK
  <1>3. QED
    BY <1>1, <1>2 DEF ReportPurchase

\* The order a settlement is about has not been reported and nobody is about to.
LEMMA SettlingUnreported ==
    ASSUME IInv, ReportInv, NEW x \in Workers, SettlePaid(x)
    PROVE  /\ job[x].order \in OrderIds
           /\ orders'[job[x].order].status = "paid" /\ reports'[job[x].order] = 0
           /\ pc'[x] = "report" /\ job'[x].order = job[x].order
           /\ \A y \in Workers : y # x =>
                 /\ pc'[y] = pc[y] /\ job'[y] = job[y]
                 /\ pc[y] = "report" => job[y].order # job[x].order
  <1> DEFINE o == job[x].order
  <1>1. o \in OrderIds /\ orders[o].status \notin Settled /\ orders'[o].status = "paid"
        /\ reports' = reports
    BY SettlingFacts
  <1>2. reports[o] \in Nat /\ ~(reports[o] > 0)
    BY <1>1 DEF IInv, TypeOK, ReportInv, ReportedAtMostOnce, Settled
  <1>3. EndAt(x, "report", [NoJob EXCEPT !.order = o])
    BY DEF SettlePaid, CommitSettlement
  <1>4. pc'[x] = "report" /\ job'[x].order = o
    BY <1>3, EndFacts DEF NoJob
  <1>5. \A y \in Workers : y # x => pc'[y] = pc[y] /\ job'[y] = job[y]
    BY <1>3, EndFacts
  <1>6. \A y \in Workers : pc[y] = "report" => job[y].order # o
    BY <1>1 DEF ReportInv, Settled
  <1>7. QED
    BY <1>1, <1>2, <1>4, <1>5, <1>6

LEMMA ReportStep ==
    ASSUME IInv, ReportInv, [Next]_vars
    PROVE  ReportInv'
  <1>0. /\ \A x \in Workers : pc[x] = "report" => job[x].order \in OrderIds
        /\ \A o \in OrderIds : reports[o] \in Nat
    BY DEF IInv, JobIsComplete, TypeOK
  <1>1. ASSUME NEW x \in Workers, pc'[x] = "report"
        PROVE  orders'[job'[x].order].status = "paid" /\ reports'[job'[x].order] = 0
    <2>1. CASE Untouched(x)
      <3>1. PICK o \in OrderIds : /\ o = job[x].order /\ o = job'[x].order /\ pc[x] = "report"
                                  /\ orders[o].status = "paid" /\ reports[o] = 0
        BY <1>0, <1>1, <2>1 DEF Untouched, ReportInv
      <3>2. orders'[o] = orders[o]
        BY <3>1, SettledStays DEF Settled
      <3>3. reports'[o] = reports[o]
        <4> SUFFICES ASSUME reports'[o] # reports[o] PROVE FALSE
          OBVIOUS
        <4>1. PICK w \in Workers : ReportPurchase(w) /\ o = job[w].order
          BY ReportChanges
        <4>2. pc[w] = "report" /\ pc'[w] = "idle"
          BY <4>1, EndFacts DEF ReportPurchase, End
        <4>3. w = x
          BY <3>1, <4>1, <4>2 DEF ReportInv
        <4>4. QED
          BY <1>1, <4>2, <4>3
      <3>4. QED
        BY <3>1, <3>2, <3>3
    <2>2. CASE ~Untouched(x)
      BY <1>1, <2>2, Arrivals, SettlingUnreported
    <2>3. QED
      BY <2>1, <2>2
  <1>2. ASSUME NEW w \in Workers, NEW x \in Workers, pc'[w] = "report", pc'[x] = "report",
               job'[w].order = job'[x].order, w # x
        PROVE  FALSE
    <2>1. CASE Untouched(w) /\ Untouched(x)
      BY <1>2, <2>1 DEF Untouched, ReportInv
    <2>2. CASE ~Untouched(w)
      BY <1>2, <2>2, Arrivals, SettlingUnreported
    <2>3. CASE ~Untouched(x)
      BY <1>2, <2>3, Arrivals, SettlingUnreported
    <2>4. QED
      BY <2>1, <2>2, <2>3
  <1>3. ASSUME NEW o \in OrderIds, reports'[o] > 0
        PROVE  reports'[o] = 1 /\ orders'[o].status = "paid"
    <2>1. reports'[o] = 1 /\ orders[o].status = "paid"
      <3>1. CASE reports'[o] = reports[o]
        BY <1>3, <3>1 DEF ReportInv, ReportedAtMostOnce
      <3>2. CASE reports'[o] # reports[o]
        <4>1. PICK w \in Workers : ReportPurchase(w) /\ o = job[w].order
                                     /\ reports'[o] = reports[o] + 1
          BY <3>2, ReportChanges
        <4>2. pc[w] = "report"
          BY <4>1 DEF ReportPurchase
        <4>3. QED
          BY <4>1, <4>2 DEF ReportInv
      <3>3. QED
        BY <3>1, <3>2
    <2>2. QED
      BY <2>1, SettledStays DEF Settled
  <1>4. QED
    BY <1>1, <1>2, <1>3 DEF ReportInv, ReportedAtMostOnce

-----------------------------------------------------------------------------
(* Plans                                                                   *)

\* What one step does to a learner's plan.
LEMMA PlanChanges ==
    ASSUME IInv, [Next]_vars, NEW u \in Users, subs'[u] # subs[u]
    PROVE  \E w \in Workers :
              /\ u = job[w].user /\ saw[w] = subs[u] /\ job[w].at \in Nat
              /\ \/ SettlePaid(w) /\ job[w].plan \in Plans
                      /\ subs'[u] = Extended(subs[u], job[w].plan, job[w].at)
                 \/ CommitGrant(w) /\ job[w].plan \in Plans
                      /\ subs'[u] = [tier |-> Tier[job[w].plan],
                                     expires |-> job[w].at + Days[job[w].plan]]
                 \/ CommitRevoke(w) /\ Running(subs[u], job[w].at)
                      /\ subs'[u] = [subs[u] EXCEPT !.expires = job[w].at]
  <1>1. PICK w \in Workers : SettlePaid(w) \/ CommitGrant(w) \/ CommitRevoke(w)
    <2>1. ASSUME NEW w \in Workers, Request(w) \/ Fail(w) PROVE UNCHANGED subs
      BY <2>1 DEF Request, Fail, Checkout, CancelOrder, ReadBilling, ReceiveWebhook, AskGrant,
          AskRevoke, rows
    <2>2. ASSUME NEW w \in Workers, Resume(w)
          PROVE  UNCHANGED subs \/ SettlePaid(w) \/ CommitGrant(w) \/ CommitRevoke(w)
      BY <2>2 DEF Resume, LockStale, AbortDeadlocked, FindOpenOrder, ReuseOrder,
          PlaceOrder, CommitCancel,
          ExpireStaleOrders, IgnoreTransfer, RecordDuplicate, RecordMismatch, RecordOnly,
          LockOrder, LockPlan, SettleUnapplied, InsertFails, ReportPurchase, LockGrant,
          LockRevoke, RefuseRevoke, rows
    <2>3. QED
      BY <2>1, <2>2 DEF Next, RefuseWebhook, PayByTransfer, Tick, vars, rows
  <1>2. /\ pc[w] \in {"settle", "grant", "revoke"} /\ ~InsertConflict(w, job[w].user)
    BY <1>1 DEF SettlePaid, CommitSettlement, CommitGrant, CommitRevoke, InsertConflict, Running
  <1>3. job[w].user \in Users /\ saw[w] = subs[job[w].user]
    BY <1>2, PlanIsCurrent
  <1>4. /\ subs = [v \in Users |-> subs[v]] /\ job[w].at \in Nat
        /\ pc[w] \in {"settle", "grant"} => job[w].plan \in Plans
    BY DEF IInv, TypeOK, Job, JobIsComplete
  <1>5. CASE SettlePaid(w)
    <2>1. /\ subs' = [subs EXCEPT ![job[w].user] = Extended(saw[w], job[w].plan, job[w].at)]
          /\ pc[w] = "settle"
      BY <1>5 DEF SettlePaid, CommitSettlement
    <2>2. QED
      BY <1>3, <1>4, <1>5, <2>1
  <1>6. CASE CommitGrant(w)
    <2>1. /\ subs' = [subs EXCEPT ![job[w].user] =
                        [tier |-> Tier[job[w].plan],
                         expires |-> job[w].at + Days[job[w].plan]]]
          /\ pc[w] = "grant"
      BY <1>6 DEF CommitGrant
    <2>2. QED
      BY <1>3, <1>4, <1>6, <2>1
  <1>7. CASE CommitRevoke(w)
    <2>1. /\ subs' = [subs EXCEPT ![job[w].user].expires = job[w].at]
          /\ Running(saw[w], job[w].at)
      BY <1>7 DEF CommitRevoke
    <2>2. u = job[w].user /\ subs'[u] = [subs[u] EXCEPT !.expires = job[w].at]
      BY <1>3, <1>4, <2>1
    <2>3. QED
      BY <1>3, <1>4, <1>7, <2>1, <2>2
  <1>8. QED
    BY <1>1, <1>5, <1>6, <1>7

\* The tier of a running plan changes with a row of the admin log.
LEMMA SwitchStep ==
    ASSUME IInv, ExpiryInv, [Next]_vars, NEW u \in Users,
           Running(subs[u], now), subs'[u].tier # subs[u].tier
    PROVE  audit'[u] > audit[u]
  <1>0. now \in Nat /\ audit \in [Users -> Nat] /\ subs[u] \in Subscription
    BY DEF IInv, TypeOK
  <1>1. PICK w \in Workers :
          /\ u = job[w].user /\ saw[w] = subs[u] /\ job[w].at \in Nat
          /\ \/ SettlePaid(w) /\ subs'[u] = Extended(subs[u], job[w].plan, job[w].at)
             \/ CommitGrant(w)
             \/ CommitRevoke(w) /\ subs'[u] = [subs[u] EXCEPT !.expires = job[w].at]
    BY PlanChanges
  <1>2. CASE CommitGrant(w)
    BY <1>0, <1>1, <1>2 DEF CommitGrant
  <1>3. CASE CommitRevoke(w) /\ subs'[u] = [subs[u] EXCEPT !.expires = job[w].at]
    BY <1>0, <1>3 DEF Subscription
  <1>4. CASE SettlePaid(w) /\ subs'[u] = Extended(subs[u], job[w].plan, job[w].at)
    <2>1. job[w].at <= now /\ subs[u].expires > now /\ subs[u] # NoSub
          /\ subs[u].expires \in Nat
      BY <1>0 DEF ExpiryInv, InstantsPast, Running, Subscription
    <2>2. Running(saw[w], job[w].at)
      BY <1>0, <1>1, <2>1 DEF Running
    <2>3. subs[u].tier = Tier[job[w].plan]
      BY <1>1, <1>4, <2>2 DEF SettlePaid, Rival
    <2>4. QED
      BY <1>4, <2>3 DEF Extended
  <1>5. QED
    BY <1>1, <1>2, <1>3, <1>4

LEMMA ParkStep ==
    ASSUME IInv, [Next]_vars, NEW o \in OrderIds,
           orders'[o].status = "paid_unapplied", orders[o].status # "paid_unapplied"
    PROVE  /\ Running(subs[orders[o].user], orders'[o].paidAt)
           /\ subs[orders[o].user].tier # Tier[orders[o].plan]
  <1>1. PICK w \in Workers : Places(w, o) \/ Lapses(w, o) \/ Cancels(o) \/ Settles(w, o)
    BY OrderChanges
  <1>2. orders \in [OrderIds -> Order]
    BY DEF IInv, TypeOK
  <1>3. Settles(w, o)
    BY <1>1, <1>2 DEF Places, Lapses, Cancels, NoOrder, Order
  <1>4. SettleUnapplied(w) /\ o = job[w].order
        /\ job[w].user = orders[o].user /\ job[w].plan = orders[o].plan
    BY <1>3, SettlingFacts DEF Settles
  <1>5. orders'[o].paidAt = job[w].at
    BY <1>2, <1>3 DEF Settles, Order
  <1>6. pc[w] = "settle" /\ ~InsertConflict(w, job[w].user) /\ Rival(w)
    BY <1>4 DEF SettleUnapplied, CommitSettlement
  <1>7. saw[w] = subs[job[w].user]
    BY <1>6, PlanIsCurrent
  <1>8. QED
    BY <1>4, <1>5, <1>6, <1>7 DEF Rival

\* What a payment does to the plan: it never ends earlier, it lasts the days that
\* were paid for, and a running plan gets them on top.
DaysAreAdded(o) ==
    LET u  == orders[o].user
        d  == Days[orders[o].plan]
        at == orders'[o].paidAt
    IN  /\ subs'[u].expires >= subs[u].expires
        /\ subs'[u].expires >= at + d
        /\ Running(subs[u], at) => subs'[u].expires = subs[u].expires + d

LEMMA PaymentStep ==
    ASSUME IInv, [Next]_vars, NEW o \in OrderIds,
           orders'[o].status = "paid", orders[o].status # "paid"
    PROVE  DaysAreAdded(o)
  <1>1. PICK w \in Workers : Places(w, o) \/ Lapses(w, o) \/ Cancels(o) \/ Settles(w, o)
    BY OrderChanges
  <1>2. orders \in [OrderIds -> Order] /\ subs \in [Users -> Subscription]
    BY DEF IInv, TypeOK
  <1>3. Settles(w, o) /\ orders'[o].status = "paid"
    BY <1>1, <1>2 DEF Places, Lapses, Cancels, NoOrder, Order
  <1>4. o = job[w].order /\ (SettleUnapplied(w) \/ SettlePaid(w))
    BY <1>3 DEF Settles
  <1>5. SettlePaid(w)
    BY <1>3, <1>4, SettlingFacts
  <1>6. orders'[o].paidAt = job[w].at
    BY <1>2, <1>3 DEF Settles, Order
  <1>7. PICK u \in Users, p \in Plans, at \in Nat :
          /\ u = job[w].user /\ p = job[w].plan /\ at = job[w].at
          /\ u = orders[o].user /\ p = orders[o].plan
    BY <1>4, SettlingFacts
  <1>8. pc[w] = "settle" /\ ~InsertConflict(w, u)
    BY <1>5, <1>7 DEF SettlePaid, CommitSettlement
  <1>9. saw[w] = subs[u] /\ subs'[u] = Extended(subs[u], p, at)
    BY <1>2, <1>5, <1>7, <1>8, PlanIsCurrent DEF SettlePaid
  <1>10. ~(Running(subs[u], at) /\ subs[u].tier # Tier[p])
    BY <1>5, <1>7, <1>9 DEF SettlePaid, Rival
  <1>11. subs[u].expires \in Nat /\ Days[p] \in Nat /\ (subs[u] = NoSub => subs[u].expires = 0)
    BY <1>2, Constants DEF Subscription, NoSub
  <1>12. /\ subs'[u].expires >= subs[u].expires
         /\ subs'[u].expires >= at + Days[p]
         /\ Running(subs[u], at) => subs'[u].expires = subs[u].expires + Days[p]
    <2>1. CASE Running(subs[u], at)
      <3>1. subs'[u].expires = Days[p] + subs[u].expires
        BY <1>9, <1>10, <2>1 DEF Extended
      <3>2. subs[u].expires > at
        BY <2>1 DEF Running
      <3>3. QED
        BY <1>11, <3>1, <3>2
    <2>2. CASE ~Running(subs[u], at)
      <3>1. subs'[u].expires = Days[p] + at
        BY <1>9, <2>2 DEF Extended
      <3>2. subs[u].expires <= at
        BY <1>11, <2>2 DEF Running
      <3>3. QED
        BY <1>11, <2>2, <3>1, <3>2
    <2>3. QED
      BY <2>1, <2>2
  <1>13. QED
    BY <1>6, <1>7, <1>12 DEF DaysAreAdded

-----------------------------------------------------------------------------
(* Billing implements BillingLedger                                        *)

LEMMA LedgerStates ==
    /\ LedgerState("none") = "none" /\ LedgerState("pending") = "open"
    /\ LedgerState("cancelled") = "closed" /\ LedgerState("expired") = "closed"
    /\ LedgerState("paid") = "paid" /\ LedgerState("paid_unapplied") = "unapplied"
  BY DEF LedgerState

LEMMA DueFacts ==
    ASSUME NEW o \in OrderIds
    PROVE  /\ Due[o] = [user |-> orders[o].user, plan |-> orders[o].plan,
                        state |-> LedgerState(orders[o].status)]
           /\ Due'[o] = [user |-> orders'[o].user, plan |-> orders'[o].plan,
                         state |-> LedgerState(orders'[o].status)]
  BY DEF Due

\* Orders that close and nothing else: a step of the ledger.
LEMMA ClosingDues ==
    ASSUME IInv, NEW S \in SUBSET OrderIds, NEW o \in OrderIds,
           o \in S => /\ orders[o].status = "pending"
                      /\ \/ orders'[o] = [orders[o] EXCEPT !.status = "expired"]
                         \/ orders'[o] = [orders[o] EXCEPT !.status = "cancelled"],
           o \notin S => orders'[o] = orders[o]
    PROVE  /\ o \in S => Due[o].state = "open"
           /\ Due'[o] = Ledger!Closed(S)[o]
  <1>0. Ledger!Closed(S)[o] = IF o \in S THEN [Due[o] EXCEPT !.state = "closed"] ELSE Due[o]
    BY DEF Ledger!Closed
  <1>1. CASE o \in S
    <2>1. orders[o] \in Order
      BY DEF IInv, TypeOK
    <2>2. /\ orders'[o].user = orders[o].user /\ orders'[o].plan = orders[o].plan
          /\ orders'[o].status \in {"expired", "cancelled"}
      BY <1>1, <2>1 DEF Order
    <2>3. Due'[o] = [user |-> orders[o].user, plan |-> orders[o].plan, state |-> "closed"]
      <3>1. LedgerState(orders'[o].status) = "closed"
        BY <2>2 DEF LedgerState
      <3>2. QED
        BY <2>2, <3>1, DueFacts
    <2>4. Due[o] = [user |-> orders[o].user, plan |-> orders[o].plan, state |-> "open"]
      BY <1>1, DueFacts, LedgerStates
    <2>5. [Due[o] EXCEPT !.state = "closed"]
             = [user |-> orders[o].user, plan |-> orders[o].plan, state |-> "closed"]
      BY <2>4
    <2>6. QED
      BY <1>0, <1>1, <2>3, <2>4, <2>5
  <1>2. CASE o \notin S
    BY <1>0, <1>2, DueFacts
  <1>3. QED
    BY <1>1, <1>2

LEMMA ClosingStep ==
    ASSUME IInv, NEW S \in SUBSET OrderIds, UNCHANGED <<now, subs>>,
           \A o \in OrderIds :
              /\ o \in S => /\ orders[o].status = "pending"
                            /\ \/ orders'[o] = [orders[o] EXCEPT !.status = "expired"]
                               \/ orders'[o] = [orders[o] EXCEPT !.status = "cancelled"]
              /\ o \notin S => orders'[o] = orders[o]
    PROVE  Ledger!Next
  <1>1. \A o \in OrderIds : Due'[o] = Ledger!Closed(S)[o] /\ (o \in S => Due[o].state = "open")
    BY ClosingDues
  <1>2. Due' = Ledger!Closed(S)
    <2>1. Due' = [o \in OrderIds |-> Due'[o]] /\ Ledger!Closed(S) = [o \in OrderIds |-> Ledger!Closed(S)[o]]
      BY DEF Due, Ledger!Closed
    <2>2. QED
      BY <1>1, <2>1
  <1>3. S \in SUBSET Ledger!OpenDues
    BY <1>1 DEF Ledger!OpenDues
  <1>4. Ledger!Close
    BY <1>2, <1>3 DEF Ledger!Close
  <1>5. QED
    BY <1>4 DEF Ledger!Next

LEMMA LedgerReuse ==
    ASSUME IInv, NEW w \in Workers, ReuseOrder(w) \/ CommitCancel(w) \/ ExpireStaleOrders(w)
    PROVE  Ledger!Next
  <1>0. UNCHANGED <<now, subs>>
    BY DEF ReuseOrder, CommitCancel, ExpireStaleOrders, world
  <1>1. ASSUME NEW S \in SUBSET OrderIds, \A o \in S : orders[o].status = "pending",
               orders' = Expired(S)
        PROVE  Ledger!Next
    <2>1. \A o \in OrderIds :
             /\ o \in S => orders'[o] = [orders[o] EXCEPT !.status = "expired"]
             /\ o \notin S => orders'[o] = orders[o]
      BY <1>1 DEF Expired
    <2>2. QED
      BY <1>0, <1>1, <2>1, ClosingStep
  <1>2. CASE ReuseOrder(w)
    BY <1>1, <1>2, HeldOrdersArePending DEF ReuseOrder, Expiring
  <1>3. CASE ExpireStaleOrders(w)
    BY <1>1, <1>3, HeldOrdersArePending DEF ExpireStaleOrders, Expiring
  <1>4. CASE CommitCancel(w)
    <2>1. PICK o \in OrderIds : o = job[w].order /\ orders[o].status = "pending"
      BY <1>4 DEF CommitCancel, IInv, TransactionsHoldTheirRows, HoldsItsRows
    <2>2. orders' = [orders EXCEPT ![o].status = "cancelled"]
          /\ orders = [q \in OrderIds |-> orders[q]]
      BY <1>4, <2>1 DEF CommitCancel, IInv, TypeOK
    <2>3. /\ orders'[o] = [orders[o] EXCEPT !.status = "cancelled"]
          /\ \A q \in OrderIds : q # o => orders'[q] = orders[q]
      BY <2>1, <2>2
    <2>4. QED
      BY <1>0, <2>1, <2>3, ClosingStep, {o} \in SUBSET OrderIds
  <1>5. QED
    BY <1>2, <1>3, <1>4

LEMMA LedgerPlace ==
    ASSUME IInv, NEW w \in Workers, PlaceOrder(w)
    PROVE  Ledger!Next
  <1>1. PICK q \in OrderIds :
          /\ orders[q] = NoOrder
          /\ orders' = [Expired(HeldBy(w)) EXCEPT ![q] =
                [NoOrder EXCEPT !.user = job[w].user, !.plan = job[w].plan,
                                !.status = "pending", !.created = job[w].at]]
    BY DEF PlaceOrder
  <1>2. PICK S \in SUBSET OrderIds :
          S = HeldBy(w) /\ \A o \in S : orders[o].status = "pending"
    BY HeldOrdersArePending DEF PlaceOrder, Expiring
  <1>3. \A o \in OrderIds : o # q =>
           /\ o \in S => orders'[o] = [orders[o] EXCEPT !.status = "expired"]
           /\ o \notin S => orders'[o] = orders[o]
    BY <1>1, <1>2 DEF Expired
  <1>4. \A o \in OrderIds : o # q =>
           Due'[o] = Ledger!Closed(S)[o] /\ (o \in S => Due[o].state = "open")
    BY <1>2, <1>3, ClosingDues
  <1>5. q \notin S /\ Due[q] = Ledger!NoDue
    <2>1. orders[q].user = None /\ orders[q].plan = None /\ orders[q].status = "none"
      BY <1>1 DEF NoOrder
    <2>2. Due[q] = [user |-> None, plan |-> None, state |-> "none"]
      BY <2>1, DueFacts, LedgerStates
    <2>3. QED
      BY <1>2, <2>1, <2>2 DEF Ledger!NoDue
  <1>6. Due'[q] = [user |-> job[w].user, plan |-> job[w].plan, state |-> "open"]
    <2>1. orders'[q] = [NoOrder EXCEPT !.user = job[w].user, !.plan = job[w].plan,
                                       !.status = "pending", !.created = job[w].at]
      BY <1>1, <1>2 DEF Expired
    <2>2. /\ orders'[q].user = job[w].user /\ orders'[q].plan = job[w].plan
          /\ orders'[q].status = "pending"
      BY <2>1 DEF NoOrder
    <2>3. QED
      BY <2>2, DueFacts, LedgerStates
  <1>7. Due' = [Ledger!Closed(S) EXCEPT ![q] =
                   [user |-> job[w].user, plan |-> job[w].plan, state |-> "open"]]
    <2>1. Due' = [o \in OrderIds |-> Due'[o]]
          /\ Ledger!Closed(S) = [o \in OrderIds |-> Ledger!Closed(S)[o]]
      BY DEF Due, Ledger!Closed
    <2>2. QED
      BY <1>4, <1>6, <2>1
  <1>8. S \in SUBSET Ledger!OpenDues
    BY <1>4, <1>5 DEF Ledger!OpenDues
  <1>9. UNCHANGED <<now, subs>> /\ job[w].user \in Users /\ job[w].plan \in Plans
    BY DEF PlaceOrder, world, IInv, JobIsComplete
  <1>10. Ledger!Open(job[w].user, job[w].plan)
    BY <1>5, <1>7, <1>8, <1>9 DEF Ledger!Open
  <1>11. QED
    BY <1>9, <1>10 DEF Ledger!Next

\* The order a settlement is about, in the ledger's terms.
LEMMA SettledDue ==
    ASSUME IInv, NEW w \in Workers, SettleUnapplied(w) \/ SettlePaid(w)
    PROVE  LET o == job[w].order
               s == IF SettlePaid(w) THEN "paid" ELSE "unapplied"
           IN  /\ o \in OrderIds
               /\ Due[o].user = job[w].user /\ Due[o].plan = job[w].plan
               /\ Due[o].state \in {"open", "closed"}
               /\ Due' = [Due EXCEPT ![o].state = s]
  <1>1. PICK o \in OrderIds : o = job[w].order
    BY SettlingFacts
  <1>2. PICK s \in {"paid", "unapplied"} : s = IF SettlePaid(w) THEN "paid" ELSE "unapplied"
    OBVIOUS
  <1>3. orders[o] \in Order /\ orders = [q \in OrderIds |-> orders[q]]
    BY DEF IInv, TypeOK
  <1>4. /\ orders[o].status \in {"pending", "cancelled", "expired"}
        /\ job[w].user = orders[o].user /\ job[w].plan = orders[o].plan
    <2>1. orders[o].status \notin Settled \cup {"none"}
      BY <1>1, SettlingFacts
    <2>2. orders[o].status \in Statuses
      BY <1>3 DEF Order
    <2>3. QED
      BY <1>1, <2>1, <2>2, SettlingFacts DEF Statuses, Settled
  <1>5. LedgerState(orders[o].status) \in {"open", "closed"}
    BY <1>4 DEF LedgerState
  <1>6. Due[o] = [user |-> job[w].user, plan |-> job[w].plan,
                  state |-> LedgerState(orders[o].status)]
    BY <1>4, DueFacts
  <1>7. Due'[o] = [user |-> job[w].user, plan |-> job[w].plan, state |-> s]
    <2>1. orders'[o] = [orders[o] EXCEPT
             !.status = IF SettlePaid(w) THEN "paid" ELSE "paid_unapplied",
             !.txn = job[w].txn, !.paidAt = job[w].at]
      BY <1>1, SettlingFacts
    <2>2. orders'[o].user = orders[o].user /\ orders'[o].plan = orders[o].plan
      BY <1>3, <2>1 DEF Order
    <2>3. LedgerState(orders'[o].status) = s
      <3>1. orders'[o].status = IF SettlePaid(w) THEN "paid" ELSE "paid_unapplied"
        BY <1>1, SettlingFacts
      <3>2. QED
        BY <1>2, <3>1, LedgerStates
    <2>4. QED
      BY <1>4, <2>2, <2>3, DueFacts
  <1>8. \A q \in OrderIds : q # o => Due'[q] = Due[q]
    <2>1. orders' = Paid(w, IF SettlePaid(w) THEN "paid" ELSE "paid_unapplied")
      BY SettleExclusive DEF SettleUnapplied, SettlePaid, CommitSettlement
    <2>2. \A q \in OrderIds : q # o => orders'[q] = orders[q]
      BY <1>1, <1>3, <2>1 DEF Paid
    <2>3. QED
      BY <2>2, DueFacts
  <1>9. Due' = [Due EXCEPT ![o].state = s]
    <2>1. Due' = [q \in OrderIds |-> Due'[q]] /\ Due = [q \in OrderIds |-> Due[q]]
      BY DEF Due
    <2>2. [Due[o] EXCEPT !.state = s] = Due'[o]
      BY <1>6, <1>7
    <2>3. QED
      BY <1>8, <2>1, <2>2
  <1>10. QED
    BY <1>1, <1>2, <1>5, <1>6, <1>9

LEMMA LedgerSettle ==
    ASSUME IInv, ExpiryInv, NEW w \in Workers, SettleUnapplied(w) \/ SettlePaid(w)
    PROVE  Ledger!Next
  <1>1. PICK o \in OrderIds, u \in Users, p \in Plans, i \in 0..now :
          o = job[w].order /\ u = job[w].user /\ p = job[w].plan /\ i = job[w].at
    <2>1. job[w].at \in 0..now
      BY DEF IInv, TypeOK, Job, ExpiryInv, InstantsPast
    <2>2. QED
      BY <2>1, SettlingFacts
  <1>2. Due[o].user = u /\ Due[o].plan = p /\ Due[o].state \in {"open", "closed"}
    BY <1>1, SettledDue
  <1>3. saw[w] = subs[u] /\ pc[w] = "settle"
    BY <1>1, SettlingFacts, PlanIsCurrent DEF SettleUnapplied, SettlePaid, CommitSettlement
  <1>4. Ledger!Runs(u, i) <=> Running(saw[w], job[w].at)
    BY <1>1, <1>3 DEF Ledger!Runs, Ledger!NoPlan, Running, NoSub
  <1>5. now' = now
    BY DEF SettleUnapplied, SettlePaid, CommitSettlement, world
  <1>6. CASE SettleUnapplied(w)
    <2>1. Due' = [Due EXCEPT ![o].state = "unapplied"] /\ subs' = subs
      BY <1>1, <1>6, SettledDue, SettleExclusive DEF SettleUnapplied
    <2>2. Ledger!Runs(u, i) /\ subs[u].tier # Tier[p]
      BY <1>1, <1>3, <1>4, <1>6 DEF SettleUnapplied, Rival
    <2>3. Ledger!Settle(o, i)
      BY <1>2, <1>5, <2>1, <2>2 DEF Ledger!Settle
    <2>4. QED
      BY <2>3 DEF Ledger!Next
  <1>7. CASE SettlePaid(w)
    <2>1. Due' = [Due EXCEPT ![o].state = "paid"]
      BY <1>1, <1>7, SettledDue
    <2>2. subs' = [subs EXCEPT ![u] = Extended(subs[u], p, i)]
      BY <1>1, <1>3, <1>7 DEF SettlePaid
    <2>3. ~(Ledger!Runs(u, i) /\ subs[u].tier # Tier[p])
      BY <1>1, <1>3, <1>4, <1>7 DEF SettlePaid, Rival
    <2>4. subs[u] \in Subscription /\ subs = [v \in Users |-> subs[v]] /\ Days[p] \in Nat
          /\ i \in Nat
      BY Constants DEF IInv, TypeOK
    <2>5. CASE Ledger!Runs(u, i)
      <3>1. Extended(subs[u], p, i) = [subs[u] EXCEPT !.expires = @ + Days[p]]
        <4>1. Extended(subs[u], p, i) = [tier |-> subs[u].tier, expires |-> Days[p] + subs[u].expires]
          BY <1>1, <1>3, <1>4, <2>3, <2>5 DEF Extended
        <4>2. [subs[u] EXCEPT !.expires = @ + Days[p]]
                 = [tier |-> subs[u].tier, expires |-> subs[u].expires + Days[p]]
          BY <2>4 DEF Subscription
        <4>3. Days[p] + subs[u].expires = subs[u].expires + Days[p]
          BY <2>4 DEF Subscription
        <4>4. QED
          BY <4>1, <4>2, <4>3
      <3>2. subs' = [subs EXCEPT ![u].expires = @ + Days[p]]
        BY <2>2, <2>4, <3>1
      <3>3. Ledger!Settle(o, i)
        BY <1>2, <1>5, <2>1, <2>3, <2>5, <3>2 DEF Ledger!Settle
      <3>4. QED
        BY <3>3 DEF Ledger!Next
    <2>6. CASE ~Ledger!Runs(u, i)
      <3>1. Extended(subs[u], p, i) = [tier |-> Tier[p], expires |-> i + Days[p]]
        <4>1. Extended(subs[u], p, i) = [tier |-> Tier[p], expires |-> Days[p] + i]
          BY <1>1, <1>3, <1>4, <2>6 DEF Extended
        <4>2. QED
          BY <2>4, <4>1
      <3>2. Ledger!Settle(o, i)
        BY <1>2, <1>5, <2>1, <2>2, <2>6, <3>1 DEF Ledger!Settle
      <3>3. QED
        BY <3>2 DEF Ledger!Next
    <2>7. QED
      BY <2>5, <2>6
  <1>8. QED
    BY <1>6, <1>7

LEMMA LedgerAdmin ==
    ASSUME IInv, ExpiryInv, NEW w \in Workers, CommitGrant(w) \/ CommitRevoke(w)
    PROVE  Ledger!Next
  <1>0. UNCHANGED <<now, orders>> /\ pc[w] \in {"grant", "revoke"}
        /\ ~InsertConflict(w, job[w].user)
    BY DEF CommitGrant, CommitRevoke, world, InsertConflict, Running
  <1>1. PICK u \in Users, i \in 0..now : u = job[w].user /\ i = job[w].at /\ saw[w] = subs[u]
    <2>1. job[w].at \in 0..now
      BY DEF IInv, TypeOK, Job, ExpiryInv, InstantsPast
    <2>2. QED
      BY <1>0, <2>1, PlanIsCurrent
  <1>2. Due' = Due
    BY <1>0 DEF Due
  <1>3. CASE CommitGrant(w)
    <2>1. PICK p \in Plans : p = job[w].plan
      BY <1>3 DEF CommitGrant, IInv, JobIsComplete
    <2>2. Ledger!Grant(u, p, i)
      BY <1>0, <1>1, <1>2, <1>3, <2>1 DEF CommitGrant, Ledger!Grant
    <2>3. QED
      BY <2>2 DEF Ledger!Next
  <1>4. CASE CommitRevoke(w)
    <2>1. Ledger!Runs(u, i)
      BY <1>1, <1>4 DEF CommitRevoke, Running, NoSub, Ledger!Runs, Ledger!NoPlan
    <2>2. Ledger!Revoke(u, i)
      BY <1>0, <1>1, <1>2, <1>4, <2>1 DEF CommitRevoke, Ledger!Revoke
    <2>3. QED
      BY <2>2 DEF Ledger!Next
  <1>5. QED
    BY <1>3, <1>4

LEMMA LedgerTick ==
    ASSUME Tick
    PROVE  Ledger!Next
  <1>1. Due' = Due /\ subs' = subs /\ now' = now + 1
    BY DEF Tick, rows, Due
  <1>2. Ledger!Tick
    BY <1>1 DEF Ledger!Tick
  <1>3. QED
    BY <1>2 DEF Ledger!Next

LEMMA LedgerInit == Init => Ledger!Init
  <1> SUFFICES ASSUME Init PROVE Ledger!Init
    OBVIOUS
  <1>1. now = 0 /\ subs = [u \in Users |-> Ledger!NoPlan]
    BY DEF Init, NoSub, Ledger!NoPlan
  <1>2. \A o \in OrderIds : Due[o] = Ledger!NoDue
    <2> SUFFICES ASSUME NEW o \in OrderIds PROVE Due[o] = Ledger!NoDue
      OBVIOUS
    <2>1. orders[o].user = None /\ orders[o].plan = None /\ orders[o].status = "none"
      BY DEF Init, NoOrder
    <2>2. QED
      BY <2>1, DueFacts, LedgerStates DEF Ledger!NoDue
  <1>3. Due = [o \in OrderIds |-> Ledger!NoDue]
    BY <1>2 DEF Due
  <1>4. QED
    BY <1>1, <1>3 DEF Ledger!Init

LEMMA LedgerStep == IInv /\ ExpiryInv /\ [Next]_vars => [Ledger!Next]_Ledger!vars
  <1> SUFFICES ASSUME IInv, ExpiryInv, [Next]_vars PROVE [Ledger!Next]_Ledger!vars
    OBVIOUS
  <1>1. ASSUME UNCHANGED <<now, subs, orders>> PROVE UNCHANGED Ledger!vars
    BY <1>1 DEF Ledger!vars, Due
  <1>2. ASSUME NEW w \in Workers, Request(w) \/ Fail(w) PROVE UNCHANGED <<now, subs, orders>>
    BY <1>2 DEF Request, Fail, Checkout, CancelOrder, ReadBilling, ReceiveWebhook, AskGrant,
        AskRevoke, rows, world
  <1>3. ASSUME NEW w \in Workers, Resume(w)
        PROVE  \/ UNCHANGED <<now, subs, orders>>
               \/ ReuseOrder(w) \/ PlaceOrder(w) \/ CommitCancel(w) \/ ExpireStaleOrders(w)
               \/ SettleUnapplied(w) \/ SettlePaid(w) \/ CommitGrant(w) \/ CommitRevoke(w)
    BY <1>3 DEF Resume, LockStale, AbortDeadlocked, FindOpenOrder, IgnoreTransfer, RecordDuplicate,
        RecordMismatch,
        RecordOnly, LockOrder, LockPlan, InsertFails, ReportPurchase, LockGrant, LockRevoke,
        RefuseRevoke, rows, world
  <1>4. ASSUME NEW w \in Workers, Resume(w) PROVE [Ledger!Next]_Ledger!vars
    BY <1>1, <1>3, <1>4, LedgerReuse, LedgerPlace, LedgerSettle, LedgerAdmin
  <1>5. (\E t \in Txns : RefuseWebhook(t)) \/ UNCHANGED vars
          \/ (\E t \in Txns, p \in Payments : PayByTransfer(t, p[1], p[2]))
          => UNCHANGED <<now, subs, orders>>
    BY DEF RefuseWebhook, PayByTransfer, vars, rows, world
  <1>6. QED
    BY <1>1, <1>2, <1>4, <1>5, LedgerTick DEF Next

-----------------------------------------------------------------------------
(* Theorems                                                                *)

LEMMA ExpiryInvariance == Spec => []ExpiryInv
  <1>1. ExpiryInv /\ IInv /\ [Next]_vars => ExpiryInv'
    BY ExpiryStep
  <1>2. QED
    BY <1>1, ExpiryInit, Invariance, PTL DEF Spec

LEMMA MoneyInvariance == Spec => []MoneyInv
  <1>1. MoneyInv /\ IInv /\ [Next]_vars => MoneyInv'
    BY MoneyStep
  <1>2. QED
    BY <1>1, MoneyInit, Invariance, PTL DEF Spec

\* No order runs out before its payment window is over, although a checkout
\* expires orders by an instant it took before it waited for their rows.
THEOREM WindowIsKept == Spec => []NeverExpiredEarly
  <1>1. ExpiryInv => NeverExpiredEarly
    BY DEF ExpiryInv
  <1>2. QED
    BY <1>1, ExpiryInvariance, PTL

\* A settled order names the transfer that pays it, and exactly the event of that
\* transfer is marked processed.
THEOREM Reconciles == Spec => []BooksReconcile
  <1>1. MoneyInv => BooksReconcile
    BY DEF MoneyInv
  <1>2. QED
    BY <1>1, MoneyInvariance, PTL

\* Money whose webhook was answered with success has settled the order it pays.
THEOREM MoneyIsKept == Spec => []AckedMoneyIsKept
  <1>1. MoneyInv => AckedMoneyIsKept
    BY DEF MoneyInv
  <1>2. QED
    BY <1>1, MoneyInvariance, PTL

\* A purchase reaches Analytics at most once, and only for a paid order.
THEOREM ReportedOnce == Spec => []ReportedAtMostOnce
  <1>1. ReportInv /\ IInv /\ [Next]_vars => ReportInv'
    BY ReportStep
  <1>2. ReportInv => ReportedAtMostOnce
    BY DEF ReportInv
  <1>3. QED
    BY <1>1, <1>2, ReportInit, Invariance, PTL DEF Spec

\* No step writes the row of an order whose money has arrived.
THEOREM SettledForGood == Spec => SettledIsFinal
  <1>1. IInv /\ [Next]_vars =>
          [\A o \in OrderIds : orders[o].status \in Settled => orders'[o] = orders[o]]_orders
    BY SettledStays
  <1>2. QED
    BY <1>1, Invariance, PTL DEF Spec, SettledIsFinal

\* Money never changes the tier of a running plan.
THEOREM OnlyAdminsSwitch == Spec => NoSwitchMidTerm
  <1>1. IInv /\ ExpiryInv /\ [Next]_vars =>
          [\A u \in Users : Running(subs[u], now) /\ subs'[u].tier # subs[u].tier
                                => audit'[u] > audit[u]]_<<subs, audit>>
    BY SwitchStep
  <1>2. QED
    BY <1>1, Invariance, ExpiryInvariance, PTL DEF Spec, NoSwitchMidTerm

\* Money is set aside only while another tier's plan runs.
THEOREM ParkedForAReason == Spec => ParkedOnlyAgainstRival
  <1>1. IInv /\ [Next]_vars =>
          [\A o \in OrderIds :
              orders'[o].status = "paid_unapplied" /\ orders[o].status # "paid_unapplied" =>
                  LET sub == subs[orders[o].user]
                  IN  Running(sub, orders'[o].paidAt) /\ sub.tier # Tier[orders[o].plan]]_orders
    BY ParkStep
  <1>2. QED
    BY <1>1, Invariance, PTL DEF Spec, ParkedOnlyAgainstRival

\* An order that becomes paid adds its days to the learner's plan as it stands at
\* that commit: the step behind PaidTimeIsConserved.
THEOREM PaymentAddsItsDays ==
    Spec => [][\A o \in OrderIds :
                  orders'[o].status = "paid" /\ orders[o].status # "paid"
                      => DaysAreAdded(o)]_orders
  <1>1. IInv /\ [Next]_vars =>
          [\A o \in OrderIds :
              orders'[o].status = "paid" /\ orders[o].status # "paid"
                  => DaysAreAdded(o)]_orders
    BY PaymentStep
  <1>2. QED
    BY <1>1, Invariance, PTL DEF Spec

\* Interleaved transactions act as the steps of the ledger: every change of a plan
\* or of an order is computed from the state it replaces.
THEOREM BillingImplementsLedger == Spec => ImplementsLedger
  <1>1. QED
    BY LedgerInit, LedgerStep, Invariance, ExpiryInvariance, PTL
    DEF Spec, ImplementsLedger, Ledger!Spec

-----------------------------------------------------------------------------
(***************************************************************************)
(* Sums.  The model adds days with MapThenSumSet.  What such a fold         *)
(* computes is shown from least counterexamples: a statement                *)
(* that fails for a subset of a finite set fails for one that is mended by  *)
(* taking any element away.                                                 *)
(***************************************************************************)

\* A nonempty set of numbers has a least member.
LEMMA LeastNumber ==
    ASSUME NEW T \in SUBSET Nat, T # {}
    PROVE  \E m \in T : \A n \in T : m <= n
  <1>1. PICK m \in T : \A n \in T : ~ (<<n, m>> \in OpToRel(<, Nat))
    BY NatLessThanWellFounded, WFMin
  <1>2. \A n \in T : ~(n < m) /\ n \in Nat /\ m \in Nat
    BY <1>1 DEF OpToRel
  <1>3. \A n \in T : m <= n
    BY <1>2
  <1>4. QED
    BY <1>3

\* A nonempty family of subsets of a finite set has a member that leaves it by losing any element.
LEMMA SmallestSet ==
    ASSUME NEW S, IsFiniteSet(S), NEW F \in SUBSET (SUBSET S), F # {}
    PROVE  \E D \in F : \A x \in D : D \ {x} \notin F
  <1>. DEFINE T == {Cardinality(D) : D \in F}
  <1>1. \A D \in SUBSET S : IsFiniteSet(D) /\ Cardinality(D) \in Nat
    BY FS_Subset, FS_CardinalityType
  <1>2. T \in SUBSET Nat /\ T # {}
    BY <1>1
  <1>3. \E m \in T : \A n \in T : m <= n
    <2>. HIDE DEF T
    <2>1. QED
      BY <1>2, LeastNumber
  <1>4. PICK D \in F : \A E \in F : Cardinality(D) <= Cardinality(E)
    BY <1>3
  <1>5. ASSUME NEW x \in D, D \ {x} \in F PROVE FALSE
    <2>1. Cardinality(D \ {x}) = Cardinality(D) - 1 /\ Cardinality(D) \in Nat
      BY <1>1, FS_RemoveElement
    <2>2. Cardinality(D) <= Cardinality(D \ {x})
      BY <1>4, <1>5
    <2>3. QED
      BY <2>1, <2>2
  <1>6. QED
    BY <1>5

\* Total(f, D): the sum of f over D, as the fold computes it.
Total(f, D) == MapThenSumSet(LAMBDA x : f[x], D)

Some(D) == CHOOSE x \in D : TRUE
Adds(f, g, d) == IF d = {} THEN 0 ELSE f[Some(d)] + g[d \ {Some(d)}]

\* The function of the fold, on the subsets of at most n elements.
Upto(S, n) == {d \in SUBSET S : Cardinality(d) <= n}

LEMMA SomeOf == ASSUME NEW D, D # {} PROVE Some(D) \in D
  BY DEF Some

LEMMA FoldUpto ==
    ASSUME NEW S, IsFiniteSet(S), NEW f, NEW n \in Nat
    PROVE  \E g : g = [d \in Upto(S, n) |-> Adds(f, g, d)]
  <1>. DEFINE T == {k \in Nat : ~ \E g : g = [d \in Upto(S, k) |-> Adds(f, g, d)]}
  <1>0. \A d \in SUBSET S : IsFiniteSet(d) /\ Cardinality(d) \in Nat
    BY FS_Subset, FS_CardinalityType
  <1>1. T \in SUBSET Nat
    OBVIOUS
  <1>2. SUFFICES ASSUME T # {} PROVE FALSE
    OBVIOUS
  <1>3. \E m \in T : \A k \in T : m <= k
    <2>. HIDE DEF T
    <2>1. QED
      BY <1>1, <1>2, LeastNumber
  <1>4. PICK m \in T : \A k \in T : m <= k
    BY <1>3
  <1>5. ASSUME NEW h, \A d \in Upto(S, m) : d # {} => d \ {Some(d)} \in Upto(S, m) /\
                         h[d \ {Some(d)}] = Adds(f, h, d \ {Some(d)})
        PROVE  FALSE
    <2>. DEFINE g == [d \in Upto(S, m) |-> Adds(f, h, d)]
    <2>1. ASSUME NEW d \in Upto(S, m) PROVE g[d] = Adds(f, g, d)
      <3>1. CASE d = {}
        BY <3>1 DEF Adds
      <3>2. CASE d # {}
        <4>1. g[d \ {Some(d)}] = h[d \ {Some(d)}]
          BY <1>5, <3>2
        <4>2. g[d] = Adds(f, h, d)
          OBVIOUS
        <4>. HIDE DEF g
        <4>3. QED
          BY <3>2, <4>1, <4>2 DEF Adds
      <3>3. QED
        BY <3>1, <3>2
    <2>2. g = [d \in Upto(S, m) |-> g[d]]
      OBVIOUS
    <2>. HIDE DEF g
    <2>3. g = [d \in Upto(S, m) |-> Adds(f, g, d)]
      BY <2>1, <2>2
    <2>4. QED
      BY <1>4, <2>3
  <1>6. ASSUME NEW d \in Upto(S, m), d # {}
        PROVE  /\ d \ {Some(d)} \in SUBSET S /\ m # 0
               /\ Cardinality(d \ {Some(d)}) <= m - 1
    <2>1. Some(d) \in d /\ d \in SUBSET S
      BY <1>6, SomeOf DEF Upto
    <2>2. /\ IsFiniteSet(d) /\ Cardinality(d) \in Nat /\ Cardinality(d) <= m /\ m \in Nat
          /\ Cardinality(d \ {Some(d)}) = Cardinality(d) - 1
      BY <1>0, <1>4, <2>1, FS_RemoveElement DEF Upto
    <2>3. Cardinality(d) # 0
      BY <1>6, <2>2, FS_EmptySet
    <2>4. QED
      BY <2>1, <2>2, <2>3
  <1>7. CASE m = 0
    <2>1. \A d \in Upto(S, m) : d = {}
      BY <1>6, <1>7
    <2>2. QED
      BY <1>5, <2>1
  <1>8. CASE m # 0
    <2>1. m - 1 \in Nat /\ m - 1 \notin T /\ m - 1 <= m
      BY <1>4, <1>8
    <2>2. PICK h : h = [d \in Upto(S, m - 1) |-> Adds(f, h, d)]
      BY <2>1
    <2>3. ASSUME NEW d \in Upto(S, m), d # {}
          PROVE  /\ d \ {Some(d)} \in Upto(S, m)
                 /\ h[d \ {Some(d)}] = Adds(f, h, d \ {Some(d)})
      <3>1. d \ {Some(d)} \in Upto(S, m - 1)
        BY <1>6, <2>3 DEF Upto
      <3>2. d \ {Some(d)} \in Upto(S, m)
        BY <1>0, <2>1, <3>1 DEF Upto
      <3>3. QED
        BY <2>2, <3>1, <3>2
    <2>4. QED
      BY <1>5, <2>3
  <1>9. QED
    BY <1>7, <1>8

\* There is one such function, and only what it adds matters.
LEMMA FoldIsOne ==
    ASSUME NEW S, IsFiniteSet(S), NEW f, NEW h, NEW g, NEW k,
           \A x \in S : f[x] = h[x],
           \A d \in SUBSET S : g[d] = Adds(f, g, d),
           \A d \in SUBSET S : k[d] = Adds(h, k, d)
    PROVE  g[S] = k[S]
  <1>. DEFINE F == {d \in SUBSET S : g[d] # k[d]}
  <1>1. SUFFICES ASSUME F # {} PROVE FALSE
    OBVIOUS
  <1>2. \E D \in F : \A x \in D : D \ {x} \notin F
    <2>. F \in SUBSET (SUBSET S)
      OBVIOUS
    <2>. HIDE DEF F
    <2>1. QED
      BY <1>1, SmallestSet
  <1>3. PICK D \in F : \A x \in D : D \ {x} \notin F
    BY <1>2
  <1>4. D # {}
    BY <1>3 DEF Adds
  <1>5. Some(D) \in D /\ D \ {Some(D)} \in SUBSET S
    BY <1>3, <1>4, SomeOf
  <1>6. g[D \ {Some(D)}] = k[D \ {Some(D)}] /\ f[Some(D)] = h[Some(D)]
    BY <1>3, <1>5
  <1>7. QED
    BY <1>3, <1>4, <1>6 DEF Adds

LEMMA TotalFold ==
    ASSUME NEW S, IsFiniteSet(S), NEW f
    PROVE  \E g : g = [d \in SUBSET S |-> Adds(f, g, d)] /\ Total(f, S) = g[S]
  <1>1. \E g : g = [d \in SUBSET S |-> Adds(f, g, d)]
    <2>. DEFINE n == Cardinality(S)
    <2>1. n \in Nat /\ \A d \in SUBSET S : Cardinality(d) <= n
      BY FS_Subset, FS_CardinalityType
    <2>2. Upto(S, n) = SUBSET S
      BY <2>1 DEF Upto
    <2>. HIDE DEF n
    <2>3. \E g : g = [d \in Upto(S, n) |-> Adds(f, g, d)]
      BY <2>1, FoldUpto
    <2>4. QED
      BY <2>2, <2>3
  <1>. DEFINE g == CHOOSE g : g = [d \in SUBSET S |-> Adds(f, g, d)]
  <1>2. g = [d \in SUBSET S |-> Adds(f, g, d)]
    BY <1>1
  <1>3. Total(f, S) = g[S]
    BY Zenon DEF Total, MapThenSumSet, MapThenFoldSet, Adds, Some
  <1>4. QED
    BY <1>2, <1>3

LEMMA TotalValues ==
    ASSUME NEW S, IsFiniteSet(S), NEW f
    PROVE  /\ S = {} => Total(f, S) = 0
           /\ S # {} => Total(f, S) = f[Some(S)] + Total(f, S \ {Some(S)})
  <1>1. PICK g : g = [d \in SUBSET S |-> Adds(f, g, d)] /\ Total(f, S) = g[S]
    BY TotalFold
  <1>2. \A d \in SUBSET S : g[d] = Adds(f, g, d)
    BY <1>1
  <1>3. CASE S = {}
    BY <1>1, <1>2, <1>3 DEF Adds
  <1>4. CASE S # {}
    <2>. DEFINE D == S \ {Some(S)}
    <2>1. Some(S) \in S /\ IsFiniteSet(D) /\ SUBSET D \subseteq SUBSET S
      BY <1>4, SomeOf, FS_RemoveElement
    <2>2. PICK k : k = [d \in SUBSET D |-> Adds(f, k, d)] /\ Total(f, D) = k[D]
      BY <2>1, TotalFold
    <2>3. \A d \in SUBSET D : k[d] = Adds(f, k, d)
      BY <2>2
    <2>4. g[D] = k[D]
      <3>1. \A d \in SUBSET D : g[d] = Adds(f, g, d)
        BY <1>2, <2>1
      <3>. HIDE DEF D
      <3>2. QED
        BY <2>1, <2>3, <3>1, FoldIsOne
    <2>5. g[S] = f[Some(S)] + g[D]
      BY <1>2, <1>4 DEF Adds
    <2>6. QED
      BY <1>1, <1>4, <2>2, <2>4, <2>5
  <1>5. QED
    BY <1>3, <1>4

\* It does not matter which element is added last.
LEMMA TotalAdds ==
    ASSUME NEW S, IsFiniteSet(S), NEW f, \A x \in S : f[x] \in Nat, NEW x \in S
    PROVE  /\ Total(f, S) \in Nat
           /\ Total(f, S) = f[x] + Total(f, S \ {x})
  <1>0. \A d \in SUBSET S : IsFiniteSet(d)
    BY FS_Subset
  <1>1. ASSUME NEW D \in SUBSET S PROVE Total(f, D) \in Nat
    <2>. DEFINE F == {d \in SUBSET S : Total(f, d) \notin Nat}
    <2>1. SUFFICES ASSUME F # {} PROVE FALSE
      BY <1>1
    <2>2. \E E \in F : \A y \in E : E \ {y} \notin F
      <3>. F \in SUBSET (SUBSET S)
        OBVIOUS
      <3>. HIDE DEF F
      <3>1. QED
        BY <2>1, SmallestSet
    <2>3. PICK E \in F : \A y \in E : E \ {y} \notin F
      BY <2>2
    <2>4. IsFiniteSet(E) /\ E # {}
      BY <1>0, <2>3, TotalValues
    <2>5. Some(E) \in E /\ Some(E) \in S /\ Total(f, E \ {Some(E)}) \in Nat
      BY <2>3, <2>4, SomeOf
    <2>6. Total(f, E) = f[Some(E)] + Total(f, E \ {Some(E)})
      BY <2>4, TotalValues
    <2>7. QED
      BY <2>3, <2>5, <2>6
  <1>2. ASSUME NEW D \in SUBSET S, NEW y \in D PROVE Total(f, D) = f[y] + Total(f, D \ {y})
    <2>. DEFINE F == {d \in SUBSET S : \E z \in d : Total(f, d) # f[z] + Total(f, d \ {z})}
    <2>1. SUFFICES ASSUME F # {} PROVE FALSE
      BY <1>2
    <2>2. \E E \in F : \A z \in E : E \ {z} \notin F
      <3>. F \in SUBSET (SUBSET S)
        OBVIOUS
      <3>. HIDE DEF F
      <3>1. QED
        BY <2>1, SmallestSet
    <2>3. PICK E \in F : \A z \in E : E \ {z} \notin F
      BY <2>2
    <2>4. PICK z \in E : Total(f, E) # f[z] + Total(f, E \ {z})
      BY <2>3
    <2>. DEFINE c == Some(E)
    <2>5. E \in SUBSET S /\ IsFiniteSet(E) /\ c \in E
      BY <1>0, <2>3, <2>4, SomeOf
    <2>. HIDE DEF c
    <2>6. Total(f, E) = f[c] + Total(f, E \ {c})
      BY <2>4, <2>5, TotalValues DEF c
    <2>7. c # z /\ E \ {c} \in SUBSET S /\ E \ {z} \in SUBSET S /\ z \in E \ {c} /\ c \in E \ {z}
      BY <2>4, <2>5, <2>6
    <2>8. /\ Total(f, E \ {c}) = f[z] + Total(f, (E \ {c}) \ {z})
          /\ Total(f, E \ {z}) = f[c] + Total(f, (E \ {z}) \ {c})
      BY <2>3, <2>5, <2>7
    <2>9. (E \ {c}) \ {z} = (E \ {z}) \ {c}
      OBVIOUS
    <2>10. f[c] \in Nat /\ f[z] \in Nat /\ Total(f, (E \ {c}) \ {z}) \in Nat
      BY <1>1, <2>5, <2>7
    <2>11. QED
      BY <2>4, <2>6, <2>8, <2>9, <2>10
  <1>3. QED
    BY <1>1, <1>2

LEMMA TotalGrows ==
    ASSUME NEW S, IsFiniteSet(S), NEW f, \A x \in S : f[x] \in Nat, NEW D \in SUBSET S
    PROVE  Total(f, D) \in Nat /\ Total(f, D) <= Total(f, S)
  <1>0. \A d \in SUBSET S : IsFiniteSet(d) /\ \A x \in d : f[x] \in Nat
    BY FS_Subset
  <1>1. ASSUME NEW d \in SUBSET S PROVE Total(f, d) \in Nat
    <2>1. CASE d = {}
      <3>1. Total(f, {}) = 0
        BY FS_EmptySet, TotalValues
      <3>2. QED
        BY <2>1, <3>1
    <2>2. CASE d # {}
      <3>1. PICK x \in d : TRUE
        BY <2>2
      <3>2. IsFiniteSet(d) /\ \A y \in d : f[y] \in Nat
        BY <1>0
      <3>3. QED
        BY <3>1, <3>2, TotalAdds
    <2>3. QED
      BY <2>1, <2>2
  <1>. DEFINE F == {d \in SUBSET S : D \subseteq d /\ ~(Total(f, D) <= Total(f, d))}
  <1>2. SUFFICES ASSUME F # {} PROVE FALSE
    BY <1>1
  <1>3. \E E \in F : \A z \in E : E \ {z} \notin F
    <2>. F \in SUBSET (SUBSET S)
      OBVIOUS
    <2>. HIDE DEF F
    <2>1. QED
      BY <1>2, SmallestSet
  <1>4. PICK E \in F : \A z \in E : E \ {z} \notin F
    BY <1>3
  <1>5. E # D
    BY <1>1, <1>4
  <1>6. PICK x \in E : x \notin D
    BY <1>4, <1>5
  <1>7. Total(f, D) <= Total(f, E \ {x})
    BY <1>4, <1>6
  <1>8. Total(f, E) = f[x] + Total(f, E \ {x}) /\ f[x] \in Nat
    <2>1. E \in SUBSET S
      BY <1>4
    <2>2. QED
      BY <1>0, <1>6, <2>1, TotalAdds
  <1>9. Total(f, D) \in Nat /\ Total(f, E) \in Nat /\ Total(f, E \ {x}) \in Nat
    BY <1>1, <1>4
  <1>10. QED
    BY <1>4, <1>7, <1>8, <1>9

\* A finite set of numbers has a greatest one.
LEMMA Greatest ==
    ASSUME NEW S \in SUBSET Nat, IsFiniteSet(S), S # {}
    PROVE  Max(S) \in S /\ \A x \in S : x <= Max(S)
  <1>. DEFINE F == {D \in SUBSET S : D # {} /\ ~ \E m \in D : \A x \in D : x <= m}
  <1>1. F = {}
    <2>1. SUFFICES ASSUME F # {} PROVE FALSE
      OBVIOUS
    <2>2. \E D \in F : \A x \in D : D \ {x} \notin F
      <3>. F \in SUBSET (SUBSET S)
        OBVIOUS
      <3>. HIDE DEF F
      <3>1. QED
        BY <2>1, SmallestSet
    <2>3. PICK D \in F : \A x \in D : D \ {x} \notin F
      BY <2>2
    <2>4. PICK x \in D : TRUE
      BY <2>3
    <2>5. x \in Nat /\ \A y \in D : y \in Nat
      BY <2>3, <2>4
    <2>6. CASE D \ {x} = {}
      <3>1. \A y \in D : y <= x
        BY <2>5, <2>6
      <3>2. QED
        BY <2>3, <2>4, <3>1
    <2>7. CASE D \ {x} # {}
      <3>1. PICK m \in D \ {x} : \A y \in D \ {x} : y <= m
        BY <2>3, <2>4, <2>7
      <3>2. CASE x <= m
        BY <2>3, <3>1, <3>2
      <3>3. CASE m < x
        <4>1. \A y \in D : y <= x
          BY <2>5, <3>1, <3>3
        <4>2. QED
          BY <2>3, <2>4, <4>1
      <3>4. QED
        BY <2>5, <3>1, <3>2, <3>3
    <2>8. QED
      BY <2>6, <2>7
  <1>2. \E m \in S : \A x \in S : x <= m
    BY <1>1
  <1>3. \E m \in S : \A x \in S : m >= x
    BY <1>2
  <1>4. Max(S) \in S /\ \A x \in S : Max(S) >= x
    BY <1>3 DEF Max
  <1>5. QED
    BY <1>4

-----------------------------------------------------------------------------
(* Paid time, over the instants pa and the days d of the paid orders P     *)

Since(P, pa, at) == {q \in P : pa[q] >= at}

PaidFor(P, pa, d, e) ==
    /\ \A o \in P : e >= pa[o] + Total(d, Since(P, pa, pa[o]))
    /\ e <= Max({0} \cup {pa[o] : o \in P}) + Total(d, P)

LEMMA LastPayment ==
    ASSUME NEW P, IsFiniteSet(P), NEW pa, \A q \in P : pa[q] \in Nat
    PROVE  /\ Max({0} \cup {pa[q] : q \in P}) \in Nat
           /\ Max({0} \cup {pa[q] : q \in P}) \in {0} \cup {pa[q] : q \in P}
           /\ \A q \in P : pa[q] <= Max({0} \cup {pa[q2] : q2 \in P})
  <1>. DEFINE T == {0} \cup {pa[q] : q \in P}
  <1>1. IsFiniteSet({pa[q] : q \in P})
    <2>. DEFINE f == [q \in P |-> pa[q]]
    <2>1. f \in Surjection(P, {pa[q] : q \in P})
      BY DEF Surjection
    <2>2. QED
      BY <2>1, FS_Surjection
  <1>2. T \in SUBSET Nat /\ T # {} /\ \A q \in P : pa[q] \in T
    OBVIOUS
  <1>3. IsFiniteSet(T)
    BY <1>1, FS_AddElement
  <1>4. Max(T) \in T /\ \A x \in T : x <= Max(T)
    <2>. HIDE DEF T
    <2>1. QED
      BY <1>2, <1>3, Greatest
  <1>5. QED
    BY <1>2, <1>4

LEMMA PaymentKeeps ==
    ASSUME NEW P, IsFiniteSet(P), NEW o, o \notin P, NEW pa, NEW d,
           \A q \in P \cup {o} : pa[q] \in Nat /\ d[q] \in Nat /\ d[q] > 0,
           NEW e \in Nat, NEW f \in Nat, PaidFor(P, pa, d, e),
           e > pa[o] => f = e + d[o],
           e <= pa[o] => f = pa[o] + d[o]
    PROVE  PaidFor(P \cup {o}, pa, d, f)
  <1>. DEFINE R == P \cup {o}  S(at) == Since(P, pa, at)  last == Max({0} \cup {pa[q] : q \in P})
              next == Max({0} \cup {pa[q] : q \in R})
  <1>1. IsFiniteSet(R) /\ \A q \in R : pa[q] \in Nat /\ d[q] \in Nat /\ d[q] > 0
    BY FS_AddElement
  <1>2. ASSUME NEW at
        PROVE  /\ S(at) \in SUBSET P /\ IsFiniteSet(S(at)) /\ Total(d, S(at)) \in Nat
               /\ o \notin S(at) /\ Total(d, S(at) \cup {o}) = d[o] + Total(d, S(at))
    <2>1. S(at) \in SUBSET P
      BY DEF Since
    <2>2. IsFiniteSet(S(at)) /\ IsFiniteSet(S(at) \cup {o})
      BY <2>1, FS_Subset, FS_AddElement
    <2>3. \A x \in P : d[x] \in Nat
      BY <1>1
    <2>4. Total(d, S(at)) \in Nat
      BY <2>1, <2>3, TotalGrows
    <2>. HIDE DEF S
    <2>5. \A x \in S(at) \cup {o} : d[x] \in Nat
      BY <1>1, <2>1
    <2>6. Total(d, S(at) \cup {o}) = d[o] + Total(d, (S(at) \cup {o}) \ {o})
      BY <2>2, <2>5, TotalAdds
    <2>7. (S(at) \cup {o}) \ {o} = S(at)
      BY <2>1
    <2>8. QED
      BY <2>1, <2>2, <2>4, <2>6, <2>7
  <1>3. \A q \in P : e >= pa[q] + Total(d, S(pa[q]))
    BY DEF PaidFor
  <1>4. ASSUME NEW at \in Nat
        PROVE  Since(R, pa, at) = IF at <= pa[o] THEN S(at) \cup {o} ELSE S(at)
    BY <1>1, <1>4 DEF Since
  <1>5. ASSUME NEW q \in P
        PROVE  f >= pa[q] + Total(d, Since(R, pa, pa[q]))
    <2>1. /\ e >= pa[q] + Total(d, S(pa[q])) /\ pa[q] \in Nat /\ pa[o] \in Nat /\ d[o] \in Nat
          /\ Total(d, S(pa[q])) \in Nat
      BY <1>1, <1>2, <1>3
    <2>2. /\ Since(R, pa, pa[q]) = IF pa[q] <= pa[o] THEN S(pa[q]) \cup {o} ELSE S(pa[q])
          /\ Total(d, S(pa[q]) \cup {o}) = d[o] + Total(d, S(pa[q]))
      BY <1>2, <1>4, <2>1
    <2>. HIDE DEF R, S
    <2>3. Total(d, Since(R, pa, pa[q])) <= d[o] + Total(d, S(pa[q]))
          /\ Total(d, Since(R, pa, pa[q])) \in Nat
      BY <2>1, <2>2
    <2>4. f >= e + d[o]
      BY <2>1
    <2>5. QED
      BY <2>1, <2>3, <2>4
  <1>6. f >= pa[o] + Total(d, Since(R, pa, pa[o]))
    <2>1. pa[o] \in Nat /\ d[o] \in Nat /\ Total(d, S(pa[o])) \in Nat /\ S(pa[o]) \in SUBSET P
      BY <1>1, <1>2
    <2>2. Total(d, Since(R, pa, pa[o])) = d[o] + Total(d, S(pa[o]))
      <3>1. Since(R, pa, pa[o]) = S(pa[o]) \cup {o}
        <4>1. pa[o] \in Nat /\ pa[o] <= pa[o]
          BY <2>1
        <4>. HIDE DEF R, S
        <4>2. QED
          BY <1>4, <4>1
      <3>2. Total(d, S(pa[o]) \cup {o}) = d[o] + Total(d, S(pa[o]))
        BY <1>2
      <3>3. QED
        BY <3>1, <3>2
    <2>3. S(pa[o]) # {} => e >= pa[o] + Total(d, S(pa[o]))
      <3>. SUFFICES ASSUME S(pa[o]) # {} PROVE e >= pa[o] + Total(d, S(pa[o]))
        OBVIOUS
      <3>. DEFINE T == {pa[q] : q \in S(pa[o])}
      <3>1. T \in SUBSET Nat /\ T # {}
        BY <1>1, <2>1
      <3>2. \E m \in T : \A n \in T : m <= n
        <4>. HIDE DEF T
        <4>1. QED
          BY <3>1, LeastNumber
      <3>3. PICK q \in S(pa[o]) : \A x \in S(pa[o]) : pa[q] <= pa[x]
        BY <3>2
      <3>4. q \in P /\ pa[q] >= pa[o] /\ pa[q] \in Nat
        BY <1>1, <3>3 DEF Since
      <3>5. S(pa[q]) = S(pa[o])
        BY <1>1, <2>1, <3>3, <3>4 DEF Since
      <3>6. e >= pa[q] + Total(d, S(pa[o]))
        BY <1>3, <3>4, <3>5
      <3>. HIDE DEF S
      <3>7. QED
        BY <2>1, <3>4, <3>6
    <2>4. S(pa[o]) = {} => Total(d, S(pa[o])) = 0
      BY FS_EmptySet, TotalValues
    <2>5. e <= pa[o] => S(pa[o]) = {}
      <3>. SUFFICES ASSUME e <= pa[o], NEW q \in S(pa[o]) PROVE FALSE
        OBVIOUS
      <3>1. q \in P /\ pa[q] >= pa[o] /\ pa[q] \in Nat /\ q \in S(pa[q]) /\ d[q] \in Nat /\ d[q] > 0
        BY <1>1 DEF Since
      <3>2. IsFiniteSet(S(pa[q])) /\ \A x \in S(pa[q]) : d[x] \in Nat
        BY <1>1, <1>2
      <3>. HIDE DEF S
      <3>3. /\ Total(d, S(pa[q])) = d[q] + Total(d, S(pa[q]) \ {q}) 
            /\ Total(d, S(pa[q])) \in Nat
        BY <3>1, <3>2, TotalAdds
      <3>4. IsFiniteSet(S(pa[q]) \ {q}) /\ (S(pa[q]) \ {q}) \in SUBSET S(pa[q])
        BY <3>2, FS_RemoveElement
      <3>5. Total(d, S(pa[q]) \ {q}) \in Nat
        BY <3>2, <3>4, TotalGrows
      <3>6. e >= pa[q] + Total(d, S(pa[q]))
        BY <1>3, <3>1
      <3>7. QED
        BY <2>1, <3>1, <3>3, <3>5, <3>6
    <2>. HIDE DEF S, R
    <2>6. QED
      BY <2>1, <2>2, <2>3, <2>4, <2>5
  <1>7. f <= next + Total(d, R)
    <2>1. last \in Nat /\ e <= last + Total(d, P) /\ last \in {0} \cup {pa[q] : q \in P}
      BY <1>1, LastPayment DEF PaidFor
    <2>2. next \in Nat /\ \A q \in R : pa[q] <= next
      <3>. HIDE DEF R
      <3>1. QED
        BY <1>1, LastPayment
    <2>3. last <= next /\ pa[o] <= next /\ pa[o] \in Nat /\ d[o] \in Nat
      BY <1>1, <2>1, <2>2
    <2>4. Total(d, R) = d[o] + Total(d, P) /\ Total(d, P) \in Nat
      <3>1. Total(d, R) = d[o] + Total(d, R \ {o})
        BY <1>1, TotalAdds
      <3>2. R \ {o} = P
        OBVIOUS
      <3>3. \A x \in P : d[x] \in Nat
        BY <1>1
      <3>4. QED
        BY <3>1, <3>2, <3>3, TotalGrows
    <2>. HIDE DEF R, last, next
    <2>5. QED
      BY <2>1, <2>2, <2>3, <2>4
  <1>8. QED
    BY <1>5, <1>6, <1>7 DEF PaidFor

-----------------------------------------------------------------------------
(* Paid time of a learner                                                  *)

\* The sum of what `of` gives the plans of orders.
PlanSum(of, ords, S) == MapThenSumSet(LAMBDA o : of[ords[o].plan], S)

Conserved(ords, P, e) ==
    /\ \A o \in P : e >= ords[o].paidAt + PlanSum(Days, ords, {q \in P : ords[q].paidAt >= ords[o].paidAt})
    /\ e <= Max({0} \cup {ords[o].paidAt : o \in P}) + PlanSum(Days, ords, P)

LEMMA PlanSumIsTotal ==
    ASSUME NEW S, IsFiniteSet(S), NEW of, NEW ords, NEW d, \A x \in S : d[x] = of[ords[x].plan]
    PROVE  PlanSum(of, ords, S) = Total(d, S)
  <1>. DEFINE Body(g, s) == IF s = {} THEN 0 ELSE of[ords[Some(s)].plan] + g[s \ {Some(s)}]
  <1>1. PICK k : k = [s \in SUBSET S |-> Adds(d, k, s)] /\ Total(d, S) = k[S]
    BY TotalFold
  <1>2. ASSUME NEW g, NEW s \in SUBSET S PROVE Body(g, s) = Adds(d, g, s)
    BY SomeOf DEF Adds
  <1>3. \A s \in SUBSET S : k[s] = Adds(d, k, s) /\ Adds(d, k, s) = Body(k, s)
    BY <1>1, <1>2
  <1>4. k = [s \in SUBSET S |-> k[s]]
    BY <1>1
  <1>5. k = [s \in SUBSET S |-> Body(k, s)]
    <2>. HIDE DEF Body
    <2>1. QED
      BY <1>3, <1>4
  <1>. DEFINE g == CHOOSE g : g = [s \in SUBSET S |-> Body(g, s)]
  <1>6. g = [s \in SUBSET S |-> Body(g, s)]
    BY <1>5
  <1>7. PlanSum(of, ords, S) = g[S]
    BY Zenon DEF PlanSum, MapThenSumSet, MapThenFoldSet, Some
  <1>8. \A s \in SUBSET S : g[s] = Adds(d, g, s)
    <2>. HIDE DEF g, Body
    <2>1. QED
      BY <1>2, <1>6
  <1>9. g[S] = k[S]
    <2>. HIDE DEF g
    <2>1. \A s \in SUBSET S : k[s] = Adds(d, k, s)
      BY <1>3
    <2>2. QED
      BY <1>8, <2>1, FoldIsOne
  <1>10. QED
    BY <1>1, <1>7, <1>9

LEMMA OrderSets == \A P \in SUBSET OrderIds : IsFiniteSet(P)
  <1>1. 1 \in Int /\ MaxOrders \in Int
    BY BoundsAssumption
  <1>2. IsFiniteSet(OrderIds)
    BY <1>1, FS_Interval DEF OrderIds
  <1>3. QED
    BY <1>2, FS_Subset

LEMMA ConservedIs ==
    ASSUME NEW P \in SUBSET OrderIds, NEW ords, NEW pa, NEW d, NEW e,
           \A q \in P : pa[q] = ords[q].paidAt /\ d[q] = Days[ords[q].plan]
    PROVE  Conserved(ords, P, e) <=> PaidFor(P, pa, d, e)
  <1>1. ASSUME NEW S \in SUBSET P PROVE PlanSum(Days, ords, S) = Total(d, S)
    BY OrderSets, PlanSumIsTotal
  <1>2. ASSUME NEW o \in P
        PROVE  /\ {q \in P : ords[q].paidAt >= ords[o].paidAt} = Since(P, pa, pa[o])
               /\ PlanSum(Days, ords, Since(P, pa, pa[o])) = Total(d, Since(P, pa, pa[o]))
    BY <1>1 DEF Since
  <1>3. {ords[o].paidAt : o \in P} = {pa[o] : o \in P}
    OBVIOUS
  <1>4. PlanSum(Days, ords, P) = Total(d, P)
    BY <1>1
  <1>5. QED
    BY <1>2, <1>3, <1>4 DEF Conserved, PaidFor

AllConserved ==
    \A u \in Users : audit[u] = 0 => Conserved(orders, PaidOrders(u), subs[u].expires)

LEMMA ConservedMeans == (PaidTimeIsConserved <=> AllConserved) /\ (PaidTimeIsConserved <=> AllConserved)'
  <1>1. PaidTimeIsConserved <=> AllConserved
    BY Zenon DEF PaidTimeIsConserved, AllConserved, Conserved, DaysOf, PlanSum
  <1>2. QED
    BY <1>1, PTL

LEMMA AuditGrows ==
    ASSUME IInv, [Next]_vars, NEW u \in Users
    PROVE  audit[u] \in Nat /\ audit'[u] \in Nat /\ audit'[u] >= audit[u]
  <1>1. audit \in [Users -> Nat] /\ audit' \in [Users -> Nat]
    BY NextIInv DEF IInv, TypeOK
  <1>2. ASSUME NEW w \in Workers, CommitGrant(w) \/ CommitRevoke(w)
        PROVE  audit'[u] = audit[u] \/ audit'[u] = audit[u] + 1
    BY <1>1, <1>2 DEF CommitGrant, CommitRevoke
  <1>3. CASE \E w \in Workers : CommitGrant(w) \/ CommitRevoke(w)
    BY <1>1, <1>2, <1>3
  <1>4. CASE ~ \E w \in Workers : CommitGrant(w) \/ CommitRevoke(w)
    <2>1. \A w \in Workers : Request(w) \/ Fail(w) => UNCHANGED audit
      BY DEF Request, Fail, Checkout, CancelOrder, ReadBilling, ReceiveWebhook, AskGrant,
          AskRevoke, rows
    <2>2. \A w \in Workers : Resume(w) => UNCHANGED audit
      BY <1>4 DEF Resume, LockStale, AbortDeadlocked, FindOpenOrder, ReuseOrder,
          PlaceOrder, CommitCancel,
          ExpireStaleOrders, IgnoreTransfer, RecordDuplicate, RecordMismatch, RecordOnly,
          LockOrder, LockPlan, SettleUnapplied, SettlePaid, CommitSettlement, InsertFails,
          ReportPurchase, LockGrant, LockRevoke, RefuseRevoke, rows
    <2>3. UNCHANGED audit
      BY <2>1, <2>2 DEF Next, RefuseWebhook, PayByTransfer, Tick, vars, rows
    <2>4. QED
      BY <1>1, <2>3
  <1>5. QED
    BY <1>3, <1>4

\* A payment: what it adds to the plan, and the orders it leaves alone.
LEMMA PaidOrderFacts ==
    ASSUME IInv, [Next]_vars, NEW w \in Workers, SettlePaid(w)
    PROVE  \E o \in OrderIds, u \in Users, p \in Plans, at \in Nat :
              /\ o = job[w].order /\ u = job[w].user
              /\ orders[o].status # "paid" /\ orders'[o].status = "paid"
              /\ orders'[o].user = u /\ orders'[o].plan = p /\ orders'[o].paidAt = at
              /\ \A q \in OrderIds \ {o} : orders'[q] = orders[q]
              /\ subs[u].expires > at => subs'[u].expires = subs[u].expires + Days[p]
              /\ subs[u].expires <= at => subs'[u].expires = at + Days[p]
  <1>1. orders \in [OrderIds -> Order] /\ subs \in [Users -> Subscription]
    BY DEF IInv, TypeOK
  <1>2. PICK o \in OrderIds, u \in Users, p \in Plans, at \in Nat :
          o = job[w].order /\ u = job[w].user /\ p = job[w].plan /\ at = job[w].at
    BY SettlingFacts, Zenon
  <1>3. u = orders[o].user /\ p = orders[o].plan /\ orders[o].status \notin Settled
    BY <1>2, SettlingFacts
  <1>4. orders'[o] = [orders[o] EXCEPT !.status = "paid", !.txn = job[w].txn, !.paidAt = at]
    <2>1. orders'[job[w].order] = [orders[job[w].order] EXCEPT
            !.status = IF SettlePaid(w) THEN "paid" ELSE "paid_unapplied",
            !.txn = job[w].txn, !.paidAt = job[w].at]
      BY SettlingFacts
    <2>2. QED
      BY <1>2, <2>1
  <1>5. orders[o] \in Order
    BY <1>1
  <1>6. /\ orders'[o].user = u /\ orders'[o].plan = p /\ orders'[o].paidAt = at
        /\ orders[o].status # "paid" /\ orders'[o].status = "paid"
    BY <1>3, <1>4, <1>5 DEF Order, Settled
  <1>7. \A q \in OrderIds \ {o} : orders'[q] = orders[q]
    BY <1>1, <1>2 DEF SettlePaid, CommitSettlement, Paid
  <1>8. pc[w] = "settle" /\ ~InsertConflict(w, u)
    BY <1>2 DEF SettlePaid, CommitSettlement
  <1>9. saw[w] = subs[u] /\ subs'[u] = Extended(subs[u], p, at)
    BY <1>1, <1>2, <1>8, PlanIsCurrent DEF SettlePaid
  <1>10. ~(Running(subs[u], at) /\ subs[u].tier # Tier[p])
    BY <1>2, <1>9 DEF SettlePaid, Rival
  <1>11. subs[u].expires \in Nat /\ Days[p] \in Nat /\ (subs[u] = NoSub => subs[u].expires = 0)
    BY <1>1, Constants DEF Subscription, NoSub
  <1>12. subs[u].expires > at => subs'[u].expires = subs[u].expires + Days[p]
    <2>. SUFFICES ASSUME subs[u].expires > at PROVE subs'[u].expires = subs[u].expires + Days[p]
      OBVIOUS
    <2>1. Running(subs[u], at)
      BY <1>11 DEF Running
    <2>2. subs'[u].expires = Days[p] + subs[u].expires
      BY <1>9, <1>10, <2>1 DEF Extended
    <2>3. QED
      BY <1>11, <2>2
  <1>13. subs[u].expires <= at => subs'[u].expires = at + Days[p]
    <2>. SUFFICES ASSUME subs[u].expires <= at PROVE subs'[u].expires = at + Days[p]
      OBVIOUS
    <2>1. ~Running(subs[u], at)
      BY <1>11 DEF Running
    <2>2. subs'[u].expires = Days[p] + at
      BY <1>9, <2>1 DEF Extended
    <2>3. QED
      BY <1>11, <2>2
  <1>14. QED
    <2>1. o = job[w].order /\ u = job[w].user
      BY <1>2
    <2>2. QED
      BY <1>6, <1>7, <1>12, <1>13, <2>1, Zenon

LEMMA PaidTimeStep == IInv /\ PaidTimeIsConserved /\ [Next]_vars => PaidTimeIsConserved'
  <1>. SUFFICES ASSUME IInv, PaidTimeIsConserved, [Next]_vars, NEW u \in Users, audit'[u] = 0
                PROVE  Conserved(orders', PaidOrders(u)', subs'[u].expires)
    BY ConservedMeans DEF AllConserved
  <1>1. orders \in [OrderIds -> Order] /\ subs \in [Users -> Subscription]
        /\ orders' \in [OrderIds -> Order] /\ subs' \in [Users -> Subscription]
    BY NextIInv DEF IInv, TypeOK
  <1>2. audit[u] = 0
    BY AuditGrows
  <1>3. Conserved(orders, PaidOrders(u), subs[u].expires)
    BY <1>2, ConservedMeans DEF AllConserved
  <1>. PICK P : P = PaidOrders(u)
    OBVIOUS
  <1>. PICK R : R = PaidOrders(u)'
    OBVIOUS
  <1>. PICK pa : pa = [q \in OrderIds |-> orders'[q].paidAt]
    OBVIOUS
  <1>. PICK d : d = [q \in OrderIds |-> Days[orders'[q].plan]]
    OBVIOUS
  <1>. PICK e : e = subs[u].expires
    OBVIOUS
  <1>. PICK f : f = subs'[u].expires
    OBVIOUS
  <1>. PICK ords : ords = orders
    OBVIOUS
  <1>. PICK more : more = orders'
    OBVIOUS
  <1>4. /\ P = {q \in OrderIds : orders[q].user = u /\ orders[q].status = "paid"}
        /\ R = {q \in OrderIds : orders'[q].user = u /\ orders'[q].status = "paid"}
    BY DEF PaidOrders
  <1>5. \A q \in P : orders'[q] = orders[q] /\ q \in R
    BY <1>4, SettledStays DEF Settled
  <1>6. P \in SUBSET OrderIds /\ R \in SUBSET OrderIds
    BY <1>4
  <1>7. PaidFor(P, pa, d, e)
    <2>1. \A q \in P : pa[q] = ords[q].paidAt /\ d[q] = Days[ords[q].plan]
      BY <1>5, <1>6
    <2>2. Conserved(ords, P, e)
      BY <1>3
    <2>3. Conserved(ords, P, e) <=> PaidFor(P, pa, d, e)
      BY SMTT(40), <1>6, <2>1, ConservedIs
    <2>4. QED
      BY <2>2, <2>3
  <1>8. PaidFor(R, pa, d, f) => Conserved(more, R, f)
    <2>1. \A q \in R : pa[q] = more[q].paidAt /\ d[q] = Days[more[q].plan]
      BY <1>6
    <2>2. QED
      BY <1>6, <2>1, ConservedIs
  <1>9. e \in Nat /\ f \in Nat
    BY <1>1 DEF Subscription
  <1>10. CASE \E w \in Workers : SettlePaid(w) /\ job[w].user = u
    <2>1. PICK w \in Workers : SettlePaid(w) /\ job[w].user = u
      BY <1>10
    <2>2. PICK o \in OrderIds, p \in Plans, at \in Nat :
              /\ orders[o].status # "paid" /\ orders'[o].status = "paid"
              /\ orders'[o].user = u /\ orders'[o].plan = p /\ orders'[o].paidAt = at
              /\ \A q \in OrderIds \ {o} : orders'[q] = orders[q]
              /\ subs[u].expires > at => subs'[u].expires = subs[u].expires + Days[p]
              /\ subs[u].expires <= at => subs'[u].expires = at + Days[p]
      BY <2>1, PaidOrderFacts
    <2>3. R = P \cup {o} /\ o \notin P
      BY <1>4, <1>5, <2>2
    <2>4. pa[o] = at /\ d[o] = Days[p]
      BY <2>2
    <2>5. ASSUME NEW q \in P \cup {o} PROVE pa[q] \in Nat /\ d[q] \in Nat /\ d[q] > 0
      <3>1. q \in OrderIds /\ orders'[q].status = "paid" /\ orders'[q] \in Order
        BY <1>1, <1>4, <2>3
      <3>2. orders'[q].plan \in Plans
        <4>1. RowsAreComplete'
          BY NextIInv DEF IInv
        <4>2. orders'[q] # NoOrder
          BY <3>1 DEF NoOrder
        <4>3. QED
          BY <3>1, <4>1, <4>2 DEF RowsAreComplete
      <3>3. Days[orders'[q].plan] \in Nat \ {0}
        BY <3>2, PriceListAssumption
      <3>4. pa[q] = orders'[q].paidAt /\ d[q] = Days[orders'[q].plan]
        BY <3>1
      <3>5. QED
        BY <3>1, <3>3, <3>4 DEF Order
    <2>6. (e > pa[o] => f = e + d[o]) /\ (e <= pa[o] => f = pa[o] + d[o])
      BY <2>2, <2>4
    <2>7. IsFiniteSet(P)
      BY <1>6, OrderSets
    <2>8. PaidFor(P \cup {o}, pa, d, f)
      BY <1>7, <1>9, <2>3, <2>5, <2>6, <2>7, PaymentKeeps
    <2>9. QED
      BY <1>8, <2>3, <2>8
  <1>11. CASE ~ \E w \in Workers : SettlePaid(w) /\ job[w].user = u
    <2>1. subs'[u] = subs[u]
      <3>1. SUFFICES ASSUME subs'[u] # subs[u] PROVE FALSE
        OBVIOUS
      <3>2. PICK w \in Workers : u = job[w].user /\ (CommitGrant(w) \/ CommitRevoke(w))
        BY <1>11, <3>1, PlanChanges
      <3>3. audit \in [Users -> Nat] /\ audit' = [audit EXCEPT ![u] = @ + 1]
        BY <3>2 DEF CommitGrant, CommitRevoke, IInv, TypeOK
      <3>4. QED
        BY <1>2, <3>3
    <2>2. ASSUME NEW q \in R PROVE q \in P
      <3>1. q \in OrderIds /\ orders'[q].user = u /\ orders'[q].status = "paid"
        BY <1>4
      <3>2. SUFFICES ASSUME orders'[q] # orders[q] PROVE FALSE
        BY <1>4, <3>1
      <3>3. PICK w \in Workers : Places(w, q) \/ Lapses(w, q) \/ Cancels(q) \/ Settles(w, q)
        BY <3>1, <3>2, OrderChanges
      <3>4. Settles(w, q) /\ q = job[w].order /\ (SettleUnapplied(w) \/ SettlePaid(w))
        BY <1>1, <3>1, <3>3 DEF Places, Lapses, Cancels, Settles, NoOrder, Order
      <3>5. SettlePaid(w)
        BY <3>1, <3>4, SettlingFacts
      <3>6. orders'[q].user = job[w].user
        BY <3>4, <3>5, PaidOrderFacts
      <3>7. QED
        BY <1>11, <3>1, <3>5, <3>6
    <2>3. R = P /\ f = e
      BY <1>5, <2>1, <2>2
    <2>4. QED
      BY <1>7, <1>8, <2>3
  <1>12. QED
    BY <1>10, <1>11

LEMMA PaidTimeInit == Init => PaidTimeIsConserved
  <1>. SUFFICES ASSUME Init, NEW u \in Users
                PROVE  Conserved(orders, PaidOrders(u), subs[u].expires)
    BY ConservedMeans DEF AllConserved
  <1>1. PaidOrders(u) = {} /\ subs[u].expires = 0
    BY DEF Init, PaidOrders, NoOrder, NoSub
  <1>2. PaidFor({}, <<>>, <<>>, 0)
    <2>1. Total(<<>>, {}) = 0
      BY FS_EmptySet, TotalValues
    <2>2. Max({0} \cup {<<>>[q] : q \in {}}) \in Nat
      BY FS_EmptySet, LastPayment
    <2>3. QED
      BY <2>1, <2>2 DEF PaidFor
  <1>. PICK ords : ords = orders
    OBVIOUS
  <1>3. Conserved(ords, {}, 0)
    BY <1>2, ConservedIs
  <1>4. QED
    BY <1>1, <1>3

\* A learner has the time of every paid order from its payment on, and no more than
\* the time of all paid orders from the last payment, unless an admin intervened.
THEOREM PaidTimeIsKept == Spec => []PaidTimeIsConserved
  <1>1. QED
    BY PaidTimeInit, PaidTimeStep, Invariance, PTL DEF Spec

=============================================================================
