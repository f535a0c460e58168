--------------------------- MODULE AccountsProofs ---------------------------
(***************************************************************************)
(* Proofs about Accounts and about AdminSessions.                          *)
(*                                                                         *)
(* Accounts: for every set of people, staff and browsers, and for any      *)
(* number of policies and sign-ins.                                        *)
(*                                                                         *)
(* The number of a new row is one more than there are rows: it is new      *)
(* because rows are rewritten but never taken away, and no learner's row   *)
(* has a greater one.  Every token therefore keeps naming the row of the   *)
(* person it was given to, which is what both properties rest on: whose    *)
(* account a token opens, and whose consent is recorded.                   *)
(***************************************************************************)
EXTENDS Accounts, AdminSessions, FiniteSetTheorems, TLAPS

Rows == [email : People, id : Nat, role : {"admin", "user"}, active : BOOLEAN,
         chosen : BOOLEAN, consent : Nat, under : Nat]

TokenRows == [sub : Nat, by : People, until : Nat]

\* The sign-in a browser may be at.
SignIns ==
         {Nobody}
  \union [at : {"insert"}, person : People \ Staff, google : BOOLEAN, read : Nat]
  \union [at : {"google"}, person : People, until : Nat]

AccountsFit ==
    /\ hour \in Nat /\ policy \in Nat \ {0}
    /\ users \subseteq Rows /\ IsFiniteSet(users)
    /\ tokens \subseteq TokenRows
    /\ forms \in [People -> Nat]
    /\ signing \in [SignUpWorkers -> SignIns]
    /\ accepted \in [People -> SUBSET Nat]
    /\ created \in [People -> Nat]
    /\ answered \in [People -> Nat]

\* A row is known by its email, and a learner's by its number.
RowsAreOwned ==
    /\ \A u \in users : IF u.email \in Staff THEN u.id = 0 /\ u.role = "admin"
                        ELSE u.id \in 1..Cardinality(users)
    /\ \A u, v \in users : u.email = v.email => u = v
    /\ \A u, v \in users : u.email \notin Staff /\ v.id = u.id => v = u

TokensNameTheirRow ==
    \A t \in tokens : t.by \notin Staff /\ \E u \in users : u.id = t.sub /\ u.email = t.by

CreatedOnce == \A p \in People : created[p] <= 1 /\ (Of(p) = {} => created[p] = 0)

\* Consent was given to a text that was read, or by the sign-up form.
ConsentWasGiven ==
    \A u \in users : u.consent # 0 => u.consent \in accepted[u.email] \/ u.under = u.consent

AccountsInv ==
    AccountsFit /\ RowsAreOwned /\ TokensNameTheirRow /\ CreatedOnce /\ ConsentWasGiven
-----------------------------------------------------------------------------
LEMMA SignInFields ==
    ASSUME NEW j \in SignIns
    PROVE  /\ j.at \in {"none", "insert", "google"}
           /\ j.at = "insert" => j.person \in People \ Staff /\ j.google \in BOOLEAN /\ j.read \in Nat
           /\ j.at = "google" => j.person \in People /\ j.until \in Nat
  <1>1. CASE j = Nobody
    BY <1>1 DEF Nobody
  <1>2. CASE j \in [at : {"insert"}, person : People \ Staff, google : BOOLEAN, read : Nat]
    BY <1>2
  <1>3. CASE j \in [at : {"google"}, person : People, until : Nat]
    BY <1>3
  <1>4. QED
    BY <1>1, <1>2, <1>3 DEF SignIns

LEMMA RowFields ==
    ASSUME NEW u \in Rows
    PROVE  /\ u.email \in People /\ u.id \in Nat /\ u.role \in {"admin", "user"}
           /\ u.active \in BOOLEAN /\ u.chosen \in BOOLEAN /\ u.consent \in Nat /\ u.under \in Nat
  BY DEF Rows

\* What a token opens is the row of the person it was given to.
LEMMA TokensOpenTheirRow ==
    ASSUME AccountsInv, NEW t \in tokens, NEW u \in users, u.id = t.sub
    PROVE  u.email = t.by /\ t.by \notin Staff
  <1>1. PICK v \in users : v.id = t.sub /\ v.email = t.by /\ t.by \notin Staff
    BY DEF AccountsInv, TokensNameTheirRow
  <1>2. u = v
    BY <1>1 DEF AccountsInv, RowsAreOwned
  <1>3. QED
    BY <1>1, <1>2

\* An update rewrites rows in place: it moves no email and no number.
LEMMA RowsRewritten ==
    ASSUME AccountsInv, NEW f \in [users -> Rows],
           \A u \in users : f[u].email = u.email /\ f[u].id = u.id /\ f[u].role = u.role,
           users' = {f[u] : u \in users}
    PROVE  /\ users' \subseteq Rows /\ IsFiniteSet(users')
           /\ RowsAreOwned'
           /\ \A p \in People : Of(p)' = {} => Of(p) = {}
           /\ \A u \in users : \E v \in users' : v.id = u.id /\ v.email = u.email
  <1>. DEFINE T == {f[u] : u \in users}
  <1>1. f \in Surjection(users, T)
    BY Zenon DEF Surjection
  <1>2. \A u, v \in users : f[u] = f[v] => u = v
    BY DEF AccountsInv, RowsAreOwned
  <1>3. f \in [users -> T]
    BY <1>1 DEF Surjection
  <1>4. f \in Injection(users, T)
    BY <1>2, <1>3 DEF Injection, IsInjective
  <1>5. IsFiniteSet(T) /\ Cardinality(T) = Cardinality(users)
    BY <1>1, <1>4, FS_Surjection DEF AccountsInv, AccountsFit
  <1>6. IsFiniteSet(users') /\ Cardinality(users') = Cardinality(users)
    BY <1>5
  <1>7. ASSUME NEW v \in users'
        PROVE  \E u \in users : /\ v = f[u] /\ v.email = u.email /\ v.id = u.id
                                 /\ v.role = u.role /\ v \in Rows
    OBVIOUS
  <1>8. RowsAreOwned'
    <2>1. ASSUME NEW v \in users'
          PROVE  IF v.email \in Staff THEN v.id = 0 /\ v.role = "admin"
                 ELSE v.id \in 1..Cardinality(users')
      BY <1>6, <1>7 DEF AccountsInv, RowsAreOwned
    <2>2. ASSUME NEW u \in users', NEW v \in users'
          PROVE  /\ u.email = v.email => u = v
                 /\ u.email \notin Staff /\ v.id = u.id => v = u
      <3>1. PICK x \in users : u = f[x] /\ u.email = x.email /\ u.id = x.id
        BY <1>7
      <3>2. PICK y \in users : v = f[y] /\ v.email = y.email /\ v.id = y.id
        BY <1>7
      <3>3. QED
        BY <3>1, <3>2 DEF AccountsInv, RowsAreOwned
    <2>3. QED
      BY <2>1, <2>2 DEF RowsAreOwned
  <1>9. ASSUME NEW u \in users PROVE \E v \in users' : v.id = u.id /\ v.email = u.email
    BY f[u] \in users'
  <1>10. ASSUME NEW p \in People, Of(p)' = {} PROVE Of(p) = {}
    BY <1>9, <1>10 DEF Of
  <1>11. QED
    BY <1>6, <1>7, <1>8, <1>9, <1>10

\* A step that writes no row and answers no sign-in.
LEMMA QuietSteps ==
    ASSUME AccountsInv, AccountsFit', UNCHANGED <<users, tokens, created, accepted>>
    PROVE  AccountsInv'
  BY DEF AccountsInv, RowsAreOwned, TokensNameTheirRow, CreatedOnce, ConsentWasGiven, Of

\* A step that hands out a token for rows that are there.
LEMMA TokensHandedOut ==
    ASSUME AccountsInv, NEW p \in People \ Staff, NEW S \in SUBSET Of(p),
           tokens' = tokens \union {TokenFor(u) : u \in S},
           signing' \in [SignUpWorkers -> SignIns],
           UNCHANGED <<hour, policy, users, forms, created, accepted, answered>>
    PROVE  AccountsInv'
  <1>1. ASSUME NEW u \in S
        PROVE  /\ TokenFor(u) \in TokenRows /\ TokenFor(u).by = p
               /\ u \in users /\ u.id = TokenFor(u).sub /\ u.email = TokenFor(u).by
    <2>1. u \in users /\ u.email = p
      BY DEF Of
    <2>2. u.id \in Nat /\ u.email \in People
      BY <2>1, RowFields DEF AccountsInv, AccountsFit
    <2>3. hour + TokenLife \in Nat
      BY AccountsAssumption DEF AccountsInv, AccountsFit
    <2>4. QED
      BY <2>1, <2>2, <2>3 DEF TokenFor, TokenRows
  <1>2. tokens' \subseteq TokenRows
    BY <1>1 DEF AccountsInv, AccountsFit
  <1>3. AccountsFit'
    BY <1>2 DEF AccountsInv, AccountsFit
  <1>4. TokensNameTheirRow'
    BY <1>1 DEF AccountsInv, TokensNameTheirRow
  <1>5. QED
    BY <1>3, <1>4 DEF AccountsInv, RowsAreOwned, CreatedOnce, ConsentWasGiven, Of

-----------------------------------------------------------------------------
LEMMA SignInMoves ==
    ASSUME AccountsInv, NEW w \in SignUpWorkers, NEW j \in SignIns
    PROVE  [signing EXCEPT ![w] = j] \in [SignUpWorkers -> SignIns]
  BY DEF AccountsInv, AccountsFit

LEMMA OpenFormKeeps ==
    ASSUME AccountsInv, NEW p \in People, OpenForm(p)
    PROVE  AccountsInv'
  BY QuietSteps DEF OpenForm, AccountsInv, AccountsFit

LEMMA UseAIKeeps ==
    ASSUME AccountsInv, NEW p \in People, UseAI(p)
    PROVE  AccountsInv'
  BY QuietSteps DEF UseAI, AccountsInv, AccountsFit

LEMMA LookForEmailKeeps ==
    ASSUME AccountsInv, NEW w \in SignUpWorkers, NEW p \in People, LookForEmail(w, p)
    PROVE  AccountsInv'
  <1>1. [at |-> "insert", person |-> p, google |-> FALSE, read |-> forms[p]] \in SignIns
    BY DEF LookForEmail, SignIns, AccountsInv, AccountsFit
  <1>2. signing' \in [SignUpWorkers -> SignIns]
    BY <1>1, SignInMoves DEF LookForEmail, Serve
  <1>3. QED
    BY <1>2, QuietSteps DEF LookForEmail, Serve, AccountsInv, AccountsFit

LEMMA GoogleStartKeeps ==
    ASSUME AccountsInv, NEW w \in SignUpWorkers, NEW p \in People, GoogleStart(w, p)
    PROVE  AccountsInv'
  <1>1. hour + StateLife \in Nat
    BY AccountsAssumption DEF AccountsInv, AccountsFit
  <1>2. [at |-> "google", person |-> p, until |-> hour + StateLife] \in SignIns
    BY <1>1 DEF SignIns
  <1>3. signing' \in [SignUpWorkers -> SignIns]
    BY <1>2, SignInMoves DEF GoogleStart, Serve
  <1>4. QED
    BY <1>3, QuietSteps DEF GoogleStart, Serve, AccountsInv, AccountsFit

LEMMA GoogleFailsKeeps ==
    ASSUME AccountsInv, NEW w \in SignUpWorkers, GoogleFails(w)
    PROVE  AccountsInv'
  <1>1. signing' \in [SignUpWorkers -> SignIns]
    BY SignInMoves DEF GoogleFails, Answer, SignIns
  <1>2. QED
    BY <1>1, QuietSteps DEF GoogleFails, AccountsInv, AccountsFit

LEMMA GoogleCallbackKeeps ==
    ASSUME AccountsInv, NEW w \in SignUpWorkers, GoogleCallback(w)
    PROVE  AccountsInv'
  <1>. DEFINE p == signing[w].person
  <1>1. p \in People \ Staff
    BY SignInFields DEF GoogleCallback, AccountsInv, AccountsFit
  <1>2. CASE Of(p) = {}
    <2>1. [at |-> "insert", person |-> p, google |-> TRUE, read |-> 0] \in SignIns
      BY <1>1 DEF SignIns
    <2>2. signing' \in [SignUpWorkers -> SignIns]
      BY <1>2, <2>1, SignInMoves DEF GoogleCallback
    <2>3. QED
      BY <1>2, <2>2, QuietSteps DEF GoogleCallback, AccountsInv, AccountsFit
  <1>3. CASE Of(p) # {}
    <2>1. signing' \in [SignUpWorkers -> SignIns]
      BY <1>3, SignInMoves DEF GoogleCallback, Answer, SignIns
    <2>2. tokens' = tokens \union {TokenFor(u) : u \in Of(p)}
      BY <1>3 DEF GoogleCallback
    <2>3. QED
      BY <1>1, <2>1, <2>2, TokensHandedOut DEF GoogleCallback
  <1>4. QED
    BY <1>2, <1>3

LEMMA SignInKeeps ==
    ASSUME AccountsInv, NEW p \in People, SignIn(p)
    PROVE  AccountsInv'
  <1>1. PICK u \in Of(p) : Learner(u) /\ u.chosen /\ tokens' = tokens \union {TokenFor(u)}
    BY DEF SignIn
  <1>2. p \notin Staff
    BY <1>1 DEF Of, Learner, AccountsInv, RowsAreOwned
  <1>3. tokens' = tokens \union {TokenFor(x) : x \in {u}}
    BY <1>1
  <1>4. /\ signing' \in [SignUpWorkers -> SignIns] /\ {u} \in SUBSET Of(p)
        /\ UNCHANGED <<hour, policy, users, forms, created, accepted, answered>>
    BY DEF SignIn, AccountsInv, AccountsFit
  <1>5. QED
    BY <1>2, <1>3, <1>4, TokensHandedOut

LEMMA InsertKeeps ==
    ASSUME AccountsInv, NEW w \in SignUpWorkers, Insert(w)
    PROVE  AccountsInv'
  <1>. DEFINE j   == signing[w]
              p   == j.person
              n   == Cardinality(users)
              row == Account(p, n + 1, IF j.google THEN 0 ELSE policy)
  <1>1. /\ p \in People \ Staff /\ j.google \in BOOLEAN /\ j.read \in Nat
        /\ n \in Nat /\ policy \in Nat \ {0}
    BY SignInFields, FS_CardinalityType DEF Insert, AccountsInv, AccountsFit
  <1>2. signing' \in [SignUpWorkers -> SignIns]
    BY SignInMoves DEF Insert, Answer, SignIns
  <1>3. CASE Taken(p)
    BY <1>2, <1>3, QuietSteps DEF Insert, AccountsInv, AccountsFit
  <1>4. CASE ~Taken(p)
    <2>. DEFINE under == IF j.google THEN 0 ELSE policy
    <2>1. /\ Of(p) = {} /\ users' = users \union {row}
          /\ tokens' = tokens \union {TokenFor(row)}
          /\ created' = [created EXCEPT ![p] = @ + 1]
          /\ accepted' = [accepted EXCEPT ![p] = @ \union ({j.read} \ {0})]
          /\ UNCHANGED <<hour, policy, forms, begun, answered>>
      BY <1>4 DEF Insert, Taken
    <2>2. under \in Nat
      BY <1>1
    <2>3. /\ row \in Rows /\ row.email = p /\ row.id = n + 1 /\ row.role = "user"
          /\ row.consent = under /\ row.under = under
      BY <1>1, <2>2 DEF Account, Rows
    <2>4. row \notin users /\ \A u \in users : u.email # p
      BY <2>1, <2>3 DEF Of
    <2>5. IsFiniteSet(users') /\ Cardinality(users') = n + 1
      BY <2>1, <2>4, FS_AddElement DEF AccountsInv, AccountsFit
    <2>6. /\ TokenFor(row) \in TokenRows /\ TokenFor(row).by = p /\ TokenFor(row).sub = row.id
      <3>1. hour + TokenLife \in Nat /\ n + 1 \in Nat
        BY <1>1, AccountsAssumption DEF AccountsInv, AccountsFit
      <3>2. QED
        BY <1>1, <2>3, <3>1 DEF TokenFor, TokenRows
    <2>. HIDE DEF row, under, n
    <2>7. AccountsFit'
      <3>1. created[p] + 1 \in Nat /\ accepted[p] \union ({j.read} \ {0}) \in SUBSET Nat
        BY <1>1 DEF AccountsInv, AccountsFit
      <3>2. created' \in [People -> Nat] /\ accepted' \in [People -> SUBSET Nat]
        BY <2>1, <3>1 DEF AccountsInv, AccountsFit
      <3>3. users' \subseteq Rows /\ tokens' \subseteq TokenRows
        BY <2>1, <2>3, <2>6 DEF AccountsInv, AccountsFit
      <3>4. QED
        BY <1>2, <2>1, <2>5, <3>2, <3>3 DEF AccountsInv, AccountsFit
    <2>8. \A u \in users : u.id # n + 1
      <3>1. \A u \in users : u.id = 0 \/ u.id \in 1..n
        BY DEF AccountsInv, RowsAreOwned, n
      <3>2. QED
        BY <1>1, <3>1
    <2>9. RowsAreOwned'
      <3>1. ASSUME NEW u \in users'
            PROVE  IF u.email \in Staff THEN u.id = 0 /\ u.role = "admin"
                   ELSE u.id \in 1..Cardinality(users')
        <4>1. CASE u = row
          BY <1>1, <2>3, <2>5, <4>1
        <4>2. CASE u \in users
          <5>1. IF u.email \in Staff THEN u.id = 0 /\ u.role = "admin" ELSE u.id \in 1..n
            BY <4>2 DEF AccountsInv, RowsAreOwned, n
          <5>2. 1..n \subseteq 1..(n + 1)
            BY <1>1
          <5>3. QED
            BY <2>5, <5>1, <5>2
        <4>3. QED
          BY <2>1, <4>1, <4>2
      <3>2. ASSUME NEW u \in users', NEW v \in users'
            PROVE  /\ u.email = v.email => u = v
                   /\ u.email \notin Staff /\ v.id = u.id => v = u
        <4>1. CASE u \in users /\ v \in users
          BY <4>1 DEF AccountsInv, RowsAreOwned
        <4>2. CASE u = row \/ v = row
          BY <2>1, <2>3, <2>4, <2>8, <4>2
        <4>3. QED
          BY <2>1, <4>1, <4>2
      <3>3. QED
        BY <3>1, <3>2 DEF RowsAreOwned
    <2>10. TokensNameTheirRow'
      BY <1>1, <2>1, <2>3, <2>6 DEF AccountsInv, TokensNameTheirRow
    <2>11. CreatedOnce'
      <3>1. ASSUME NEW q \in People PROVE created'[q] <= 1 /\ (Of(q)' = {} => created'[q] = 0)
        <4>1. CASE q = p
          <5>1. created[p] = 0
            BY <1>1, <2>1 DEF AccountsInv, CreatedOnce
          <5>2. created'[p] = 1
            BY <1>1, <2>1, <5>1 DEF AccountsInv, AccountsFit
          <5>3. Of(q)' # {}
            BY <2>1, <2>3, <4>1 DEF Of
          <5>4. QED
            BY <4>1, <5>2, <5>3
        <4>2. CASE q # p
          <5>1. created'[q] = created[q]
            BY <2>1, <4>2 DEF AccountsInv, AccountsFit
          <5>2. Of(q)' = {} => Of(q) = {}
            BY <2>1 DEF Of
          <5>3. QED
            BY <5>1, <5>2 DEF AccountsInv, CreatedOnce
        <4>3. QED
          BY <4>1, <4>2
      <3>2. QED
        BY <3>1 DEF CreatedOnce
    <2>12. ConsentWasGiven'
      <3>1. ASSUME NEW u \in users', u.consent # 0
            PROVE  u.consent \in accepted'[u.email] \/ u.under = u.consent
        <4>1. CASE u = row
          BY <2>3, <4>1
        <4>2. CASE u \in users
          BY <2>1, <2>4, <3>1, <4>2, RowFields
          DEF AccountsInv, AccountsFit, ConsentWasGiven
        <4>3. QED
          BY <2>1, <4>1, <4>2
      <3>2. QED
        BY <3>1 DEF ConsentWasGiven
    <2>13. QED
      BY <2>7, <2>9, <2>10, <2>11, <2>12 DEF AccountsInv
  <1>5. QED
    BY <1>3, <1>4

LEMMA ConsentKeeps ==
    ASSUME AccountsInv, NEW p \in People, Consent(p)
    PROVE  AccountsInv'
  <1>1. PICK t \in tokens : t.by = p /\ \E u \in Bearer(t) :
                users' = (users \ {u}) \union {[u EXCEPT !.consent = policy]}
    BY DEF Consent
  <1>2. PICK u \in Bearer(t) : users' = (users \ {u}) \union {[u EXCEPT !.consent = policy]}
    BY <1>1
  <1>3. u \in users /\ u.id = t.sub
    BY <1>2 DEF Bearer
  <1>4. u.email = p
    BY <1>1, <1>3, TokensOpenTheirRow
  <1>5. /\ forms[p] = policy /\ accepted' = [accepted EXCEPT ![p] = @ \union {forms[p]}]
        /\ UNCHANGED <<hour, policy, tokens, forms, signing, begun, created, answered>>
    BY DEF Consent, Outdated
  <1>. DEFINE new == [u EXCEPT !.consent = policy]
              f   == [x \in users |-> IF x = u THEN new ELSE x]
  <1>6. /\ new \in Rows /\ new.email = u.email /\ new.id = u.id /\ new.role = u.role
        /\ new.consent = policy
    <2>1. u \in Rows /\ policy \in Nat
      BY <1>3 DEF AccountsInv, AccountsFit
    <2>2. QED
      BY <2>1 DEF Rows
  <1>7. users' = {f[x] : x \in users}
    BY <1>2, <1>3
  <1>8. f \in [users -> Rows] /\ \A x \in users : f[x].email = x.email /\ f[x].id = x.id
                                                  /\ f[x].role = x.role
    BY <1>6 DEF AccountsInv, AccountsFit
  <1>. HIDE DEF new, f
  <1>9. /\ users' \subseteq Rows /\ IsFiniteSet(users') /\ RowsAreOwned'
        /\ \A q \in People : Of(q)' = {} => Of(q) = {}
        /\ \A x \in users : \E v \in users' : v.id = x.id /\ v.email = x.email
    BY <1>7, <1>8, RowsRewritten
  <1>10. AccountsFit'
    <2>1. accepted[p] \union {forms[p]} \in SUBSET Nat
      BY DEF AccountsInv, AccountsFit
    <2>2. QED
      BY <1>5, <1>9, <2>1 DEF AccountsInv, AccountsFit
  <1>11. TokensNameTheirRow'
    BY <1>5, <1>9 DEF AccountsInv, TokensNameTheirRow
  <1>12. CreatedOnce'
    BY <1>5, <1>9 DEF AccountsInv, CreatedOnce
  <1>13. ConsentWasGiven'
    <2>1. ASSUME NEW v \in users', v.consent # 0
          PROVE  v.consent \in accepted'[v.email] \/ v.under = v.consent
      <3>1. CASE v = new
        BY <1>4, <1>5, <1>6, <3>1 DEF AccountsInv, AccountsFit
      <3>2. CASE v \in users
        <4>1. v.email \in People
          BY <3>2, RowFields DEF AccountsInv, AccountsFit
        <4>2. accepted[v.email] \subseteq accepted'[v.email]
          BY <1>5, <4>1 DEF AccountsInv, AccountsFit
        <4>3. QED
          BY <2>1, <3>2, <4>2 DEF AccountsInv, ConsentWasGiven
      <3>3. QED
        BY <1>2, <3>1, <3>2 DEF new
    <2>2. QED
      BY <2>1 DEF ConsentWasGiven
  <1>14. QED
    BY <1>9, <1>10, <1>11, <1>12, <1>13 DEF AccountsInv

LEMMA SetActiveKeeps ==
    ASSUME AccountsInv, NEW p \in People, SetActive(p)
    PROVE  AccountsInv'
  <1>. DEFINE f == [x \in users |-> IF x.email = p THEN [x EXCEPT !.active = ~@] ELSE x]
  <1>1. users' = {f[x] : x \in users}
    BY DEF SetActive
  <1>2. ASSUME NEW x \in users
        PROVE  /\ f[x] \in Rows /\ f[x].email = x.email /\ f[x].id = x.id /\ f[x].role = x.role
               /\ f[x].consent = x.consent /\ f[x].under = x.under
    <2>1. x \in Rows
      BY DEF AccountsInv, AccountsFit
    <2>2. QED
      BY <2>1 DEF Rows
  <1>3. f \in [users -> Rows]
    BY <1>2
  <1>. HIDE DEF f
  <1>4. /\ users' \subseteq Rows /\ IsFiniteSet(users') /\ RowsAreOwned'
        /\ \A q \in People : Of(q)' = {} => Of(q) = {}
        /\ \A x \in users : \E v \in users' : v.id = x.id /\ v.email = x.email
    BY <1>1, <1>2, <1>3, RowsRewritten
  <1>5. UNCHANGED <<hour, policy, tokens, forms, signing, begun, accepted, created, answered>>
    BY DEF SetActive
  <1>6. AccountsFit'
    BY <1>4, <1>5 DEF AccountsInv, AccountsFit
  <1>7. TokensNameTheirRow'
    BY <1>4, <1>5 DEF AccountsInv, TokensNameTheirRow
  <1>8. CreatedOnce'
    BY <1>4, <1>5 DEF AccountsInv, CreatedOnce
  <1>9. ConsentWasGiven'
    <2>1. ASSUME NEW v \in users', v.consent # 0
          PROVE  v.consent \in accepted'[v.email] \/ v.under = v.consent
      <3>1. PICK x \in users : v = f[x]
        BY <1>1
      <3>2. QED
        BY <1>2, <1>5, <2>1, <3>1 DEF AccountsInv, ConsentWasGiven
    <2>2. QED
      BY <2>1 DEF ConsentWasGiven
  <1>10. QED
    BY <1>4, <1>6, <1>7, <1>8, <1>9 DEF AccountsInv

LEMMA DeployKeeps == AccountsInv /\ Deploy => AccountsInv'
  <1>. SUFFICES ASSUME AccountsInv, Deploy PROVE AccountsInv'
    OBVIOUS
  <1>1. policy' \in Nat \ {0}
    BY DEF Deploy, AccountsInv, AccountsFit
  <1>2. signing' \in [SignUpWorkers -> SignIns]
    BY DEF Deploy, AccountsInv, AccountsFit, SignIns
  <1>3. QED
    BY <1>1, <1>2, QuietSteps DEF Deploy, AccountsInv, AccountsFit

LEMMA HourPassesKeeps == AccountsInv /\ HourPasses => AccountsInv'
  BY QuietSteps DEF HourPasses, AccountsInv, AccountsFit

-----------------------------------------------------------------------------
LEMMA AccountsInitHolds == AccountsInit => AccountsInv
  <1>. SUFFICES ASSUME AccountsInit PROVE AccountsInv
    OBVIOUS
  <1>1. ASSUME NEW p \in Staff
        PROVE  /\ Account(p, 0, 0) \in Rows /\ Account(p, 0, 0).email = p
               /\ Account(p, 0, 0).id = 0 /\ Account(p, 0, 0).role = "admin"
               /\ Account(p, 0, 0).consent = 0
    BY AccountsAssumption DEF Account, Rows
  <1>2. users = {Account(p, 0, 0) : p \in Staff}
    BY DEF AccountsInit
  <1>3. IsFiniteSet(users)
    <2>. DEFINE f == [p \in Staff |-> Account(p, 0, 0)]
    <2>1. f \in Surjection(Staff, users)
      BY <1>2 DEF Surjection
    <2>2. QED
      BY <2>1, FS_Surjection, AccountsAssumption
  <1>4. AccountsFit
    BY <1>1, <1>2, <1>3 DEF AccountsInit, AccountsFit, SignIns
  <1>5. \A u \in users : u.email \in Staff /\ u.id = 0 /\ u.role = "admin" /\ u.consent = 0
                         /\ u = Account(u.email, 0, 0)
    BY <1>1, <1>2
  <1>6. RowsAreOwned
    BY <1>5 DEF RowsAreOwned
  <1>7. TokensNameTheirRow /\ CreatedOnce /\ ConsentWasGiven
    BY <1>5 DEF AccountsInit, TokensNameTheirRow, CreatedOnce, ConsentWasGiven
  <1>8. QED
    BY <1>4, <1>6, <1>7 DEF AccountsInv

LEMMA AccountsStep == AccountsInv /\ [AccountsNext]_accountVars => AccountsInv'
  <1>. SUFFICES ASSUME AccountsInv, [AccountsNext]_accountVars PROVE AccountsInv'
    OBVIOUS
  <1>1. CASE UNCHANGED accountVars
    BY <1>1, QuietSteps DEF accountVars, AccountsInv, AccountsFit
  <1>2. ASSUME NEW p \in People, OpenForm(p) \/ Consent(p) \/ UseAI(p) \/ SetActive(p) \/ SignIn(p)
        PROVE  AccountsInv'
    BY <1>2, OpenFormKeeps, ConsentKeeps, UseAIKeeps, SetActiveKeeps, SignInKeeps
  <1>3. ASSUME NEW w \in SignUpWorkers, NEW p \in People, LookForEmail(w, p) \/ GoogleStart(w, p)
        PROVE  AccountsInv'
    BY <1>3, LookForEmailKeeps, GoogleStartKeeps
  <1>4. ASSUME NEW w \in SignUpWorkers, GoogleFails(w) \/ GoogleCallback(w) \/ Insert(w)
        PROVE  AccountsInv'
    BY <1>4, GoogleFailsKeeps, GoogleCallbackKeeps, InsertKeeps
  <1>5. CASE Deploy \/ HourPasses
    BY <1>5, DeployKeeps, HourPassesKeeps
  <1>6. QED
    BY <1>1, <1>2, <1>3, <1>4, <1>5 DEF AccountsNext

LEMMA AccountsInvariance == AccountsSpec => []AccountsInv
  <1>1. QED
    BY AccountsInitHolds, AccountsStep, PTL DEF AccountsSpec

\* However sign-ups, logins, Google sign-ins and deployments overlap: an email has one account,
\* its creation is told once, and a token opens only the account it was given for.
THEOREM OneAccountForEach == AccountsSpec => []OneAccountEach
  <1>1. AccountsInv => OneAccountEach
    <2>. SUFFICES ASSUME AccountsInv PROVE OneAccountEach
      OBVIOUS
    <2>1. ASSUME NEW p \in People PROVE Cardinality(Of(p)) <= 1 /\ created[p] <= 1
      <3>1. CASE Of(p) = {}
        BY <3>1, FS_EmptySet DEF AccountsInv, CreatedOnce
      <3>2. ASSUME NEW u \in Of(p) PROVE Cardinality(Of(p)) <= 1 /\ created[p] <= 1
        <4>1. Of(p) = {u}
          BY DEF Of, AccountsInv, RowsAreOwned
        <4>2. QED
          BY <4>1, FS_Singleton DEF AccountsInv, CreatedOnce
      <3>3. QED
        BY <3>1, <3>2
    <2>2. QED
      BY <2>1, TokensOpenTheirRow DEF OneAccountEach
  <1>2. QED
    BY <1>1, AccountsInvariance, PTL

\* No AI feature answers a learner under a policy whose text they did not read and accept, but
\* for the consent the sign-up form recorded: for any number of deployments between the two.
THEOREM OnlyReadTextsBind == AccountsSpec => ConsentIsToTheTextRead
  <1>. DEFINE A == \A p \in People : answered'[p] # answered[p] =>
                     \A u \in Of(p) : Learner(u) /\ (policy \in accepted[p] \/ u.under = policy)
  <1>1. AccountsInv /\ [AccountsNext]_accountVars => [A]_accountVars
    <2>. SUFFICES ASSUME AccountsInv, AccountsNext PROVE A
      OBVIOUS
    <2>1. CASE UNCHANGED answered
      BY <2>1
    <2>2. ASSUME NEW q \in People, UseAI(q) PROVE A
      <3>1. PICK t \in tokens : t.by = q /\ \E x \in Bearer(t) : HasConsent(x)
        BY <2>2 DEF UseAI
      <3>2. PICK x \in Bearer(t) : HasConsent(x)
        BY <3>1
      <3>3. /\ x \in users /\ x.id = t.sub /\ Learner(x) /\ x.consent = policy /\ policy # 0
        BY <3>2 DEF Bearer, HasConsent, AccountsInv, AccountsFit
      <3>4. x.email = q
        BY <3>1, <3>3, TokensOpenTheirRow
      <3>5. \A u \in Of(q) : u = x
        BY <3>3, <3>4 DEF Of, AccountsInv, RowsAreOwned
      <3>6. policy \in accepted[q] \/ x.under = policy
        BY <3>3, <3>4 DEF AccountsInv, ConsentWasGiven
      <3>7. \A p \in People : p # q => answered'[p] = answered[p]
        BY <2>2 DEF UseAI, AccountsInv, AccountsFit
      <3>8. QED
        BY <3>3, <3>5, <3>6, <3>7
    <2>3. QED
      BY <2>1, <2>2 DEF AccountsNext, OpenForm, Consent, SetActive, SignIn, LookForEmail,
         GoogleStart, Serve, GoogleFails, GoogleCallback, Insert, Deploy, HourPasses
  <1>2. QED
    BY <1>1, AccountsInvariance, PTL DEF AccountsSpec, ConsentIsToTheTextRead

-----------------------------------------------------------------------------
(***************************************************************************)
(* AdminSessions: for every set of admins, passwords and workers.          *)
(*                                                                         *)
(* ResetTakesHold speaks of sessions and accounts; what makes it stay true *)
(* is what the requests in flight remember: whoever opens a session or     *)
(* writes a row found the account there, rows are never taken away, and    *)
(* the number of a request, of which its session's id is made, is used     *)
(* once.  AdminInv is the conjunction; each action is shown to keep it.    *)
(***************************************************************************)
Targeted == {"reset", "enable", "disable", "create"}
Kinds    == {"change", "logout"} \union Targeted

Passwords == [kind : {"temporary", "own"}, n : Nat \union OwnPasswords]

AccountRows == [exists : {TRUE}, password : Passwords,
         must : BOOLEAN, active : BOOLEAN, epoch : Nat, stale : BOOLEAN]

SessionRows == [id : Accounts \X Nat, owner : Accounts, openedAt : Nat,
                revoked : BOOLEAN, expired : BOOLEAN]

\* The request a worker may serve, by its step.
Jobs ==
         {Away}
  \union [at : {"login"}, owner : Accounts, no : Nat]
  \union [at : {"session"}, session : SessionRows, kind : Kinds, target : Accounts, no : Nat]
  \union [at : Kinds, session : SessionRows, target : Accounts, no : Nat, row : AccountRows]
  \union [at : {"write"}, kind : Targeted, target : Accounts, no : Nat,
          row : AccountRows \union {NoAccount}]

Fits ==
    /\ account \in [Accounts -> AccountRows \union {NoAccount}]
    /\ sessions \subseteq SessionRows /\ IsFiniteSet(sessions)
    /\ desk \in [AdminWorkers -> Jobs]
    /\ asked \in 0..MaxAdminRequests

\* Whose session is open, or about to be, has an account; so has who is written to.
OwnersExist ==
    /\ \A s \in sessions : account[s.owner].exists
    /\ \A w \in AdminWorkers :
         /\ desk[w].at = "login" => account[desk[w].owner].exists
         /\ desk[w].at \in Kinds \union {"session"} => account[desk[w].session.owner].exists
         /\ desk[w].at = "write" /\ desk[w].kind # "create" =>
              account[desk[w].target].exists /\ desk[w].row \in AccountRows

\* A number makes one session at most.
NumbersAreUsedOnce ==
    /\ \A s, t \in sessions : s.id = t.id => s = t
    /\ \A s \in sessions : s.id[2] <= asked
    /\ \A w \in AdminWorkers : desk[w] # Away =>
         /\ desk[w].no \in 1..asked
         /\ \A s \in sessions : s.id[2] # desk[w].no
         /\ \A v \in AdminWorkers \ {w} : desk[v] # Away => desk[v].no # desk[w].no

AdminInv == Fits /\ OwnersExist /\ NumbersAreUsedOnce /\ ResetTakesHold
-----------------------------------------------------------------------------
\* What a request carries, by its step.
LEMMA JobFields ==
    ASSUME NEW j \in Jobs
    PROVE  /\ j = Away \/ j.no \in Nat
           /\ j.at = "login" => j.owner \in Accounts
           /\ j.at \in Kinds \union {"session"} => j.session \in SessionRows /\ j.target \in Accounts
           /\ j.at = "session" => j.kind \in Kinds
           /\ j.at \in Kinds => j.row \in AccountRows
           /\ j.at = "write" => /\ j.kind \in Targeted /\ j.target \in Accounts
                               /\ j.row \in AccountRows \union {NoAccount}
           /\ j.at \in {"away", "login", "session", "write"} \union Kinds
           /\ j.at = "away" <=> j = Away
  <1>1. CASE j = Away
    BY <1>1 DEF Away, Kinds, Targeted
  <1>2. CASE j \in [at : {"login"}, owner : Accounts, no : Nat]
    BY <1>2 DEF Away, Kinds, Targeted
  <1>3. CASE j \in [at : {"session"}, session : SessionRows, kind : Kinds,
                    target : Accounts, no : Nat]
    BY <1>3 DEF Away, Kinds, Targeted
  <1>4. CASE j \in [at : Kinds, session : SessionRows, target : Accounts, no : Nat, row : AccountRows]
    BY <1>4 DEF Away, Kinds, Targeted
  <1>5. CASE j \in [at : {"write"}, kind : Targeted, target : Accounts, no : Nat,
                    row : AccountRows \union {NoAccount}]
    BY <1>5 DEF Away, Kinds, Targeted
  <1>6. QED
    BY <1>1, <1>2, <1>3, <1>4, <1>5 DEF Jobs

\* A worker takes up a job, the others go on with theirs.
LEMMA DeskChanges ==
    ASSUME Fits, NEW w \in AdminWorkers, NEW job \in Jobs,
           desk' = [desk EXCEPT ![w] = job]
    PROVE  /\ desk' \in [AdminWorkers -> Jobs]
           /\ desk'[w] = job
           /\ \A v \in AdminWorkers : v # w => desk'[v] = desk[v]
  BY DEF Fits

\* The rows an update of one column of sessions leaves: the same sessions.
LEMMA ColumnUpdate ==
    ASSUME NEW S \in SUBSET SessionRows, IsFiniteSet(S),
           NEW f \in [S -> SessionRows], \A s \in S : f[s].id = s.id,
           \A s, t \in S : s.id = t.id => s = t
    PROVE  /\ {f[s] : s \in S} \subseteq SessionRows
           /\ IsFiniteSet({f[s] : s \in S})
           /\ \A s, t \in {f[x] : x \in S} : s.id = t.id => s = t
  <1>. DEFINE T == {f[s] : s \in S}
  <1>1. f \in Surjection(S, T)
    BY Zenon DEF Surjection
  <1>2. IsFiniteSet(T)
    BY <1>1, FS_Surjection
  <1>3. QED
    BY <1>2

\* A request goes on, begins or ends without a write.
LEMMA RequestMoves ==
    ASSUME AdminInv, NEW w \in AdminWorkers, NEW job \in Jobs,
           desk' = [desk EXCEPT ![w] = job], UNCHANGED <<account, sessions>>,
           \/ asked' = asked /\ (job # Away => desk[w] # Away /\ job.no = desk[w].no)
           \/ asked < MaxAdminRequests /\ asked' = asked + 1 /\ job.no = asked + 1,
           job.at = "login" => account[job.owner].exists,
           job.at \in Kinds \union {"session"} => account[job.session.owner].exists,
           job.at = "write" /\ job.kind # "create" =>
                account[job.target].exists /\ job.row \in AccountRows
    PROVE  AdminInv'
  <1>1. Fits'
    BY DeskChanges, AdminAssumption DEF AdminInv, Fits
  <1>2. OwnersExist'
    BY DeskChanges DEF AdminInv, OwnersExist
  <1>3. NumbersAreUsedOnce'
    <2>1. \A s \in sessions : s.id[2] \in Nat
      BY DEF AdminInv, Fits, SessionRows
    <2>2. CASE asked' = asked /\ (job # Away => desk[w] # Away /\ job.no = desk[w].no)
      BY <2>2, DeskChanges DEF AdminInv, NumbersAreUsedOnce
    <2>3. CASE asked < MaxAdminRequests /\ asked' = asked + 1 /\ job.no = asked + 1
      BY <2>1, <2>3, DeskChanges DEF AdminInv, NumbersAreUsedOnce, Fits
    <2>4. QED
      BY <2>2, <2>3
  <1>4. ResetTakesHold'
    BY DEF AdminInv, ResetTakesHold
  <1>5. QED
    BY <1>1, <1>2, <1>3, <1>4 DEF AdminInv

\* A request ends with a write: what is left to show of the rows it leaves.
LEMMA RequestWrites ==
    ASSUME AdminInv, NEW w \in AdminWorkers, desk[w] # Away, Leaves(w),
           account' \in [Accounts -> AccountRows \union {NoAccount}],
           \A u \in Accounts : account[u].exists => account'[u].exists,
           sessions' \subseteq SessionRows, IsFiniteSet(sessions'),
           \A s \in sessions' : account'[s.owner].exists,
           \A s, t \in sessions' : s.id = t.id => s = t,
           \A s \in sessions' : s.id[2] = desk[w].no \/ \E t \in sessions : t.id = s.id,
           ResetTakesHold'
    PROVE  AdminInv'
  <1>1. Away \in Jobs
    BY DEF Jobs
  <1>2. /\ desk' \in [AdminWorkers -> Jobs] /\ desk'[w] = Away /\ asked' = asked
        /\ \A v \in AdminWorkers : v # w => desk'[v] = desk[v]
    BY <1>1, DeskChanges DEF Leaves, Continues, AdminInv
  <1>3. Fits'
    BY <1>2 DEF AdminInv, Fits
  <1>4. OwnersExist'
    <2>1. ASSUME NEW v \in AdminWorkers, v # w
          PROVE  /\ desk[v].at = "login" => account'[desk[v].owner].exists
                 /\ desk[v].at \in Kinds \union {"session"} =>
                      account'[desk[v].session.owner].exists
                 /\ desk[v].at = "write" /\ desk[v].kind # "create" =>
                      account'[desk[v].target].exists
      <3>1. desk[v] \in Jobs
        BY DEF AdminInv, Fits
      <3>2. \A s \in SessionRows : s.owner \in Accounts
        BY DEF SessionRows
      <3>3. QED
        BY <3>1, <3>2, JobFields DEF AdminInv, OwnersExist
    <2>2. QED
      BY <1>2, <2>1 DEF AdminInv, OwnersExist, Away, Kinds, Targeted
  <1>5. NumbersAreUsedOnce'
    <2>1. \A s \in sessions' : s.id[2] <= asked
      BY DEF AdminInv, NumbersAreUsedOnce, Fits
    <2>2. ASSUME NEW v \in AdminWorkers, v # w, desk[v] # Away, NEW s \in sessions'
          PROVE  s.id[2] # desk[v].no
      BY <2>2 DEF AdminInv, NumbersAreUsedOnce
    <2>3. QED
      BY <1>2, <2>1, <2>2 DEF AdminInv, NumbersAreUsedOnce
  <1>6. QED
    BY <1>3, <1>4, <1>5 DEF AdminInv

-----------------------------------------------------------------------------
LEMMA InitHolds == AdminInit => AdminInv
  <1>. SUFFICES ASSUME AdminInit PROVE AdminInv
    OBVIOUS
  <1>. DEFINE U == {v \in Accounts : account[v].exists}
              first == NewAccount(Own(CHOOSE p \in OwnPasswords : TRUE))
  <1>1. /\ NewAccount(Temporary(0)) \in AccountRows
        /\ [first EXCEPT !.must = FALSE] \in AccountRows
        /\ [first EXCEPT !.must = FALSE].password = Own(CHOOSE p \in OwnPasswords : TRUE)
    BY AdminAssumption DEF AccountRows, Passwords, NewAccount, Temporary, Own
  <1>2. account \in [Accounts -> AccountRows \union {NoAccount}]
    BY <1>1 DEF AdminInit
  <1>3. \A u \in U : account[u] \in AccountRows
    BY <1>2 DEF NoAccount
  <1>4. \A u \in U : SessionOf(u, 0) = [id |-> <<u, 0>>, owner |-> u, openedAt |-> account[u].epoch,
                                      revoked |-> FALSE, expired |-> FALSE]
    BY DEF SessionOf
  <1>5. /\ \A u \in U : SessionOf(u, 0) \in SessionRows
        /\ sessions = {SessionOf(u, 0) : u \in U}
    <2>1. \A u \in U : u \in Accounts /\ account[u].epoch \in Nat
      BY <1>3 DEF AccountRows
    <2>2. ASSUME NEW u \in U PROVE SessionOf(u, 0) \in SessionRows
      <3>1. u \in Accounts /\ account[u].epoch \in Nat /\ <<u, 0>> \in Accounts \X Nat
        BY <2>1
      <3>2. QED
        BY <3>1 DEF SessionRows, SessionOf
    <2>3. QED
      BY <2>2 DEF AdminInit
  <1>6. IsFiniteSet(sessions)
    <2>. DEFINE f == [u \in U |-> SessionOf(u, 0)]
    <2>1. f \in Surjection(U, sessions)
      BY <1>5, Zenon DEF Surjection
    <2>2. IsFiniteSet(U)
      BY AdminAssumption, FS_AddElement, FS_Subset, U \subseteq Accounts DEF Accounts
    <2>3. QED
      BY <2>1, <2>2, FS_Surjection
  <1>7. Fits
    BY <1>2, <1>5, <1>6, AdminAssumption DEF Fits, AdminInit, Jobs
  <1>8. OwnersExist
    BY <1>4, <1>5 DEF OwnersExist, AdminInit, Away, Kinds, Targeted
  <1>9. NumbersAreUsedOnce
    BY <1>4, <1>5 DEF NumbersAreUsedOnce, AdminInit
  <1>10. ResetTakesHold
    <2>1. \A s \in sessions : s.openedAt = account[s.owner].epoch
      BY <1>4, <1>5
    <2>2. ASSUME NEW u \in Accounts, account[u].exists, account[u].password.kind = "temporary"
          PROVE  account[u].must
      <3>1. account[u] \in {NoAccount, NewAccount(Temporary(0)), [first EXCEPT !.must = FALSE]}
        BY DEF AdminInit
      <3>2. account[u] # NoAccount
        BY <2>2 DEF NoAccount
      <3>3. NewAccount(Temporary(0)).must
        BY DEF NewAccount
      <3>4. [first EXCEPT !.must = FALSE].password.kind = "own"
        BY <1>1 DEF Own
      <3>5. QED
        BY <2>2, <3>1, <3>2, <3>3, <3>4, Zenon
    <2>3. QED
      BY <2>1, <2>2 DEF ResetTakesHold
  <1>11. QED
    BY <1>7, <1>8, <1>9, <1>10 DEF AdminInv

LEMMA LoginKeeps ==
    ASSUME AdminInv, NEW w \in AdminWorkers, NEW u \in Accounts, Login(w, u)
    PROVE  AdminInv'
  <1>. DEFINE job == [at |-> "login", owner |-> u, no |-> asked + 1]
  <1>1. job \in Jobs
    BY DEF Jobs, AdminInv, Fits
  <1>2. QED
    BY <1>1, RequestMoves DEF Login, Begins, Kinds, Targeted

LEMMA CheckSessionKeeps ==
    ASSUME AdminInv, NEW w \in AdminWorkers, NEW s \in sessions, NEW kind \in Kinds,
           NEW u \in Accounts, CheckSession(w, s, kind, u)
    PROVE  AdminInv'
  <1>. DEFINE job == [at |-> "session", session |-> s, kind |-> kind, target |-> u,
                      no |-> asked + 1]
  <1>1. job \in Jobs
    BY DEF Jobs, AdminInv, Fits
  <1>2. account[job.session.owner].exists
    BY DEF AdminInv, OwnersExist
  <1>3. QED
    BY <1>1, <1>2, RequestMoves DEF CheckSession, Begins

\* A request that is refused ends.
LEMMA RefusalKeeps ==
    ASSUME AdminInv, NEW w \in AdminWorkers, Leaves(w), UNCHANGED <<account, sessions>>
    PROVE  AdminInv'
  <1>1. Away \in Jobs
    BY DEF Jobs
  <1>2. QED
    BY <1>1, RequestMoves DEF Leaves, Continues, Away, Kinds, Targeted

LEMMA LoadAccountKeeps ==
    ASSUME AdminInv, NEW w \in AdminWorkers, LoadAccount(w)
    PROVE  AdminInv'
  <1>. DEFINE j == desk[w]
              u == j.session.owner
              job == [at |-> j.kind, session |-> j.session, target |-> j.target,
                      no |-> j.no, row |-> account[u]]
  <1>1. j \in Jobs /\ j.at = "session" /\ j # Away
    BY DEF AdminInv, Fits, LoadAccount, Sits, Away
  <1>2. j.session \in SessionRows /\ j.kind \in Kinds /\ j.target \in Accounts /\ j.no \in Nat
    BY <1>1, JobFields
  <1>3. u \in Accounts /\ account[u].exists /\ account[u] \in AccountRows
    BY <1>1, <1>2 DEF AdminInv, Fits, OwnersExist, SessionRows, NoAccount
  <1>4. job \in Jobs
    BY <1>2, <1>3 DEF Jobs
  <1>5. CASE Allowed(u, j.kind)
    <2>1. desk' = [desk EXCEPT ![w] = job] /\ UNCHANGED <<account, sessions, asked>>
      BY <1>5 DEF LoadAccount, Continues
    <2>2. job.no = desk[w].no /\ job.at = j.kind /\ job.session.owner = u
      OBVIOUS
    <2>3. job.at # "login" /\ job.at # "write"
      BY <1>2, <2>2 DEF Kinds, Targeted
    <2>4. QED
      BY <1>1, <1>3, <1>4, <2>1, <2>2, <2>3, RequestMoves
  <1>6. CASE ~Allowed(u, j.kind)
    BY <1>6, RefusalKeeps DEF LoadAccount
  <1>7. QED
    BY <1>5, <1>6

LEMMA LoadTargetKeeps ==
    ASSUME AdminInv, NEW w \in AdminWorkers, LoadTarget(w)
    PROVE  AdminInv'
  <1>. DEFINE j == desk[w]
              job == [at |-> "write", kind |-> j.at, target |-> j.target, no |-> j.no,
                      row |-> account[j.target]]
  <1>1. j \in Jobs /\ j.at \in Targeted /\ j # Away
    BY DEF AdminInv, Fits, LoadTarget, Targeted, Away
  <1>2. j.target \in Accounts /\ j.no \in Nat
    BY <1>1, JobFields DEF Kinds
  <1>3. account[j.target] \in AccountRows \union {NoAccount}
    BY <1>2 DEF AdminInv, Fits
  <1>4. job \in Jobs
    BY <1>1, <1>2, <1>3 DEF Jobs
  <1>5. CASE account[j.target].exists = (j.at # "create")
    <2>1. desk' = [desk EXCEPT ![w] = job] /\ UNCHANGED <<account, sessions, asked>>
      BY <1>5 DEF LoadTarget, Continues
    <2>2. /\ job.no = desk[w].no /\ job.at = "write" /\ job.kind = j.at
          /\ job.target = j.target /\ job.row = account[j.target]
      OBVIOUS
    <2>3. job.kind # "create" => account[job.target].exists /\ job.row \in AccountRows
      <3>1. SUFFICES ASSUME j.at # "create" PROVE account[j.target].exists /\ account[j.target] \in AccountRows
        BY <2>2
      <3>2. account[j.target].exists
        BY <1>5, <3>1, Zenon
      <3>3. QED
        BY <1>3, <3>2 DEF NoAccount
    <2>4. QED
      BY <1>1, <1>4, <2>1, <2>2, <2>3, RequestMoves DEF Kinds, Targeted
  <1>6. CASE account[j.target].exists # (j.at # "create")
    BY <1>6, RefusalKeeps DEF LoadTarget
  <1>7. QED
    BY <1>5, <1>6

-----------------------------------------------------------------------------
\* What an UPDATE of admin_sessions that stamps revoked leaves.
LEMMA StampedSessions ==
    ASSUME AdminInv, NEW P \in [sessions -> BOOLEAN],
           NEW S, S = {IF P[s] THEN [s EXCEPT !.revoked = TRUE] ELSE s : s \in sessions}
    PROVE  /\ S \subseteq SessionRows /\ IsFiniteSet(S)
           /\ \A s, t \in S : s.id = t.id => s = t
           /\ \A s \in S : \E t \in sessions :
                /\ s.id = t.id /\ s.owner = t.owner /\ s.openedAt = t.openedAt
                /\ P[t] => s.revoked
                /\ ~P[t] => s = t
  <1>. DEFINE stamp(s) == IF P[s] THEN [s EXCEPT !.revoked = TRUE] ELSE s
              f == [s \in sessions |-> stamp(s)]
  <1>1. ASSUME NEW s \in sessions
        PROVE  /\ f[s] \in SessionRows
               /\ f[s].id = s.id /\ f[s].owner = s.owner /\ f[s].openedAt = s.openedAt
               /\ P[s] => f[s].revoked
               /\ ~P[s] => f[s] = s
    BY DEF AdminInv, Fits, SessionRows
  <1>2. f \in [sessions -> SessionRows] /\ S = {f[s] : s \in sessions}
    <2>1. S = {f[s] : s \in sessions}
      BY Zenon
    <2>2. QED
      BY <1>1, <2>1
  <1>3. sessions \in SUBSET SessionRows /\ IsFiniteSet(sessions)
        /\ \A s, t \in sessions : s.id = t.id => s = t
    BY DEF AdminInv, Fits, NumbersAreUsedOnce
  <1>. HIDE DEF f
  <1>4. /\ S \subseteq SessionRows /\ IsFiniteSet(S)
        /\ \A s, t \in S : s.id = t.id => s = t
    <2>1. \A s \in sessions : f[s].id = s.id
      BY <1>1
    <2>2. QED
      BY <1>2, <1>3, <2>1, ColumnUpdate
  <1>5. QED
    BY <1>1, <1>2, <1>4

\* revoke_sessions leaves the account's sessions as they were, but revoked.
LEMMA RevokedSessions ==
    ASSUME AdminInv, NEW u \in Accounts
    PROVE  /\ Revoked(u) \subseteq SessionRows /\ IsFiniteSet(Revoked(u))
           /\ \A s, t \in Revoked(u) : s.id = t.id => s = t
           /\ \A s \in Revoked(u) : \E t \in sessions :
                /\ s.id = t.id /\ s.owner = t.owner /\ s.openedAt = t.openedAt
                /\ s.owner = u => s.revoked
                /\ s.owner # u => s = t
  <1>. DEFINE P == [s \in sessions |-> s.owner = u]
  <1>1. P \in [sessions -> BOOLEAN]
    OBVIOUS
  <1>2. Revoked(u) = {IF P[s] THEN [s EXCEPT !.revoked = TRUE] ELSE s : s \in sessions}
    BY Zenon DEF Revoked
  <1>3. \A t \in sessions : P[t] <=> t.owner = u
    BY Zenon
  <1>. HIDE DEF P
  <1>4. /\ Revoked(u) \subseteq SessionRows /\ IsFiniteSet(Revoked(u))
        /\ \A s, t \in Revoked(u) : s.id = t.id => s = t
        /\ \A s \in Revoked(u) : \E t \in sessions :
             /\ s.id = t.id /\ s.owner = t.owner /\ s.openedAt = t.openedAt
             /\ P[t] => s.revoked
             /\ ~P[t] => s = t
    BY <1>1, <1>2, StampedSessions
  <1>5. QED
    BY <1>3, <1>4

LEMMA LogoutKeeps ==
    ASSUME AdminInv, NEW w \in AdminWorkers, Logout(w)
    PROVE  AdminInv'
  <1>. DEFINE P == [s \in sessions |-> s.id = desk[w].session.id]
  <1>1. P \in [sessions -> BOOLEAN]
    OBVIOUS
  <1>2. sessions' = {IF P[s] THEN [s EXCEPT !.revoked = TRUE] ELSE s : s \in sessions}
    BY Zenon DEF Logout
  <1>. HIDE DEF P
  <1>3. /\ sessions' \subseteq SessionRows /\ IsFiniteSet(sessions')
        /\ \A s, t \in sessions' : s.id = t.id => s = t
        /\ \A s \in sessions' : \E t \in sessions :
             /\ s.id = t.id /\ s.owner = t.owner /\ s.openedAt = t.openedAt
             /\ P[t] => s.revoked
             /\ ~P[t] => s = t
    BY <1>1, <1>2, StampedSessions
  <1>4. account' = account /\ desk[w] # Away /\ Leaves(w)
    BY DEF Logout, Sits, Away
  <1>5. ResetTakesHold'
    BY <1>3, <1>4 DEF AdminInv, ResetTakesHold
  <1>6. QED
    BY <1>3, <1>4, <1>5, RequestWrites DEF AdminInv, Fits, OwnersExist

LEMMA OpenSessionKeeps ==
    ASSUME AdminInv, NEW w \in AdminWorkers, OpenSession(w)
    PROVE  AdminInv'
  <1>. DEFINE j == desk[w]  new == SessionOf(j.owner, j.no)
  <1>1. j \in Jobs /\ j.at = "login" /\ j # Away /\ Leaves(w)
    BY DEF AdminInv, Fits, OpenSession, Sits, Away
  <1>2. j.owner \in Accounts /\ j.no \in Nat /\ account[j.owner].exists
    BY <1>1, JobFields DEF AdminInv, OwnersExist
  <1>3. account[j.owner] \in AccountRows
    BY <1>2 DEF AdminInv, Fits, NoAccount
  <1>4. /\ new \in SessionRows /\ new.id = <<j.owner, j.no>> /\ new.owner = j.owner
        /\ new.openedAt = account[j.owner].epoch
    <2>1. <<j.owner, j.no>> \in Accounts \X Nat /\ account[j.owner].epoch \in Nat
      BY <1>2, <1>3 DEF AccountRows
    <2>2. QED
      BY <1>2, <2>1 DEF SessionOf, SessionRows
  <1>. HIDE DEF new
  <1>5. sessions' = sessions \union {new} /\ account' = account
    BY DEF OpenSession, new
  <1>6. IsFiniteSet(sessions')
    BY <1>5, FS_AddElement DEF AdminInv, Fits
  <1>7. \A s, t \in sessions' : s.id = t.id => s = t
    <2>1. \A s \in sessions : s.id # new.id
      BY <1>1, <1>4 DEF AdminInv, NumbersAreUsedOnce
    <2>2. QED
      BY <1>5, <2>1 DEF AdminInv, NumbersAreUsedOnce
  <1>8. ResetTakesHold'
    BY <1>4, <1>5 DEF AdminInv, ResetTakesHold
  <1>9. /\ \A s \in sessions' : account'[s.owner].exists
        /\ \A s \in sessions' : s.id[2] = desk[w].no \/ \E t \in sessions : t.id = s.id
    BY <1>2, <1>4, <1>5 DEF AdminInv, OwnersExist
  <1>10. QED
    BY <1>1, <1>4, <1>5, <1>6, <1>7, <1>8, <1>9, RequestWrites DEF AdminInv, Fits

\* The row a change of password leaves, and the one a reset leaves.
LEMMA RowWithPassword ==
    ASSUME NEW u, account[u] \in AccountRows, NEW row \in AccountRows,
           NEW pw \in Passwords
    PROVE  /\ WithPassword(u, pw, FALSE, row) \in AccountRows
           /\ WithPassword(u, pw, FALSE, row).password = pw
           /\ WithPassword(u, pw, FALSE, row).epoch = account[u].epoch + 1
           /\ WithPassword(u, pw, TRUE, row) \in AccountRows
           /\ WithPassword(u, pw, TRUE, row).password = pw
           /\ WithPassword(u, pw, TRUE, row).epoch = account[u].epoch + 1
           /\ WithPassword(u, pw, TRUE, row).must \/ WithPassword(u, pw, TRUE, row).stale
  <1>. DEFINE a == account[u]
              r(k, b) == [a EXCEPT !.password = pw, !.epoch = a.epoch + 1, !.must = k, !.stale = b]
  <1>1. a.must \in BOOLEAN /\ row.must \in BOOLEAN /\ a.epoch \in Nat
    BY DEF AccountRows
  <1>2. ASSUME NEW k \in BOOLEAN, NEW b \in BOOLEAN
        PROVE  /\ r(k, b) \in AccountRows /\ r(k, b).password = pw /\ r(k, b).epoch = a.epoch + 1
               /\ r(k, b).must = k /\ r(k, b).stale = b
    <2>1. ASSUME NEW e \in Nat
          PROVE  LET n == [a EXCEPT !.password = pw, !.epoch = e, !.must = k, !.stale = b]
                 IN  n \in AccountRows /\ n.password = pw /\ n.epoch = e /\ n.must = k /\ n.stale = b
      BY DEF AccountRows
    <2>2. a.epoch + 1 \in Nat
      BY <1>1
    <2>3. QED
      BY <2>1, <2>2
  <1>3. ASSUME NEW must \in BOOLEAN
        PROVE  \E k, b \in BOOLEAN : /\ WithPassword(u, pw, must, row) = r(k, b)
                                     /\ k = (IF row.must = must THEN a.must ELSE must)
                                     /\ b = (must /\ row # a)
    <2>. DEFINE kept == IF row.must = must THEN a.must ELSE must
    <2>1. kept \in BOOLEAN
      BY <1>1
    <2>2. (must /\ row # a) \in BOOLEAN
      OBVIOUS
    <2>3. WithPassword(u, pw, must, row) = r(kept, must /\ row # a)
      BY DEF WithPassword, AccountRows
    <2>. HIDE DEF r
    <2>4. QED
      BY <2>1, <2>2, <2>3, Zenon
  <1>. HIDE DEF r
  <1>4. PICK k, b \in BOOLEAN : WithPassword(u, pw, FALSE, row) = r(k, b)
    BY <1>3
  <1>5. PICK l, c \in BOOLEAN : /\ WithPassword(u, pw, TRUE, row) = r(l, c)
                               /\ l = (IF row.must = TRUE THEN a.must ELSE TRUE)
                               /\ c = (TRUE /\ row # a)
    BY <1>3
  <1>6. l \/ c
    BY <1>1, <1>5
  <1>7. r(l, c).must \/ r(l, c).stale
    BY <1>2, <1>6, Zenon
  <1>8. r(k, b) \in AccountRows /\ r(k, b).password = pw /\ r(k, b).epoch = a.epoch + 1
    BY <1>2
  <1>9. r(l, c) \in AccountRows /\ r(l, c).password = pw /\ r(l, c).epoch = a.epoch + 1
    BY <1>2
  <1>10. QED
    BY <1>4, <1>5, <1>7, <1>8, <1>9

LEMMA ChangePasswordKeeps ==
    ASSUME AdminInv, NEW w \in AdminWorkers, NEW current, NEW p \in OwnPasswords,
           ChangePassword(w, current, Own(p))
    PROVE  AdminInv'
  <1>. DEFINE j == desk[w]
              u == j.session.owner
              r == WithPassword(u, Own(p), FALSE, j.row)
              new == [SessionOf(u, j.no) EXCEPT !.openedAt = account[u].epoch + 1]
  <1>1. j \in Jobs /\ j.at = "change" /\ j # Away /\ Leaves(w)
    BY DEF AdminInv, Fits, ChangePassword, Sits, Away
  <1>2. /\ j.session \in SessionRows /\ j.no \in Nat /\ j.row \in AccountRows
        /\ account[u].exists /\ u \in Accounts
    BY <1>1, JobFields DEF AdminInv, OwnersExist, Kinds, SessionRows
  <1>3. CASE j.row.password # current \/ current = Own(p)
    BY <1>1, <1>3, RefusalKeeps DEF ChangePassword
  <1>4. CASE ~(j.row.password # current \/ current = Own(p))
    <2>1. account[u] \in AccountRows
      BY <1>2 DEF AdminInv, Fits, NoAccount
    <2>2. Own(p) \in Passwords
          /\ Own(p).kind = "own"
      BY DEF Own, Passwords
    <2>3. r \in AccountRows /\ r.password = Own(p) /\ r.epoch = account[u].epoch + 1
      BY <1>2, <2>1, <2>2, RowWithPassword
    <2>4. /\ new \in SessionRows /\ new.id = <<u, j.no>> /\ new.owner = u
          /\ new.openedAt = account[u].epoch + 1
      <3>1. <<u, j.no>> \in Accounts \X Nat
        BY <1>2
      <3>2. account[u].epoch + 1 \in Nat
        <4>1. account[u].epoch \in Nat
          BY <2>1 DEF AccountRows
        <4>2. QED
          BY <4>1
      <3>3. QED
        BY <1>2, <3>1, <3>2 DEF SessionOf, SessionRows
    <2>. HIDE DEF r, new
    <2>5. account' = [account EXCEPT ![u] = r] /\ sessions' = Revoked(u) \union {new}
      BY <1>4 DEF ChangePassword, r, new
    <2>6. /\ account' \in [Accounts -> AccountRows \union {NoAccount}]
          /\ account'[u] = r /\ \A v \in Accounts : v # u => account'[v] = account[v]
      BY <1>2, <2>3, <2>5 DEF AdminInv, Fits
    <2>7. \A v \in Accounts : account[v].exists => account'[v].exists
      BY <2>3, <2>6 DEF AccountRows
    <2>8. /\ sessions' \subseteq SessionRows
          /\ \A s \in sessions' : s = new \/ s \in Revoked(u)
      BY <1>2, <2>4, <2>5, RevokedSessions
    <2>9. IsFiniteSet(sessions')
      BY <1>2, <2>5, RevokedSessions, FS_AddElement
    <2>10. \A s \in sessions' : s.owner \in Accounts /\ account'[s.owner].exists
      BY <1>2, <2>4, <2>7, <2>8, RevokedSessions DEF AdminInv, OwnersExist, SessionRows
    <2>11. \A s \in Revoked(u) : s.id # new.id
      <3>1. \A t \in sessions : t.id # new.id
        BY <1>1, <2>4 DEF AdminInv, NumbersAreUsedOnce
      <3>2. QED
        BY <1>2, <3>1, RevokedSessions
    <2>12. \A s, t \in sessions' : s.id = t.id => s = t
      BY <1>2, <2>8, <2>11, RevokedSessions
    <2>13. \A s \in sessions' : s.id[2] = desk[w].no \/ \E t \in sessions : t.id = s.id
      BY <1>2, <2>4, <2>8, RevokedSessions
    <2>14. ResetTakesHold'
      <3>1. ASSUME NEW s \in sessions', ~s.revoked
            PROVE  s.openedAt = account'[s.owner].epoch
        <4>1. CASE s = new
          BY <2>3, <2>4, <2>6, <4>1
        <4>2. CASE s \in Revoked(u)
          BY <1>2, <2>6, <3>1, <4>2, RevokedSessions DEF AdminInv, ResetTakesHold, Fits, SessionRows
        <4>3. QED
          BY <2>8, <4>1, <4>2
      <3>2. \A v \in Accounts : (account'[v].exists /\ account'[v].password.kind = "temporary") =>
                account'[v].must \/ account'[v].stale
        BY <2>2, <2>3, <2>6 DEF AdminInv, ResetTakesHold
      <3>3. QED
        BY <3>1, <3>2 DEF ResetTakesHold
    <2>15. QED
      BY <1>1, <2>6, <2>7, <2>8, <2>9, <2>10, <2>12, <2>13, <2>14, RequestWrites
  <1>5. QED
    BY <1>3, <1>4

\* A reset, and a disabling, leave a new row of the account and its sessions revoked.
LEMMA RevokingWrites ==
    ASSUME AdminInv, NEW w \in AdminWorkers, desk[w] # Away, Leaves(w),
           NEW u \in Accounts, account[u] \in AccountRows, NEW r \in AccountRows,
           r.epoch = account[u].epoch + 1,
           r.password.kind = "temporary" => r.must \/ r.stale,
           account' = [account EXCEPT ![u] = r], sessions' = Revoked(u)
    PROVE  AdminInv'
  <1>1. /\ account' \in [Accounts -> AccountRows \union {NoAccount}]
        /\ account'[u] = r /\ \A v \in Accounts : v # u => account'[v] = account[v]
    BY DEF AdminInv, Fits
  <1>2. \A v \in Accounts : account[v].exists => account'[v].exists
    BY <1>1 DEF AccountRows
  <1>3. \A s \in sessions' : s.owner \in Accounts /\ account'[s.owner].exists
    BY <1>2, RevokedSessions DEF AdminInv, OwnersExist, SessionRows
  <1>4. \A s \in sessions' : \E t \in sessions : t.id = s.id
    BY RevokedSessions
  <1>5. ResetTakesHold'
    <2>1. \A s \in sessions' : ~s.revoked => s.openedAt = account'[s.owner].epoch
      BY <1>1, RevokedSessions DEF AdminInv, ResetTakesHold, Fits, SessionRows
    <2>2. QED
      BY <1>1, <2>1 DEF AdminInv, ResetTakesHold
  <1>6. QED
    BY <1>1, <1>2, <1>3, <1>4, <1>5, RevokedSessions, RequestWrites

LEMMA ResetPasswordKeeps ==
    ASSUME AdminInv, NEW w \in AdminWorkers, ResetPassword(w)
    PROVE  AdminInv'
  <1>. DEFINE j == desk[w]
              u == j.target
              r == WithPassword(u, Temporary(j.no), TRUE, j.row)
  <1>1. j \in Jobs /\ j.at = "write" /\ j.kind = "reset" /\ j # Away /\ Leaves(w)
    BY DEF AdminInv, Fits, ResetPassword, Sits, Away
  <1>2. u \in Accounts /\ j.no \in Nat /\ j.row \in AccountRows /\ account[u].exists
    BY <1>1, JobFields DEF AdminInv, OwnersExist
  <1>3. account[u] \in AccountRows
    BY <1>2 DEF AdminInv, Fits, NoAccount
  <1>4. Temporary(j.no) \in Passwords
    BY <1>2 DEF Temporary, Passwords
  <1>5. r \in AccountRows /\ r.epoch = account[u].epoch + 1 /\ (r.must \/ r.stale)
    BY <1>2, <1>3, <1>4, RowWithPassword
  <1>6. account' = [account EXCEPT ![u] = r] /\ sessions' = Revoked(u)
    BY DEF ResetPassword
  <1>. HIDE DEF r
  <1>7. QED
    BY <1>1, <1>2, <1>3, <1>5, <1>6, RevokingWrites

LEMMA SetStatusKeeps ==
    ASSUME AdminInv, NEW w \in AdminWorkers, SetStatus(w)
    PROVE  AdminInv'
  <1>. DEFINE j == desk[w]
              u == j.target
              on == j.kind = "enable"
              r == [account[u] EXCEPT !.active = on, !.epoch = IF on THEN @ ELSE @ + 1]
  <1>1. /\ j \in Jobs /\ j.at = "write" /\ j.kind \in {"enable", "disable"} /\ j # Away
        /\ Leaves(w)
    BY DEF AdminInv, Fits, SetStatus, Sits, Away
  <1>2. u \in Accounts /\ j.row \in AccountRows /\ account[u].exists
    BY <1>1, JobFields DEF AdminInv, OwnersExist
  <1>3. account[u] \in AccountRows
    BY <1>2 DEF AdminInv, Fits, NoAccount
  <1>4. CASE j.row.active = on
    BY <1>1, <1>4, RefusalKeeps DEF SetStatus
  <1>5. CASE j.row.active # on
    <2>1. account' = [account EXCEPT ![u] = r]
      BY <1>2, <1>3, <1>5 DEF SetStatus, AdminInv, Fits, AccountRows
    <2>2. /\ r \in AccountRows /\ r.password = account[u].password /\ r.must = account[u].must
          /\ r.stale = account[u].stale
          /\ on => r.epoch = account[u].epoch
          /\ ~on => r.epoch = account[u].epoch + 1
      <3>1. CASE on
        <4>1. r = [account[u] EXCEPT !.active = TRUE]
          BY <1>3, <3>1 DEF AccountRows
        <4>2. QED
          BY <1>3, <3>1, <4>1 DEF AccountRows
      <3>2. CASE ~on
        <4>1. r = [account[u] EXCEPT !.active = FALSE, !.epoch = account[u].epoch + 1]
          BY <1>3, <3>2 DEF AccountRows
        <4>2. account[u].epoch \in Nat
          BY <1>3 DEF AccountRows
        <4>3. ASSUME NEW e \in Nat
              PROVE  LET n == [account[u] EXCEPT !.active = FALSE, !.epoch = e]
                     IN  /\ n \in AccountRows /\ n.password = account[u].password
                         /\ n.must = account[u].must /\ n.stale = account[u].stale /\ n.epoch = e
          BY <1>3 DEF AccountRows
        <4>4. account[u].epoch + 1 \in Nat
          BY <4>2
        <4>5. QED
          BY <3>2, <4>1, <4>3, <4>4
      <3>3. QED
        BY <3>1, <3>2
    <2>3. r.password.kind = "temporary" => r.must \/ r.stale
      BY <1>2, <2>2 DEF AdminInv, ResetTakesHold
    <2>4. sessions' = IF on THEN sessions ELSE Revoked(u)
      BY <1>5 DEF SetStatus
    <2>. HIDE DEF r
    <2>5. CASE on
      <3>1. /\ account' \in [Accounts -> AccountRows \union {NoAccount}]
            /\ account'[u] = r /\ \A v \in Accounts : v # u => account'[v] = account[v]
        BY <1>2, <2>1, <2>2 DEF AdminInv, Fits
      <3>2. \A v \in Accounts : account[v].exists => account'[v].exists
        BY <2>2, <3>1 DEF AccountRows
      <3>3. sessions' = sessions
        BY <2>4, <2>5
      <3>4. \A s \in sessions : s.owner \in Accounts
        BY DEF AdminInv, Fits, SessionRows
      <3>5. ResetTakesHold'
        BY <2>2, <2>3, <2>5, <3>1, <3>3, <3>4 DEF AdminInv, ResetTakesHold
      <3>6. QED
        BY <1>1, <3>1, <3>2, <3>3, <3>4, <3>5, RequestWrites
        DEF AdminInv, Fits, OwnersExist, NumbersAreUsedOnce
    <2>6. CASE ~on
      BY <1>1, <1>2, <1>3, <2>1, <2>2, <2>3, <2>4, <2>6, RevokingWrites
    <2>7. QED
      BY <2>5, <2>6
  <1>6. QED
    BY <1>4, <1>5

LEMMA CreateAdminKeeps ==
    ASSUME AdminInv, NEW w \in AdminWorkers, CreateAdmin(w)
    PROVE  AdminInv'
  <1>. DEFINE j == desk[w]
              u == j.target
              r == NewAccount(Temporary(j.no))
  <1>1. j \in Jobs /\ j.at = "write" /\ j # Away /\ Leaves(w) /\ sessions' = sessions
    BY DEF AdminInv, Fits, CreateAdmin, Sits, Away
  <1>2. u \in Accounts /\ j.no \in Nat
    BY <1>1, JobFields
  <1>3. r \in AccountRows /\ r.must
    BY <1>2 DEF AccountRows, Passwords, NewAccount, Temporary
  <1>. HIDE DEF r
  <1>4. CASE account[u].exists
    BY <1>1, <1>4, RefusalKeeps DEF CreateAdmin
  <1>5. CASE ~account[u].exists
    <2>1. account' = [account EXCEPT ![u] = r]
      BY <1>5 DEF CreateAdmin, r
    <2>2. /\ account' \in [Accounts -> AccountRows \union {NoAccount}]
          /\ account'[u] = r /\ \A v \in Accounts : v # u => account'[v] = account[v]
      BY <1>2, <1>3, <2>1 DEF AdminInv, Fits
    <2>3. \A v \in Accounts : account[v].exists => account'[v].exists
      BY <1>3, <2>2 DEF AccountRows
    <2>4. \A s \in sessions : s.owner \in Accounts /\ s.owner # u
      BY <1>5 DEF AdminInv, Fits, SessionRows, OwnersExist
    <2>5. ResetTakesHold'
      BY <1>1, <1>3, <2>2, <2>4 DEF AdminInv, ResetTakesHold
    <2>6. QED
      BY <1>1, <2>2, <2>3, <2>4, <2>5, RequestWrites
      DEF AdminInv, Fits, OwnersExist, NumbersAreUsedOnce
  <1>6. QED
    BY <1>4, <1>5

LEMMA ExpireKeeps ==
    ASSUME AdminInv, NEW s \in sessions, Expire(s)
    PROVE  AdminInv'
  <1>. DEFINE t == [s EXCEPT !.expired = TRUE]
  <1>1. /\ t \in SessionRows /\ t.id = s.id /\ t.owner = s.owner
        /\ t.openedAt = s.openedAt /\ t.revoked = s.revoked
    BY DEF AdminInv, Fits, SessionRows
  <1>2. sessions' = (sessions \ {s}) \union {t} /\ UNCHANGED <<account, desk, asked>>
    BY DEF Expire
  <1>. HIDE DEF t
  <1>3. IsFiniteSet(sessions')
    BY <1>2, FS_RemoveElement, FS_AddElement DEF AdminInv, Fits
  <1>4. Fits'
    BY <1>1, <1>2, <1>3 DEF AdminInv, Fits
  <1>5. OwnersExist'
    BY <1>1, <1>2 DEF AdminInv, OwnersExist
  <1>6. NumbersAreUsedOnce'
    BY <1>1, <1>2 DEF AdminInv, NumbersAreUsedOnce
  <1>7. ResetTakesHold'
    BY <1>1, <1>2 DEF AdminInv, ResetTakesHold
  <1>8. QED
    BY <1>4, <1>5, <1>6, <1>7 DEF AdminInv

-----------------------------------------------------------------------------
LEMMA AdminStep == AdminInv /\ [AdminNext]_adminVars => AdminInv'
  <1>. SUFFICES ASSUME AdminInv, [AdminNext]_adminVars PROVE AdminInv'
    OBVIOUS
  <1>1. CASE UNCHANGED adminVars
    BY <1>1 DEF adminVars, AdminInv, Fits, OwnersExist, NumbersAreUsedOnce, ResetTakesHold
  <1>2. ASSUME NEW s \in sessions, Expire(s) PROVE AdminInv'
    BY <1>2, ExpireKeeps
  <1>3. ASSUME NEW w \in AdminWorkers, NEW u \in Accounts, Login(w, u) PROVE AdminInv'
    BY <1>3, LoginKeeps
  <1>4. ASSUME NEW w \in AdminWorkers, NEW s \in sessions, NEW kind \in {"change", "logout"},
               CheckSession(w, s, kind, s.owner)
        PROVE  AdminInv'
    BY <1>4, CheckSessionKeeps DEF AdminInv, Fits, SessionRows, Kinds
  <1>5. ASSUME NEW w \in AdminWorkers, NEW s \in sessions, NEW u \in Admins,
               NEW kind \in Targeted, CheckSession(w, s, kind, u)
        PROVE  AdminInv'
    BY <1>5, CheckSessionKeeps DEF Kinds, Accounts
  <1>6. ASSUME NEW w \in AdminWorkers, NEW p \in OwnPasswords, NEW known \in Known,
               ChangePassword(w, known, Own(p))
        PROVE  AdminInv'
    BY <1>6, ChangePasswordKeeps
  <1>7. ASSUME NEW w \in AdminWorkers,
               \/ OpenSession(w) \/ LoadAccount(w) \/ LoadTarget(w)
               \/ Logout(w) \/ ResetPassword(w) \/ SetStatus(w) \/ CreateAdmin(w)
        PROVE  AdminInv'
    BY <1>7, OpenSessionKeeps, LoadAccountKeeps, LoadTargetKeeps, LogoutKeeps,
       ResetPasswordKeeps, SetStatusKeeps, CreateAdminKeeps
  <1>8. QED
    BY <1>1, <1>2, <1>3, <1>4, <1>5, <1>6, <1>7 DEF AdminNext, Targeted

LEMMA AdminInvariance == AdminSpec => []AdminInv
  <1>1. QED
    BY InitHolds, AdminStep, PTL DEF AdminSpec

\* The type invariant of AdminSessions: the rows of the accounts and the sessions have
\* the columns the models declare, and no two sessions share an id.
THEOREM AdminTypeCorrect == AdminSpec => []AdminTypeOK
  <1>1. AdminInv => AdminTypeOK
    <2>. SUFFICES ASSUME AdminInv PROVE AdminTypeOK
      OBVIOUS
    <2>1. ASSUME NEW u \in Accounts, account[u].exists
          PROVE  /\ account[u].password.kind \in {"temporary", "own"}
                 /\ {account[u].must, account[u].active} \subseteq BOOLEAN
      <3>1. account[u] \in AccountRows
        BY <2>1 DEF AdminInv, Fits, NoAccount
      <3>2. QED
        BY <3>1 DEF AccountRows, Passwords
    <2>2. Cardinality({s.id : s \in sessions}) = Cardinality(sessions)
      <3>. DEFINE f == [s \in sessions |-> s.id]  T == {s.id : s \in sessions}
      <3>1. f \in Surjection(sessions, T)
        BY Zenon DEF Surjection
      <3>2. f \in Injection(sessions, T)
        BY <3>1 DEF Injection, IsInjective, Surjection, AdminInv, NumbersAreUsedOnce
      <3>3. QED
        BY <3>1, <3>2, FS_Surjection DEF AdminInv, Fits
    <2>3. QED
      BY <2>1, <2>2 DEF AdminInv, Fits, OwnersExist, SessionRows, AdminTypeOK
  <1>2. QED
    BY <1>1, AdminInvariance, PTL

\* A reset, a change of password and a disabling take hold, in every interleaving of
\* any number of admins' requests: no session opened before one of them stays valid.
THEOREM ResetsTakeHold == AdminSpec => []ResetTakesHold
  <1>1. AdminInv => ResetTakesHold
    BY DEF AdminInv
  <1>2. QED
    BY <1>1, AdminInvariance, PTL
=============================================================================
