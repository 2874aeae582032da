--------------------------- MODULE EconomyBalance ---------------------------
(***************************************************************************)
(* The bank of the economy plugin: the rows of economy_balance, the        *)
(* economy_transaction ledger, and the requests that move money.           *)
(*                                                                         *)
(* Every request runs in one InnoDB transaction (db.py:363, REPEATABLE     *)
(* READ) as a fixed sequence of database round trips, and the event loop   *)
(* may run any other request between two of them:                          *)
(*                                                                         *)
(*   Begin          the plain SELECTs of the handler; the first one fixes  *)
(*                  the snapshot that every later plain SELECT reads       *)
(*   lock1, lock2   SELECT balance ... FOR UPDATE: takes the row lock and  *)
(*                  reads the newest committed balance                     *)
(*   insert1/2      EnsureEconomyBalance: INSERT a row of 0, when the      *)
(*                  balance read is 0 and the snapshot shows no row        *)
(*   commit         the balance check, the UPDATEs and db.commit           *)
(*   post           the ledger rows of the handlers that write them in a   *)
(*                  second transaction, after the money has moved          *)
(*                                                                         *)
(* An UPDATE only takes effect at the commit and the locks it needs are    *)
(* already held, so the writes of a transaction are one step.              *)
(***************************************************************************)
EXTENDS Integers, FiniteSets

CONSTANTS
    Users,       \* the userids of drivers; they may leave
    Company,     \* the community's own account (-1000)
    Virtual,     \* the other virtual accounts a transfer may name (-1006..-1001)
    None,        \* no account
    Reqs,        \* the connections that serve requests (the pool)
    Amounts,     \* prices, costs, refunds and transfer amounts
    Revenues,    \* net revenues of a delivery for one party; negative when
                 \* offences and expenses exceed the income
    PatchValues, \* what PATCH /economy/balance/{userid} may set
    MaxRequests, \* bound on the requests issued
    MaxFaults    \* bound on the requests that die half-way

Accounts == Users \union {Company} \union Virtual

ASSUME AccountsDistinct ==
    /\ Company \notin Users
    /\ Virtual \intersect (Users \union {Company}) = {}
    /\ None \notin Accounts

ASSUME AmountsArePositive ==
    /\ Amounts \subseteq Nat \ {0}
    /\ Revenues \subseteq Int
    /\ PatchValues \subseteq Int

ASSUME BoundsAreNat == MaxRequests \in Nat /\ MaxFaults \in Nat

VARIABLES
    rows,      \* committed rows of economy_balance per account
    bal,       \* the balance those rows hold (all rows of an account agree)
    members,   \* the userids of the user table
    lock,      \* per account, the requests that hold its row or gap lock
    pc, req, snap, read, inserted,  \* the requests in flight
    posted,    \* per account, the sum of the ledger rows
    unposted,  \* history: money moved whose ledger row is not there
    offbook,   \* history: changes the code keeps out of the ledger
    issued, faults

bank == <<rows, bal, members, posted, unposted, offbook>>
vars == <<rows, bal, members, lock, pc, req, snap, read, inserted,
          posted, unposted, offbook, issued, faults>>

-----------------------------------------------------------------------------
(* What each handler asks of the bank.                                     *)

\* d1 and d2 are added to the first and second account; a checked request is
\* refused with 402 when the first account cannot pay; a late one writes its
\* ledger rows in a second transaction.
Request(kind, a1, d1, a2, d2, checked, late) ==
    [kind |-> kind, first |-> a1, d1 |-> d1, second |-> a2, d2 |-> d2,
     checked |-> checked, late |-> late]

NoRequest == Request("none", None, 0, None, 0, FALSE, FALSE)

Kinds == {"none", "transfer", "purchase", "repair", "sell", "merch_purchase",
          "merch_sell", "delivery", "patch"}

Requests == [kind : Kinds, first : Accounts \union {None}, d1 : Int,
             second : Accounts \union {None}, d2 : Int,
             checked : BOOLEAN, late : BOOLEAN]

Live == members \union {Company}

-----------------------------------------------------------------------------
(* InnoDB's locks.                                                         *)

\* The mutant: a plain SELECT in place of SELECT ... FOR UPDATE.
ExcludedByNobody(r, a) == FALSE

\* A request that locked an existing row, or inserted one, keeps everyone
\* else out; two that locked an absent row share its gap ...
Excluded(r, a) ==
    \E s \in lock[a] \ {r} : rows[a] > 0 \/ a \in inserted[s]

\* ... until one of them inserts: an INSERT waits for every other gap lock.
CannotInsert(r, a) == lock[a] \ {r} # {}

Target(r) ==
    IF pc[r] \in {"lock1", "insert1", "patch_insert", "patch_write"}
    THEN req[r].first ELSE req[r].second

\* r waits for s.
WaitsFor(r, s) ==
    \/ /\ pc[r] \in {"lock1", "lock2", "patch_write"}
       /\ s \in lock[Target(r)] \ {r}
       /\ rows[Target(r)] > 0 \/ Target(r) \in inserted[s]
    \/ /\ pc[r] \in {"insert1", "insert2", "patch_insert"}
       /\ s \in lock[Target(r)] \ {r}

\* Each member of some set of requests waits for another and is waited for.
InWaitCycle(r) ==
    \E C \in SUBSET Reqs :
        /\ r \in C
        /\ \A x \in C : /\ \E y \in C : WaitsFor(x, y)
                        /\ \E y \in C : WaitsFor(y, x)

\* The mutant: the connection is not given back, its locks stay.
ReleasedNever(r) == lock

Released(r) == [a \in Accounts |-> lock[a] \ {r}]

\* The connection goes back to the pool; what was not committed is undone.
Finish(r) ==
    /\ lock' = Released(r)
    /\ pc' = [pc EXCEPT ![r] = "idle"]
    /\ req' = [req EXCEPT ![r] = NoRequest]
    /\ snap' = [snap EXCEPT ![r] = {}]
    /\ read' = [read EXCEPT ![r] = 0]
    /\ inserted' = [inserted EXCEPT ![r] = {}]

-----------------------------------------------------------------------------
Init ==
    /\ rows = [a \in Accounts |-> 0]
    /\ bal = [a \in Accounts |-> 0]
    /\ members = Users
    /\ lock = [a \in Accounts |-> {}]
    /\ pc = [r \in Reqs |-> "idle"]
    /\ req = [r \in Reqs |-> NoRequest]
    /\ snap = [r \in Reqs |-> {}]
    /\ read = [r \in Reqs |-> 0]
    /\ inserted = [r \in Reqs |-> {}]
    /\ posted = [a \in Accounts |-> 0]
    /\ unposted = [a \in Accounts |-> 0]
    /\ offbook = [a \in Accounts |-> 0]
    /\ issued = 0
    /\ faults = 0

\* The accounts that have a row, as a plain SELECT sees them now.
VisibleRows == {a \in Accounts : rows[a] > 0}

\* BEGIN, and the handler's plain SELECTs. PATCH takes no FOR UPDATE lock: it
\* starts with EnsureEconomyBalance, whose SELECT is the first of its snapshot.
Begin(r, q) ==
    /\ pc[r] = "idle"
    /\ issued < MaxRequests
    /\ req' = [req EXCEPT ![r] = q]
    /\ pc' = [pc EXCEPT ![r] =
                IF q.kind # "patch" THEN "lock1"
                ELSE IF q.first \in VisibleRows THEN "patch_write"
                ELSE "patch_insert"]
    /\ snap' = [snap EXCEPT ![r] = VisibleRows]
    /\ issued' = issued + 1
    /\ UNCHANGED <<bank, lock, read, inserted, faults>>

\* from: any account of a user or the company; to: also a virtual account.
Transfer(r) ==
    \E a \in Live, b \in Live \union Virtual, n \in Amounts :
        a # b /\ Begin(r, Request("transfer", a, -n, b, n, TRUE, FALSE))

\* A garage, a garage slot or a truck; for the buyer or for the company.
Purchase(r) ==
    \E a \in Live, n \in Amounts :
        Begin(r, Request("purchase", a, -n, None, 0, TRUE, TRUE))

\* The caller pays, whoever owns the truck.
Repair(r) ==
    \E a \in members, n \in Amounts :
        Begin(r, Request("repair", a, -n, None, 0, TRUE, FALSE))

\* A garage, a slot or a truck is sold, or a truck scrapped: the owner is paid.
Sell(r) ==
    \E a \in Live, n \in Amounts :
        Begin(r, Request("sell", a, n, None, 0, FALSE, FALSE))

MerchPurchase(r) ==
    \E a \in members, n \in Amounts :
        Begin(r, Request("merch_purchase", a, -n, Company, n, TRUE, TRUE))

\* Merchandise stays with an owner who left, and staff may still sell it.
MerchSell(r) ==
    \E a \in Users, n \in Amounts :
        Begin(r, Request("merch_sell", a, n, Company, -n, FALSE, FALSE))

Delivery(r) ==
    \E a \in members, n \in Revenues, m \in Revenues :
        Begin(r, Request("delivery", a, n, Company, m, FALSE, TRUE))

\* d1 is the value the balance is set to.
Patch(r) ==
    \E a \in Users, v \in PatchValues :
        Begin(r, Request("patch", a, v, None, 0, FALSE, FALSE))

Arrive(r) ==
    \/ Transfer(r) \/ Purchase(r) \/ Repair(r) \/ Sell(r)
    \/ MerchPurchase(r) \/ MerchSell(r) \/ Delivery(r) \/ Patch(r)

AfterFirst(r) == IF req[r].second = None THEN "commit" ELSE "lock2"

\* The mutant: a missing row is read as NULL.
BalanceReadRaw(a) == IF rows[a] = 0 THEN None ELSE bal[a]

\* nint(fetchone): the first row's balance, 0 when there is no row.
BalanceRead(a) == bal[a]

\* EnsureEconomyBalance inserts only when the balance read is 0 and its own
\* SELECT, which reads the snapshot, finds no row.
MissingRow(r, a) == BalanceRead(a) = 0 /\ a \notin snap[r]

Lock1(r) ==
    LET a == req[r].first IN
    /\ pc[r] = "lock1"
    /\ ~Excluded(r, a)
    /\ lock' = [lock EXCEPT ![a] = @ \union {r}]
    /\ read' = [read EXCEPT ![r] = BalanceRead(a)]
    /\ pc' = [pc EXCEPT ![r] =
                IF MissingRow(r, a) THEN "insert1" ELSE AfterFirst(r)]
    /\ UNCHANGED <<bank, req, snap, inserted, issued, faults>>

Insert1(r) ==
    LET a == req[r].first IN
    /\ pc[r] = "insert1"
    /\ ~CannotInsert(r, a)
    /\ inserted' = [inserted EXCEPT ![r] = @ \union {a}]
    /\ pc' = [pc EXCEPT ![r] = AfterFirst(r)]
    /\ UNCHANGED <<bank, lock, req, snap, read, issued, faults>>

Lock2(r) ==
    LET a == req[r].second IN
    /\ pc[r] = "lock2"
    /\ ~Excluded(r, a)
    /\ lock' = [lock EXCEPT ![a] = @ \union {r}]
    /\ pc' = [pc EXCEPT ![r] =
                IF MissingRow(r, a) THEN "insert2" ELSE "commit"]
    /\ UNCHANGED <<bank, req, snap, read, inserted, issued, faults>>

Insert2(r) ==
    LET a == req[r].second IN
    /\ pc[r] = "insert2"
    /\ ~CannotInsert(r, a)
    /\ inserted' = [inserted EXCEPT ![r] = @ \union {a}]
    /\ pc' = [pc EXCEPT ![r] = "commit"]
    /\ UNCHANGED <<bank, lock, req, snap, read, issued, faults>>

-----------------------------------------------------------------------------
Delta(q, a) == IF a = q.first THEN q.d1 ELSE IF a = q.second THEN q.d2 ELSE 0

\* The mutant: the row EnsureEconomyBalance inserted is rolled back.
CommittedRowsLost(r) == rows

\* The rows after r's transaction: the ones it inserted are there.
CommittedRows(r) ==
    [a \in Accounts |-> IF a \in inserted[r] THEN rows[a] + 1 ELSE rows[a]]

\* The mutant: a payer one coin short gets through.
InsufficientOffByOne(r) == req[r].checked /\ read[r] + req[r].d1 < -1

Insufficient(r) == req[r].checked /\ read[r] + req[r].d1 < 0

\* 402 insufficient_balance: nothing is committed.
Reject(r) ==
    /\ pc[r] = "commit"
    /\ Insufficient(r)
    /\ Finish(r)
    /\ UNCHANGED <<bank, issued, faults>>

\* The UPDATEs; one that matches no row changes nothing.
ApplyTo(r) ==
    [a \in Accounts |->
        IF CommittedRows(r)[a] > 0 THEN bal[a] + Delta(req[r], a) ELSE bal[a]]

Commit(r) ==
    /\ pc[r] = "commit"
    /\ ~Insufficient(r)
    /\ bal' = ApplyTo(r)
    /\ rows' = CommittedRows(r)
    /\ LET moved == [a \in Accounts |-> Delta(req[r], a)] IN
       IF req[r].late
       THEN /\ unposted' = [a \in Accounts |-> unposted[a] + moved[a]]
            /\ lock' = Released(r)
            /\ pc' = [pc EXCEPT ![r] = "post"]
            /\ inserted' = [inserted EXCEPT ![r] = {}]
            /\ UNCHANGED <<posted, req, snap, read>>
       ELSE /\ posted' = [a \in Accounts |-> posted[a] + moved[a]]
            /\ Finish(r)
            /\ UNCHANGED unposted
    /\ UNCHANGED <<members, offbook, issued, faults>>

\* The mutant: the second transaction is not committed.
PostWithoutCommit(r) ==
    /\ pc[r] = "post"
    /\ Finish(r)
    /\ UNCHANGED <<bank, issued, faults>>

\* The second transaction of a purchase or a delivery: the ledger rows.
Post(r) ==
    /\ pc[r] = "post"
    /\ posted' = [a \in Accounts |-> posted[a] + Delta(req[r], a)]
    /\ unposted' = [a \in Accounts |-> unposted[a] - Delta(req[r], a)]
    /\ Finish(r)
    /\ UNCHANGED <<rows, bal, members, offbook, issued, faults>>

\* PATCH: EnsureEconomyBalance inserts, without a lock of its own before.
PatchInsert(r) ==
    LET a == req[r].first IN
    /\ pc[r] = "patch_insert"
    /\ ~CannotInsert(r, a)
    /\ lock' = [lock EXCEPT ![a] = @ \union {r}]
    /\ inserted' = [inserted EXCEPT ![r] = @ \union {a}]
    /\ pc' = [pc EXCEPT ![r] = "patch_write"]
    /\ UNCHANGED <<bank, req, snap, read, issued, faults>>

\* PATCH: UPDATE ... SET balance and commit. The ledger is not told.
PatchWrite(r) ==
    LET a == req[r].first
        v == IF CommittedRows(r)[a] > 0 THEN req[r].d1 ELSE bal[a]
    IN
    /\ pc[r] = "patch_write"
    /\ ~Excluded(r, a)
    /\ bal' = [bal EXCEPT ![a] = v]
    /\ rows' = CommittedRows(r)
    /\ offbook' = [offbook EXCEPT ![a] = @ + (v - bal[a])]
    /\ Finish(r)
    /\ UNCHANGED <<members, posted, unposted, issued, faults>>

-----------------------------------------------------------------------------
\* A driver resigns or is dismissed: the user row and the balance rows go, in
\* one transaction, once nobody holds the balance row.
Leave(u) ==
    /\ u \in members
    /\ \A s \in lock[u] : rows[u] = 0 /\ u \notin inserted[s]
    /\ members' = members \ {u}
    /\ rows' = [rows EXCEPT ![u] = 0]
    /\ bal' = [bal EXCEPT ![u] = 0]
    /\ offbook' = [offbook EXCEPT ![u] = @ - bal[u]]
    /\ UNCHANGED <<lock, pc, req, snap, read, inserted, posted, unposted,
                   issued, faults>>

\* InnoDB breaks a cycle of waits by rolling one of its members back.
DeadlockVictim(r) ==
    /\ InWaitCycle(r)
    /\ Finish(r)
    /\ UNCHANGED <<bank, issued, faults>>

\* The request dies between two round trips: an exception (for instance while
\* the driver is notified, tracker.py:684-687), a lost connection, a restart.
Die(r) ==
    /\ pc[r] # "idle"
    /\ faults < MaxFaults
    /\ faults' = faults + 1
    /\ Finish(r)
    /\ UNCHANGED <<bank, issued>>

Step(r) ==
    \/ Lock1(r) \/ Insert1(r) \/ Lock2(r) \/ Insert2(r)
    \/ Reject(r) \/ Commit(r) \/ Post(r)
    \/ PatchInsert(r) \/ PatchWrite(r)

Next ==
    \/ \E r \in Reqs : Arrive(r) \/ Step(r) \/ DeadlockVictim(r) \/ Die(r)
    \/ \E u \in Users : Leave(u)

Spec == Init /\ [][Next]_vars

\* The event loop resumes every handler whose database call returned, and
\* InnoDB always breaks a cycle. Nothing makes a new request arrive, a driver
\* leave or a request die.
Fairness ==
    /\ \A r \in Reqs : WF_vars(Step(r))
    /\ WF_vars(\E r \in Reqs : DeadlockVictim(r))

FairSpec == Spec /\ Fairness

-----------------------------------------------------------------------------
(* Properties.                                                             *)

\* Every variable has its type: an account without a row counts as 0, and a
\* request is at a round trip of its handler.
TypeOK ==
    /\ rows \in [Accounts -> Nat]
    /\ bal \in [Accounts -> Int]
    /\ members \subseteq Users
    /\ lock \in [Accounts -> SUBSET Reqs]
    /\ pc \in [Reqs -> {"idle", "lock1", "insert1", "lock2", "insert2", "commit",
                        "post", "patch_insert", "patch_write"}]
    /\ req \in [Reqs -> Requests]
    /\ snap \in [Reqs -> SUBSET Accounts]
    /\ read \in [Reqs -> Int]
    /\ inserted \in [Reqs -> SUBSET Accounts]
    /\ posted \in [Accounts -> Int]
    /\ unposted \in [Accounts -> Int]
    /\ offbook \in [Accounts -> Int]
    /\ issued \in Nat
    /\ faults \in Nat

\* The balance a request read before its other round trips, checked against
\* the price and written to the ledger as from_new_balance, is still the
\* account's balance when it commits (SELECT ... FOR UPDATE in every handler).
ReadIsCurrent ==
    \A r \in Reqs : pc[r] \in {"insert1", "lock2", "insert2", "commit"}
        => read[r] = bal[req[r].first]

\* A purchase, repair or transfer never takes the payer below zero, however
\* requests interleave: no two of them spend the same coins.
SpendingIsCovered ==
    [][\A r \in Reqs :
        (pc[r] = "commit" /\ pc'[r] # "commit" /\ req[r].checked /\ bal' # bal)
            => bal'[req[r].first] >= 0]_vars

\* The ledger and the bank agree on every live account: the balance is what
\* the ledger rows add up to, plus what is committed and not yet in the
\* ledger, plus what PATCH and leaving keep out of it.
LedgerExplains ==
    \A a \in Live : bal[a] = posted[a] + unposted[a] + offbook[a]

\* When no request is between its two transactions and none has died there,
\* the ledger alone explains every live account.
QuietLedgerComplete ==
    (faults = 0 /\ \A r \in Reqs : pc[r] # "post")
        => \A a \in Live : bal[a] = posted[a] + offbook[a]

\* Every request ends: no request waits for ever for a lock.
RequestsEnd == \A r \in Reqs : pc[r] # "idle" ~> pc[r] = "idle"
=============================================================================
