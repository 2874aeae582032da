----------------------- MODULE EconomyBalanceProofs -----------------------
(***************************************************************************)
(* Proofs about EconomyBalance, for any set of users, accounts and         *)
(* requests and any amounts: what a request reads under its row lock stays *)
(* true until it commits, so no two requests spend the same coins, the     *)
(* ledger and what is under way explain every balance, and the ledger      *)
(* alone does once nothing is under way.                                   *)
(***************************************************************************)
EXTENDS EconomyBalance, TLAPS

\* The steps at which a request holds the row (or gap) lock of its first and
\* of its second account.
HoldsFirst == {"insert1", "lock2", "insert2", "commit"}

\* A request that is under way names accounts.
NamesAccounts ==
    \A r \in Reqs :
        /\ pc[r] # "idle" => req[r].first \in Accounts
        /\ pc[r] \in {"lock2", "insert2"} => req[r].second \in Accounts

\* A balance is only there when a row holds it.
NoRowNoMoney == \A a \in Accounts : rows[a] = 0 => bal[a] = 0

\* Between its first lock and its commit a request holds what it locked.
LocksAreHeld ==
    \A r \in Reqs :
        /\ pc[r] \in HoldsFirst => r \in lock[req[r].first]
        /\ pc[r] = "insert2" => r \in lock[req[r].second]
        /\ pc[r] = "commit" /\ req[r].second \in Accounts
                => r \in lock[req[r].second]
        /\ \A a \in inserted[r] : r \in lock[a]

\* Two requests share a lock only on the gap of an absent row, and neither of
\* them has inserted into it.
LocksExclude ==
    \A a \in Accounts : \A r, s \in lock[a] :
        r # s => rows[a] = 0 /\ a \notin inserted[r]

\* The inductive invariant behind ReadIsCurrent and SpendingIsCovered.
LockInv ==
    TypeOK /\ NamesAccounts /\ NoRowNoMoney /\ LocksAreHeld /\ LocksExclude
    /\ ReadIsCurrent

\* What a live account's row must be, for the ledger to follow the balance:
\* a row in the snapshot is still there, and from its lock on a request
\* either found a row or inserted one.
RowsAreThere ==
    \A r \in Reqs :
        /\ \A a \in snap[r] \intersect Live : rows[a] > 0
        /\ pc[r] \in {"lock2", "insert2", "commit"} /\ req[r].first \in Live
                => rows[req[r].first] > 0 \/ req[r].first \in inserted[r]
        /\ pc[r] = "commit" /\ req[r].second \in Live
                => rows[req[r].second] > 0 \/ req[r].second \in inserted[r]

LedgerInv == LockInv /\ RowsAreThere /\ LedgerExplains

-----------------------------------------------------------------------------
(* Types.                                                                  *)

\* Every request the handlers make is a well-typed one, and names its first
\* account.
LEMMA ArrivalsAreRequests ==
    ASSUME members \subseteq Users, NEW r \in Reqs, Arrive(r)
    PROVE  \E q \in Requests : q.first \in Accounts /\ Begin(r, q)
<1>1. \A n \in Amounts : n \in Int /\ -n \in Int
    BY AmountsArePositive
<1>2. /\ Live \subseteq Accounts /\ Virtual \subseteq Accounts
      /\ members \subseteq Accounts /\ Users \subseteq Accounts
      /\ Company \in Accounts
    BY DEF Live, Accounts
<1>3. Revenues \subseteq Int /\ PatchValues \subseteq Int
    BY AmountsArePositive
<1> DEFINE Good == {q \in Requests : q.first \in Accounts}
<1>4. CASE Transfer(r)
  <2>1. PICK a \in Live, b \in Live \union Virtual, n \in Amounts :
            Begin(r, Request("transfer", a, -n, b, n, TRUE, FALSE))
      BY <1>4 DEF Transfer
  <2>2. Request("transfer", a, -n, b, n, TRUE, FALSE) \in Good
      BY <1>1, <1>2, <1>3 DEF Request, Requests, Kinds
  <2> QED
      BY <2>1, <2>2
<1>5. CASE Purchase(r)
  <2>1. PICK a \in Live, n \in Amounts :
            Begin(r, Request("purchase", a, -n, None, 0, TRUE, TRUE))
      BY <1>5 DEF Purchase
  <2>2. Request("purchase", a, -n, None, 0, TRUE, TRUE) \in Good
      BY <1>1, <1>2, <1>3 DEF Request, Requests, Kinds
  <2> QED
      BY <2>1, <2>2
<1>6. CASE Repair(r)
  <2>1. PICK a \in members, n \in Amounts :
            Begin(r, Request("repair", a, -n, None, 0, TRUE, FALSE))
      BY <1>6 DEF Repair
  <2>2. Request("repair", a, -n, None, 0, TRUE, FALSE) \in Good
      BY <1>1, <1>2, <1>3 DEF Request, Requests, Kinds
  <2> QED
      BY <2>1, <2>2
<1>7. CASE Sell(r)
  <2>1. PICK a \in Live, n \in Amounts :
            Begin(r, Request("sell", a, n, None, 0, FALSE, FALSE))
      BY <1>7 DEF Sell
  <2>2. Request("sell", a, n, None, 0, FALSE, FALSE) \in Good
      BY <1>1, <1>2, <1>3 DEF Request, Requests, Kinds
  <2> QED
      BY <2>1, <2>2
<1>8. CASE MerchPurchase(r)
  <2>1. PICK a \in members, n \in Amounts :
            Begin(r, Request("merch_purchase", a, -n, Company, n, TRUE, TRUE))
      BY <1>8 DEF MerchPurchase
  <2>2. Request("merch_purchase", a, -n, Company, n, TRUE, TRUE) \in Good
      BY <1>1, <1>2, <1>3 DEF Request, Requests, Kinds
  <2> QED
      BY <2>1, <2>2
<1>9. CASE MerchSell(r)
  <2>1. PICK a \in Users, n \in Amounts :
            Begin(r, Request("merch_sell", a, n, Company, -n, FALSE, FALSE))
      BY <1>9 DEF MerchSell
  <2>2. Request("merch_sell", a, n, Company, -n, FALSE, FALSE) \in Good
      BY <1>1, <1>2, <1>3 DEF Request, Requests, Kinds
  <2> QED
      BY <2>1, <2>2
<1>10. CASE Delivery(r)
  <2>1. PICK a \in members, n \in Revenues, m \in Revenues :
            Begin(r, Request("delivery", a, n, Company, m, FALSE, TRUE))
      BY <1>10 DEF Delivery
  <2>2. Request("delivery", a, n, Company, m, FALSE, TRUE) \in Good
      BY <1>1, <1>2, <1>3 DEF Request, Requests, Kinds
  <2> QED
      BY <2>1, <2>2
<1>11. CASE Patch(r)
  <2>1. PICK a \in Users, v \in PatchValues :
            Begin(r, Request("patch", a, v, None, 0, FALSE, FALSE))
      BY <1>11 DEF Patch
  <2>2. Request("patch", a, v, None, 0, FALSE, FALSE) \in Good
      BY <1>1, <1>2, <1>3 DEF Request, Requests, Kinds
  <2> QED
      BY <2>1, <2>2
<1> QED
    BY <1>4, <1>5, <1>6, <1>7, <1>8, <1>9, <1>10, <1>11 DEF Arrive

TypeInv == TypeOK /\ NamesAccounts

\* The types hold at first.
LEMMA TypeInvInit == Init => TypeInv
  BY BoundsAreNat
  DEF Init, TypeInv, TypeOK, NamesAccounts, NoRequest, Request, Requests, Kinds

\* The request of an idle client has the type of a request.
LEMMA NoRequestIsARequest == NoRequest \in Requests
  BY DEF NoRequest, Request, Requests, Kinds

\* A request that ends leaves nothing behind.
LEMMA FinishTypes ==
    ASSUME TypeInv, NEW r \in Reqs, Finish(r)
    PROVE  /\ lock' \in [Accounts -> SUBSET Reqs]
           /\ pc' \in [Reqs -> {"idle", "lock1", "insert1", "lock2", "insert2",
                                "commit", "post", "patch_insert", "patch_write"}]
           /\ req' \in [Reqs -> Requests]
           /\ snap' \in [Reqs -> SUBSET Accounts]
           /\ read' \in [Reqs -> Int]
           /\ inserted' \in [Reqs -> SUBSET Accounts]
           /\ NamesAccounts'
  BY NoRequestIsARequest
  DEF TypeInv, TypeOK, NamesAccounts, Finish, Released

\* Amounts moved between typed balances leave them typed.
LEMMA ApplyTypes ==
    ASSUME TypeInv, NEW r \in Reqs
    PROVE  /\ CommittedRows(r) \in [Accounts -> Nat]
           /\ \A a \in Accounts : Delta(req[r], a) \in Int
           /\ ApplyTo(r) \in [Accounts -> Int]
<1>1. CommittedRows(r) \in [Accounts -> Nat]
    BY DEF TypeInv, TypeOK, CommittedRows
<1>2. req[r].d1 \in Int /\ req[r].d2 \in Int
    BY DEF TypeInv, TypeOK, Requests
<1>3. \A a \in Accounts : Delta(req[r], a) \in Int
    BY <1>2 DEF Delta
<1>4. ApplyTo(r) \in [Accounts -> Int]
    BY <1>1, <1>3 DEF TypeInv, TypeOK, ApplyTo
<1> QED
    BY <1>1, <1>3, <1>4

\* Every step keeps the types.
LEMMA TypeInvNext == TypeInv /\ [Next]_vars => TypeInv'
<1> SUFFICES ASSUME TypeInv, [Next]_vars
             PROVE  TypeInv'
    OBVIOUS
<1> USE DEF TypeInv
<1>1. ASSUME NEW r \in Reqs, Arrive(r) PROVE TypeInv'
  <2>1. PICK q \in Requests : q.first \in Accounts /\ Begin(r, q)
      BY <1>1, ArrivalsAreRequests DEF TypeOK
  <2>2. TypeOK'
      BY <2>1 DEF TypeOK, Begin, bank, VisibleRows
  <2>3. NamesAccounts'
      BY <2>1 DEF TypeOK, NamesAccounts, Begin
  <2> QED
      BY <2>2, <2>3
<1>2. ASSUME NEW r \in Reqs, Lock1(r) PROVE TypeInv'
    BY <1>2 DEF TypeOK, NamesAccounts, Lock1, BalanceRead, AfterFirst, bank, Requests
<1>3. ASSUME NEW r \in Reqs, Insert1(r) PROVE TypeInv'
    BY <1>3 DEF TypeOK, NamesAccounts, Insert1, AfterFirst, bank, Requests
<1>4. ASSUME NEW r \in Reqs, Lock2(r) PROVE TypeInv'
    BY <1>4 DEF TypeOK, NamesAccounts, Lock2, bank
<1>5. ASSUME NEW r \in Reqs, Insert2(r) PROVE TypeInv'
    BY <1>5 DEF TypeOK, NamesAccounts, Insert2, bank
<1>6. ASSUME NEW r \in Reqs, Finish(r), UNCHANGED bank,
             issued' = issued, faults' \in Nat
      PROVE TypeInv'
    BY <1>6, FinishTypes DEF TypeOK, bank
<1>7. ASSUME NEW r \in Reqs, Reject(r) PROVE TypeInv'
    BY <1>6, <1>7 DEF TypeOK, Reject
<1>8. ASSUME NEW r \in Reqs, Commit(r) PROVE TypeInv'
  <2>1. bal' \in [Accounts -> Int] /\ rows' \in [Accounts -> Nat]
      BY <1>8, ApplyTypes DEF Commit
  <2>2. CASE req[r].late
    <3>1. unposted' \in [Accounts -> Int] /\ UNCHANGED posted
        BY <1>8, <2>2, ApplyTypes DEF TypeOK, Commit
    <3> QED
        BY <1>8, <2>1, <2>2, <3>1
        DEF TypeOK, NamesAccounts, Commit, Released
  <2>3. CASE ~req[r].late
    <3>1. posted' \in [Accounts -> Int] /\ UNCHANGED unposted
        BY <1>8, <2>3, ApplyTypes DEF TypeOK, Commit
    <3>2. Finish(r)
        BY <1>8, <2>3 DEF Commit
    <3> QED
        BY <1>8, <2>1, <3>1, <3>2, FinishTypes DEF TypeOK, Commit
  <2> QED
      BY <2>2, <2>3
<1>9. ASSUME NEW r \in Reqs, Post(r) PROVE TypeInv'
  <2>1. posted' \in [Accounts -> Int] /\ unposted' \in [Accounts -> Int]
      BY <1>9, ApplyTypes DEF TypeOK, Post
  <2> QED
      BY <1>9, <2>1, FinishTypes DEF TypeOK, Post
<1>10. ASSUME NEW r \in Reqs, PatchInsert(r) PROVE TypeInv'
    BY <1>10 DEF TypeOK, NamesAccounts, PatchInsert, bank
<1>11. ASSUME NEW r \in Reqs, PatchWrite(r) PROVE TypeInv'
  <2> DEFINE a == req[r].first
             v == IF CommittedRows(r)[a] > 0 THEN req[r].d1 ELSE bal[a]
  <2>1. a \in Accounts /\ v \in Int
      BY <1>11 DEF TypeOK, NamesAccounts, PatchWrite, Requests
  <2>2. rows' \in [Accounts -> Nat]
      BY <1>11, ApplyTypes DEF PatchWrite
  <2> HIDE DEF v
  <2>3. bal' = [bal EXCEPT ![a] = v]
        /\ offbook' = [offbook EXCEPT ![a] = @ + (v - bal[a])]
      BY <1>11 DEF PatchWrite, v
  <2>4. bal' \in [Accounts -> Int] /\ offbook' \in [Accounts -> Int]
      BY <2>1, <2>3 DEF TypeOK
  <2> QED
      BY <1>11, <2>2, <2>4, FinishTypes DEF TypeOK, PatchWrite
<1>12. ASSUME NEW u \in Users, Leave(u) PROVE TypeInv'
    BY <1>12 DEF TypeOK, NamesAccounts, Leave, Accounts
<1>13. ASSUME NEW r \in Reqs, DeadlockVictim(r) PROVE TypeInv'
    BY <1>6, <1>13 DEF TypeOK, DeadlockVictim
<1>14. ASSUME NEW r \in Reqs, Die(r) PROVE TypeInv'
    BY <1>6, <1>14 DEF TypeOK, Die
<1>15. CASE UNCHANGED vars
    BY <1>15 DEF TypeOK, NamesAccounts, vars
<1> QED
    BY <1>1, <1>2, <1>3, <1>4, <1>5, <1>7, <1>8, <1>9, <1>10, <1>11, <1>12,
       <1>13, <1>14, <1>15 DEF Next, Step

\* Every variable keeps its type, whatever the users, requests and amounts.
THEOREM TypeCorrect == Spec => []TypeOK
<1>1. Spec => []TypeInv
    BY TypeInvInit, TypeInvNext, PTL DEF Spec
<1>2. TypeInv => TypeOK
    BY DEF TypeInv
<1> QED
    BY <1>1, <1>2, PTL

-----------------------------------------------------------------------------
(* Locks.                                                                  *)

\* No row is locked at first.
LEMMA LockInvInit == Init => LockInv
<1>1. Init => TypeInv
    BY TypeInvInit
<1>2. Init => NoRowNoMoney /\ LocksAreHeld /\ LocksExclude /\ ReadIsCurrent
    BY DEF Init, NoRowNoMoney, LocksAreHeld, LocksExclude, ReadIsCurrent, HoldsFirst
<1> QED
    BY <1>1, <1>2 DEF LockInv, TypeInv

\* While one request holds an account's lock, another one's commit changes
\* neither the account's balance nor its row.
LEMMA OthersCannotMove ==
    ASSUME LockInv, NEW r \in Reqs, NEW s \in Reqs, r # s,
           NEW a \in Accounts, r \in lock[a],
           s \in lock[a] \/ Delta(req[s], a) = 0
    PROVE  ApplyTo(s)[a] = bal[a] /\ CommittedRows(s)[a] = rows[a]
<1>1. a \notin inserted[s]
  <2>1. CASE s \in lock[a]
      BY <2>1 DEF LockInv, LocksExclude
  <2>2. CASE s \notin lock[a]
      BY <2>2 DEF LockInv, LocksAreHeld
  <2> QED
      BY <2>1, <2>2
<1>2. CommittedRows(s)[a] = rows[a]
    BY <1>1 DEF CommittedRows
<1>3. CASE s \in lock[a]
  <2>1. rows[a] = 0
      BY <1>3 DEF LockInv, LocksExclude
  <2> QED
      BY <1>2, <2>1 DEF ApplyTo
<1>4. CASE Delta(req[s], a) = 0
  <2>1. bal[a] \in Int
      BY DEF LockInv, TypeOK
  <2> QED
      BY <1>2, <1>4, <2>1 DEF ApplyTo
<1> QED
    BY <1>2, <1>3, <1>4

\* A request that commits holds the locks of the accounts it changes.
LEMMA CommitHoldsLocks ==
    ASSUME LockInv, NEW s \in Reqs, pc[s] = "commit", NEW a \in Accounts
    PROVE  s \in lock[a] \/ Delta(req[s], a) = 0
  BY DEF LockInv, LocksAreHeld, HoldsFirst, Delta

\* A request that ends takes its locks with it and disturbs no other's.
LEMMA FinishKeepsLocks ==
    ASSUME LockInv, NEW r \in Reqs, Finish(r)
    PROVE  /\ LocksAreHeld'
           /\ \A s \in Reqs : pc'[s] # "idle" =>
                /\ s # r /\ pc'[s] = pc[s] /\ req'[s] = req[s]
                /\ read'[s] = read[s] /\ inserted'[s] = inserted[s]
                /\ snap'[s] = snap[s]
           /\ \A a \in Accounts : lock'[a] = lock[a] \ {r}
           /\ \A s \in Reqs : s # r => inserted'[s] = inserted[s]
<1>1. /\ \A s \in Reqs : s # r =>
            /\ pc'[s] = pc[s] /\ req'[s] = req[s] /\ read'[s] = read[s]
            /\ inserted'[s] = inserted[s] /\ snap'[s] = snap[s]
      /\ pc'[r] = "idle" /\ inserted'[r] = {}
      /\ \A a \in Accounts : lock'[a] = lock[a] \ {r}
    BY DEF LockInv, TypeOK, Finish, Released
<1>2. \A s \in Reqs : inserted[s] \subseteq Accounts
    BY DEF LockInv, TypeOK
<1>3. \A s \in Reqs : pc[s] # "idle" => req[s].first \in Accounts
    BY DEF LockInv, NamesAccounts
<1>4. \A s \in Reqs : pc[s] = "insert2" => req[s].second \in Accounts
    BY DEF LockInv, NamesAccounts
<1>5. LocksAreHeld'
  <2> SUFFICES ASSUME NEW s \in Reqs
               PROVE  /\ pc'[s] \in HoldsFirst => s \in lock'[req'[s].first]
                      /\ pc'[s] = "insert2" => s \in lock'[req'[s].second]
                      /\ pc'[s] = "commit" /\ req'[s].second \in Accounts
                            => s \in lock'[req'[s].second]
                      /\ \A a \in inserted'[s] : s \in lock'[a]
      BY DEF LocksAreHeld
  <2>1. CASE s = r
      BY <1>1, <2>1 DEF HoldsFirst
  <2>2. CASE s # r
      BY <1>1, <1>2, <1>3, <1>4, <2>2 DEF LockInv, LocksAreHeld, HoldsFirst
  <2> QED
      BY <2>1, <2>2
<1> QED
    BY <1>1, <1>5

\* Every step keeps the row locks with the clients that need them.
LEMMA LockInvNext == LockInv /\ [Next]_vars => LockInv'
<1> SUFFICES ASSUME LockInv, [Next]_vars
             PROVE  LockInv'
    OBVIOUS
<1>0. TypeInv'
    BY TypeInvNext DEF TypeInv, LockInv
<1> USE DEF LockInv
<1> DEFINE Rest == /\ NoRowNoMoney' /\ LocksAreHeld' /\ LocksExclude'
                   /\ ReadIsCurrent'
<1>1. ASSUME NEW r \in Reqs, Arrive(r) PROVE Rest
  <2>1. PICK q \in Requests : q.first \in Accounts /\ Begin(r, q)
      BY <1>1, ArrivalsAreRequests DEF TypeOK
  <2>2. pc'[r] \in {"lock1", "patch_insert", "patch_write"}
      BY <2>1 DEF Begin, TypeOK
  <2>3. \A s \in Reqs \ {r} : pc'[s] = pc[s] /\ req'[s] = req[s]
      BY <2>1 DEF Begin, TypeOK
  <2>4. LocksAreHeld'
      BY <2>1, <2>2, <2>3 DEF Begin, LocksAreHeld, HoldsFirst
  <2>5. ReadIsCurrent'
      BY <2>1, <2>2, <2>3 DEF Begin, ReadIsCurrent, bank
  <2> QED
      BY <2>1, <2>4, <2>5 DEF Begin, NoRowNoMoney, LocksExclude, bank
<1>2. ASSUME NEW r \in Reqs, Lock1(r) PROVE Rest
  <2> DEFINE a == req[r].first
  <2>1. a \in Accounts
      BY <1>2 DEF Lock1, NamesAccounts
  <2>2. /\ lock' = [lock EXCEPT ![a] = @ \union {r}]
        /\ UNCHANGED <<rows, bal, req, inserted>>
        /\ pc'[r] \in {"insert1", "commit", "lock2"} /\ read'[r] = bal[a]
        /\ pc'[r] = "commit" => req[r].second = None
        /\ \A s \in Reqs \ {r} : pc'[s] = pc[s] /\ read'[s] = read[s]
      BY <1>2 DEF Lock1, AfterFirst, BalanceRead, bank, TypeOK
  <2>3. LocksAreHeld'
      BY <2>1, <2>2, AccountsDistinct DEF LocksAreHeld, HoldsFirst, TypeOK
  <2>4. LocksExclude'
    <3>1. \A q \in lock[a] \ {r} : rows[a] = 0 /\ a \notin inserted[q]
        BY <1>2, <2>1 DEF Lock1, Excluded, TypeOK
    <3>2. r \in lock[a] \/ a \notin inserted[r]
        BY <1>2 DEF LocksAreHeld
    <3> QED
        BY <2>1, <2>2, <3>1, <3>2 DEF LocksExclude, TypeOK
  <2>5. ReadIsCurrent'
      BY <2>1, <2>2 DEF ReadIsCurrent
  <2> QED
      BY <2>2, <2>3, <2>4, <2>5 DEF NoRowNoMoney
<1>3. ASSUME NEW r \in Reqs, Insert1(r) PROVE Rest
  <2> DEFINE a == req[r].first
  <2>1. a \in Accounts /\ r \in lock[a]
      BY <1>3 DEF Insert1, NamesAccounts, LocksAreHeld, HoldsFirst
  <2>2. /\ inserted' = [inserted EXCEPT ![r] = @ \union {a}]
        /\ UNCHANGED <<rows, bal, req, lock, read>>
        /\ pc'[r] \in {"commit", "lock2"}
        /\ pc'[r] = "commit" => req[r].second = None
        /\ \A s \in Reqs \ {r} : pc'[s] = pc[s]
      BY <1>3 DEF Insert1, AfterFirst, bank, TypeOK
  <2>3. LocksAreHeld'
      BY <1>3, <2>1, <2>2, AccountsDistinct
      DEF Insert1, LocksAreHeld, HoldsFirst, TypeOK
  <2>4. LocksExclude'
      BY <1>3, <2>1, <2>2 DEF Insert1, CannotInsert, LocksExclude, TypeOK
  <2>5. ReadIsCurrent'
      BY <1>3, <2>1, <2>2 DEF Insert1, ReadIsCurrent
  <2> QED
      BY <2>2, <2>3, <2>4, <2>5 DEF NoRowNoMoney
<1>4. ASSUME NEW r \in Reqs, Lock2(r) PROVE Rest
  <2> DEFINE a == req[r].second
  <2>1. a \in Accounts
      BY <1>4 DEF Lock2, NamesAccounts
  <2>2. /\ lock' = [lock EXCEPT ![a] = @ \union {r}]
        /\ UNCHANGED <<rows, bal, req, inserted, read>>
        /\ pc'[r] \in {"insert2", "commit"}
        /\ \A s \in Reqs \ {r} : pc'[s] = pc[s]
      BY <1>4 DEF Lock2, bank, TypeOK
  <2>3. LocksAreHeld'
      BY <1>4, <2>1, <2>2 DEF Lock2, LocksAreHeld, HoldsFirst, TypeOK
  <2>4. LocksExclude'
      BY <1>4, <2>1, <2>2 DEF Lock2, Excluded, LocksExclude, LocksAreHeld, TypeOK
  <2>5. ReadIsCurrent'
      BY <1>4, <2>1, <2>2 DEF Lock2, ReadIsCurrent
  <2> QED
      BY <2>2, <2>3, <2>4, <2>5 DEF NoRowNoMoney
<1>5. ASSUME NEW r \in Reqs, Insert2(r) PROVE Rest
  <2> DEFINE a == req[r].second
  <2>1. a \in Accounts /\ r \in lock[a]
      BY <1>5 DEF Insert2, NamesAccounts, LocksAreHeld
  <2>2. /\ inserted' = [inserted EXCEPT ![r] = @ \union {a}]
        /\ UNCHANGED <<rows, bal, req, lock, read>>
        /\ pc'[r] = "commit"
        /\ \A s \in Reqs \ {r} : pc'[s] = pc[s]
      BY <1>5 DEF Insert2, bank, TypeOK
  <2>3. LocksAreHeld'
      BY <1>5, <2>1, <2>2 DEF Insert2, LocksAreHeld, HoldsFirst, TypeOK
  <2>4. LocksExclude'
      BY <1>5, <2>1, <2>2 DEF Insert2, CannotInsert, LocksExclude, TypeOK
  <2>5. ReadIsCurrent'
      BY <1>5, <2>1, <2>2 DEF Insert2, ReadIsCurrent
  <2> QED
      BY <2>2, <2>3, <2>4, <2>5 DEF NoRowNoMoney
<1>6. ASSUME NEW r \in Reqs, Finish(r), UNCHANGED <<rows, bal>> PROVE Rest
  <2>1. LocksExclude'
      BY <1>6, FinishKeepsLocks DEF LocksExclude, TypeOK
  <2>2. ReadIsCurrent'
      BY <1>6, FinishKeepsLocks DEF ReadIsCurrent
  <2> QED
      BY <1>6, <2>1, <2>2, FinishKeepsLocks DEF NoRowNoMoney
<1>7. ASSUME NEW r \in Reqs, Commit(r) PROVE Rest
  <2>1. /\ bal' = ApplyTo(r) /\ rows' = CommittedRows(r) /\ pc[r] = "commit"
      BY <1>7 DEF Commit
  <2>2. NoRowNoMoney'
      BY <2>1 DEF NoRowNoMoney, ApplyTo, CommittedRows, TypeOK
  <2>3. /\ lock' = Released(r) /\ pc'[r] \in {"idle", "post"}
        /\ inserted' = [inserted EXCEPT ![r] = {}]
        /\ \A s \in Reqs \ {r} :
                pc'[s] = pc[s] /\ req'[s] = req[s] /\ read'[s] = read[s]
      BY <1>7 DEF Commit, Finish, TypeOK
  <2>4. \A s \in Reqs, x \in Accounts : s # r /\ s \in lock[x]
            => bal'[x] = bal[x] /\ rows'[x] = rows[x]
      BY <2>1, OthersCannotMove, CommitHoldsLocks
  <2>5. LocksAreHeld'
    <3> SUFFICES ASSUME NEW s \in Reqs
                 PROVE  /\ pc'[s] \in HoldsFirst => s \in lock'[req'[s].first]
                        /\ pc'[s] = "insert2" => s \in lock'[req'[s].second]
                        /\ pc'[s] = "commit" /\ req'[s].second \in Accounts
                              => s \in lock'[req'[s].second]
                        /\ \A x \in inserted'[s] : s \in lock'[x]
        BY DEF LocksAreHeld
    <3>1. CASE s = r
        BY <2>3, <3>1 DEF HoldsFirst, TypeOK
    <3>2. CASE s # r
        BY <2>3, <3>2 DEF LocksAreHeld, HoldsFirst, NamesAccounts, TypeOK, Released
    <3> QED
        BY <3>1, <3>2
  <2>6. LocksExclude'
      BY <2>3, <2>4 DEF LocksExclude, Released, TypeOK
  <2>7. ReadIsCurrent'
    <3> SUFFICES ASSUME NEW s \in Reqs,
                        pc'[s] \in {"insert1", "lock2", "insert2", "commit"}
                 PROVE  read'[s] = bal'[req'[s].first]
        BY DEF ReadIsCurrent
    <3>1. s # r /\ pc[s] = pc'[s] /\ req'[s] = req[s] /\ read'[s] = read[s]
        BY <2>3
    <3>2. req[s].first \in Accounts /\ s \in lock[req[s].first]
        BY <3>1 DEF NamesAccounts, LocksAreHeld, HoldsFirst
    <3> QED
        BY <2>4, <3>1, <3>2 DEF ReadIsCurrent
  <2> QED
      BY <2>2, <2>5, <2>6, <2>7
<1>8. ASSUME NEW r \in Reqs, PatchInsert(r) PROVE Rest
  <2> DEFINE a == req[r].first
  <2>1. a \in Accounts /\ lock[a] \ {r} = {}
      BY <1>8 DEF PatchInsert, NamesAccounts, CannotInsert
  <2>2. /\ inserted' = [inserted EXCEPT ![r] = @ \union {a}]
        /\ lock' = [lock EXCEPT ![a] = @ \union {r}]
        /\ UNCHANGED <<rows, bal, req, read>>
        /\ pc'[r] = "patch_write"
        /\ \A s \in Reqs \ {r} : pc'[s] = pc[s]
      BY <1>8 DEF PatchInsert, bank, TypeOK
  <2>3. LocksAreHeld'
      BY <2>1, <2>2 DEF LocksAreHeld, HoldsFirst, TypeOK
  <2>4. LocksExclude'
      BY <2>1, <2>2 DEF LocksExclude, TypeOK
  <2>5. ReadIsCurrent'
      BY <2>1, <2>2 DEF ReadIsCurrent
  <2> QED
      BY <2>2, <2>3, <2>4, <2>5 DEF NoRowNoMoney
<1>9. ASSUME NEW r \in Reqs, PatchWrite(r) PROVE Rest
  <2> DEFINE a == req[r].first
  <2>1. /\ a \in Accounts /\ ~Excluded(r, a) /\ Finish(r)
        /\ rows' = CommittedRows(r)
        /\ \A x \in Accounts : x # a => bal'[x] = bal[x]
        /\ CommittedRows(r)[a] = 0 => bal'[a] = bal[a]
      BY <1>9 DEF PatchWrite, NamesAccounts, TypeOK, CommittedRows
  <2>2. NoRowNoMoney'
      BY <2>1 DEF NoRowNoMoney, CommittedRows, TypeOK
  <2>3. \A s \in Reqs, x \in Accounts : s # r /\ s \in lock[x]
            => bal'[x] = bal[x] /\ rows'[x] = rows[x]
    <3> SUFFICES ASSUME NEW s \in Reqs, NEW x \in Accounts, s # r, s \in lock[x]
                 PROVE  bal'[x] = bal[x] /\ rows'[x] = rows[x]
        OBVIOUS
    <3>1. x \notin inserted[r]
        BY DEF LocksAreHeld, LocksExclude
    <3>2. rows'[x] = rows[x] /\ CommittedRows(r)[x] = rows[x]
        BY <2>1, <3>1 DEF CommittedRows
    <3>3. x = a => rows[x] = 0
        BY <2>1 DEF Excluded, TypeOK
    <3> QED
        BY <2>1, <3>2, <3>3
  <2>4. LocksExclude'
      BY <2>1, <2>3, FinishKeepsLocks DEF LocksExclude, TypeOK
  <2>5. ReadIsCurrent'
    <3> SUFFICES ASSUME NEW s \in Reqs,
                        pc'[s] \in {"insert1", "lock2", "insert2", "commit"}
                 PROVE  read'[s] = bal'[req'[s].first]
        BY DEF ReadIsCurrent
    <3>1. /\ s # r /\ pc[s] = pc'[s] /\ req'[s] = req[s]
          /\ read'[s] = read[s]
        BY <2>1, FinishKeepsLocks
    <3>2. req[s].first \in Accounts /\ s \in lock[req[s].first]
        BY <3>1 DEF NamesAccounts, LocksAreHeld, HoldsFirst
    <3> QED
        BY <2>3, <3>1, <3>2 DEF ReadIsCurrent
  <2> QED
      BY <2>1, <2>2, <2>4, <2>5, FinishKeepsLocks
<1>10. ASSUME NEW u \in Users, Leave(u) PROVE Rest
  <2>1. /\ u \in Accounts /\ \A s \in lock[u] : rows[u] = 0
        /\ rows' = [rows EXCEPT ![u] = 0] /\ bal' = [bal EXCEPT ![u] = 0]
        /\ UNCHANGED <<lock, pc, req, read, inserted>>
      BY <1>10 DEF Leave, Accounts
  <2>2. \A s \in Reqs, x \in Accounts : s \in lock[x]
            => bal'[x] = bal[x] /\ rows'[x] = rows[x]
      BY <2>1 DEF NoRowNoMoney, TypeOK
  <2>3. ReadIsCurrent'
    <3> SUFFICES ASSUME NEW s \in Reqs,
                        pc[s] \in {"insert1", "lock2", "insert2", "commit"}
                 PROVE  read[s] = bal'[req[s].first]
        BY <2>1 DEF ReadIsCurrent
    <3>1. req[s].first \in Accounts /\ s \in lock[req[s].first]
        BY DEF NamesAccounts, LocksAreHeld, HoldsFirst
    <3> QED
        BY <2>2, <3>1 DEF ReadIsCurrent
  <2>4. NoRowNoMoney'
      BY <2>1 DEF NoRowNoMoney, TypeOK
  <2>5. LocksAreHeld' /\ LocksExclude'
      BY <2>1, <2>2 DEF LocksAreHeld, LocksExclude, TypeOK
  <2> QED
      BY <2>3, <2>4, <2>5
<1>11. ASSUME NEW r \in Reqs, Reject(r) \/ Post(r) \/ DeadlockVictim(r) \/ Die(r)
       PROVE  Rest
    BY <1>6, <1>11 DEF Reject, Post, DeadlockVictim, Die, bank
<1>12. ASSUME UNCHANGED vars PROVE Rest
    BY <1>12 DEF vars, bank, NoRowNoMoney, LocksAreHeld, LocksExclude, ReadIsCurrent
<1>13. Rest
    BY <1>1, <1>2, <1>3, <1>4, <1>5, <1>7, <1>8, <1>9, <1>10, <1>11, <1>12
    DEF Next, Step
<1> QED
    BY <1>0, <1>13 DEF TypeInv

\* So the row locks protect every read at every time.
LEMMA LockInvAlways == Spec => []LockInv
  BY LockInvInit, LockInvNext, PTL DEF Spec

\* What a request read under its row lock is still the balance when it
\* commits, for any number of requests.
THEOREM ReadsStayCurrent == Spec => []ReadIsCurrent
<1>1. LockInv => ReadIsCurrent
    BY DEF LockInv
<1> QED
    BY <1>1, LockInvAlways, PTL

\* No two requests spend the same coins: a purchase, repair or transfer that
\* commits leaves its payer at zero or more.
THEOREM SpendingCovered == Spec => SpendingIsCovered
<1> DEFINE Covered ==
        \A r \in Reqs :
            (pc[r] = "commit" /\ pc'[r] # "commit" /\ req[r].checked /\ bal' # bal)
                => bal'[req[r].first] >= 0
<1>1. ASSUME LockInv, [Next]_vars PROVE Covered
  <2> SUFFICES ASSUME NEW r \in Reqs, pc[r] = "commit", pc'[r] # "commit",
                      req[r].checked, bal' # bal
               PROVE  bal'[req[r].first] >= 0
      OBVIOUS
  <2>1. ASSUME NEW s \in Reqs, s # r, pc' = [pc EXCEPT ![s] = pc'[s]] PROVE FALSE
      BY <2>1, <1>1 DEF LockInv, TypeOK
  <2>2. \A s \in Reqs : Arrive(s) => s # r /\ pc' = [pc EXCEPT ![s] = pc'[s]]
    <3> SUFFICES ASSUME NEW s \in Reqs, Arrive(s)
                 PROVE  s # r /\ pc' = [pc EXCEPT ![s] = pc'[s]]
        OBVIOUS
    <3>1. PICK q \in Requests : Begin(s, q)
        BY <1>1, ArrivalsAreRequests DEF LockInv, TypeOK
    <3> QED
        BY <1>1, <3>1 DEF Begin, LockInv, TypeOK
  <2>3. ASSUME NEW s \in Reqs, Step(s) PROVE pc' = [pc EXCEPT ![s] = pc'[s]]
      BY <1>1, <2>3
      DEF Step, Lock1, Insert1, Lock2, Insert2, Reject, Commit, Post, PatchInsert,
          PatchWrite, Finish, LockInv, TypeOK
  <2>4. ASSUME NEW s \in Reqs, Commit(s), s = r PROVE bal'[req[r].first] >= 0
    <3> DEFINE a == req[r].first
    <3>1. a \in Accounts /\ bal[a] \in Int /\ req[r].d1 \in Int
          /\ read[r] = bal[a]
        BY <1>1 DEF LockInv, TypeOK, Requests, NamesAccounts, ReadIsCurrent
    <3>2. bal[a] + req[r].d1 >= 0
        BY <2>4, <3>1 DEF Commit, Insufficient
    <3>3. bal'[a] = IF CommittedRows(r)[a] > 0 THEN bal[a] + req[r].d1 ELSE bal[a]
        BY <2>4, <3>1 DEF Commit, ApplyTo, Delta
    <3>4. CASE CommittedRows(r)[a] > 0
        BY <3>2, <3>3, <3>4
    <3>5. CASE ~(CommittedRows(r)[a] > 0)
      <4>1. rows[a] = 0
          BY <1>1, <3>1, <3>5 DEF CommittedRows, LockInv, TypeOK
      <4> QED
          BY <1>1, <3>1, <3>3, <3>5, <4>1 DEF LockInv, NoRowNoMoney
    <3> QED
        BY <3>4, <3>5
  <2>5. ASSUME NEW s \in Reqs, Step(s) PROVE s = r /\ Commit(s)
      BY <2>1, <2>3, <2>5
      DEF Step, Lock1, Insert1, Lock2, Insert2, Reject, Post, PatchInsert,
          PatchWrite, bank
  <2>6. ASSUME NEW s \in Reqs, DeadlockVictim(s) \/ Die(s) PROVE FALSE
      BY <2>6 DEF DeadlockVictim, Die, bank
  <2>7. ASSUME NEW u \in Users, Leave(u) PROVE FALSE
      BY <2>7 DEF Leave
  <2>8. CASE UNCHANGED vars
      BY <2>8 DEF vars
  <2>9. CASE \E s \in Reqs : Arrive(s)
      BY <2>1, <2>2, <2>9
  <2>10. CASE \E s \in Reqs : Step(s)
      BY <2>4, <2>5, <2>10
  <2> QED
      BY <1>1, <2>6, <2>7, <2>8, <2>9, <2>10 DEF Next
<1>2. LockInv /\ [Next]_vars => [Covered]_vars
    BY <1>1
<1> QED
    BY <1>2, LockInvAlways, PTL DEF Spec, SpendingIsCovered

-----------------------------------------------------------------------------
(* The ledger.                                                             *)

\* The ledger is empty at first, and so are the balances.
LEMMA LedgerInvInit == Init => LedgerInv
<1>1. Init => RowsAreThere /\ LedgerExplains
    BY DEF Init, RowsAreThere, LedgerExplains, Live, Accounts
<1> QED
    BY <1>1, LockInvInit DEF LedgerInv

\* Every step moves the ledger and the balances together.
LEMMA LedgerInvNext == LedgerInv /\ [Next]_vars => LedgerInv'
<1> SUFFICES ASSUME LedgerInv, [Next]_vars
             PROVE  LedgerInv'
    OBVIOUS
<1>0. LockInv /\ LockInv'
    BY LockInvNext DEF LedgerInv
<1>t. TypeOK /\ NamesAccounts
    BY <1>0 DEF LockInv
<1>l. Live \subseteq Accounts
    BY <1>t DEF Live, Accounts, TypeOK
<1> DEFINE Rest == RowsAreThere' /\ LedgerExplains'
<1>1. ASSUME NEW r \in Reqs, Arrive(r) PROVE Rest
  <2>1. PICK q \in Requests : q.first \in Accounts /\ Begin(r, q)
      BY <1>1, <1>t, ArrivalsAreRequests DEF TypeOK
  <2>2. /\ pc'[r] \in {"lock1", "patch_insert", "patch_write"}
        /\ \A s \in Reqs \ {r} :
                pc'[s] = pc[s] /\ req'[s] = req[s] /\ snap'[s] = snap[s]
        /\ snap'[r] = {a \in Accounts : rows[a] > 0}
        /\ UNCHANGED <<rows, bal, members, inserted, posted, unposted, offbook>>
      BY <2>1, <1>t DEF Begin, TypeOK, bank, VisibleRows
  <2>3. RowsAreThere'
    <3> SUFFICES ASSUME NEW s \in Reqs
                 PROVE  /\ \A a \in snap'[s] \intersect Live : rows[a] > 0
                        /\ pc'[s] \in {"lock2", "insert2", "commit"}
                                /\ req'[s].first \in Live
                              => rows[req'[s].first] > 0
                                    \/ req'[s].first \in inserted[s]
                        /\ pc'[s] = "commit" /\ req'[s].second \in Live
                              => rows[req'[s].second] > 0
                                    \/ req'[s].second \in inserted[s]
        BY <2>2 DEF RowsAreThere, Live
    <3>1. CASE s = r
        BY <2>2, <3>1
    <3>2. CASE s # r
        BY <2>2, <3>2 DEF LedgerInv, RowsAreThere
    <3> QED
        BY <3>1, <3>2
  <2> QED
      BY <2>2, <2>3 DEF LedgerInv, LedgerExplains, Live
<1>2. ASSUME NEW r \in Reqs, Lock1(r) PROVE Rest
  <2> DEFINE a == req[r].first
  <2>1. a \in Accounts
      BY <1>2, <1>t DEF Lock1, NamesAccounts
  <2>2. /\ UNCHANGED <<rows, bal, members, posted, unposted, offbook, req, snap,
                       inserted>>
        /\ \A s \in Reqs \ {r} : pc'[s] = pc[s]
        /\ pc'[r] # "insert1" => bal[a] # 0 \/ a \in snap[r]
        /\ pc'[r] \in {"insert1", "lock2", "commit"}
        /\ pc'[r] = "commit" => req[r].second = None
      BY <1>2, <1>t DEF Lock1, MissingRow, BalanceRead, AfterFirst, TypeOK, bank
  <2>3. pc'[r] # "insert1" /\ a \in Live => rows[a] > 0
      BY <1>0, <1>t, <2>1, <2>2
      DEF LockInv, NoRowNoMoney, LedgerInv, RowsAreThere, TypeOK
  <2>4. RowsAreThere'
      BY <2>2, <2>3, <1>l, AccountsDistinct DEF LedgerInv, RowsAreThere, Live
  <2> QED
      BY <2>2, <2>4 DEF LedgerInv, LedgerExplains, Live
<1>3. ASSUME NEW r \in Reqs, Insert1(r) PROVE Rest
  <2>1. /\ UNCHANGED <<rows, bal, members, posted, unposted, offbook, req, snap>>
        /\ \A s \in Reqs \ {r} : pc'[s] = pc[s] /\ inserted'[s] = inserted[s]
        /\ req[r].first \in inserted'[r]
        /\ pc'[r] \in {"lock2", "commit"}
        /\ pc'[r] = "commit" => req[r].second = None
      BY <1>3, <1>t DEF Insert1, AfterFirst, TypeOK, bank
  <2>2. RowsAreThere'
      BY <2>1, <1>l, AccountsDistinct DEF LedgerInv, RowsAreThere, Live
  <2> QED
      BY <2>1, <2>2 DEF LedgerInv, LedgerExplains, Live
<1>4. ASSUME NEW r \in Reqs, Lock2(r) PROVE Rest
  <2> DEFINE a == req[r].second
  <2>1. a \in Accounts
      BY <1>4, <1>t DEF Lock2, NamesAccounts
  <2>2. /\ UNCHANGED <<rows, bal, members, posted, unposted, offbook, req, snap,
                       inserted>>
        /\ \A s \in Reqs \ {r} : pc'[s] = pc[s]
        /\ pc'[r] # "insert2" => bal[a] # 0 \/ a \in snap[r]
        /\ pc'[r] \in {"insert2", "commit"} /\ pc[r] = "lock2"
      BY <1>4, <1>t DEF Lock2, MissingRow, BalanceRead, TypeOK, bank
  <2>3. pc'[r] # "insert2" /\ a \in Live => rows[a] > 0
      BY <1>0, <1>t, <2>1, <2>2
      DEF LockInv, NoRowNoMoney, LedgerInv, RowsAreThere, TypeOK
  <2>4. RowsAreThere'
      BY <2>2, <2>3 DEF LedgerInv, RowsAreThere, Live
  <2> QED
      BY <2>2, <2>4 DEF LedgerInv, LedgerExplains, Live
<1>5. ASSUME NEW r \in Reqs, Insert2(r) PROVE Rest
  <2>1. /\ UNCHANGED <<rows, bal, members, posted, unposted, offbook, req, snap>>
        /\ \A s \in Reqs \ {r} : pc'[s] = pc[s] /\ inserted'[s] = inserted[s]
        /\ inserted'[r] = inserted[r] \union {req[r].second}
        /\ pc'[r] = "commit" /\ pc[r] = "insert2"
      BY <1>5, <1>t DEF Insert2, TypeOK, bank
  <2>2. RowsAreThere'
      BY <2>1 DEF LedgerInv, RowsAreThere, Live
  <2> QED
      BY <2>1, <2>2 DEF LedgerInv, LedgerExplains, Live
<1>6. ASSUME NEW r \in Reqs, Finish(r), UNCHANGED members,
             \A a \in Accounts : rows'[a] >= rows[a]
      PROVE  RowsAreThere'
  <2>1. \A s \in Reqs : pc'[s] # "idle" =>
            /\ pc'[s] = pc[s] /\ req'[s] = req[s]
            /\ inserted'[s] = inserted[s] /\ snap'[s] = snap[s]
      BY <1>0, <1>6, FinishKeepsLocks
  <2>2. \A s \in Reqs : snap'[s] \subseteq snap[s]
      BY <1>6, <1>t DEF Finish, TypeOK
  <2>3. \A a \in Accounts : rows[a] > 0 => rows'[a] > 0
      BY <1>0, <1>6 DEF LockInv, TypeOK
  <2> QED
      BY <1>6, <1>l, <2>1, <2>2, <2>3 DEF LedgerInv, RowsAreThere, Live
<1>7. ASSUME NEW r \in Reqs, Finish(r), UNCHANGED bank PROVE Rest
  <2>1. \A a \in Accounts : rows'[a] >= rows[a]
      BY <1>7, <1>t DEF bank, TypeOK
  <2> QED
      BY <1>6, <1>7, <2>1 DEF bank, LedgerInv, LedgerExplains, Live
<1>8. ASSUME NEW r \in Reqs, Commit(r) PROVE Rest
  <2>1. /\ bal' = ApplyTo(r) /\ rows' = CommittedRows(r) /\ UNCHANGED members
        /\ UNCHANGED offbook /\ pc[r] = "commit"
      BY <1>8 DEF Commit
  <2>2. \A a \in Accounts : rows'[a] >= rows[a]
      BY <2>1, <1>t DEF CommittedRows, TypeOK
  <2>3. \A a \in Live : Delta(req[r], a) # 0 => CommittedRows(r)[a] > 0
      BY <2>1, <1>l, <1>t
      DEF Delta, LedgerInv, RowsAreThere, CommittedRows, TypeOK
  <2>4. \A a \in Live : bal'[a] = bal[a] + Delta(req[r], a)
    <3> TAKE a \in Live
    <3>1. a \in Accounts /\ bal[a] \in Int
        BY <1>l, <1>t DEF TypeOK
    <3> QED
        BY <2>1, <2>3, <3>1 DEF ApplyTo
  <2>5. \A a \in Accounts :
            /\ bal[a] \in Int /\ posted[a] \in Int /\ unposted[a] \in Int
            /\ offbook[a] \in Int /\ Delta(req[r], a) \in Int
      BY <1>t, ApplyTypes DEF TypeOK, TypeInv
  <2>6. \A a \in Accounts :
            posted'[a] + unposted'[a] = posted[a] + unposted[a] + Delta(req[r], a)
    <3> TAKE a \in Accounts
    <3>1. CASE req[r].late
      <4>1. unposted'[a] = unposted[a] + Delta(req[r], a) /\ posted'[a] = posted[a]
          BY <1>8, <3>1 DEF Commit
      <4> QED
          BY <2>5, <4>1
    <3>2. CASE ~req[r].late
      <4>1. posted'[a] = posted[a] + Delta(req[r], a) /\ unposted'[a] = unposted[a]
          BY <1>8, <3>2 DEF Commit
      <4> QED
          BY <2>5, <4>1
    <3> QED
        BY <3>1, <3>2
  <2>7. posted' \in [Accounts -> Int] /\ unposted' \in [Accounts -> Int]
      BY <1>0 DEF LockInv, TypeOK
  <2>8. LedgerExplains'
    <3> SUFFICES ASSUME NEW a \in Live
                 PROVE  bal'[a] = posted'[a] + unposted'[a] + offbook[a]
        BY <2>1 DEF LedgerExplains, Live
    <3>1. a \in Accounts /\ bal[a] = posted[a] + unposted[a] + offbook[a]
        BY <1>l DEF LedgerInv, LedgerExplains
    <3> QED
        BY <2>4, <2>5, <2>6, <2>7, <3>1
  <2>9. RowsAreThere'
    <3>1. CASE ~req[r].late
        BY <1>6, <1>8, <2>1, <2>2, <3>1 DEF Commit
    <3>2. CASE req[r].late
      <4>1. /\ pc'[r] = "post" /\ UNCHANGED <<req, snap>>
            /\ \A s \in Reqs \ {r} : pc'[s] = pc[s] /\ inserted'[s] = inserted[s]
          BY <1>8, <3>2, <1>t DEF Commit, TypeOK
      <4>2. \A a \in Accounts : rows[a] > 0 => rows'[a] > 0
          BY <1>0, <2>2 DEF LockInv, TypeOK
      <4> QED
          BY <2>1, <4>1, <4>2, <1>l DEF LedgerInv, RowsAreThere, Live
    <3> QED
        BY <3>1, <3>2
  <2> QED
      BY <2>8, <2>9
<1>9. ASSUME NEW r \in Reqs, Post(r) PROVE Rest
  <2>1. RowsAreThere'
      BY <1>6, <1>9, <1>t DEF Post, TypeOK
  <2>2. \A a \in Accounts :
            /\ bal[a] \in Int /\ posted[a] \in Int /\ unposted[a] \in Int
            /\ offbook[a] \in Int /\ Delta(req[r], a) \in Int
      BY <1>t, ApplyTypes DEF TypeOK, TypeInv
  <2>3. \A a \in Live : posted'[a] + unposted'[a] = posted[a] + unposted[a]
      BY <1>9, <1>l, <2>2 DEF Post
  <2>4. LedgerExplains'
    <3> SUFFICES ASSUME NEW a \in Live
                 PROVE  bal[a] = posted'[a] + unposted'[a] + offbook[a]
        BY <1>9 DEF LedgerExplains, Live, Post
    <3> QED
        BY <2>3 DEF LedgerInv, LedgerExplains
  <2> QED
      BY <2>1, <2>4
<1>10. ASSUME NEW r \in Reqs, PatchInsert(r) PROVE Rest
  <2>1. /\ UNCHANGED <<rows, bal, members, posted, unposted, offbook, req, snap>>
        /\ \A s \in Reqs \ {r} : pc'[s] = pc[s] /\ inserted'[s] = inserted[s]
        /\ pc'[r] = "patch_write"
      BY <1>10, <1>t DEF PatchInsert, TypeOK, bank
  <2>2. RowsAreThere'
      BY <2>1 DEF LedgerInv, RowsAreThere, Live
  <2> QED
      BY <2>1, <2>2 DEF LedgerInv, LedgerExplains, Live
<1>11. ASSUME NEW r \in Reqs, PatchWrite(r) PROVE Rest
  <2> DEFINE a == req[r].first
             v == IF CommittedRows(r)[a] > 0 THEN req[r].d1 ELSE bal[a]
  <2>1. a \in Accounts /\ v \in Int
      BY <1>11, <1>t DEF TypeOK, NamesAccounts, PatchWrite, Requests
  <2>2. /\ bal' = [bal EXCEPT ![a] = v]
        /\ offbook' = [offbook EXCEPT ![a] = @ + (v - bal[a])]
        /\ UNCHANGED <<members, posted, unposted>>
        /\ rows' = CommittedRows(r) /\ Finish(r)
      BY <1>11 DEF PatchWrite
  <2> HIDE DEF v
  <2>3. \A x \in Accounts :
            /\ bal[x] \in Int /\ posted[x] \in Int /\ unposted[x] \in Int
            /\ offbook[x] \in Int
      BY <1>t DEF TypeOK
  <2>4. LedgerExplains'
    <3> SUFFICES ASSUME NEW x \in Live
                 PROVE  bal'[x] = posted[x] + unposted[x] + offbook'[x]
        BY <2>2 DEF LedgerExplains, Live
    <3>1. x \in Accounts /\ bal[x] = posted[x] + unposted[x] + offbook[x]
        BY <1>l DEF LedgerInv, LedgerExplains
    <3>2. CASE x = a
        BY <1>t, <2>1, <2>2, <2>3, <3>1, <3>2 DEF TypeOK
    <3>3. CASE x # a
        BY <1>t, <2>1, <2>2, <3>1, <3>3 DEF TypeOK
    <3> QED
        BY <3>2, <3>3
  <2>5. RowsAreThere'
      BY <1>6, <2>2, <1>t DEF CommittedRows, TypeOK
  <2> QED
      BY <2>4, <2>5
<1>12. ASSUME NEW u \in Users, Leave(u) PROVE Rest
  <2>1. /\ members' = members \ {u} /\ u \in Accounts
        /\ rows' = [rows EXCEPT ![u] = 0] /\ bal' = [bal EXCEPT ![u] = 0]
        /\ offbook' = [offbook EXCEPT ![u] = @ - bal[u]]
        /\ UNCHANGED <<pc, req, snap, inserted, posted, unposted>>
      BY <1>12 DEF Leave, Accounts
  <2>2. /\ Live' \subseteq Live /\ u \notin Live'
        /\ \A a \in Live' : rows'[a] = rows[a] /\ bal'[a] = bal[a]
                             /\ offbook'[a] = offbook[a]
      BY <2>1, <1>t, <1>l, AccountsDistinct DEF Live, TypeOK
  <2> QED
      BY <2>1, <2>2 DEF LedgerInv, RowsAreThere, LedgerExplains
<1>13. ASSUME NEW r \in Reqs, Reject(r) \/ DeadlockVictim(r) \/ Die(r) PROVE Rest
    BY <1>7, <1>13 DEF Reject, DeadlockVictim, Die
<1>14. ASSUME UNCHANGED vars PROVE Rest
    BY <1>14 DEF vars, bank, LedgerInv, RowsAreThere, LedgerExplains, Live
<1>15. Rest
    BY <1>1, <1>2, <1>3, <1>4, <1>5, <1>8, <1>9, <1>10, <1>11, <1>12, <1>13, <1>14
    DEF Next, Step
<1> QED
    BY <1>0, <1>15 DEF LedgerInv

\* Every live balance is the sum of the account's ledger rows, of the rows a
\* purchase or a delivery has still to write, and of what PATCH set.
THEOREM LedgerExplainsBalances == Spec => []LedgerExplains
<1>1. LedgerInv => LedgerExplains
    BY DEF LedgerInv
<1> QED
    BY <1>1, LedgerInvInit, LedgerInvNext, PTL DEF Spec

-----------------------------------------------------------------------------
(***************************************************************************)
(* A sum over a set, told by an order of its elements and the partial      *)
(* sums along it: what is needed of sums follows without induction.        *)
(***************************************************************************)

\* e lists S, each element once; c holds the partial sums of f along e.
SumsAlong(S, f, total, n, e, c) ==
    /\ e \in [1..n -> S] /\ c \in [0..n -> Int]
    /\ \A i, k \in 1..n : e[i] = e[k] => i = k
    /\ \A x \in S : \E i \in 1..n : e[i] = x
    /\ c[0] = 0 /\ c[n] = total
    /\ \A i \in 1..n : c[i] = c[i - 1] + f[e[i]]

IsSum(S, f, total) ==
    \E n \in Nat : \E e \in [1..n -> S] : \E c \in [0..n -> Int] :
        SumsAlong(S, f, total, n, e, c)

\* Nothing adds up to 0, and to nothing else.
LEMMA SumOfNone ==
    ASSUME NEW f, NEW total
    PROVE  IsSum({}, f, total) <=> total = 0
<1>1. ASSUME IsSum({}, f, total) PROVE total = 0
  <2>1. PICK n \in Nat : \E e \in [1..n -> {}] : \E c \in [0..n -> Int] :
            SumsAlong({}, f, total, n, e, c)
      BY <1>1 DEF IsSum
  <2>2. n = 0
    <3>1. \A e \in [1..n -> {}] : \A i \in 1..n : e[i] \in {}
        OBVIOUS
    <3> QED
        BY <2>1, <3>1
  <2> QED
      BY <2>1, <2>2 DEF SumsAlong
<1>2. ASSUME total = 0 PROVE IsSum({}, f, total)
  <2> DEFINE e == [i \in 1..0 |-> i]
             c == [i \in 0..0 |-> 0]
  <2>1. e \in [1..0 -> {}] /\ c \in [0..0 -> Int]
      OBVIOUS
  <2>2. SumsAlong({}, f, total, 0, e, c)
      BY <1>2 DEF SumsAlong
  <2> HIDE DEF e, c
  <2> QED
      BY <2>1, <2>2 DEF IsSum
<1> QED
    BY <1>1, <1>2

\* A sum depends only on what is added.
LEMMA SumOfEquals ==
    ASSUME NEW S, NEW f, NEW g, NEW total, IsSum(S, f, total),
           \A x \in S : g[x] = f[x]
    PROVE  IsSum(S, g, total)
<1>1. \A n \in Nat : \A e, c : SumsAlong(S, f, total, n, e, c) => SumsAlong(S, g, total, n, e, c)
    BY DEF SumsAlong
<1> QED
    BY <1>1 DEF IsSum

\* One more is added ...
LEMMA SumWithOneMore ==
    ASSUME NEW S, NEW f, NEW g, NEW total, NEW y, IsSum(S, f, total), y \notin S,
           g[y] \in Int, \A x \in S : g[x] = f[x]
    PROVE  IsSum(S \union {y}, g, total + g[y])
<1>1. PICK n \in Nat : \E e \in [1..n -> S] : \E c \in [0..n -> Int] :
        SumsAlong(S, f, total, n, e, c)
    BY DEF IsSum
<1>2. PICK e \in [1..n -> S] : \E c \in [0..n -> Int] : SumsAlong(S, f, total, n, e, c)
    BY <1>1
<1>3. PICK c \in [0..n -> Int] : SumsAlong(S, f, total, n, e, c)
    BY <1>2
<1> DEFINE m == n + 1
           d == [i \in 1..m |-> IF i = m THEN y ELSE e[i]]
           b == [i \in 0..m |-> IF i = m THEN total + g[y] ELSE c[i]]
<1>4. total \in Int
    BY <1>3 DEF SumsAlong
<1>5. m \in Nat /\ d \in [1..m -> S \union {y}] /\ b \in [0..m -> Int]
    BY <1>4
<1>6. \A i, k \in 1..m : d[i] = d[k] => i = k
    BY <1>3 DEF SumsAlong
<1>7. \A x \in S \union {y} : \E i \in 1..m : d[i] = x
  <2>1. \A i \in 1..n : i \in 1..m /\ d[i] = e[i]
      OBVIOUS
  <2>2. m \in 1..m /\ d[m] = y
      OBVIOUS
  <2> QED
      BY <1>3, <2>1, <2>2 DEF SumsAlong
<1>8. b[0] = 0 /\ b[m] = total + g[y]
    BY <1>3 DEF SumsAlong
<1>9. \A i \in 1..m : b[i] = b[i - 1] + g[d[i]]
  <2> TAKE i \in 1..m
  <2>1. CASE i = m
      BY <1>3, <2>1 DEF SumsAlong
  <2>2. CASE i # m
    <3>1. i \in 1..n /\ i - 1 \in 0..n /\ i # m /\ i - 1 # m
        BY <2>2
    <3>2. c[i] = c[i - 1] + f[e[i]] /\ e[i] \in S
        BY <1>3, <3>1 DEF SumsAlong
    <3> QED
        BY <3>1, <3>2
  <2> QED
      BY <2>1, <2>2
<1>10. SumsAlong(S \union {y}, g, total + g[y], m, d, b)
    BY <1>5, <1>6, <1>7, <1>8, <1>9 DEF SumsAlong
<1> HIDE DEF m, d, b
<1> QED
    BY <1>5, <1>10 DEF IsSum

\* What was added last is taken from what there was before.
LEMMA MoveLast ==
    ASSUME NEW u \in Int, NEW v \in Int, NEW w \in Int, NEW x \in Int, u = v + w
    PROVE  u - x = (v - x) + w
  OBVIOUS

\* ... or one is taken away.
LEMMA SumWithOneLess ==
    ASSUME NEW S, NEW f, NEW total, NEW y \in S, IsSum(S, f, total),
           \A x \in S : f[x] \in Int
    PROVE  IsSum(S \ {y}, f, total - f[y])
<1>1. PICK n \in Nat : \E e \in [1..n -> S] : \E c \in [0..n -> Int] :
        SumsAlong(S, f, total, n, e, c)
    BY DEF IsSum
<1>2. PICK e \in [1..n -> S] : \E c \in [0..n -> Int] : SumsAlong(S, f, total, n, e, c)
    BY <1>1
<1>3. PICK c \in [0..n -> Int] : SumsAlong(S, f, total, n, e, c)
    BY <1>2
<1>4. PICK j \in 1..n : e[j] = y
    BY <1>3 DEF SumsAlong
<1> DEFINE m == n - 1
           d == [i \in 1..m |-> IF i < j THEN e[i] ELSE e[i + 1]]
           b == [i \in 0..m |-> IF i < j THEN c[i] ELSE c[i + 1] - f[y]]
<1>5. m \in Nat
    BY <1>4
<1>15. \A i \in 1..m : \E k \in 1..n :
        /\ d[i] = e[k] /\ k # j
        /\ i < j => k = i
        /\ ~(i < j) => k = i + 1
  <2> TAKE i \in 1..m
  <2>1. CASE i < j
      BY <1>4, <2>1
  <2>2. CASE ~(i < j)
    <3>1. i + 1 \in 1..n /\ i + 1 # j /\ d[i] = e[i + 1]
        BY <1>4, <2>2
    <3> QED
        BY <2>2, <3>1
  <2> QED
      BY <2>1, <2>2
<1> HIDE DEF d
<1>6. \A i \in 1..m : d[i] \in S /\ d[i] # y
  <2>1. \A i, k \in 1..n : e[i] = e[k] => i = k
      BY <1>3 DEF SumsAlong
  <2> SUFFICES ASSUME NEW i \in 1..m PROVE d[i] \in S /\ d[i] # y
      OBVIOUS
  <2>2. PICK k \in 1..n : d[i] = e[k] /\ k # j
      BY <1>15
  <2> QED
      BY <1>4, <2>1, <2>2
<1>7. d \in [1..m -> S \ {y}] /\ b \in [0..m -> Int]
    BY <1>4, <1>6 DEF d
<1>8. \A i, k \in 1..m : d[i] = d[k] => i = k
  <2>1. \A i, k \in 1..n : e[i] = e[k] => i = k
      BY <1>3 DEF SumsAlong
  <2> SUFFICES ASSUME NEW i \in 1..m, NEW k \in 1..m, d[i] = d[k] PROVE i = k
      OBVIOUS
  <2>2. PICK a \in 1..n : /\ d[i] = e[a] /\ a # j
                          /\ i < j => a = i
                          /\ ~(i < j) => a = i + 1
      BY <1>15
  <2>3. PICK z \in 1..n : /\ d[k] = e[z] /\ z # j
                          /\ k < j => z = k
                          /\ ~(k < j) => z = k + 1
      BY <1>15
  <2>4. a = z
      BY <2>1, <2>2, <2>3
  <2> QED
      BY <1>4, <2>2, <2>3, <2>4
<1> USE DEF d
<1>9. ASSUME NEW x \in S \ {y} PROVE \E i \in 1..m : d[i] = x
  <2>1. PICK i \in 1..n : e[i] = x
      BY <1>3 DEF SumsAlong
  <2>2. i # j
      BY <1>4, <2>1
  <2>3. CASE i < j
    <3>1. i \in 1..m /\ d[i] = x
        BY <1>4, <2>1, <2>3
    <3> QED
        BY <3>1
  <2>4. CASE i > j
    <3>1. i - 1 \in 1..m /\ d[i - 1] = x
        BY <1>4, <2>1, <2>4
    <3> QED
        BY <3>1
  <2> QED
      BY <1>4, <2>1, <2>2, <2>3, <2>4
<1>10. \A i \in 1..n : c[i] = c[i - 1] + f[e[i]] /\ c[i] \in Int /\ c[i - 1] \in Int
    BY <1>3 DEF SumsAlong
<1>11. c[j] = c[j - 1] + f[y]
    BY <1>4, <1>10
<1>12. b[0] = 0 /\ b[m] = total - f[y]
  <2>1. c[0] = 0 /\ c[n] = total
      BY <1>3 DEF SumsAlong
  <2>2. CASE j = n
      BY <1>4, <1>5, <1>10, <1>11, <2>1, <2>2
  <2>3. CASE j < n
      BY <1>4, <1>5, <2>1, <2>3
  <2> QED
      BY <2>2, <2>3
<1>13. \A i \in 1..m : b[i] = b[i - 1] + f[d[i]]
  <2> TAKE i \in 1..m
  <2>1. CASE i < j
    <3>1. i \in 1..n /\ i - 1 \in 0..m /\ i - 1 < j
        BY <1>4, <2>1
    <3>2. c[i] = c[i - 1] + f[e[i]]
        BY <1>10, <3>1
    <3> QED
        BY <2>1, <3>1, <3>2
  <2>2. CASE i = j
    <3>1. i + 1 \in 1..n /\ i - 1 \in 0..m /\ i - 1 < j /\ ~(i < j)
        BY <1>4, <2>2
    <3>2. c[i + 1] = c[i] + f[e[i + 1]] /\ f[e[i + 1]] = f[d[i]]
        BY <1>10, <3>1
    <3>3. b[i] = c[i + 1] - f[y] /\ b[i - 1] = c[i - 1]
        BY <3>1
    <3>5. f[d[i]] \in Int /\ f[y] \in Int
        BY <1>6
    <3> HIDE DEF d, b
    <3>4. c[i + 1] \in Int /\ c[i] \in Int /\ c[i - 1] \in Int /\ i \in 1..n
        BY <1>4, <2>2, <3>1
    <3> QED
      <4>1. c[i] - f[y] = c[i - 1]
          BY <1>11, <2>2, <3>4, <3>5
      <4>2. b[i] = (c[i] - f[y]) + f[d[i]]
          BY <3>2, <3>3, <3>4, <3>5, MoveLast
      <4> QED
          BY <3>3, <4>1, <4>2
  <2>3. CASE i > j
    <3>1. i + 1 \in 1..n /\ i - 1 \in 0..m /\ ~(i - 1 < j) /\ ~(i < j) /\ (i - 1) + 1 = i
        BY <1>4, <2>3
    <3>2. c[i + 1] = c[i] + f[e[i + 1]] /\ f[e[i + 1]] = f[d[i]]
          /\ c[i + 1] \in Int /\ c[i] \in Int
        BY <1>10, <3>1
    <3>3. b[i] = c[i + 1] - f[y] /\ b[i - 1] = c[i] - f[y]
        BY <3>1
    <3>4. f[d[i]] \in Int /\ f[y] \in Int
        BY <1>6
    <3> HIDE DEF d, b
    <3> QED
      <4>1. c[i + 1] = c[i] + f[d[i]]
          BY <3>2
      <4>2. c[i + 1] - f[y] = (c[i] - f[y]) + f[d[i]]
          BY <3>2, <3>4, <4>1, MoveLast
      <4> QED
          BY <3>3, <4>2
  <2> QED
      BY <1>4, <2>1, <2>2, <2>3
<1>14. SumsAlong(S \ {y}, f, total - f[y], m, d, b)
    BY <1>7, <1>8, <1>9, <1>12, <1>13 DEF SumsAlong
<1> HIDE DEF m, d, b
<1> QED
    BY <1>5, <1>7, <1>14 DEF IsSum

-----------------------------------------------------------------------------
(* The quiet ledger.                                                       *)

\* The requests that have moved money and still owe their ledger rows.
Owing == {r \in Reqs : pc[r] = "post"}
Owed(a) == [r \in Reqs |-> Delta(req[r], a)]

\* As long as no request has died, what is not posted is what they owe.
UnpostedIsOwed ==
    faults = 0 => \A a \in Accounts : IsSum(Owing, Owed(a), unposted[a])

QuietInv == LedgerInv /\ UnpostedIsOwed

\* Nobody owes anything at first.
LEMMA QuietInvInit == Init => QuietInv
<1> SUFFICES ASSUME Init PROVE QuietInv
    OBVIOUS
<1>1. Owing = {} /\ \A a \in Accounts : unposted[a] = 0
    BY DEF Init, Owing
<1> QED
    BY <1>1, LedgerInvInit, SumOfNone DEF QuietInv, UnpostedIsOwed

\* A step of a request that neither enters nor leaves its second transaction.
LEMMA NothingNewOwed ==
    ASSUME LockInv, UnpostedIsOwed, NEW r \in Reqs, faults' = faults, unposted' = unposted,
           pc[r] # "post", pc'[r] # "post",
           \A s \in Reqs \ {r} : pc'[s] = pc[s] /\ req'[s] = req[s]
    PROVE  UnpostedIsOwed'
<1>1. Owing' = Owing
    BY DEF Owing
<1>2. ASSUME NEW a \in Accounts, IsSum(Owing, Owed(a), unposted[a])
      PROVE  IsSum(Owing, Owed(a)', unposted[a])
  <2>1. \A s \in Owing : Owed(a)'[s] = Owed(a)[s]
      BY DEF Owing, Owed, Delta
  <2> QED
      BY <1>2, <2>1, SumOfEquals
<1> QED
    BY <1>1, <1>2 DEF UnpostedIsOwed

\* Every step that moves money without its ledger rows leaves a request owing
\* them, and a request that writes them owes nothing more.
LEMMA QuietInvNext == QuietInv /\ [Next]_vars => QuietInv'
<1> SUFFICES ASSUME QuietInv, [Next]_vars PROVE QuietInv'
    OBVIOUS
<1>0. LedgerInv /\ LedgerInv' /\ LockInv /\ LockInv' /\ TypeOK /\ TypeOK' /\ NamesAccounts
    BY LedgerInvNext, LockInvNext DEF QuietInv, LedgerInv, LockInv
<1>t. \A r \in Reqs, a \in Accounts : Delta(req[r], a) \in Int
    BY <1>0, ApplyTypes DEF LockInv, TypeInv
<1>1. ASSUME NEW r \in Reqs, Arrive(r) PROVE UnpostedIsOwed'
  <2>1. PICK q \in Requests : q.first \in Accounts /\ Begin(r, q)
      BY <1>0, <1>1, ArrivalsAreRequests DEF TypeOK
  <2> QED
      BY <1>0, <2>1, NothingNewOwed DEF QuietInv, Begin, TypeOK, bank
<1>2. ASSUME NEW r \in Reqs,
             \/ Lock1(r) \/ Insert1(r) \/ Lock2(r) \/ Insert2(r) \/ PatchInsert(r)
      PROVE  UnpostedIsOwed'
    BY <1>0, <1>2, NothingNewOwed
    DEF QuietInv, Lock1, Insert1, Lock2, Insert2, PatchInsert, AfterFirst, TypeOK, bank
<1>3. ASSUME NEW r \in Reqs, Finish(r), pc[r] # "post", faults' = faults,
             unposted' = unposted
      PROVE  UnpostedIsOwed'
    BY <1>0, <1>3, NothingNewOwed DEF QuietInv, Finish, TypeOK
<1>4. ASSUME NEW r \in Reqs, Reject(r) \/ PatchWrite(r) PROVE UnpostedIsOwed'
    BY <1>3, <1>4 DEF Reject, PatchWrite, bank
<1>5. ASSUME NEW r \in Reqs, DeadlockVictim(r) PROVE UnpostedIsOwed'
  <2>1. pc[r] # "post"
      BY <1>5 DEF DeadlockVictim, InWaitCycle, WaitsFor
  <2> QED
      BY <1>3, <1>5, <2>1 DEF DeadlockVictim, bank
<1>6. ASSUME NEW r \in Reqs, Commit(r) PROVE UnpostedIsOwed'
  <2>1. CASE ~req[r].late
      BY <1>3, <1>6, <2>1 DEF Commit
  <2>2. CASE req[r].late
    <3>1. /\ Owing' = Owing \union {r} /\ r \notin Owing /\ req' = req /\ faults' = faults
          /\ \A a \in Accounts : unposted'[a] = unposted[a] + Delta(req[r], a)
        BY <1>0, <1>6, <2>2 DEF Commit, Owing, TypeOK
    <3>2. ASSUME NEW a \in Accounts, IsSum(Owing, Owed(a), unposted[a])
          PROVE  IsSum(Owing', Owed(a)', unposted'[a])
      <4>1. Owed(a)' = Owed(a) /\ Owed(a)[r] = Delta(req[r], a) /\ Owed(a)[r] \in Int
          BY <1>t, <3>1 DEF Owed, Delta
      <4>2. IsSum(Owing \union {r}, Owed(a), unposted[a] + Owed(a)[r])
          BY <3>1, <3>2, <4>1, SumWithOneMore
      <4> QED
          BY <3>1, <4>1, <4>2
    <3> QED
        BY <3>1, <3>2 DEF QuietInv, UnpostedIsOwed
  <2> QED
      BY <2>1, <2>2
<1>7. ASSUME NEW r \in Reqs, Post(r) PROVE UnpostedIsOwed'
  <2>1. /\ Owing' = Owing \ {r} /\ r \in Owing /\ faults' = faults
        /\ \A s \in Reqs \ {r} : req'[s] = req[s]
        /\ \A a \in Accounts : unposted'[a] = unposted[a] - Delta(req[r], a)
      BY <1>0, <1>7 DEF Post, Finish, Owing, TypeOK
  <2>2. ASSUME NEW a \in Accounts, IsSum(Owing, Owed(a), unposted[a])
        PROVE  IsSum(Owing', Owed(a)', unposted'[a])
    <3>1. \A s \in Owing : Owed(a)[s] \in Int /\ Owed(a)[s] = Delta(req[s], a)
        BY <1>t DEF Owed, Owing
    <3>2. IsSum(Owing \ {r}, Owed(a), unposted[a] - Owed(a)[r])
        BY <2>1, <2>2, <3>1, SumWithOneLess
    <3>3. \A s \in Owing \ {r} : Owed(a)'[s] = Owed(a)[s]
        BY <2>1 DEF Owed, Owing, Delta
    <3>4. IsSum(Owing \ {r}, Owed(a)', unposted[a] - Owed(a)[r])
        BY <3>2, <3>3, SumOfEquals
    <3> QED
        BY <2>1, <3>1, <3>4
  <2> QED
      BY <2>1, <2>2 DEF QuietInv, UnpostedIsOwed
<1>8. ASSUME NEW r \in Reqs, Die(r) PROVE UnpostedIsOwed'
  <2>1. faults' # 0
      BY <1>0, <1>8 DEF Die, TypeOK
  <2> QED
      BY <2>1 DEF UnpostedIsOwed
<1>9. ASSUME UNCHANGED <<pc, req, unposted, faults>> PROVE UnpostedIsOwed'
  <2>1. Owing' = Owing /\ \A a \in Accounts : Owed(a)' = Owed(a)
      BY <1>9 DEF Owing, Owed, Delta
  <2> QED
      BY <1>9, <2>1 DEF QuietInv, UnpostedIsOwed
<1>10. UnpostedIsOwed'
    BY <1>1, <1>2, <1>4, <1>5, <1>6, <1>7, <1>8, <1>9
    DEF Next, Step, Leave, vars, bank
<1> QED
    BY <1>0, <1>10 DEF QuietInv

\* Once every purchase and delivery has run its second transaction, and none
\* died before it, the ledger rows alone explain every balance, whatever the
\* number of requests that were in between at the same time.
THEOREM QuietLedger == Spec => []QuietLedgerComplete
<1>1. ASSUME QuietInv PROVE QuietLedgerComplete
  <2> SUFFICES ASSUME faults = 0, \A r \in Reqs : pc[r] # "post", NEW a \in Live
               PROVE  bal[a] = posted[a] + offbook[a]
      BY DEF QuietLedgerComplete
  <2>1. Owing = {} /\ a \in Accounts
      BY <1>1 DEF Owing, QuietInv, LedgerInv, LockInv, TypeOK, Live, Accounts
  <2>2. unposted[a] = 0
      BY <1>1, <2>1, SumOfNone DEF QuietInv, UnpostedIsOwed
  <2>3. bal[a] = posted[a] + unposted[a] + offbook[a] /\ posted[a] \in Int
      BY <1>1, <2>1 DEF QuietInv, LedgerInv, LedgerExplains, LockInv, TypeOK
  <2> QED
      BY <2>2, <2>3
<1> QED
    BY <1>1, QuietInvInit, QuietInvNext, PTL DEF Spec
=============================================================================
