-------------------------------- MODULE Merch --------------------------------
(***************************************************************************)
(* Merchandise: members buy items for themselves or another, give them     *)
(* away and sell them back; managers do so with anyone's item.             *)
(*                                                                         *)
(* EconomyBalance models the balances and their locks. Here are the items, *)
(* and the ledger as what it says of an item: who paid, who got it. A      *)
(* purchase commits the item first and its line of the ledger after it.    *)
(***************************************************************************)
EXTENDS Integers, Sequences, FiniteSetsExt

CONSTANTS
    Reqs, Users, Managers,
    company,
    BuyPrice, SellPrice,
    MaxItems, MaxReqs    \* bounds

VARIABLES
    economy_merch,          \* by item, its owner, or nobody
    economy_transaction,    \* by item, its lines in the order they were written
    req, reqs,
    mixed,       \* history: the items for which requests overlapped
    unwritten    \* history: the items whose purchase was cut off before its line

vars == <<economy_merch, economy_transaction, req, reqs, mixed, unwritten>>

Items == 1..MaxItems
nobody == 0
Idle == [pc |-> "idle", item |-> 0, from |-> nobody, to |-> nobody]
Line(from, to, amount) == [from |-> from, to |-> to, amount |-> amount]

Init ==
    /\ economy_merch = [i \in Items |-> nobody]
    /\ economy_transaction = [i \in Items |-> <<>>]
    /\ req = [r \in Reqs |-> Idle] /\ reqs = 0
    /\ mixed = {} /\ unwritten = {}

-----------------------------------------------------------------------------
Kept == {i \in Items : economy_merch[i] # nobody}
NeverUsed == {i \in Items : economy_merch[i] = nobody /\ economy_transaction[i] = <<>>
                            /\ \A r \in Reqs : req[r].item # i} \ unwritten

Begin(r, job) ==
    /\ reqs < MaxReqs /\ req[r].pc = "idle"
    /\ reqs' = reqs + 1
    /\ req' = [req EXCEPT ![r] = job]
    /\ mixed' = IF \E q \in Reqs \ {r} : req[q].item = job.item
                THEN mixed \union {job.item} ELSE mixed
    /\ UNCHANGED <<economy_transaction, unwritten>>

\* The item is committed with the payment; the line says for whom it was bought.
post_merch_purchase(r, u, owner) ==
    /\ NeverUsed # {}
    /\ LET i == Min(NeverUsed) IN
        /\ Begin(r, [pc |-> "bought", item |-> i, from |-> u, to |-> owner])
        /\ economy_merch' = [economy_merch EXCEPT ![i] = owner]

MayTouch(u, i) == u \in Managers \/ economy_merch[i] = u

\* The owner is read here and the item is written later.
post_merch_transfer(r, u, i, owner) ==
    /\ i \in Kept /\ economy_merch[i] # owner /\ MayTouch(u, i)
    /\ Begin(r, [pc |-> "transfer", item |-> i, from |-> economy_merch[i], to |-> owner])
    /\ UNCHANGED economy_merch

post_merch_sell(r, u, i) ==
    /\ i \in Kept /\ MayTouch(u, i)
    /\ Begin(r, [pc |-> "sell", item |-> i, from |-> economy_merch[i], to |-> u])
    /\ UNCHANGED economy_merch

\* The mutant: the line of a purchase names who paid as the one it is for.
TransactionForPayer(job) == Line(job.from, job.from, BuyPrice)
\* The mutant: a sale is paid to who asked for it.
TransactionWithSeller(job) ==
    Line(IF job.pc = "sell" THEN company ELSE job.from, job.to,
         IF job.pc = "bought" THEN BuyPrice ELSE IF job.pc = "sell" THEN SellPrice ELSE 0)
\* What a request says in the ledger: a sale is paid to the owner it has read.
Transaction(job) ==
    CASE job.pc = "bought" -> Line(job.from, job.to, BuyPrice)
      [] job.pc = "transfer" -> Line(job.from, job.to, 0)
      [] job.pc = "sell" -> Line(company, job.from, SellPrice)

\* The mutant: the item stays when it has been paid for.
OwnerAfterAndKept(job, owner) == IF job.pc = "transfer" THEN job.to ELSE owner
\* An item that is gone stays gone.
OwnerAfter(job, owner) ==
    CASE job.pc = "transfer" /\ owner # nobody -> job.to
      [] job.pc = "sell" -> nobody
      [] OTHER -> owner

\* In one commit; it does not look at the item again.
Write(r) ==
    LET job == req[r] IN
    /\ job.pc # "idle"
    /\ economy_merch' = [economy_merch EXCEPT ![job.item] = OwnerAfter(job, @)]
    /\ economy_transaction' = [economy_transaction EXCEPT ![job.item] = Append(@, Transaction(job))]
    /\ req' = [req EXCEPT ![r] = Idle]
    /\ UNCHANGED <<reqs, mixed, unwritten>>

\* The request ends between two commits: its connection is closed.
Cut(r) ==
    /\ req[r].pc # "idle"
    /\ req' = [req EXCEPT ![r] = Idle]
    /\ unwritten' = IF req[r].pc = "bought" THEN unwritten \union {req[r].item} ELSE unwritten
    /\ UNCHANGED <<economy_merch, economy_transaction, reqs, mixed>>

Next ==
    \E r \in Reqs :
        \/ \E u, owner \in Users : post_merch_purchase(r, u, owner)
        \/ \E u, owner \in Users, i \in Items : post_merch_transfer(r, u, i, owner)
        \/ \E u \in Users, i \in Items : post_merch_sell(r, u, i)
        \/ Write(r) \/ Cut(r)

Spec == Init /\ [][Next]_vars

-----------------------------------------------------------------------------
\* Every variable has its type.
TypeOK ==
    /\ economy_merch \in [Items -> Users \union {nobody}]
    /\ \A i \in Items : economy_transaction[i] \in
        Seq([from : Users \union {company}, to : Users, amount : {0, BuyPrice, SellPrice}])
    /\ reqs \in 0..MaxReqs

Refunds(i) == {n \in DOMAIN economy_transaction[i] : economy_transaction[i][n].from = company}
Quiet(i) == i \notin mixed \union unwritten /\ \A r \in Reqs : req[r].item # i

\* Unless requests for it overlap, an item is sold back once and to the one who
\* owned it last, whoever bought it and through however many hands it went; then
\* nothing more is said of it.
RefundedToItsOwner ==
    \A i \in Items \ (mixed \union unwritten) : \A n \in Refunds(i) :
        /\ n = Len(economy_transaction[i]) /\ n > 1
        /\ economy_transaction[i][n].to = economy_transaction[i][n - 1].to

\* What the ledger says of an item is the way it went: each line starts with the
\* owner the one before it names, and the last one names the owner in the table.
TheLedgerFollowsTheItem ==
    \A i \in Items : Quiet(i) =>
        LET lines == economy_transaction[i] IN
        /\ lines # <<>> =>
            economy_merch[i] = IF Refunds(i) # {} THEN nobody ELSE lines[Len(lines)].to
        /\ \A n \in 2..Len(lines) : lines[n].amount = 0 => lines[n].from = lines[n - 1].to
=============================================================================
