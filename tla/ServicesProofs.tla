-------------------------- MODULE ServicesProofs --------------------------
(***************************************************************************)
(* Proofs about the parts in Services, each of any size. The passes over   *)
(* the jobs of TruckersHub: a receipt is processed only when its job is    *)
(* known. The queues of Discord: what is put together and cleared is       *)
(* worked out place by place, so that nothing of one channel is dropped or *)
(* posted twice, and a call is retried as often as it was meant to be.     *)
(***************************************************************************)
EXTENDS Services, Sums

-----------------------------------------------------------------------------
(* The passes over the jobs of TruckersHub.                                *)

PassPCs == {"idle", "month", "scan", "finish"}
Passes == [pc : PassPCs, month : Nat, todo : SUBSET Jobs, receipt : Nat,
           imported : Nat, failed : Nat, exhausted : BOOLEAN]
Receipts == [id : Nat, committed : BOOLEAN, processed : BOOLEAN]

HubTypes ==
    /\ hub \in [Jobs -> {"none", "in_progress", "done"}]
    /\ source \in [Jobs -> {"none", "linked", "review", "failed", "separate", "pending"}]
    /\ month_key \subseteq Months \ {1}
    /\ inbox \in [Jobs -> Receipts]
    /\ lease \in Procs \union {Hub!Nobody}
    /\ pass \in [Procs -> Passes]
    /\ \A p \in Procs : pass[p].imported + pass[p].failed <= Batch

\* A receipt is of a job that is done, and is committed after it was inserted.
OfTheDone == \A j \in Jobs : inbox[j].id # 0 => hub[j] = "done"
OnceInserted == \A j \in Jobs : inbox[j].committed => inbox[j].id # 0

\* What a pass takes for the last receipt is one, so that later ones have greater ids.
IsReceipt == \A p \in Procs : pass[p].receipt # 0 => \E j \in Jobs : inbox[j].id = pass[p].receipt

\* A pass goes month by month, and ends elsewhere only exhausted.
Placed(w) ==
    /\ w.pc = "month" => w.month >= 1 /\ w.month - 1 <= Cardinality(Months)
    /\ w.pc = "scan" => w.month \in Months
    /\ w.pc = "finish" => w.exhausted
MonthByMonth == \A p \in Procs : Placed(pass[p])

\* The jobs whose receipts a pass will answer are known as far as it has looked.
Looked(w, j) ==
    \/ MonthOf(j) < w.month
    \/ w.pc = "scan" /\ MonthOf(j) = w.month /\ j \notin w.todo
Answers(w, known) ==
    w.pc \in {"month", "scan"} =>
        \A j \in Jobs : (inbox[j].id # 0 /\ inbox[j].id <= w.receipt /\ Looked(w, j)) => known[j] # "none"
LookedAt == \A p \in Procs : Answers(pass[p], source)

HubInv ==
    /\ HubTypes /\ OfTheDone /\ OnceInserted /\ IsReceipt
    /\ MonthByMonth /\ LookedAt /\ Hub!ReceiptsAreAnswered

\* The months are numbers from 1, and every job is of one.
LEMMA MonthsAre ==
    /\ Cardinality(Months) \in Nat \ {0}
    /\ \A m : m \in Months <=> m \in Nat /\ 1 <= m /\ m <= Cardinality(Months)
    /\ Hub!Min(Months) = 1
    /\ \A j \in Jobs : MonthOf(j) \in Months /\ MonthOf(j) \in Nat
<1>1. Cardinality(Months) \in Nat
    BY HubConstants, FS_CardinalityType
<1>2. \A m : m \in Months <=> m \in Nat /\ 1 <= m /\ m <= Cardinality(Months)
    <2>. DEFINE n == Cardinality(Months)
    <2>1. Months = 1..n /\ n \in Nat
        BY <1>1, HubConstants
    <2>. HIDE DEF n
    <2>2. \A m : m \in Months <=> m \in Nat /\ 1 <= m /\ m <= n
        BY <2>1
    <2>. QED BY <2>2 DEF n
<1>3. Cardinality(Months) # 0
    BY <1>1, <1>2, HubConstants
<1>4. Hub!Min(Months) = 1
    <2>1. 1 \in Months /\ \A m \in Months : 1 <= m /\ m \in Nat
        BY <1>1, <1>2, <1>3
    <2>2. \A x \in Months : (\A y \in Months : x <= y) => x = 1
        <3>. SUFFICES ASSUME NEW x \in Months, x <= 1 PROVE x = 1
            BY <2>1
        <3>. QED BY <2>1
    <2>. QED BY <2>1, <2>2 DEF Hub!Min
<1>. QED BY <1>1, <1>2, <1>3, <1>4, HubConstants

\* What finitely many are mapped to is finite.
LEMMA NumbersAreFinite ==
    ASSUME NEW S, IsFiniteSet(S), NEW f
    PROVE  IsFiniteSet({f[k] : k \in S})
<1>. DEFINE T == {f[k] : k \in S}
            g == [k \in S |-> f[k]]
<1>1. g \in Surjection(S, T)
    BY DEF Surjection
<1>. HIDE DEF g, T
<1>2. IsFiniteSet(T)
    BY <1>1, FS_Surjection
<1>. QED BY <1>2 DEF T

\* Finitely many numbers are bounded.
LEMMA FiniteIsBounded ==
    ASSUME NEW T \in SUBSET Nat, IsFiniteSet(T)
    PROVE  \E b \in Nat : \A n \in T : n <= b
<1>. DEFINE Good == {s \in SUBSET T : \E b \in Nat : \A n \in s : n <= b}
<1>1. {} \in Good /\ Good \in SUBSET SUBSET T
    OBVIOUS
<1>2. ASSUME NEW t \in SUBSET T, t # {}, \A x \in t : t \ {x} \in Good PROVE t \in Good
    <2>1. PICK x \in t : x \in Nat
        BY <1>2
    <2>2. PICK b \in Nat : \A n \in t \ {x} : n <= b
        BY <1>2, <2>1
    <2>3. b + x \in Nat /\ \A n \in t : n <= b + x
        BY <2>1, <2>2
    <2>. QED BY <2>3
<1>. HIDE DEF Good
<1>3. T \in Good
    BY <1>1, <1>2, PartByPart, ZenonT(60)
<1>. QED BY <1>3 DEF Good

\* The ids of the receipts are numbers and finitely many, so that there is a greatest.
LEMMA GreatestId ==
    ASSUME NEW T \in SUBSET Nat, IsFiniteSet(T), T # {}
    PROVE  Hub!Max(T) \in T /\ \A n \in T : n <= Hub!Max(T)
<1>1. PICK b \in Nat : \A n \in T : n <= b
    BY FiniteIsBounded
<1>2. \E m \in T : \A n \in T : n <= m
    BY <1>1, GreatestNatural
<1>3. \E m \in T : \A n \in T : m >= n
    BY <1>2
<1>4. Hub!Max(T) \in T /\ \A n \in T : Hub!Max(T) >= n
    BY <1>3 DEF Hub!Max
<1>. QED BY <1>4

\* The receipts that wait are some of those with an id.
LEMMA WaitingIds ==
    ASSUME HubTypes, OnceInserted
    PROVE  LET last == Hub!Max(Hub!Waiting \union {0}) IN
           last \in Nat /\ (last # 0 => \E j \in Jobs : inbox[j].id = last)
<1>. DEFINE ids == {inbox[j].id : j \in Jobs}
            waits == Hub!Waiting \union {0}
<1>1. IsFiniteSet(ids)
    <2>. DEFINE f == [k \in Jobs |-> inbox[k].id]
    <2>1. IsFiniteSet({f[k] : k \in Jobs})
        BY NumbersAreFinite, HubConstants
    <2>2. ids = {f[k] : k \in Jobs}
        OBVIOUS
    <2>. QED BY <2>1, <2>2
<1>2. waits \in SUBSET (ids \union {0}) /\ waits # {} /\ ids \in SUBSET Nat
    BY DEF Hub!Waiting, HubTypes, Receipts
<1>3. IsFiniteSet(waits)
    <2>1. IsFiniteSet(ids \union {0})
        BY <1>1, FS_AddElement
    <2>. HIDE DEF ids, waits
    <2>. QED BY <1>2, <2>1, FS_Subset
<1>4. Hub!Max(waits) \in waits
    <2>1. waits \in SUBSET Nat
        BY <1>2
    <2>. HIDE DEF waits
    <2>. QED BY <1>2, <1>3, <2>1, GreatestId
<1>5. Hub!Max(waits) \in Nat /\ (Hub!Max(waits) # 0 => \E j \in Jobs : inbox[j].id = Hub!Max(waits))
    BY <1>2, <1>4
<1>. QED BY <1>5

\* The passes begin well.
LEMMA HubInvInit == Hub!Init => HubInv
<1>. SUFFICES ASSUME Hub!Init PROVE HubInv
    OBVIOUS
<1>1. HubTypes
    BY HubConstants DEF Hub!Init, HubTypes, Passes, PassPCs, Receipts, Hub!NoPass, Hub!NoReceipt
<1>2. /\ \A p \in Procs : pass[p].pc = "idle" /\ pass[p].receipt = 0
      /\ \A j \in Jobs : inbox[j].id = 0 /\ ~inbox[j].committed /\ ~inbox[j].processed
    BY DEF Hub!Init, Hub!NoPass, Hub!NoReceipt
<1>. QED BY <1>1, <1>2 DEF HubInv, OfTheDone, OnceInserted, IsReceipt, MonthByMonth, Placed, LookedAt, Answers, Hub!ReceiptsAreAnswered

\* What becomes of the pass of one process leaves the other passes as they are.
LEMMA HubPassKeeps ==
    ASSUME HubInv, NEW p \in Procs, NEW new \in Passes,
           pass' = [pass EXCEPT ![p] = new],
           new.imported + new.failed <= Batch,
           new.receipt # 0 => \E j \in Jobs : inbox[j].id = new.receipt,
           Placed(new), Answers(new, source'),
           \A j \in Jobs : source[j] # "none" => source'[j] # "none",
           source' \in [Jobs -> {"none", "linked", "review", "failed", "separate", "pending"}],
           month_key' \subseteq Months \ {1}, lease' \in Procs \union {Hub!Nobody},
           UNCHANGED <<hub, inbox>>
    PROVE  HubInv'
<1>1. pass' \in [Procs -> Passes] /\ \A q \in Procs : pass'[q] = IF q = p THEN new ELSE pass[q]
    BY DEF HubInv, HubTypes
<1>2. HubTypes'
    BY <1>1 DEF HubInv, HubTypes
<1>3. OfTheDone' /\ OnceInserted' /\ Hub!ReceiptsAreAnswered'
    BY DEF HubInv, OfTheDone, OnceInserted, Hub!ReceiptsAreAnswered
<1>4. IsReceipt'
    BY <1>1 DEF HubInv, IsReceipt
<1>5. MonthByMonth'
    BY <1>1 DEF HubInv, MonthByMonth
<1>6. LookedAt'
    BY <1>1 DEF HubInv, LookedAt, Answers
<1>. QED BY <1>2, <1>3, <1>4, <1>5, <1>6 DEF HubInv

\* The pass of a process has its type and its place.
LEMMA PassHas ==
    ASSUME HubInv, NEW p \in Procs
    PROVE  /\ pass[p] \in Passes /\ pass[p].imported + pass[p].failed <= Batch
           /\ pass[p].imported \in Nat /\ pass[p].failed \in Nat /\ pass[p].month \in Nat /\ pass[p].receipt \in Nat
           /\ pass[p].receipt # 0 => \E j \in Jobs : inbox[j].id = pass[p].receipt
           /\ Placed(pass[p]) /\ Answers(pass[p], source)
<1>1. pass[p] \in Passes
    BY DEF HubInv, HubTypes
<1>2. /\ pass[p].imported \in Nat /\ pass[p].failed \in Nat /\ pass[p].month \in Nat /\ pass[p].receipt \in Nat
    BY <1>1 DEF Passes
<1>3. pass[p].imported + pass[p].failed <= Batch
    BY DEF HubInv, HubTypes
<1>4. /\ pass[p].receipt # 0 => \E j \in Jobs : inbox[j].id = pass[p].receipt
      /\ Placed(pass[p]) /\ Answers(pass[p], source)
    BY DEF HubInv, IsReceipt, MonthByMonth, LookedAt
<1>. QED BY <1>1, <1>2, <1>3, <1>4

\* A pass that has ended.
LEMMA HubPassEnds ==
    ASSUME HubInv, NEW p \in Procs, pass' = [pass EXCEPT ![p] = Hub!NoPass],
           lease' \in Procs \union {Hub!Nobody},
           UNCHANGED <<hub, source, month_key, inbox>>
    PROVE  HubInv'
<1>1. Hub!NoPass \in Passes /\ Hub!NoPass.pc = "idle" /\ Hub!NoPass.receipt = 0
      /\ Hub!NoPass.imported + Hub!NoPass.failed <= Batch
    BY HubConstants DEF Hub!NoPass, Passes, PassPCs
<1>2. /\ source' \in [Jobs -> {"none", "linked", "review", "failed", "separate", "pending"}]
      /\ month_key' \subseteq Months \ {1}
    BY DEF HubInv, HubTypes
<1>3. Placed(Hub!NoPass) /\ Answers(Hub!NoPass, source')
    BY <1>1 DEF Placed, Answers
<1>4. \A j \in Jobs : source[j] # "none" => source'[j] # "none"
    OBVIOUS
<1>. QED BY <1>1, <1>2, <1>3, <1>4, HubPassKeeps

\* A pass begins: it notes the last receipt that is committed, and is in the first month.
LEMMA ReconcileKeeps == ASSUME HubInv, NEW p \in Procs, Hub!reconcile(p) PROVE HubInv'
<1>. DEFINE last == Hub!Max(Hub!Waiting \union {0})
            new == [Hub!NoPass EXCEPT !.pc = "month", !.month = Hub!Min(Months), !.receipt = last]
<1>1. last \in Nat /\ (last # 0 => \E j \in Jobs : inbox[j].id = last)
    BY WaitingIds DEF HubInv
<1>. HIDE DEF last
<1>2. /\ new \in Passes /\ new.pc = "month" /\ new.month = 1 /\ new.receipt = last
      /\ new.imported + new.failed <= Batch
    <2>1. Hub!Min(Months) = 1
        BY MonthsAre
    <2>2. Hub!NoPass \in Passes /\ Hub!NoPass.imported = 0 /\ Hub!NoPass.failed = 0
        BY DEF Hub!NoPass, Passes, PassPCs
    <2>3. /\ new \in Passes /\ new.pc = "month" /\ new.month = 1 /\ new.receipt = last
          /\ new.imported = 0 /\ new.failed = 0
        <3>1. last \in Nat /\ 1 \in Nat /\ new = [[[Hub!NoPass EXCEPT !.pc = "month"] EXCEPT !.month = 1] EXCEPT !.receipt = last]
            BY <1>1, <2>1
        <3>. HIDE DEF new
        <3>. QED BY <2>2, <3>1 DEF Passes, PassPCs
    <2>. HIDE DEF new
    <2>. QED BY <2>3, HubConstants
<1>3. pass' = [pass EXCEPT ![p] = new]
    BY DEF Hub!reconcile, Hub!To, last
<1>4. \A j \in Jobs : ~(MonthOf(j) < 1)
    BY MonthsAre
<1>5. /\ source' \in [Jobs -> {"none", "linked", "review", "failed", "separate", "pending"}]
      /\ month_key' \subseteq Months \ {1} /\ lease' \in Procs \union {Hub!Nobody}
      /\ source' = source /\ UNCHANGED <<hub, inbox>>
    BY DEF HubInv, HubTypes, Hub!reconcile
<1>. HIDE DEF new
<1>6. Placed(new) /\ Answers(new, source')
    BY <1>2, <1>4, MonthsAre DEF Placed, Answers, Looked
<1>. QED BY <1>1, <1>2, <1>3, <1>4, <1>5, <1>6, HubPassKeeps

\* A pass takes the jobs of a month, or skips the month.
LEMMA MonthJobsKeeps == ASSUME HubInv, NEW p \in Procs, Hub!month_jobs(p) PROVE HubInv'
<1>. DEFINE m == pass[p].month
<1>1. /\ m \in Months /\ m \in Nat /\ 1 <= m /\ m <= Cardinality(Months) /\ Cardinality(Months) \in Nat
      /\ pass[p].pc = "month"
    BY MonthsAre DEF Hub!month_jobs
<1>2. /\ source' \in [Jobs -> {"none", "linked", "review", "failed", "separate", "pending"}]
      /\ month_key' \subseteq Months \ {1} /\ lease' \in Procs \union {Hub!Nobody}
      /\ source' = source /\ UNCHANGED <<hub, inbox>>
    BY DEF HubInv, HubTypes, Hub!month_jobs
<1>3. CASE Hub!Skipped(p, m)
    <2>. DEFINE new == [pass[p] EXCEPT !.month = @ + 1]
    <2>1. pass[p].receipt = 0
        BY <1>3 DEF Hub!Skipped
    <2>2. /\ new \in Passes /\ new.pc = "month" /\ new.month = m + 1 /\ new.receipt = 0
          /\ new.imported = pass[p].imported /\ new.failed = pass[p].failed
        BY <1>1, <2>1, PassHas DEF Passes
    <2>3. pass' = [pass EXCEPT ![p] = new]
        BY <1>3 DEF Hub!month_jobs, Hub!To
    <2>4. \A j \in Jobs : inbox[j].id \in Nat
        BY DEF HubInv, HubTypes, Receipts
    <2>. HIDE DEF new
    <2>5. Placed(new) /\ Answers(new, source')
        BY <1>1, <2>2, <2>4 DEF Placed, Answers
    <2>. QED BY <1>2, <2>2, <2>3, <2>5, HubPassKeeps, PassHas
<1>4. CASE ~Hub!Skipped(p, m)
    <2>. DEFINE some == {j \in Jobs : MonthOf(j) = m /\ hub[j] # "none"}
                new == [pass[p] EXCEPT !.pc = "scan", !.todo = some]
    <2>1. /\ new \in Passes /\ new.pc = "scan" /\ new.month = m /\ new.receipt = pass[p].receipt
          /\ new.todo = some /\ new.imported = pass[p].imported /\ new.failed = pass[p].failed
        BY <1>1, PassHas DEF Passes, PassPCs
    <2>2. pass' = [pass EXCEPT ![p] = new]
        BY <1>4 DEF Hub!month_jobs, Hub!To
    <2>. HIDE DEF new
    <2>4. \A j \in Jobs : inbox[j].id # 0 => hub[j] # "none"
        BY DEF HubInv, OfTheDone
    <2>5. Placed(new) /\ Answers(new, source')
        <3>1. Answers(pass[p], source)
            BY PassHas
        <3>. QED BY <1>1, <1>2, <2>1, <2>4, <3>1 DEF Placed, Answers, Looked
    <2>. QED BY <1>2, <2>1, <2>2, <2>5, HubPassKeeps, PassHas
<1>. QED BY <1>3, <1>4

\* A job of the list is known when the pass is through with it.
LEMMA JobKeeps == ASSUME HubInv, NEW p \in Procs, NEW i \in Jobs, Hub!Job(p, i) PROVE HubInv'
<1>. DEFINE done == [pass[p] EXCEPT !.todo = @ \ {i}]
            failed == [done EXCEPT !.failed = @ + 1]
            imported == [done EXCEPT !.imported = @ + 1]
<1>1. /\ pass[p] \in Passes /\ pass[p].pc = "scan" /\ pass[p].month \in Months
      /\ pass[p].imported + pass[p].failed + 1 <= Batch
      /\ i \in pass[p].todo
    <2>1. pass[p] \in Passes /\ pass[p].pc = "scan"
        BY DEF Hub!Job, HubInv, HubTypes
    <2>2. ~(pass[p].imported + pass[p].failed >= Batch)
        BY DEF Hub!Job, Hub!Full
    <2>3. pass[p].imported \in Nat /\ pass[p].failed \in Nat /\ Placed(pass[p])
        BY PassHas
    <2>4. pass[p].imported + pass[p].failed + 1 <= Batch
        BY <2>2, <2>3, HubConstants
    <2>. QED BY <2>1, <2>3, <2>4 DEF Hub!Job, Placed
<1>2. PICK new \in {done, failed, imported} :
        /\ pass' = [pass EXCEPT ![p] = new]
        /\ \/ source' = source /\ (source[i] # "none" \/ hub[i] = "in_progress")
           \/ \E s \in {"failed", "linked", "review"} : source' = [source EXCEPT ![i] = s]
    <2>1. CASE source[i] \in {"review", "linked"} /\ Hub!To(p, done) /\ UNCHANGED source
        BY <2>1 DEF Hub!To
    <2>2. CASE source[i] = "failed" /\ Hub!To(p, failed) /\ UNCHANGED source
        BY <2>2 DEF Hub!To
    <2>3. CASE hub[i] = "in_progress" /\ Hub!To(p, done) /\ UNCHANGED source
        BY <2>3 DEF Hub!To
    <2>4. CASE Hub!To(p, failed) /\ source' = [source EXCEPT ![i] = "failed"]
        BY <2>4 DEF Hub!To
    <2>5. CASE /\ \E n \in BOOLEAN : Hub!To(p, [done EXCEPT !.imported = IF n THEN @ + 1 ELSE @])
               /\ source' = [source EXCEPT ![i] = "linked"]
        <3>1. PICK n \in BOOLEAN : Hub!To(p, [done EXCEPT !.imported = IF n THEN @ + 1 ELSE @])
            BY <2>5
        <3>2. [done EXCEPT !.imported = IF n THEN @ + 1 ELSE @] \in {done, imported}
            <4>1. done \in Passes
                BY <1>1 DEF Passes
            <4>. HIDE DEF done
            <4>2. CASE n
                BY <4>2
            <4>3. CASE ~n
                BY <4>1, <4>3 DEF Passes
            <4>. QED BY <4>2, <4>3
        <3>. QED BY <2>5, <3>1, <3>2 DEF Hub!To
    <2>6. CASE Hub!To(p, done) /\ source' = [source EXCEPT ![i] = "review"]
        BY <2>6 DEF Hub!To
    <2>. HIDE DEF done, failed, imported
    <2>. QED BY <2>1, <2>2, <2>3, <2>4, <2>5, <2>6 DEF Hub!Job, done, failed
<1>3. /\ new \in Passes /\ new.pc = "scan" /\ new.month = pass[p].month /\ new.receipt = pass[p].receipt
      /\ new.todo = pass[p].todo \ {i} /\ new.imported + new.failed <= Batch
    <2>1. CASE new = done
        <3>1. /\ done \in Passes /\ done.pc = "scan" /\ done.month = pass[p].month /\ done.receipt = pass[p].receipt
              /\ done.todo = pass[p].todo \ {i}
              /\ done.imported = pass[p].imported /\ done.failed = pass[p].failed
            BY <1>1 DEF Passes
        <3>. HIDE DEF done
        <3>. QED BY <1>1, <2>1, <3>1, PassHas
    <2>2. CASE new = failed
        <3>1. /\ failed \in Passes /\ failed.pc = "scan" /\ failed.month = pass[p].month
              /\ failed.receipt = pass[p].receipt /\ failed.todo = pass[p].todo \ {i}
              /\ failed.imported = pass[p].imported /\ failed.failed = pass[p].failed + 1
            <4>1. done \in Passes /\ done.failed = pass[p].failed /\ done.failed + 1 \in Nat
                  /\ done.pc = "scan" /\ done.month = pass[p].month /\ done.receipt = pass[p].receipt
                  /\ done.todo = pass[p].todo \ {i} /\ done.imported = pass[p].imported
                BY <1>1, PassHas DEF Passes
            <4>. HIDE DEF done
            <4>. QED BY <4>1 DEF Passes
        <3>2. pass[p].imported + (pass[p].failed + 1) <= Batch
            BY <1>1, PassHas, HubConstants
        <3>. HIDE DEF failed
        <3>. QED BY <2>2, <3>1, <3>2
    <2>3. CASE new = imported
        <3>1. /\ imported \in Passes /\ imported.pc = "scan" /\ imported.month = pass[p].month
              /\ imported.receipt = pass[p].receipt /\ imported.todo = pass[p].todo \ {i}
              /\ imported.imported = pass[p].imported + 1 /\ imported.failed = pass[p].failed
            <4>1. done \in Passes /\ done.imported = pass[p].imported /\ done.imported + 1 \in Nat
                  /\ done.pc = "scan" /\ done.month = pass[p].month /\ done.receipt = pass[p].receipt
                  /\ done.todo = pass[p].todo \ {i} /\ done.failed = pass[p].failed
                BY <1>1, PassHas DEF Passes
            <4>. HIDE DEF done
            <4>. QED BY <4>1 DEF Passes
        <3>2. pass[p].imported + 1 + pass[p].failed <= Batch
            BY <1>1, PassHas, HubConstants
        <3>. HIDE DEF imported
        <3>. QED BY <2>3, <3>1, <3>2
    <2>. QED BY <2>1, <2>2, <2>3
<1>. HIDE DEF done, failed, imported
<1>4. /\ source' \in [Jobs -> {"none", "linked", "review", "failed", "separate", "pending"}]
      /\ \A j \in Jobs : source[j] # "none" => source'[j] # "none"
      /\ source'[i] # "none" \/ hub[i] = "in_progress"
    BY <1>2 DEF HubInv, HubTypes
<1>5. month_key' \subseteq Months \ {1} /\ lease' \in Procs \union {Hub!Nobody} /\ UNCHANGED <<hub, inbox>>
    BY DEF Hub!Job, HubInv, HubTypes
<1>6. Answers(new, source')
    <2>. SUFFICES ASSUME NEW j \in Jobs, inbox[j].id # 0, inbox[j].id <= new.receipt, Looked(new, j)
                  PROVE  source'[j] # "none"
        BY DEF Answers
    <2>1. CASE j = i
        BY <1>4, <2>1 DEF HubInv, OfTheDone
    <2>2. CASE j # i
        <3>1. Answers(pass[p], source)
            BY PassHas
        <3>. QED BY <1>1, <1>3, <1>4, <2>2, <3>1 DEF Answers, Looked
    <2>. QED BY <2>1, <2>2
<1>7. Placed(new)
    BY <1>1, <1>3 DEF Placed
<1>8. new.receipt # 0 => \E j \in Jobs : inbox[j].id = new.receipt
    BY <1>3, PassHas
<1>9. pass' = [pass EXCEPT ![p] = new]
    BY <1>2
<1>. QED BY <1>3, <1>4, <1>5, <1>6, <1>7, <1>8, <1>9, HubPassKeeps

\* A pass that has done its batch ends early, and answers no receipt.
LEMMA ExhaustedKeeps == ASSUME HubInv, NEW p \in Procs, Hub!Exhausted(p) PROVE HubInv'
<1>. DEFINE new == [pass[p] EXCEPT !.pc = "finish", !.exhausted = TRUE, !.todo = {}]
<1>1. /\ new \in Passes /\ new.pc = "finish" /\ new.exhausted /\ new.receipt = pass[p].receipt
      /\ new.imported = pass[p].imported /\ new.failed = pass[p].failed
    BY PassHas DEF Passes, PassPCs
<1>2. pass' = [pass EXCEPT ![p] = new]
    BY DEF Hub!Exhausted, Hub!To
<1>3. /\ source' \in [Jobs -> {"none", "linked", "review", "failed", "separate", "pending"}]
      /\ month_key' \subseteq Months \ {1} /\ lease' \in Procs \union {Hub!Nobody}
      /\ source' = source /\ UNCHANGED <<hub, inbox>>
    BY DEF HubInv, HubTypes, Hub!Exhausted
<1>. HIDE DEF new
<1>4. Placed(new) /\ Answers(new, source')
    BY <1>1 DEF Placed, Answers
<1>. QED BY <1>1, <1>2, <1>3, <1>4, HubPassKeeps, PassHas

\* A month of which nothing is left to do was looked at whole.
LEMMA MonthDoneKeeps == ASSUME HubInv, NEW p \in Procs, Hub!MonthDone(p) PROVE HubInv'
<1>. DEFINE new == [pass[p] EXCEPT !.pc = "month", !.month = @ + 1]
<1>1. /\ pass[p] \in Passes /\ pass[p].pc = "scan" /\ pass[p].todo = {}
      /\ pass[p].month \in Months /\ pass[p].month \in Nat
      /\ 1 <= pass[p].month /\ pass[p].month <= Cardinality(Months) /\ Cardinality(Months) \in Nat
    <2>1. pass[p] \in Passes /\ pass[p].pc = "scan" /\ pass[p].todo = {} /\ Placed(pass[p])
        BY PassHas DEF Hub!MonthDone
    <2>. QED BY <2>1, MonthsAre DEF Placed
<1>2. /\ new \in Passes /\ new.pc = "month" /\ new.receipt = pass[p].receipt
      /\ new.month = pass[p].month + 1 /\ new.imported = pass[p].imported /\ new.failed = pass[p].failed
    <2>1. pass[p].month + 1 \in Nat
        BY <1>1
    <2>. QED BY <1>1, <2>1 DEF Passes, PassPCs
<1>3. pass' = [pass EXCEPT ![p] = new]
    BY DEF Hub!MonthDone, Hub!To
<1>4. /\ source' \in [Jobs -> {"none", "linked", "review", "failed", "separate", "pending"}]
      /\ lease' \in Procs \union {Hub!Nobody}
      /\ source' = source /\ UNCHANGED <<hub, inbox>>
    BY DEF HubInv, HubTypes, Hub!MonthDone
<1>5. month_key' \subseteq Months \ {1}
    BY <1>1, MonthsAre DEF HubInv, HubTypes, Hub!MonthDone
<1>. HIDE DEF new
<1>6. Placed(new)
    BY <1>1, <1>2 DEF Placed
<1>7. Answers(new, source')
    <2>. SUFFICES ASSUME NEW j \in Jobs, inbox[j].id # 0, inbox[j].id <= new.receipt, MonthOf(j) < new.month
                  PROVE  source'[j] # "none"
        BY <1>2 DEF Answers, Looked
    <2>1. MonthOf(j) < pass[p].month \/ MonthOf(j) = pass[p].month
        BY <1>1, <1>2, MonthsAre
    <2>2. Answers(pass[p], source)
        BY PassHas
    <2>. QED BY <1>1, <1>2, <1>4, <2>1, <2>2 DEF Answers, Looked
<1>. QED BY <1>2, <1>3, <1>4, <1>5, <1>6, <1>7, HubPassKeeps, PassHas

\* A pass that is through all months has looked at every job: the receipts up to the
\* one it began with are answered.
LEMMA FinishKeeps == ASSUME HubInv, NEW p \in Procs, Hub!Finish(p) PROVE HubInv'
<1>. DEFINE through == pass[p].receipt # 0 /\ ~pass[p].exhausted /\ pass[p].failed = 0
<1>1. /\ pass' = [pass EXCEPT ![p] = Hub!NoPass]
      /\ lease' \in Procs \union {Hub!Nobody} /\ UNCHANGED <<hub, source, month_key>>
    BY DEF Hub!Finish, Hub!To, Hub!Free, HubInv, HubTypes
<1>2. inbox' = [j \in Jobs |->
            IF through /\ inbox[j].committed /\ inbox[j].id <= pass[p].receipt
            THEN [inbox[j] EXCEPT !.processed = TRUE] ELSE inbox[j]]
    BY DEF Hub!Finish, Hub!Receipt
<1>3. ASSUME through PROVE \A j \in Jobs : (inbox[j].id # 0 /\ inbox[j].id <= pass[p].receipt) => source[j] # "none"
    <2>1. pass[p].pc = "month" /\ pass[p].month \notin Months
        BY <1>3, PassHas DEF Hub!Finish, Placed
    <2>2. pass[p].month \in Nat /\ pass[p].month >= 1
        BY <2>1, PassHas DEF Placed
    <2>3. \A j \in Jobs : MonthOf(j) < pass[p].month
        <3>. SUFFICES ASSUME NEW j \in Jobs PROVE MonthOf(j) < pass[p].month
            OBVIOUS
        <3>1. MonthOf(j) \in Nat /\ MonthOf(j) <= Cardinality(Months) /\ Cardinality(Months) \in Nat
            BY MonthsAre
        <3>2. ~(pass[p].month <= Cardinality(Months))
            BY <2>1, <2>2, MonthsAre
        <3>. QED BY <2>2, <3>1, <3>2
    <2>4. Answers(pass[p], source)
        BY PassHas
    <2>. QED BY <2>1, <2>3, <2>4 DEF Answers, Looked
<1>4. \A j \in Jobs : /\ inbox'[j] \in Receipts /\ inbox'[j].id = inbox[j].id
                      /\ inbox'[j].committed = inbox[j].committed
                      /\ inbox'[j].processed => (inbox[j].processed \/ (through /\ inbox[j].committed /\ inbox[j].id <= pass[p].receipt))
    <2>. SUFFICES ASSUME NEW j \in Jobs
                  PROVE  /\ inbox'[j] \in Receipts /\ inbox'[j].id = inbox[j].id
                         /\ inbox'[j].committed = inbox[j].committed
                         /\ inbox'[j].processed => (inbox[j].processed \/ (through /\ inbox[j].committed /\ inbox[j].id <= pass[p].receipt))
        OBVIOUS
    <2>1. inbox[j] \in Receipts
        BY DEF HubInv, HubTypes
    <2>2. inbox'[j] = IF through /\ inbox[j].committed /\ inbox[j].id <= pass[p].receipt
                      THEN [inbox[j] EXCEPT !.processed = TRUE] ELSE inbox[j]
        BY <1>2
    <2>. HIDE DEF through
    <2>3. CASE through /\ inbox[j].committed /\ inbox[j].id <= pass[p].receipt
        <3>1. inbox'[j] = [inbox[j] EXCEPT !.processed = TRUE]
            BY <2>2, <2>3
        <3>2. inbox'[j] \in Receipts /\ inbox'[j].id = inbox[j].id /\ inbox'[j].committed = inbox[j].committed
            BY <2>1, <3>1 DEF Receipts
        <3>. QED BY <2>3, <3>2, Zenon
    <2>4. CASE ~(through /\ inbox[j].committed /\ inbox[j].id <= pass[p].receipt)
        <3>1. inbox'[j] = inbox[j]
            BY <2>2, <2>4
        <3>. QED BY <2>1, <3>1, Zenon
    <2>. QED BY <2>3, <2>4
<1>5. Hub!NoPass \in Passes /\ Hub!NoPass.pc = "idle" /\ Hub!NoPass.receipt = 0
      /\ Hub!NoPass.imported + Hub!NoPass.failed <= Batch
    BY HubConstants DEF Hub!NoPass, Passes, PassPCs
<1>6. \A q \in Procs : pass'[q] = IF q = p THEN Hub!NoPass ELSE pass[q]
    BY <1>1 DEF HubInv, HubTypes
<1>7. HubTypes'
    <2>1. inbox' \in [Jobs -> Receipts]
        BY <1>2, <1>4
    <2>2. pass' \in [Procs -> Passes]
        BY <1>1, <1>5 DEF HubInv, HubTypes
    <2>. QED BY <1>1, <1>5, <1>6, <2>1, <2>2 DEF HubInv, HubTypes
<1>. HIDE DEF through
<1>8. OfTheDone' /\ OnceInserted'
    BY <1>1, <1>4 DEF HubInv, OfTheDone, OnceInserted
<1>9. IsReceipt' /\ MonthByMonth'
    BY <1>4, <1>5, <1>6 DEF HubInv, IsReceipt, MonthByMonth, Placed
<1>10. LookedAt'
    BY <1>1, <1>4, <1>5, <1>6 DEF HubInv, LookedAt, Answers
<1>11. Hub!ReceiptsAreAnswered'
    BY <1>1, <1>3, <1>4 DEF HubInv, OnceInserted, Hub!ReceiptsAreAnswered
<1>. QED BY <1>7, <1>8, <1>9, <1>10, <1>11 DEF HubInv

\* A receipt that comes in has a greater id than all before it.
LEMMA PostUpdateKeeps == ASSUME HubInv, NEW i \in Jobs, Hub!post_update(i) PROVE HubInv'
<1>. DEFINE ids == {inbox[k].id : k \in Jobs}
            new == Hub!Max(ids) + 1
<1>1. /\ inbox' = [inbox EXCEPT ![i].id = new] /\ hub[i] = "done" /\ inbox[i].id = 0
      /\ UNCHANGED <<hub, source, month_key, lease, pass>>
    BY DEF Hub!post_update
<1>2. Hub!Max(ids) \in ids /\ \A n \in ids : n <= Hub!Max(ids)
    <2>1. ids \in SUBSET Nat /\ ids # {}
        BY DEF HubInv, HubTypes, Receipts
    <2>2. IsFiniteSet(ids)
        <3>. DEFINE f == [k \in Jobs |-> inbox[k].id]
        <3>1. IsFiniteSet({f[k] : k \in Jobs})
            BY NumbersAreFinite, HubConstants
        <3>2. ids = {f[k] : k \in Jobs}
            OBVIOUS
        <3>. QED BY <3>1, <3>2
    <2>. HIDE DEF ids
    <2>. QED BY <2>1, <2>2, GreatestId
<1>3. new \in Nat /\ new # 0 /\ \A k \in Jobs : inbox[k].id < new
    <2>1. \A k \in Jobs : inbox[k].id \in Nat
        BY DEF HubInv, HubTypes, Receipts
    <2>2. Hub!Max(ids) \in Nat
        BY <1>2, <2>1
    <2>3. \A k \in Jobs : inbox[k].id <= Hub!Max(ids)
        BY <1>2
    <2>. HIDE DEF ids
    <2>. QED BY <2>1, <2>2, <2>3
<1>. HIDE DEF new, ids
<1>4. \A k \in Jobs : /\ inbox'[k] \in Receipts
                      /\ inbox'[k].committed = inbox[k].committed /\ inbox'[k].processed = inbox[k].processed
                      /\ inbox'[k].id = IF k = i THEN new ELSE inbox[k].id
    BY <1>1, <1>3 DEF HubInv, HubTypes, Receipts
<1>5. HubTypes'
    <2>1. inbox' \in [Jobs -> Receipts]
        BY <1>1, <1>4 DEF HubInv, HubTypes
    <2>. QED BY <1>1, <2>1 DEF HubInv, HubTypes
<1>6. \A q \in Procs : pass[q].receipt # 0 =>
          /\ \E k \in Jobs : inbox'[k].id = pass[q].receipt
          /\ ~(new <= pass[q].receipt)
    <2>. SUFFICES ASSUME NEW q \in Procs, pass[q].receipt # 0
                  PROVE  /\ \E k \in Jobs : inbox'[k].id = pass[q].receipt
                         /\ ~(new <= pass[q].receipt)
        OBVIOUS
    <2>1. PICK k \in Jobs : inbox[k].id = pass[q].receipt
        BY DEF HubInv, IsReceipt
    <2>2. k # i /\ inbox[k].id \in Nat
        BY <1>1, <2>1 DEF HubInv, HubTypes, Receipts
    <2>. QED BY <1>3, <1>4, <2>1, <2>2
<1>7. OfTheDone' /\ OnceInserted' /\ Hub!ReceiptsAreAnswered'
    BY <1>1, <1>3, <1>4 DEF HubInv, OfTheDone, OnceInserted, Hub!ReceiptsAreAnswered
<1>8. IsReceipt' /\ MonthByMonth'
    BY <1>1, <1>6 DEF HubInv, IsReceipt, MonthByMonth
<1>9. LookedAt'
    <2>. SUFFICES ASSUME NEW q \in Procs, NEW j \in Jobs, pass[q].pc \in {"month", "scan"},
                         inbox'[j].id # 0, inbox'[j].id <= pass[q].receipt, Looked(pass[q], j)
                  PROVE  source[j] # "none"
        BY <1>1 DEF LookedAt, Answers
    <2>1. CASE j = i
        <3>1. new <= pass[q].receipt
            BY <1>4, <2>1
        <3>2. pass[q].receipt = 0
            BY <1>6, <3>1
        <3>. QED BY <1>3, <3>1, <3>2
    <2>2. CASE j # i
        BY <1>4, <2>2 DEF HubInv, LookedAt, Answers
    <2>. QED BY <2>1, <2>2
<1>. QED BY <1>5, <1>7, <1>8, <1>9 DEF HubInv

\* The receipt of a webhook is committed.
LEMMA ReceivedKeeps == ASSUME HubInv, NEW i \in Jobs, Hub!Received(i) PROVE HubInv'
<1>1. \A k \in Jobs : /\ inbox'[k] \in Receipts /\ inbox'[k].id = inbox[k].id
                      /\ inbox'[k].processed = inbox[k].processed
                      /\ inbox'[k].committed => inbox[k].committed \/ inbox[k].id # 0
    BY DEF Hub!Received, HubInv, HubTypes, Receipts
<1>2. UNCHANGED <<hub, source, month_key, lease, pass>>
    BY DEF Hub!Received
<1>3. HubTypes'
    <2>1. inbox' \in [Jobs -> Receipts]
        BY <1>1 DEF Hub!Received, HubInv, HubTypes
    <2>. QED BY <1>2, <2>1 DEF HubInv, HubTypes
<1>4. OfTheDone' /\ OnceInserted' /\ Hub!ReceiptsAreAnswered'
    BY <1>1, <1>2 DEF HubInv, OfTheDone, OnceInserted, Hub!ReceiptsAreAnswered
<1>5. IsReceipt' /\ MonthByMonth' /\ LookedAt'
    BY <1>1, <1>2 DEF HubInv, IsReceipt, MonthByMonth, LookedAt, Answers
<1>. QED BY <1>3, <1>4, <1>5 DEF HubInv

\* Whatever else happens leaves the receipts and the passes, and what is known is known.
LEMMA AroundHubKeeps ==
    ASSUME HubInv, UNCHANGED <<inbox, pass>>,
           hub' \in [Jobs -> {"none", "in_progress", "done"}], \A j \in Jobs : hub[j] = "done" => hub'[j] = "done",
           source' \in [Jobs -> {"none", "linked", "review", "failed", "separate", "pending"}],
           \A j \in Jobs : source[j] # "none" => source'[j] # "none",
           month_key' \subseteq month_key, lease' \in Procs \union {Hub!Nobody}
    PROVE  HubInv'
<1>1. HubTypes'
    BY DEF HubInv, HubTypes
<1>2. OfTheDone' /\ OnceInserted' /\ Hub!ReceiptsAreAnswered'
    BY DEF HubInv, OfTheDone, OnceInserted, Hub!ReceiptsAreAnswered
<1>3. IsReceipt' /\ MonthByMonth' /\ LookedAt'
    BY DEF HubInv, IsReceipt, MonthByMonth, LookedAt, Answers
<1>. QED BY <1>1, <1>2, <1>3 DEF HubInv

\* Every step of the passes, of the webhook and of the provider keeps the invariant.
LEMMA HubInvNext == HubInv /\ [Hub!Next]_hubVars => HubInv'
<1>. SUFFICES ASSUME HubInv, [Hub!Next]_hubVars PROVE HubInv'
    OBVIOUS
<1>1. HubTypes
    BY DEF HubInv
<1>2. ASSUME NEW p \in Procs, Hub!Pass(p) \/ Hub!Exhausted(p) \/ Hub!ProviderFails(p) \/ Hub!Die(p)
      PROVE  HubInv'
    <2>1. CASE Hub!reconcile(p)
        BY <2>1, ReconcileKeeps
    <2>2. CASE Hub!month_jobs(p)
        BY <2>2, MonthJobsKeeps
    <2>3. CASE Hub!MonthDone(p)
        BY <2>3, MonthDoneKeeps
    <2>4. CASE Hub!Finish(p)
        BY <2>4, FinishKeeps
    <2>5. CASE Hub!LeaseLost(p)
        BY <1>1, <2>5, HubPassEnds DEF Hub!LeaseLost, Hub!To, HubTypes
    <2>6. CASE \E j \in Jobs : Hub!Job(p, j)
        BY <2>6, JobKeeps
    <2>7. CASE Hub!Exhausted(p)
        BY <2>7, ExhaustedKeeps
    <2>8. CASE Hub!ProviderFails(p)
        BY <1>1, <2>8, HubPassEnds DEF Hub!ProviderFails, Hub!To, Hub!Free, HubTypes
    <2>9. CASE Hub!Die(p)
        BY <1>1, <2>9, HubPassEnds DEF Hub!Die, Hub!To, HubTypes
    <2>. QED BY <1>2, <2>1, <2>2, <2>3, <2>4, <2>5, <2>6, <2>7, <2>8, <2>9 DEF Hub!Pass
<1>3. CASE Hub!LeaseExpires \/ Hub!put_settings \/ UNCHANGED hubVars
    BY <1>1, <1>3, AroundHubKeeps DEF Hub!LeaseExpires, Hub!put_settings, hubVars, HubTypes
<1>4. CASE \E m \in Months : Hub!MonthExpires(m)
    BY <1>1, <1>4, AroundHubKeeps DEF Hub!MonthExpires, HubTypes
<1>5. ASSUME NEW j \in Jobs, Hub!Progress(j) PROVE HubInv'
    <2>1. UNCHANGED <<inbox, pass, source, month_key, lease>>
        BY <1>5 DEF Hub!Progress
    <2>2. hub' \in [Jobs -> {"none", "in_progress", "done"}] /\ \A k \in Jobs : hub[k] = "done" => hub'[k] = "done"
        BY <1>1, <1>5 DEF Hub!Progress, HubTypes
    <2>. QED BY <1>1, <2>1, <2>2, AroundHubKeeps DEF HubTypes
<1>6. ASSUME NEW j \in Jobs, Hub!post_retry(j) PROVE HubInv'
    <2>1. UNCHANGED <<inbox, pass, hub, lease>> /\ month_key' \subseteq month_key
        BY <1>6 DEF Hub!post_retry
    <2>2. /\ source' \in [Jobs -> {"none", "linked", "review", "failed", "separate", "pending"}]
          /\ \A k \in Jobs : source[k] # "none" => source'[k] # "none"
        BY <1>1, <1>6 DEF Hub!post_retry, HubTypes
    <2>. QED BY <1>1, <2>1, <2>2, AroundHubKeeps DEF HubTypes
<1>. QED BY <1>2, <1>3, <1>4, <1>5, <1>6, PostUpdateKeeps, ReceivedKeeps DEF Hub!Next

\* What the invariant says of types and receipts.
LEMMA HubFollows == HubInv => Hub!HubTyped /\ Hub!ReceiptsAreAnswered
BY MonthsAre DEF HubInv, HubTypes, Hub!HubTyped, Passes

\* The jobs, receipts and passes have their types, for any number of jobs, months and
\* processes, and a pass takes no more than its batch. (truckershub_sync.py, reconcile.)
THEOREM HubIsTyped == Hub!Spec => []Hub!HubTyped
<1>. QED BY HubInvInit, HubInvNext, HubFollows, PTL DEF Hub!Spec, Hub!hubVars, hubVars

\* A receipt counts as processed only when its job is known, although it may be committed
\* while passes are under way, and however passes overlap, end early or lose the lease.
\* (truckershub_sync.py, reconcile.)
THEOREM AnsweredReceipts == Hub!Spec => []Hub!ReceiptsAreAnswered
<1>. QED BY HubInvInit, HubInvNext, HubFollows, PTL DEF Hub!Spec, Hub!hubVars, hubVars

-----------------------------------------------------------------------------
(* Recursion.                                                              *)

\* What is true of 0, and of a number if it is of the one before, is true of all.
LEMMA NumberByNumber ==
    ASSUME NEW Good, 0 \in Good, \A n \in Nat : n \in Good => n + 1 \in Good
    PROVE  \A n \in Nat : n \in Good
<1>. DEFINE Bad == {n \in Nat : n \notin Good}
<1>1. SUFFICES ASSUME Bad # {} PROVE FALSE
    OBVIOUS
<1>2. PICK n \in Bad : \A m \in Bad : n <= m
    <2>1. Bad \in SUBSET Nat
        OBVIOUS
    <2>. HIDE DEF Bad
    <2>. QED BY <1>1, <2>1, LeastNatural
<1>3. n \in Nat /\ n # 0 /\ n \notin Good
    BY <1>2
<1>4. n - 1 \in Nat /\ (n - 1) + 1 = n /\ ~(n <= n - 1)
    BY <1>3
<1>5. n - 1 \notin Bad
    <2>. HIDE DEF Bad
    <2>. QED BY <1>2, <1>4
<1>6. n - 1 \in Good
    BY <1>4, <1>5
<1>. QED BY <1>3, <1>4, <1>6

\* A first value, and how each of a place of S leads to the next one.
Leads(S, b, step, V) == b \in V /\ step \in [S -> [V -> V]]
Follows(f, b, step, V) ==
    f \in [Nat -> V] /\ \A k \in Nat : f[k] = IF k <= 1 THEN b ELSE step[k][f[k - 1]]

\* A function is defined by its value up to 1 and how each value leads to the next one.
LEMMA Recursion ==
    ASSUME NEW V, NEW b, NEW step, Leads(Nat, b, step, V)
    PROVE  \E f : Follows(f, b, step, V)
<1>. DEFINE Upto(h, n) == \A k \in 0..n : h[k] = IF k <= 1 THEN b ELSE step[k][h[k - 1]]
            Made == {n \in Nat : \E h \in [Nat -> V] : Upto(h, n)}
            Alike(n) == \A h, g \in [Nat -> V] : Upto(h, n) /\ Upto(g, n) => h[n] = g[n]
            Same == {n \in Nat : \A h, g \in [Nat -> V] : Upto(h, n) /\ Upto(g, n) => h[n] = g[n]}
<1>. USE DEF Leads, Follows
<1>1. \A n \in Nat : n \in Made
    <2>1. 0 \in Made
        <3>1. [k \in Nat |-> b] \in [Nat -> V] /\ Upto([k \in Nat |-> b], 0)
            OBVIOUS
        <3>. QED BY <3>1
    <2>2. ASSUME NEW n \in Nat, n \in Made PROVE n + 1 \in Made
        <3>1. PICK h \in [Nat -> V] : Upto(h, n)
            BY <2>2
        <3>. DEFINE v == IF n + 1 <= 1 THEN b ELSE step[n + 1][h[n]]
                    g == [h EXCEPT ![n + 1] = v]
        <3>2. v \in V
            OBVIOUS
        <3>3. g \in [Nat -> V] /\ \A k \in Nat : g[k] = IF k = n + 1 THEN v ELSE h[k]
            BY <3>2
        <3>. HIDE DEF g
        <3>4. ASSUME NEW k \in 0..(n + 1) PROVE g[k] = IF k <= 1 THEN b ELSE step[k][g[k - 1]]
            <4>1. CASE k = n + 1
                <5>1. CASE n = 0
                    BY <3>3, <4>1, <5>1
                <5>2. CASE n # 0
                    <6>1. (n + 1) - 1 = n /\ n # n + 1 /\ ~(n + 1 <= 1)
                        BY <5>2
                    <6>2. g[k - 1] = h[n] /\ g[k] = step[n + 1][h[n]]
                        BY <3>3, <4>1, <6>1
                    <6>. QED BY <4>1, <6>1, <6>2
                <5>. QED BY <5>1, <5>2
            <4>2. CASE k # n + 1
                <5>1. k \in 0..n /\ k \in Nat /\ g[k] = h[k]
                    BY <3>3, <4>2
                <5>2. h[k] = IF k <= 1 THEN b ELSE step[k][h[k - 1]]
                    BY <3>1, <5>1
                <5>3. ~(k <= 1) => k - 1 \in Nat /\ k - 1 # n + 1
                    BY <5>1
                <5>. QED BY <3>3, <5>1, <5>2, <5>3
            <4>. QED BY <4>1, <4>2
        <3>. QED BY <3>3, <3>4
    <2>. HIDE DEF Made
    <2>. QED BY <2>1, <2>2, NumberByNumber
<1>2. \A n \in Nat : n \in Same
    <2>1. 0 \in Same
        OBVIOUS
    <2>2. ASSUME NEW n \in Nat, n \in Same PROVE n + 1 \in Same
        <3>. SUFFICES ASSUME NEW h \in [Nat -> V], NEW g \in [Nat -> V], Upto(h, n + 1), Upto(g, n + 1)
                      PROVE  h[n + 1] = g[n + 1]
            OBVIOUS
        <3>1. Upto(h, n) /\ Upto(g, n)
            OBVIOUS
        <3>2. h[n] = g[n]
            BY <2>2, <3>1
        <3>3. n + 1 \in 0..(n + 1) /\ (n + 1) - 1 = n
            OBVIOUS
        <3>4. /\ h[n + 1] = IF n + 1 <= 1 THEN b ELSE step[n + 1][h[n]]
              /\ g[n + 1] = IF n + 1 <= 1 THEN b ELSE step[n + 1][g[n]]
            BY <3>3
        <3>. QED BY <3>2, <3>4
    <2>. HIDE DEF Same
    <2>. QED BY <2>1, <2>2, NumberByNumber
<1>. DEFINE hs == [n \in Nat |-> CHOOSE h \in [Nat -> V] : Upto(h, n)]
            f == [n \in Nat |-> hs[n][n]]
<1>3. \A n \in Nat : hs[n] \in [Nat -> V] /\ Upto(hs[n], n)
    BY <1>1
<1>. HIDE DEF hs
<1>4. f \in [Nat -> V]
    BY <1>3
<1>5. ASSUME NEW k \in Nat PROVE f[k] = IF k <= 1 THEN b ELSE step[k][f[k - 1]]
    <2>1. k \in 0..k
        OBVIOUS
    <2>2. f[k] = IF k <= 1 THEN b ELSE step[k][hs[k][k - 1]]
        BY <1>3, <2>1
    <2>3. CASE k <= 1
        BY <2>2, <2>3
    <2>4. CASE ~(k <= 1)
        <3>1. k - 1 \in Nat
            BY <2>4
        <3>2. Upto(hs[k], k - 1) /\ Upto(hs[k - 1], k - 1)
            <4>1. \A m \in 0..(k - 1) : m \in 0..k
                BY <3>1
            <4>2. Upto(hs[k], k) /\ Upto(hs[k - 1], k - 1)
                BY <1>3, <3>1
            <4>. QED BY <4>1, <4>2
        <3>3. hs[k][k - 1] = hs[k - 1][k - 1]
            <4>1. k - 1 \in Same /\ hs[k] \in [Nat -> V] /\ hs[k - 1] \in [Nat -> V]
                BY <1>2, <1>3, <3>1
            <4>. HIDE DEF Upto
            <4>. QED BY <3>2, <4>1
        <3>. QED BY <2>2, <2>4, <3>1, <3>3
    <2>. QED BY <2>3, <2>4
<1>. QED BY <1>4, <1>5

\* The function by which a sequence is folded from its first place on exists, and what
\* it makes of the first n places is made from n and what it makes of those before.
FoldsUp(it, b, step, S) ==
    it = [s \in SUBSET S |-> IF s = {} THEN b ELSE step[Max(s)][it[s \ {Max(s)}]]]

\* A set of places has a last one.
LEMMA LastPlace ==
    ASSUME NEW n \in Nat, NEW s \in SUBSET (1..n), s # {}
    PROVE  Max(s) \in s /\ s \ {Max(s)} \in SUBSET (1..n) /\ \A k \in s : k <= Max(s)
<1>1. s \in SUBSET Nat /\ \A k \in s : k <= n
    OBVIOUS
<1>2. Max(s) \in s /\ \A k \in s : Max(s) >= k
    BY <1>1, MaxIsGreatest
<1>3. \A k \in s : k <= Max(s)
    BY <1>1, <1>2
<1>. QED BY <1>2, <1>3

\* It exists, by induction on the last place.
LEMMA FoldsExist ==
    ASSUME NEW n \in Nat, NEW V, NEW b, NEW step, Leads(1..n, b, step, V)
    PROVE  \E it \in [SUBSET (1..n) -> V] : FoldsUp(it, b, step, 1..n)
<1>. DEFINE S == 1..n
            Value(h, s) == IF s = {} THEN b ELSE step[Max(s)][h[s \ {Max(s)}]]
            Made(h, k) == \A s \in SUBSET (1..k) : s \in SUBSET S => h[s] = Value(h, s)
            Good == {k \in Nat : \E h \in [SUBSET S -> V] : Made(h, k)}
<1>. USE DEF Leads
<1>1. \A h \in [SUBSET S -> V] : \A s \in SUBSET S : Value(h, s) \in V
    <2>. SUFFICES ASSUME NEW h \in [SUBSET S -> V], NEW s \in SUBSET S, s # {}
                  PROVE  step[Max(s)][h[s \ {Max(s)}]] \in V
        OBVIOUS
    <2>1. Max(s) \in 1..n /\ s \ {Max(s)} \in SUBSET S
        BY LastPlace
    <2>. QED BY <2>1
<1>2. \A k \in Nat : k \in Good
    <2>1. 0 \in Good
        <3>. DEFINE h == [s \in SUBSET S |-> b]
        <3>1. \A s \in SUBSET (1..0) : s = {}
            OBVIOUS
        <3>2. h \in [SUBSET S -> V] /\ Made(h, 0)
            BY <3>1
        <3>. HIDE DEF h, Made
        <3>. QED BY <3>2
    <2>2. ASSUME NEW k \in Nat, k \in Good PROVE k + 1 \in Good
        <3>1. PICK h \in [SUBSET S -> V] : Made(h, k)
            BY <2>2
        <3>. DEFINE g == [s \in SUBSET S |-> IF s \in SUBSET (1..k) THEN h[s] ELSE Value(h, s)]
        <3>2. g \in [SUBSET S -> V]
            BY <1>1
        <3>3. ASSUME NEW s \in SUBSET (1..(k + 1)), s \in SUBSET S PROVE g[s] = Value(g, s)
            <4>1. CASE s = {}
                <5>1. s \in SUBSET (1..k)
                    BY <4>1
                <5>2. g[s] = h[s] /\ h[s] = Value(h, s)
                    BY <3>1, <3>3, <5>1
                <5>. QED BY <4>1, <5>2
            <4>2. CASE s # {}
                <5>1. Max(s) \in s /\ s \ {Max(s)} \in SUBSET S /\ \A i \in s : i <= Max(s)
                    BY <3>3, <4>2, LastPlace
                <5>2. s \ {Max(s)} \in SUBSET (1..k)
                    <6>1. Max(s) \in 1..(k + 1)
                        BY <5>1
                    <6>2. ASSUME NEW i \in s, i # Max(s) PROVE i \in 1..k
                        <7>1. i \in Nat /\ 1 <= i /\ i <= Max(s) /\ Max(s) \in Nat /\ Max(s) <= k + 1
                            BY <5>1, <6>1
                        <7>. QED BY <6>2, <7>1
                    <6>. QED BY <6>2
                <5>3. g[s \ {Max(s)}] = h[s \ {Max(s)}]
                    BY <5>1, <5>2
                <5>4. g[s] = Value(h, s)
                    BY <3>1, <3>3
                <5>. QED BY <4>2, <5>3, <5>4
            <4>. QED BY <4>1, <4>2
        <3>4. Made(g, k + 1)
            BY <3>3
        <3>. HIDE DEF g, Made
        <3>. QED BY <3>2, <3>4
    <2>. HIDE DEF Good
    <2>. QED BY <2>1, <2>2, NumberByNumber
<1>3. PICK it \in [SUBSET S -> V] : Made(it, n)
    BY <1>2
<1>4. \A s \in SUBSET S : it[s] = IF s = {} THEN b ELSE step[Max(s)][it[s \ {Max(s)}]]
    BY <1>3
<1>. QED BY <1>4 DEF FoldsUp

\* Place by place: what it makes of the first k is made from what it makes of the first k - 1.
LEMMA FoldSteps ==
    ASSUME NEW n \in Nat, NEW b, NEW step, NEW it, FoldsUp(it, b, step, 1..n)
    PROVE  /\ it[1..0] = b
           /\ \A k \in 1..n : it[1..k] = step[k][it[1..(k - 1)]]
<1>1. it[{}] = b
    <2>1. {} \in SUBSET (1..n)
        OBVIOUS
    <2>. QED BY <2>1 DEF FoldsUp
<1>2. ASSUME NEW k \in 1..n PROVE it[1..k] = step[k][it[1..(k - 1)]]
    <2>0. k \in 1..k /\ k \in Nat /\ k <= n
        OBVIOUS
    <2>1. 1..k \in SUBSET (1..n) /\ 1..k # {}
        BY <2>0
    <2>2. Max(1..k) \in 1..k /\ \A i \in 1..k : i <= Max(1..k)
        BY <2>1, LastPlace
    <2>3. Max(1..k) = k
        BY <2>0, <2>2
    <2>4. (1..k) \ {k} = 1..(k - 1)
        OBVIOUS
    <2>5. it[1..k] = step[Max(1..k)][it[(1..k) \ {Max(1..k)}]]
        BY <2>1 DEF FoldsUp
    <2>. QED BY <2>3, <2>4, <2>5
<1>3. 1..0 = {}
    OBVIOUS
<1>. QED BY <1>1, <1>2, <1>3

-----------------------------------------------------------------------------
(* The queues of Discord: what is put together and cleared.                *)

\* The length of a message is a number, and grows by each embed that is appended.
LEMMA LengthGrows ==
    \A s \in Seq(Embeds) :
        Length(s) \in Nat /\ \A e \in Embeds : Length(Append(s, e)) = Length(s) + Size[e]
<1>. DEFINE Sizes(s) == [i \in DOMAIN s |-> Size[s[i]]]
<1>1. ASSUME NEW s \in Seq(Embeds)
      PROVE  /\ DOMAIN s = 1..Len(s) /\ IsFiniteSet(DOMAIN s) /\ Sizes(s) \in [DOMAIN s -> Nat]
             /\ Length(s) = SumOf(Sizes(s), DOMAIN s) /\ Length(s) \in Nat
    <2>1. DOMAIN s = 1..Len(s) /\ Len(s) \in Nat /\ \A i \in DOMAIN s : s[i] \in Embeds
        OBVIOUS
    <2>2. IsFiniteSet(DOMAIN s)
        BY <2>1, FS_Interval
    <2>3. Sizes(s) \in [DOMAIN s -> Nat]
        BY <2>1, QueueConstants
    <2>. DEFINE S == DOMAIN s
                g == Sizes(s)
                W(x) == Size[s[x]]
                Adds(jt) == jt = [t \in SUBSET S |->
                              IF t = {} THEN 0
                              ELSE W(CHOOSE x \in t : TRUE) + jt[t \ {CHOOSE x \in t : TRUE}]]
                it == CHOOSE jt : Adds(jt)
    <2>4. Length(s) = it[S]
        BY Zenon DEF Length, FoldSeq, FoldFunction, FoldFunctionOnSet, MapThenFoldSet
    <2>5. \A x \in S : g[x] = W(x)
        OBVIOUS
    <2>6. IsFiniteSet(S) /\ g \in [S -> Nat]
        <3>1. IsFiniteSet(S)
            BY <2>2
        <3>2. g \in [S -> Nat]
            BY <2>3
        <3>. QED BY <3>1, <3>2
    <2>. HIDE DEF S, g, W
    <2>7. \A jt : SumsUp(jt, g, S) <=> Adds(jt)
        <3>1. \A t \in SUBSET S : t # {} => g[PickOne(t)] = W(CHOOSE x \in t : TRUE)
            BY <2>5 DEF PickOne
        <3>. QED BY <3>1 DEF SumsUp, PickOne
    <2>8. Adds(it)
        <3>1. \E jt : Adds(jt)
            <4>. HIDE DEF Adds
            <4>. QED BY <2>6, <2>7, SumsExist
        <3>. HIDE DEF Adds
        <3>. QED BY <3>1
    <2>. HIDE DEF it, Adds
    <2>9. PICK jt : SumsUp(jt, g, S) /\ \A t \in SUBSET S : SumOf(g, t) = jt[t] /\ SumOf(g, t) \in Nat
        BY <2>6, SumOfIsTheSum
    <2>10. it[S] = jt[S]
        <3>1. SumsUp(it, g, S) /\ S \in SUBSET S
            BY <2>7, <2>8
        <3>. QED BY <2>6, <2>9, <3>1, SumsAgree
    <2>11. Length(s) = SumOf(g, S) /\ Length(s) \in Nat
        BY <2>4, <2>9, <2>10
    <2>. QED BY <2>1, <2>2, <2>3, <2>11 DEF S, g
<1>. SUFFICES ASSUME NEW s \in Seq(Embeds), NEW e \in Embeds
              PROVE  Length(Append(s, e)) = Length(s) + Size[e]
    BY <1>1
<1>. DEFINE r == Append(s, e)
            last == Len(s) + 1
<1>2. /\ r \in Seq(Embeds) /\ DOMAIN r = 1..last /\ DOMAIN s = 1..Len(s) /\ Len(s) \in Nat
      /\ r[last] = e /\ \A i \in DOMAIN s : r[i] = s[i]
    OBVIOUS
<1>3. last \in DOMAIN r /\ DOMAIN r \ {last} = DOMAIN s /\ DOMAIN s \in SUBSET DOMAIN r
    BY <1>2
<1>4. \A i \in DOMAIN s : Sizes(r)[i] = Sizes(s)[i]
    BY <1>2, <1>3
<1>5. Sizes(r)[last] = Size[e]
    BY <1>2, <1>3
<1>. HIDE DEF r, last, Sizes
<1>6. /\ IsFiniteSet(DOMAIN r) /\ IsFiniteSet(DOMAIN s)
      /\ Sizes(r) \in [DOMAIN r -> Nat] /\ Sizes(s) \in [DOMAIN s -> Nat]
      /\ Length(r) = SumOf(Sizes(r), DOMAIN r) /\ Length(s) = SumOf(Sizes(s), DOMAIN s) /\ Length(s) \in Nat
    BY <1>1, <1>2
<1>7. SumOf(Sizes(r), DOMAIN r) = Sizes(r)[last] + SumOf(Sizes(r), DOMAIN r \ {last})
    BY <1>3, <1>6, SumOfSplits
<1>8. SumOf(Sizes(r), DOMAIN s) = SumOf(Sizes(s), DOMAIN s)
    BY <1>3, <1>4, <1>6, SumOfAgrees
<1>9. Size[e] \in Nat
    BY QueueConstants
<1>10. Length(r) = Size[e] + Length(s)
    BY <1>3, <1>5, <1>6, <1>7, <1>8
<1>. QED BY <1>6, <1>9, <1>10 DEF r

\* Two parts are as long together as one after the other.
LEMMA LengthOfTwo ==
    ASSUME NEW a \in Seq(Embeds), NEW b \in Seq(Embeds)
    PROVE  Length(a \o b) = Length(a) + Length(b) /\ Length(a) \in Nat /\ Length(b) \in Nat
<1>. DEFINE Good == {n \in Nat : \A c \in Seq(Embeds) : Len(c) = n => Length(a \o c) = Length(a) + Length(c)}
<1>0. Length(<<>>) = 0
    <2>. DEFINE it == CHOOSE jt : jt = [t \in SUBSET {} |->
                              IF t = {} THEN 0
                              ELSE Size[<<>>[CHOOSE x \in t : TRUE]] + jt[t \ {CHOOSE x \in t : TRUE}]]
    <2>1. Length(<<>>) = it[{}]
        <3>1. DOMAIN <<>> = {}
            OBVIOUS
        <3>2. Length(<<>>) = (CHOOSE jt : jt = [t \in SUBSET DOMAIN <<>> |->
                              IF t = {} THEN 0
                              ELSE Size[<<>>[CHOOSE x \in t : TRUE]] + jt[t \ {CHOOSE x \in t : TRUE}]])[DOMAIN <<>>]
            BY Zenon DEF Length, FoldSeq, FoldFunction, FoldFunctionOnSet, MapThenFoldSet
        <3>. QED BY <3>1, <3>2
    <2>2. \E jt : jt = [t \in SUBSET {} |->
                              IF t = {} THEN 0
                              ELSE Size[<<>>[CHOOSE x \in t : TRUE]] + jt[t \ {CHOOSE x \in t : TRUE}]]
        <3>. DEFINE jt == [t \in SUBSET {} |-> 0]
        <3>1. jt = [t \in SUBSET {} |->
                              IF t = {} THEN 0
                              ELSE Size[<<>>[CHOOSE x \in t : TRUE]] + jt[t \ {CHOOSE x \in t : TRUE}]]
            OBVIOUS
        <3>. QED BY <3>1
    <2>3. it = [t \in SUBSET {} |->
                              IF t = {} THEN 0
                              ELSE Size[<<>>[CHOOSE x \in t : TRUE]] + it[t \ {CHOOSE x \in t : TRUE}]]
        BY <2>2
    <2>. HIDE DEF it
    <2>4. it[{}] = 0
        BY <2>3
    <2>. QED BY <2>1, <2>4
<1>1. Length(a) \in Nat
    <2>. QED BY LengthGrows, QueueConstants
<1>2. 0 \in Good
    <2>1. \A c \in Seq(Embeds) : Len(c) = 0 => c = <<>> /\ a \o c = a
        OBVIOUS
    <2>2. ASSUME NEW c \in Seq(Embeds), Len(c) = 0 PROVE Length(a \o c) = Length(a) + Length(c)
        <3>1. c = <<>> /\ a \o c = a
            BY <2>1, <2>2
        <3>2. Length(c) = 0 /\ Length(a \o c) = Length(a)
            <4>1. Length(c) = Length(<<>>)
                BY Zenon, <3>1
            <4>2. Length(a \o c) = Length(a)
                BY Zenon, <3>1
            <4>. QED BY <1>0, <4>1, <4>2
        <3>. QED BY <1>1, <3>2
    <2>. QED BY <2>2
<1>3. ASSUME NEW n \in Nat, n \in Good PROVE n + 1 \in Good
    <2>. SUFFICES ASSUME NEW c \in Seq(Embeds), Len(c) = n + 1
                  PROVE  Length(a \o c) = Length(a) + Length(c)
        OBVIOUS
    <2>. DEFINE d == SubSeq(c, 1, n)
                e == c[n + 1]
    <2>1. d \in Seq(Embeds) /\ Len(d) = n /\ e \in Embeds /\ c = Append(d, e)
        OBVIOUS
    <2>. HIDE DEF d, e
    <2>2. a \o c = Append(a \o d, e) /\ a \o d \in Seq(Embeds)
        BY <2>1
    <2>3. Length(a \o d) = Length(a) + Length(d)
        BY <1>3, <2>1
    <2>4. Length(a \o c) = Length(a \o d) + Size[e] /\ Length(c) = Length(d) + Size[e] /\ Length(d) \in Nat
        BY <2>1, <2>2, LengthGrows
    <2>5. Size[e] \in Nat
        BY <2>1, QueueConstants
    <2>. QED BY <1>1, <2>3, <2>4, <2>5
<1>. HIDE DEF Good
<1>4. Len(b) \in Good
    <2>1. Len(b) \in Nat
        OBVIOUS
    <2>. QED BY <1>2, <1>3, <2>1, NumberByNumber
<1>5. Length(b) \in Nat
    BY LengthGrows
<1>. QED BY <1>1, <1>4, <1>5 DEF Good
\* What a look at the messages has found, and what it is after one more.
Found == [embeds : Seq(Embeds), places : SUBSET Nat, full : BOOLEAN]
First == [embeds |-> messages[Chosen].embeds, places |-> {1}, full |-> FALSE]
After(k, g) ==
    IF g.full \/ ~ SameChannel(k) THEN g
    ELSE IF ~ Fits(g.embeds, messages[k].embeds) THEN [g EXCEPT !.full = TRUE]
    ELSE [g EXCEPT !.embeds = @ \o messages[k].embeds, !.places = @ \union {k}]

\* Gathered is what its definition says.
LEMMA GatheredSteps ==
    ASSUME messages \in Seq(Message), Chosen \in DOMAIN messages
    PROVE  /\ Gathered \in [DOMAIN messages -> Found]
           /\ \A k \in DOMAIN messages :
                Gathered[k] = IF k = 1 THEN First ELSE After(k, Gathered[k - 1])
<1>. DEFINE Gathers(h) == h = [k \in DOMAIN messages |-> IF k = 1 THEN First ELSE After(k, h[k - 1])]
<1>0. \A k \in DOMAIN messages : k \in Nat /\ k >= 1 /\ messages[k].embeds \in Seq(Embeds)
    <2>1. DOMAIN messages = 1..Len(messages) /\ Len(messages) \in Nat /\ \A k \in DOMAIN messages : messages[k] \in Message
        OBVIOUS
    <2>2. \A m \in Message : m.embeds \in Seq(Embeds)
        BY DEF Message
    <2>. QED BY <2>1, <2>2
<1>1. First \in Found
    BY <1>0 DEF First, Found
<1>2. \A k \in DOMAIN messages : \A g \in Found : After(k, g) \in Found
    <2>. SUFFICES ASSUME NEW k \in DOMAIN messages, NEW g \in Found PROVE After(k, g) \in Found
        OBVIOUS
    <2>1. g.embeds \in Seq(Embeds) /\ g.places \in SUBSET Nat /\ g.full \in BOOLEAN
        BY DEF Found
    <2>2. [g EXCEPT !.full = TRUE] \in Found
        BY DEF Found
    <2>3. g.embeds \o messages[k].embeds \in Seq(Embeds) /\ g.places \union {k} \in SUBSET Nat
        BY <1>0, <2>1
    <2>4. [g EXCEPT !.embeds = @ \o messages[k].embeds, !.places = @ \union {k}] \in Found
        <3>. DEFINE more == g.embeds \o messages[k].embeds
                    there == g.places \union {k}
        <3>. HIDE DEF more, there
        <3>1. [[g EXCEPT !.embeds = more] EXCEPT !.places = there] \in Found
            BY <2>3 DEF Found, more, there
        <3>. QED BY <3>1 DEF more, there, Found
    <2>. QED BY <2>2, <2>4 DEF After
<1>3. PICK step \in [Nat -> [Found -> Found]] : \A k \in DOMAIN messages : \A g \in Found : step[k][g] = After(k, g)
    <2>. DEFINE s == [k \in Nat |-> [g \in Found |-> IF k \in DOMAIN messages THEN After(k, g) ELSE g]]
    <2>1. s \in [Nat -> [Found -> Found]]
        BY <1>2
    <2>2. \A k \in DOMAIN messages : \A g \in Found : s[k][g] = After(k, g)
        BY <1>0
    <2>. HIDE DEF s
    <2>. QED BY <2>1, <2>2
<1>4. PICK b \in Found : b = First
    BY <1>1
<1>5. PICK f \in [Nat -> Found] : \A k \in Nat : f[k] = IF k <= 1 THEN b ELSE step[k][f[k - 1]]
    <2>1. Leads(Nat, b, step, Found)
        BY <1>3, <1>4 DEF Leads
    <2>2. \E f : Follows(f, b, step, Found)
        BY <2>1, Recursion
    <2>. QED BY <2>2 DEF Follows
<1>. DEFINE h == [k \in DOMAIN messages |-> f[k]]
<1>6. Gathers(h)
    <2>1. ASSUME NEW k \in DOMAIN messages PROVE h[k] = IF k = 1 THEN First ELSE After(k, h[k - 1])
        <3>1. k \in Nat /\ k >= 1 /\ h[k] = f[k]
            BY <1>0
        <3>2. CASE k = 1
            BY <1>4, <1>5, <3>1, <3>2
        <3>3. CASE k # 1
            <4>1. k - 1 \in DOMAIN messages /\ k - 1 \in Nat /\ ~(k <= 1)
                BY <3>1, <3>3
            <4>2. h[k - 1] = f[k - 1] /\ f[k - 1] \in Found
                BY <4>1
            <4>3. f[k] = step[k][f[k - 1]]
                BY <1>5, <3>1, <4>1
            <4>. QED BY <1>3, <3>1, <3>3, <4>2, <4>3
        <3>. QED BY <3>2, <3>3
    <2>. HIDE DEF h
    <2>2. h = [k \in DOMAIN messages |-> h[k]]
        BY DEF h
    <2>. QED BY <2>1, <2>2
<1>7. Gathered = CHOOSE g : Gathers(g)
    BY Zenon DEF Gathered, First, After
<1>8. Gathers(Gathered)
    <2>. HIDE DEF h, Gathers
    <2>. QED BY <1>6, <1>7
<1>9. \A k \in DOMAIN messages : Gathered[k] = IF k = 1 THEN First ELSE After(k, Gathered[k - 1])
    BY <1>8
<1>10. Gathered \in [DOMAIN messages -> Found]
    <2>. DEFINE Good == {n \in Nat : n + 1 \in DOMAIN messages => Gathered[n + 1] \in Found}
    <2>1. 0 \in Good
        BY <1>1, <1>9
    <2>2. ASSUME NEW n \in Nat, n \in Good PROVE n + 1 \in Good
        <3>. SUFFICES ASSUME (n + 1) + 1 \in DOMAIN messages PROVE Gathered[(n + 1) + 1] \in Found
            OBVIOUS
        <3>1. n + 1 \in DOMAIN messages /\ (n + 1) + 1 # 1 /\ ((n + 1) + 1) - 1 = n + 1
            OBVIOUS
        <3>2. Gathered[n + 1] \in Found
            BY <2>2, <3>1
        <3>3. Gathered[(n + 1) + 1] = After((n + 1) + 1, Gathered[n + 1])
            BY <1>9, <3>1
        <3>. QED BY <1>2, <3>2, <3>3
    <2>. HIDE DEF Good
    <2>3. \A n \in Nat : n \in Good
        BY <2>1, <2>2, NumberByNumber
    <2>4. \A k \in DOMAIN messages : Gathered[k] \in Found
        <3>1. ASSUME NEW k \in DOMAIN messages PROVE Gathered[k] \in Found
            <4>1. k - 1 \in Nat /\ (k - 1) + 1 = k
                BY <1>0
            <4>. QED BY <2>3, <4>1 DEF Good
        <3>. QED BY <3>1
    <2>. QED BY <1>8, <2>4
<1>. QED BY <1>9, <1>10

\* What is in two sequences put together is in one of them.
LEMMA InBoth ==
    ASSUME NEW a \in Seq(Embeds), NEW b \in Seq(Embeds)
    PROVE  \A e : e \in ToSet(a \o b) <=> e \in ToSet(a) \/ e \in ToSet(b)
<1>. DEFINE c == a \o b
<1>1. /\ DOMAIN a = 1..Len(a) /\ DOMAIN b = 1..Len(b) /\ DOMAIN c = 1..(Len(a) + Len(b))
      /\ Len(a) \in Nat /\ Len(b) \in Nat
      /\ \A i \in DOMAIN c : c[i] = IF i <= Len(a) THEN a[i] ELSE b[i - Len(a)]
    OBVIOUS
<1>. HIDE DEF c
<1>2. ASSUME NEW i \in DOMAIN a PROVE i \in DOMAIN c /\ c[i] = a[i]
    BY <1>1
<1>3. ASSUME NEW i \in DOMAIN b PROVE i + Len(a) \in DOMAIN c /\ c[i + Len(a)] = b[i]
    <2>1. i + Len(a) \in DOMAIN c /\ ~(i + Len(a) <= Len(a)) /\ (i + Len(a)) - Len(a) = i
        BY <1>1
    <2>. QED BY <1>1, <2>1
<1>4. ASSUME NEW i \in DOMAIN c PROVE (i \in DOMAIN a /\ c[i] = a[i]) \/ (i - Len(a) \in DOMAIN b /\ c[i] = b[i - Len(a)])
    BY <1>1
<1>5. \A e : e \in ToSet(c) <=> e \in ToSet(a) \/ e \in ToSet(b)
    BY <1>2, <1>3, <1>4 DEF ToSet
<1>. QED BY <1>5 DEF c

\* A message whose embeds go together: all were queued for its channel, and if they are
\* more than one they are within the limit.
GoTogether(embeds, c) ==
    /\ Len(embeds) > 0
    /\ \A k \in DOMAIN embeds : embeds[k] \in queued /\ Channel[embeds[k]] = c
    /\ Len(embeds) > 1 => Length(embeds) <= Limit
Whole == \A i \in DOMAIN messages : GoTogether(messages[i].embeds, messages[i].channel)

\* What a look has found: the head is among the places, the embeds go together, and are
\* those of the message chosen and of the places other than the head.
In(e, i) == e \in ToSet(messages[i].embeds)
Taken(g) == (g.places \ {1}) \union {Chosen}
Sound(k, g) ==
    /\ 1 \in g.places /\ g.places \in SUBSET (1..k)
    /\ GoTogether(g.embeds, messages[Chosen].channel)
    /\ \A e : e \in ToSet(g.embeds) <=> \E i \in Taken(g) : In(e, i)

\* Embeds that fit are put together.
LEMMA GoOn ==
    ASSUME NEW a \in Seq(Embeds), NEW b \in Seq(Embeds), NEW c,
           GoTogether(a, c), GoTogether(b, c), Fits(a, b)
    PROVE  GoTogether(a \o b, c)
<1>1. Len(a \o b) > 0
    BY DEF GoTogether
<1>2. \A k \in DOMAIN (a \o b) : (a \o b)[k] \in queued /\ Channel[(a \o b)[k]] = c
    <2>1. \A e : e \in ToSet(a) \/ e \in ToSet(b) => e \in queued /\ Channel[e] = c
        BY DEF GoTogether, ToSet
    <2>2. \A e : e \in ToSet(a \o b) => e \in queued /\ Channel[e] = c
        BY <2>1, InBoth
    <2>. QED BY <2>2 DEF ToSet
<1>3. Length(a \o b) <= Limit
    BY LengthOfTwo DEF Fits
<1>. QED BY <1>1, <1>2, <1>3 DEF GoTogether

\* A look finds what it should, at every place.
LEMMA GatheredIs ==
    ASSUME messages \in Seq(Message), Whole, Chosen \in DOMAIN messages
    PROVE  \A k \in DOMAIN messages : Sound(k, Gathered[k]) /\ Gathered[k] \in Found
<1>0. /\ DOMAIN messages = 1..Len(messages) /\ Len(messages) \in Nat
      /\ \A k \in DOMAIN messages : messages[k].embeds \in Seq(Embeds)
    <2>1. /\ DOMAIN messages = 1..Len(messages) /\ Len(messages) \in Nat
          /\ \A k \in DOMAIN messages : messages[k] \in Message
        OBVIOUS
    <2>2. \A m \in Message : m.embeds \in Seq(Embeds)
        BY DEF Message
    <2>. QED BY <2>1, <2>2
<1>1. Sound(1, First)
    <2>1. /\ First.embeds = messages[Chosen].embeds /\ First.places = {1}
        BY DEF First
    <2>2. GoTogether(messages[Chosen].embeds, messages[Chosen].channel)
        BY DEF Whole
    <2>3. Taken(First) = {Chosen}
        BY <2>1 DEF Taken
    <2>4. 1 \in First.places /\ First.places \in SUBSET (1..1)
        BY <2>1
    <2>5. \A e : e \in ToSet(First.embeds) <=> \E i \in Taken(First) : In(e, i)
        BY <2>1, <2>3 DEF In
    <2>. QED BY <2>1, <2>2, <2>4, <2>5 DEF Sound
<1>2. ASSUME NEW k \in DOMAIN messages, k # 1, NEW g \in Found, Sound(k - 1, g)
      PROVE  Sound(k, After(k, g))
    <2>1. /\ g.embeds \in Seq(Embeds) /\ g.places \in SUBSET (1..(k - 1)) /\ 1 \in g.places
          /\ GoTogether(g.embeds, messages[Chosen].channel)
          /\ \A e : e \in ToSet(g.embeds) <=> \E i \in Taken(g) : In(e, i)
        BY <1>2 DEF Sound, Found
    <2>2. k \in Nat /\ g.places \in SUBSET (1..k)
        BY <1>0, <2>1
    <2>3. Sound(k, g)
        BY <2>1, <2>2 DEF Sound
    <2>4. Sound(k, [g EXCEPT !.full = TRUE])
        <3>. DEFINE h == [g EXCEPT !.full = TRUE]
        <3>1. h.embeds = g.embeds /\ h.places = g.places
            BY DEF Found
        <3>. HIDE DEF h
        <3>2. Taken(h) = Taken(g)
            BY <3>1 DEF Taken
        <3>3. Sound(k, h)
            BY <2>1, <2>2, <3>1, <3>2 DEF Sound
        <3>. QED BY <3>3 DEF h
    <2>5. ASSUME SameChannel(k), Fits(g.embeds, messages[k].embeds)
          PROVE  Sound(k, [g EXCEPT !.embeds = @ \o messages[k].embeds, !.places = @ \union {k}])
        <3>. DEFINE more == messages[k].embeds
                    h == [g EXCEPT !.embeds = @ \o messages[k].embeds, !.places = @ \union {k}]
        <3>1. h.embeds = g.embeds \o more /\ h.places = g.places \union {k}
            BY DEF Found
        <3>2. more \in Seq(Embeds) /\ GoTogether(more, messages[Chosen].channel)
            BY <1>0, <2>5 DEF Whole, SameChannel
        <3>3. \A e : In(e, k) <=> e \in ToSet(more)
            BY DEF In
        <3>. HIDE DEF h, more
        <3>4. GoTogether(h.embeds, messages[Chosen].channel)
            <4>1. Fits(g.embeds, more)
                BY <2>5 DEF more
            <4>. QED BY <2>1, <3>1, <3>2, <4>1, GoOn
        <3>5. Taken(h) = Taken(g) \union {k}
            BY <1>2, <3>1 DEF Taken
        <3>6. \A e : e \in ToSet(h.embeds) <=> e \in ToSet(g.embeds) \/ e \in ToSet(more)
            BY <2>1, <3>1, <3>2, InBoth
        <3>7. \A e : e \in ToSet(h.embeds) <=> \E i \in Taken(h) : In(e, i)
            BY <2>1, <3>3, <3>5, <3>6
        <3>8. 1 \in h.places /\ h.places \in SUBSET (1..k)
            BY <1>0, <2>1, <2>2, <3>1
        <3>9. Sound(k, h)
            BY <3>4, <3>7, <3>8 DEF Sound
        <3>. QED BY <3>9 DEF h
    <2>. QED BY <2>3, <2>4, <2>5 DEF After
<1>3. /\ Gathered \in [DOMAIN messages -> Found]
      /\ \A k \in DOMAIN messages : Gathered[k] = IF k = 1 THEN First ELSE After(k, Gathered[k - 1])
    BY GatheredSteps
<1>. DEFINE Good == {n \in Nat : n + 1 \in DOMAIN messages => Sound(n + 1, Gathered[n + 1])}
<1>4. 0 \in Good
    <2>1. 1 \in DOMAIN messages => Gathered[1] = First
        BY <1>3
    <2>. QED BY <1>1, <2>1
<1>5. ASSUME NEW n \in Nat, n \in Good PROVE n + 1 \in Good
    <2>. SUFFICES ASSUME (n + 1) + 1 \in DOMAIN messages PROVE Sound((n + 1) + 1, Gathered[(n + 1) + 1])
        OBVIOUS
    <2>. DEFINE k == (n + 1) + 1
    <2>1. k \in DOMAIN messages /\ k # 1 /\ k - 1 = n + 1 /\ n + 1 \in DOMAIN messages
        BY <1>0
    <2>. HIDE DEF k
    <2>2. Sound(k - 1, Gathered[k - 1]) /\ Gathered[k - 1] \in Found
        BY <1>3, <1>5, <2>1
    <2>3. Gathered[k] = After(k, Gathered[k - 1])
        BY <1>3, <2>1
    <2>4. Sound(k, Gathered[k])
        BY <1>2, <2>1, <2>2, <2>3
    <2>. QED BY <2>4 DEF k
<1>. HIDE DEF Good
<1>6. \A n \in Nat : n \in Good
    BY <1>4, <1>5, NumberByNumber
<1>7. ASSUME NEW k \in DOMAIN messages PROVE Sound(k, Gathered[k])
    <2>1. k - 1 \in Nat /\ (k - 1) + 1 = k
        BY <1>0
    <2>. QED BY <1>6, <2>1 DEF Good
<1>. QED BY <1>3, <1>7

\* The messages that are kept of the first k, when those at the places are cleared.
KeptUpTo(K, places) ==
    /\ K \in [0..Len(messages) -> Seq(Message)]
    /\ K[0] = <<>>
    /\ \A k \in 1..Len(messages) :
        K[k] = IF k \in places THEN K[k - 1] ELSE Append(K[k - 1], messages[k])

\* Cleared keeps the messages that are not at a place of Outgoing, one after the other.
LEMMA ClearedSteps ==
    ASSUME messages \in Seq(Message)
    PROVE  \E K : KeptUpTo(K, Outgoing.places) /\ Cleared = K[Len(messages)]
<1>. DEFINE n == Len(messages)
            ids == [i \in DOMAIN messages |-> i]
            Adds(x, kept) == IF x \in Outgoing.places THEN kept ELSE Append(kept, messages[x])
            Folds(it) == it = [s \in SUBSET DOMAIN ids |-> IF s = {} THEN <<>> ELSE
                                   IF ids[Max(s)] \in Outgoing.places THEN it[s \ {Max(s)}]
                                   ELSE Append(it[s \ {Max(s)}], messages[ids[Max(s)]])]
            fold == CHOOSE it : Folds(it)
<1>1. n \in Nat /\ DOMAIN messages = 1..n /\ \A i \in 1..n : messages[i] \in Message
    OBVIOUS
<1>2. Cleared = fold[DOMAIN ids]
    BY Zenon DEF Cleared, FoldLeftDomain, FoldLeft, MapThenFoldSet
<1>3. DOMAIN ids = 1..n
    BY <1>1
<1>4. PICK step \in [1..n -> [Seq(Message) -> Seq(Message)]] :
        \A k \in 1..n : \A kept \in Seq(Message) : step[k][kept] = Adds(k, kept)
    <2>. DEFINE s == [k \in 1..n |-> [kept \in Seq(Message) |-> Adds(k, kept)]]
    <2>1. \A k \in 1..n : \A kept \in Seq(Message) : Adds(k, kept) \in Seq(Message)
        BY <1>1
    <2>2. s \in [1..n -> [Seq(Message) -> Seq(Message)]]
        BY <2>1
    <2>3. \A k \in 1..n : \A kept \in Seq(Message) : s[k][kept] = Adds(k, kept)
        OBVIOUS
    <2>. HIDE DEF s, Adds
    <2>. QED BY <2>2, <2>3
<1>5. PICK b \in Seq(Message) : b = <<>>
    <2>1. <<>> \in Seq(Message)
        OBVIOUS
    <2>. QED BY <2>1
<1>6. PICK m \in Nat : m = n
    BY <1>1
<1>7. PICK it \in [SUBSET (1..m) -> Seq(Message)] : FoldsUp(it, b, step, 1..m)
    <2>1. Leads(1..m, b, step, Seq(Message))
        BY <1>4, <1>5, <1>6 DEF Leads
    <2>2. \E it \in [SUBSET (1..m) -> Seq(Message)] : FoldsUp(it, b, step, 1..m)
        BY <2>1, FoldsExist
    <2>. QED BY <2>2
<1>8. \A jt : (jt \in [SUBSET (1..n) -> Seq(Message)] /\ FoldsUp(jt, b, step, 1..n)) => Folds(jt)
    <2>. SUFFICES ASSUME NEW jt \in [SUBSET (1..n) -> Seq(Message)], FoldsUp(jt, b, step, 1..n) PROVE Folds(jt)
        OBVIOUS
    <2>1. ASSUME NEW s \in SUBSET DOMAIN ids
          PROVE  jt[s] = IF s = {} THEN <<>> ELSE
                                   IF ids[Max(s)] \in Outgoing.places THEN jt[s \ {Max(s)}]
                                   ELSE Append(jt[s \ {Max(s)}], messages[ids[Max(s)]])
        <3>1. jt[s] = IF s = {} THEN b ELSE step[Max(s)][jt[s \ {Max(s)}]]
            BY <1>3 DEF FoldsUp
        <3>2. CASE s = {}
            BY <1>5, <3>1, <3>2
        <3>3. CASE s # {}
            <4>1. Max(s) \in 1..n /\ s \ {Max(s)} \in SUBSET (1..n)
                BY <1>1, <1>3, <3>3, LastPlace
            <4>2. ids[Max(s)] = Max(s)
                BY <1>1, <4>1
            <4>3. jt[s \ {Max(s)}] \in Seq(Message)
                BY <4>1
            <4>4. step[Max(s)][jt[s \ {Max(s)}]] = Adds(Max(s), jt[s \ {Max(s)}])
                <5>. HIDE DEF Adds
                <5>. QED BY <1>4, <4>1, <4>3
            <4>. QED BY <3>1, <3>3, <4>2, <4>4
        <3>. QED BY <3>2, <3>3
    <2>2. jt = [s \in SUBSET DOMAIN ids |-> jt[s]]
        BY <1>3
    <2>. HIDE DEF ids
    <2>. QED BY <2>1, <2>2
<1>9. Folds(fold)
    <2>1. Folds(it)
        BY <1>6, <1>7, <1>8
    <2>. HIDE DEF Folds
    <2>. QED BY <2>1
<1>10. \A s \in SUBSET (1..n) : fold[s] = IF s = {} THEN <<>> ELSE
                                   IF Max(s) \in Outgoing.places THEN fold[s \ {Max(s)}]
                                   ELSE Append(fold[s \ {Max(s)}], messages[Max(s)])
    <2>. HIDE DEF fold
    <2>. SUFFICES ASSUME NEW s \in SUBSET (1..n)
                  PROVE fold[s] = IF s = {} THEN <<>> ELSE
                                   IF Max(s) \in Outgoing.places THEN fold[s \ {Max(s)}]
                                   ELSE Append(fold[s \ {Max(s)}], messages[Max(s)])
        OBVIOUS
    <2>1. fold[s] = IF s = {} THEN <<>> ELSE
                                   IF ids[Max(s)] \in Outgoing.places THEN fold[s \ {Max(s)}]
                                   ELSE Append(fold[s \ {Max(s)}], messages[ids[Max(s)]])
        BY <1>3, <1>9
    <2>2. s # {} => ids[Max(s)] = Max(s)
        BY <1>1, LastPlace
    <2>. HIDE DEF ids
    <2>. QED BY <2>1, <2>2
<1>. HIDE DEF fold, Folds, ids
<1>. DEFINE K == [k \in 0..n |-> fold[1..k]]
<1>10a. \A k \in 0..n : K[k] = fold[1..k]
    OBVIOUS
<1>11. K[0] = <<>>
    <2>1. 1..0 = {} /\ 0 \in 0..n /\ {} \in SUBSET (1..n)
        BY <1>1
    <2>2. fold[{}] = <<>>
        BY <1>10, <2>1
    <2>. QED BY <2>1, <2>2
<1>12. ASSUME NEW k \in 1..n
       PROVE  K[k] = IF k \in Outgoing.places THEN K[k - 1] ELSE Append(K[k - 1], messages[k])
    <2>0. k \in Nat /\ k \in 1..k /\ k <= n /\ k \in 0..n /\ k - 1 \in 0..n
        BY <1>1
    <2>1. 1..k \in SUBSET (1..n) /\ 1..k # {}
        <3>1. ASSUME NEW i \in 1..k PROVE i \in 1..n
            BY <1>1, <2>0
        <3>. QED BY <2>0, <3>1
    <2>2. Max(1..k) \in 1..k /\ \A i \in 1..k : i <= Max(1..k)
        BY <1>1, <2>1, LastPlace
    <2>3. Max(1..k) = k
        BY <2>0, <2>2
    <2>4. (1..k) \ {k} = 1..(k - 1)
        OBVIOUS
    <2>5. K[k] = fold[1..k] /\ K[k - 1] = fold[1..(k - 1)]
        BY <1>10a, <2>0
    <2>. HIDE DEF K
    <2>. QED BY <1>10, <2>1, <2>3, <2>4, <2>5
<1>. HIDE DEF K
<1>13. \A k \in 0..n : K[k] \in Seq(Message)
    <2>. DEFINE Good == {k \in Nat : k \in 0..n => K[k] \in Seq(Message)}
    <2>1. 0 \in Good
        BY <1>5, <1>11
    <2>2. ASSUME NEW k \in Nat, k \in Good PROVE k + 1 \in Good
        <3>. SUFFICES ASSUME k + 1 \in 0..n PROVE K[k + 1] \in Seq(Message)
            OBVIOUS
        <3>1. k + 1 \in 1..n /\ (k + 1) - 1 = k /\ K[k] \in Seq(Message)
            BY <1>1, <2>2
        <3>2. messages[k + 1] \in Message
            BY <1>1, <3>1
        <3>3. K[k + 1] = IF k + 1 \in Outgoing.places THEN K[k] ELSE Append(K[k], messages[k + 1])
            BY <1>12, <3>1
        <3>. QED BY <3>1, <3>2, <3>3
    <2>. HIDE DEF Good
    <2>3. \A k \in Nat : k \in Good
        BY <2>1, <2>2, NumberByNumber
    <2>. QED BY <1>1, <2>3 DEF Good
<1>14. K = [k \in 0..n |-> K[k]]
    BY DEF K
<1>15. KeptUpTo(K, Outgoing.places)
    BY <1>11, <1>12, <1>13, <1>14 DEF KeptUpTo
<1>16. Cleared = K[n]
    BY <1>1, <1>2, <1>3 DEF K
<1>. QED BY <1>15, <1>16

\* No embed is in two of the messages.
Apart(s) == \A i, k \in DOMAIN s : \A e : e \in ToSet(s[i].embeds) /\ e \in ToSet(s[k].embeds) => i = k

\* What is kept are the messages that were not cleared, all of them, and each once.
LEMMA ClearedKeeps ==
    ASSUME messages \in Seq(Message)
    PROVE  /\ Cleared \in Seq(Message)
           /\ \A j \in DOMAIN Cleared : \E i \in DOMAIN messages \ Outgoing.places : Cleared[j] = messages[i]
           /\ \A i \in DOMAIN messages \ Outgoing.places : \E j \in DOMAIN Cleared : Cleared[j] = messages[i]
           /\ Apart(messages) => Apart(Cleared)
<1>1. PICK K, P, n : /\ P = Outgoing.places /\ n = Len(messages) /\ n \in Nat
                     /\ KeptUpTo(K, P) /\ Cleared = K[n]
    <2>1. Len(messages) \in Nat
        OBVIOUS
    <2>. QED BY <2>1, ClearedSteps
<1>2. DOMAIN messages = 1..n /\ \A i \in 1..n : messages[i] \in Message
    BY <1>1
<1>3. /\ \A k \in 0..n : K[k] \in Seq(Message)
      /\ K[0] = <<>>
      /\ \A k \in 1..n : K[k] = IF k \in P THEN K[k - 1] ELSE Append(K[k - 1], messages[k])
    BY <1>1 DEF KeptUpTo
<1>. DEFINE Ours(s, k) == \A j \in DOMAIN s : \E i \in (1..k) \ P : s[j] = messages[i]
            Theirs(s, k) == \A i \in (1..k) \ P : \E j \in DOMAIN s : s[j] = messages[i]
            Good == {k \in Nat : k \in 0..n =>
                        Ours(K[k], k) /\ Theirs(K[k], k) /\ (Apart(messages) => Apart(K[k]))}
<1>4. 0 \in Good
    <2>1. DOMAIN K[0] = {} /\ 1..0 = {}
        BY <1>3
    <2>2. Apart(K[0])
        BY <2>1 DEF Apart
    <2>. QED BY <2>1, <2>2
<1>5. ASSUME NEW m \in Nat, m \in Good PROVE m + 1 \in Good
    <2>. SUFFICES ASSUME m + 1 \in 0..n
                  PROVE  /\ Ours(K[m + 1], m + 1) /\ Theirs(K[m + 1], m + 1)
                         /\ Apart(messages) => Apart(K[m + 1])
        OBVIOUS
    <2>1. PICK k, s : k = m + 1 /\ s = K[m]
        OBVIOUS
    <2>2. /\ k \in 1..n /\ k - 1 = m /\ s \in Seq(Message) /\ messages[k] \in Message
          /\ Ours(s, m) /\ Theirs(s, m) /\ (Apart(messages) => Apart(s))
        BY <1>1, <1>2, <1>3, <1>5, <2>1
    <2>3. \A i : i \in 1..k <=> i \in 1..m \/ i = k
        BY <2>1, <2>2
    <2>4. ~(k \in 1..m)
        BY <2>1
    <2>5. K[k] = IF k \in P THEN s ELSE Append(s, messages[k])
        BY <1>3, <2>1, <2>2
    <2>6. CASE k \in P
        <3>1. K[k] = s /\ (1..k) \ P = (1..m) \ P
            BY <2>3, <2>5, <2>6
        <3>. QED BY <2>1, <2>2, <3>1
    <2>7. CASE k \notin P
        <3>1. PICK t, last : t = Append(s, messages[k]) /\ last = Len(s) + 1
            OBVIOUS
        <3>2. /\ DOMAIN s = 1..Len(s) /\ DOMAIN t = 1..last /\ Len(s) \in Nat
              /\ t[last] = messages[k] /\ \A j \in DOMAIN s : t[j] = s[j]
            BY <2>2, <3>1, SMTT(30)
        <3>3. \A j : j \in DOMAIN t <=> j \in DOMAIN s \/ j = last
            BY <3>1, <3>2
        <3>4. K[m + 1] = t
            BY <2>1, <2>5, <2>7, <3>1
        <3>5. Ours(t, m + 1)
            <4>1. ASSUME NEW j \in DOMAIN t PROVE \E i \in (1..k) \ P : t[j] = messages[i]
                <5>1. CASE j \in DOMAIN s
                    BY <2>2, <2>3, <3>2, <5>1
                <5>2. CASE j = last
                    <6>1. k \in (1..k) \ P
                        BY <2>3, <2>7
                    <6>. QED BY <3>2, <5>2, <6>1
                <5>. QED BY <3>3, <5>1, <5>2
            <4>. QED BY <2>1, <4>1
        <3>6. Theirs(t, m + 1)
            BY <2>1, <2>2, <2>3, <2>7, <3>2, <3>3
        <3>7. ASSUME Apart(messages) PROVE Apart(t)
            <4>1. \A j \in DOMAIN s : \A e : ~(e \in ToSet(s[j].embeds) /\ e \in ToSet(messages[k].embeds))
                <5>. SUFFICES ASSUME NEW j \in DOMAIN s, NEW e,
                                     e \in ToSet(s[j].embeds), e \in ToSet(messages[k].embeds)
                              PROVE  FALSE
                    OBVIOUS
                <5>1. PICK i \in (1..m) \ P : s[j] = messages[i]
                    BY <2>2
                <5>2. i \in DOMAIN messages /\ k \in DOMAIN messages /\ i # k
                    <6>1. i \in Nat /\ 1 <= i /\ i <= m /\ k <= n
                        BY <2>2
                    <6>. QED BY <1>1, <1>2, <2>1, <2>2, <6>1
                <5>. QED BY <3>7, <5>1, <5>2 DEF Apart
            <4>2. Apart(s)
                BY <2>2, <3>7
            <4>. QED BY <3>2, <3>3, <4>1, <4>2 DEF Apart
        <3>. QED BY <3>4, <3>5, <3>6, <3>7
    <2>. QED BY <2>6, <2>7
<1>. HIDE DEF Good
<1>6. n \in Good
    BY <1>1, <1>4, <1>5, NumberByNumber
<1>7. n \in 0..n
    BY <1>1
<1>. QED BY <1>1, <1>2, <1>3, <1>6, <1>7, ZenonT(60) DEF Good

\* The message chosen is the first one that may be posted.
LEMMA ChosenIs ==
    ASSUME messages \in Seq(Message), Available # {}
    PROVE  /\ Chosen \in DOMAIN messages /\ messages[Chosen].channel \notin waiting
           /\ \A k \in DOMAIN messages : messages[k].channel \notin waiting => Chosen <= k
<1>1. Available \in SUBSET Nat
    <2>1. DOMAIN messages = 1..Len(messages)
        OBVIOUS
    <2>. QED BY <2>1 DEF Available
<1>2. \E i \in Available : \A k \in Available : i <= k
    BY <1>1, LeastNatural
<1>3. Chosen \in Available /\ \A k \in Available : Chosen <= k
    BY <1>2 DEF Chosen
<1>. QED BY <1>3 DEF Available

\* What goes out: embeds that go together, those of the message chosen and of the
\* places that are cleared behind the head.
LEMMA OutgoingIs ==
    ASSUME messages \in Seq(Message), Whole, Post
    PROVE  /\ Chosen \in DOMAIN messages /\ messages[Chosen].channel \notin waiting
           /\ Outgoing \in Found /\ Sound(Len(messages), Outgoing)
<1>1. Chosen \in DOMAIN messages /\ messages[Chosen].channel \notin waiting
    BY ChosenIs DEF Post
<1>2. Len(messages) \in DOMAIN messages
    <2>1. DOMAIN messages = 1..Len(messages) /\ Len(messages) \in Nat
        OBVIOUS
    <2>. QED BY <1>1, <2>1
<1>. QED BY <1>1, <1>2, GatheredIs DEF Outgoing

-----------------------------------------------------------------------------
(* The invariant of the queue of messages.                                 *)

MessageTypes ==
    /\ messages \in Seq(Message) /\ posts \in Seq(Message) /\ refused \subseteq Embeds
    /\ waiting \subseteq Channels /\ token \in BOOLEAN /\ faults \in 0..MaxFaults
    /\ queued \subseteq Embeds \union Ops

\* What was posted had been queued.
PostsQueued == \A i \in DOMAIN posts : \A e \in ToSet(posts[i].embeds) : e \in queued

\* As long as all embeds are for one channel, each queued one was posted or refused, or
\* waits; and as long as Discord answers, it does one of these once.
Kept(e) == \E i \in DOMAIN messages : e \in ToSet(messages[i].embeds)
Went(e) == \E i \in DOMAIN posts : e \in ToSet(posts[i].embeds)
NoneLost == OneChannel => \A e \in Embeds : e \in queued => e \in refused \/ Went(e) \/ Kept(e)
Once ==
    (OneChannel /\ faults = 0) =>
        /\ Apart(messages) /\ Apart(posts)
        /\ \A e : ~(Went(e) /\ Kept(e))

MessageInv == MessageTypes /\ Whole /\ PostsQueued /\ NoneLost /\ Once

\* If all embeds are for one channel, the message chosen is the head.
LEMMA HeadIsChosen ==
    ASSUME MessageInv, Post, OneChannel
    PROVE  Chosen = 1 /\ Taken(Outgoing) = Outgoing.places
<1>1. /\ messages \in Seq(Message) /\ Whole
    BY DEF MessageInv, MessageTypes
<1>2. /\ Chosen \in DOMAIN messages /\ messages[Chosen].channel \notin waiting
      /\ Sound(Len(messages), Outgoing)
    BY <1>1, OutgoingIs
<1>3. DOMAIN messages = 1..Len(messages) /\ Len(messages) \in Nat
    BY <1>1
<1>4. ASSUME NEW i \in DOMAIN messages
      PROVE  \E e \in Embeds \intersect queued : messages[i].channel = Channel[e]
    <2>1. messages[i] \in Message
        BY <1>1
    <2>2. messages[i].embeds \in Seq(Embeds)
        BY <2>1 DEF Message
    <2>3. 1 \in DOMAIN messages[i].embeds /\ messages[i].embeds[1] \in Embeds
        BY <1>1, <2>2 DEF Whole, GoTogether
    <2>. QED BY <1>1, <2>3 DEF Whole, GoTogether
<1>5. 1 \in DOMAIN messages /\ Chosen \in Nat /\ Chosen >= 1
    BY <1>2, <1>3
<1>6. messages[1].channel = messages[Chosen].channel
    BY <1>2, <1>4, <1>5 DEF OneChannel
<1>7. Chosen <= 1
    BY <1>1, <1>2, <1>5, <1>6, ChosenIs DEF Post
<1>8. Chosen = 1
    BY <1>5, <1>7
<1>9. 1 \in Outgoing.places
    BY <1>2 DEF Sound
<1>. QED BY <1>8, <1>9 DEF Taken

\* Embeds that go together still do when more are queued.
LEMMA StillTogether ==
    ASSUME queued \subseteq queued', NEW s, NEW c, GoTogether(s, c)
    PROVE  GoTogether(s, c)'
BY DEF GoTogether

\* What happens at the other queue, and that time passes, does not matter here.
LEMMA MessagesStay ==
    ASSUME MessageInv, UNCHANGED messageVars, waiting' \subseteq Channels, token' \in BOOLEAN,
           faults' \in 0..MaxFaults, faults' = 0 => faults = 0,
           queued \subseteq queued', queued' \subseteq queued \union Ops
    PROVE  MessageInv'
<1>. USE DEF messageVars
<1>1. MessageTypes'
    BY DEF MessageInv, MessageTypes
<1>2. Whole'
    <2>1. ASSUME NEW i \in DOMAIN messages PROVE GoTogether(messages[i].embeds, messages[i].channel)'
        <3>1. PICK s, c : s = messages[i].embeds /\ c = messages[i].channel
            OBVIOUS
        <3>2. GoTogether(s, c)'
            BY <3>1, StillTogether DEF MessageInv, Whole
        <3>. QED BY <3>1, <3>2
    <2>. QED BY <2>1 DEF Whole
<1>3. PostsQueued'
    BY DEF MessageInv, PostsQueued
<1>4. \A e \in Embeds : e \in queued' <=> e \in queued
    BY QueueConstants
<1>5. OneChannel' <=> OneChannel
    BY <1>4 DEF OneChannel
<1>6. \A e : (Kept(e)' <=> Kept(e)) /\ (Went(e)' <=> Went(e))
    BY DEF Kept, Went
<1>7. NoneLost'
    BY <1>4, <1>5, <1>6 DEF MessageInv, NoneLost
<1>8. Once'
    <2>1. (Apart(messages)' <=> Apart(messages)) /\ (Apart(posts)' <=> Apart(posts))
        BY DEF Apart
    <2>. QED BY <1>5, <1>6, <2>1 DEF MessageInv, Once
<1>. QED BY <1>1, <1>2, <1>3, <1>7, <1>8 DEF MessageInv

\* A notification is new, and waits.
LEMMA QueueKeeps ==
    ASSUME MessageInv, NEW e \in Embeds, QueueDiscordMessage(e)
    PROVE  MessageInv'
<1>1. PICK new : new = [channel |-> Channel[e], embeds |-> <<e>>]
    OBVIOUS
<1>2. /\ messages \in Seq(Message) /\ messages' = Append(messages, new)
      /\ e \notin queued /\ queued' = queued \union {e}
      /\ UNCHANGED <<waiting, token, faults, posts, refused>>
    BY <1>1 DEF MessageInv, MessageTypes, QueueDiscordMessage
<1>3. new \in Message /\ new.channel = Channel[e] /\ ToSet(new.embeds) = {e}
      /\ DOMAIN new.embeds = {1} /\ new.embeds[1] = e /\ Len(new.embeds) = 1
    <2>1. <<e>> \in Seq(Embeds) /\ DOMAIN <<e>> = {1} /\ <<e>>[1] = e /\ Len(<<e>>) = 1
        OBVIOUS
    <2>2. Channel[e] \in Channels
        BY QueueConstants
    <2>3. ToSet(<<e>>) = {e}
        BY <2>1 DEF ToSet
    <2>. QED BY <1>1, <2>1, <2>2, <2>3 DEF Message
<1>4. PICK last : last = Len(messages) + 1
    OBVIOUS
<1>5. /\ messages' \in Seq(Message)
      /\ \A i : i \in DOMAIN messages' <=> i \in DOMAIN messages \/ i = last
      /\ last \notin DOMAIN messages
      /\ messages'[last] = new /\ \A i \in DOMAIN messages : messages'[i] = messages[i]
    BY <1>2, <1>3, <1>4
<1>6. MessageTypes'
    BY <1>2, <1>5 DEF MessageInv, MessageTypes
<1>7. Whole'
    <2>1. ASSUME NEW i \in DOMAIN messages' PROVE GoTogether(messages[i].embeds, messages[i].channel)'
        <3>1. CASE i \in DOMAIN messages
            <4>1. PICK s, c : s = messages[i].embeds /\ c = messages[i].channel
                OBVIOUS
            <4>2. GoTogether(s, c)'
                BY <1>2, <3>1, <4>1, StillTogether DEF MessageInv, Whole
            <4>. QED BY <1>5, <3>1, <4>1, <4>2
        <3>2. CASE i = last
            <4>1. GoTogether(new.embeds, new.channel)'
                BY <1>2, <1>3 DEF GoTogether
            <4>. QED BY <1>5, <3>2, <4>1
        <3>. QED BY <1>5, <3>1, <3>2
    <2>. QED BY <2>1 DEF Whole
<1>8. PostsQueued'
    BY <1>2 DEF MessageInv, PostsQueued
<1>9. OneChannel' => OneChannel
    BY <1>2 DEF OneChannel
<1>10. \A f : (Kept(f)' <=> Kept(f) \/ f = e) /\ (Went(f)' <=> Went(f))
    BY <1>2, <1>3, <1>5 DEF Kept, Went
<1>11. NoneLost'
    BY <1>2, <1>9, <1>10 DEF MessageInv, NoneLost
<1>12. ~Went(e) /\ ~Kept(e)
    <2>1. ~Went(e)
        BY <1>2 DEF MessageInv, PostsQueued, Went
    <2>2. ~Kept(e)
        BY <1>2 DEF MessageInv, Whole, GoTogether, Kept, ToSet
    <2>. QED BY <2>1, <2>2
<1>13. Once'
    <2>. SUFFICES ASSUME OneChannel', faults' = 0
                  PROVE  Apart(messages)' /\ Apart(posts)' /\ \A f : ~(Went(f)' /\ Kept(f)')
        BY DEF Once
    <2>1. Apart(messages) /\ Apart(posts) /\ \A f : ~(Went(f) /\ Kept(f))
        BY <1>2, <1>9 DEF MessageInv, Once
    <2>2. \A f : ~(Went(f)' /\ Kept(f)')
        BY <1>10, <1>12, <2>1
    <2>3. Apart(posts)'
        BY <1>2, <2>1 DEF Apart
    <2>4. Apart(messages)'
        <3>1. \A i \in DOMAIN messages : e \notin ToSet(messages[i].embeds)
            BY <1>12 DEF Kept
        <3>2. \A i \in DOMAIN messages' : \A f : f \in ToSet(messages'[i].embeds) <=>
                  (i \in DOMAIN messages /\ f \in ToSet(messages[i].embeds)) \/ (i = last /\ f = e)
            BY <1>3, <1>5
        <3>3. \A i, k \in DOMAIN messages' : \A f :
                  f \in ToSet(messages'[i].embeds) /\ f \in ToSet(messages'[k].embeds) => i = k
            BY <2>1, <3>1, <3>2 DEF Apart
        <3>. QED BY <3>3 DEF Apart
    <2>. QED BY <2>2, <2>3, <2>4
<1>. QED BY <1>6, <1>7, <1>8, <1>11, <1>13 DEF MessageInv

\* What the places that are cleared held went out; with one channel only, nothing else did.
LEMMA OutOrKept ==
    ASSUME MessageInv, Post, messages' = Cleared
    PROVE  /\ messages' \in Seq(Message)
           /\ \A i \in DOMAIN messages' : GoTogether(messages'[i].embeds, messages'[i].channel)
           /\ \A e : e \in ToSet(Outgoing.embeds) => Kept(e) /\ e \in queued /\ e \in Embeds
           /\ \A e : Kept(e)' => Kept(e)
           /\ OneChannel => \A e : Kept(e) => e \in ToSet(Outgoing.embeds) \/ Kept(e)'
           /\ (OneChannel /\ Apart(messages)) =>
                /\ Apart(messages)'
                /\ \A e : ~(e \in ToSet(Outgoing.embeds) /\ Kept(e)')
<1>1. messages \in Seq(Message) /\ Whole
    BY DEF MessageInv, MessageTypes
<1>2. /\ Chosen \in DOMAIN messages /\ Outgoing \in Found /\ Sound(Len(messages), Outgoing)
    BY <1>1, OutgoingIs
<1>3. PICK new, P, out, taken : /\ new = Cleared /\ P = Outgoing.places /\ out = Outgoing.embeds
                                /\ taken = Taken(Outgoing)
    OBVIOUS
<1>4. /\ new \in Seq(Message)
      /\ \A j \in DOMAIN new : \E i \in DOMAIN messages \ P : new[j] = messages[i]
      /\ \A i \in DOMAIN messages \ P : \E j \in DOMAIN new : new[j] = messages[i]
      /\ Apart(messages) => Apart(new)
    BY <1>1, <1>3, ClearedKeeps
<1>5. /\ out \in Seq(Embeds) /\ P \in SUBSET (1..Len(messages))
      /\ \A k \in DOMAIN out : out[k] \in queued
      /\ \A e : e \in ToSet(out) <=> \E i \in taken : In(e, i)
    BY <1>2, <1>3 DEF Found, Sound, GoTogether
<1>6. DOMAIN messages = 1..Len(messages)
    BY <1>1
<1>7. taken \in SUBSET DOMAIN messages
    BY <1>2, <1>3, <1>5, <1>6 DEF Taken
<1>8. \A e : Kept(e) <=> \E i \in DOMAIN messages : In(e, i)
    BY DEF Kept, In
<1>9. \A e : Kept(e)' <=> \E j \in DOMAIN new : e \in ToSet(new[j].embeds)
    BY <1>3 DEF Kept
<1>10. \A i \in DOMAIN messages' : GoTogether(messages'[i].embeds, messages'[i].channel)
    BY <1>1, <1>3, <1>4 DEF Whole
<1>11. \A e : e \in ToSet(out) => Kept(e) /\ e \in queued /\ e \in Embeds
    <2>1. \A e : e \in ToSet(out) => Kept(e)
        BY <1>5, <1>7, <1>8
    <2>2. \A e : e \in ToSet(out) => e \in queued /\ e \in Embeds
        BY <1>5 DEF ToSet
    <2>. QED BY <2>1, <2>2
<1>12. \A e : Kept(e)' => Kept(e)
    BY <1>4, <1>8, <1>9 DEF In
<1>13. ASSUME OneChannel, NEW e, Kept(e) PROVE e \in ToSet(out) \/ Kept(e)'
    <2>1. taken = P
        BY <1>3, <1>13, HeadIsChosen
    <2>2. PICK i \in DOMAIN messages : In(e, i)
        BY <1>8, <1>13
    <2>. QED BY <1>4, <1>5, <1>9, <2>1, <2>2 DEF In
<1>14. ASSUME OneChannel, Apart(messages)
       PROVE  Apart(messages)' /\ \A e : ~(e \in ToSet(out) /\ Kept(e)')
    <2>1. Apart(messages)'
        BY <1>3, <1>4, <1>14 DEF Apart
    <2>2. taken = P
        BY <1>3, <1>14, HeadIsChosen
    <2>3. ASSUME NEW e, e \in ToSet(out), Kept(e)' PROVE FALSE
        <3>1. PICK i \in P : In(e, i)
            BY <1>5, <2>2, <2>3
        <3>2. PICK k \in DOMAIN messages \ P : In(e, k)
            BY <1>4, <1>9, <2>3 DEF In
        <3>3. i \in DOMAIN messages /\ i # k
            BY <1>7, <2>2
        <3>. QED BY <1>14, <3>1, <3>2, <3>3 DEF Apart, In
    <2>. QED BY <2>1, <2>3
<1>. QED BY <1>3, <1>4, <1>10, <1>11, <1>12, <1>13, <1>14

\* What was posted, or is to be, is among what was queued.
LEMMA AcceptedKeeps == ASSUME MessageInv, Accepted PROVE MessageInv'
<1>1. PICK new : new = [channel |-> messages[Chosen].channel, embeds |-> Outgoing.embeds]
    OBVIOUS
<1>2. PICK out : out = Outgoing.embeds
    OBVIOUS
<1>3. /\ posts \in Seq(Message) /\ posts' = Append(posts, new) /\ messages' = Cleared /\ Post
      /\ UNCHANGED <<waiting, token, faults, queued, refused>>
    BY <1>1 DEF Accepted, MessageInv, MessageTypes
<1>4. new \in Message /\ new.embeds = out
    <2>1. messages \in Seq(Message) /\ Whole
        BY DEF MessageInv, MessageTypes
    <2>2. messages[Chosen] \in Message /\ Outgoing \in Found
        BY <1>3, <2>1, OutgoingIs
    <2>. QED BY <1>1, <1>2, <2>2 DEF Message, Found
<1>5. /\ messages' \in Seq(Message)
      /\ \A i \in DOMAIN messages' : GoTogether(messages'[i].embeds, messages'[i].channel)
      /\ \A e : e \in ToSet(out) => Kept(e) /\ e \in queued /\ e \in Embeds
      /\ \A e : Kept(e)' => Kept(e)
      /\ OneChannel => \A e : Kept(e) => e \in ToSet(out) \/ Kept(e)'
      /\ (OneChannel /\ Apart(messages)) =>
           /\ Apart(messages)'
           /\ \A e : ~(e \in ToSet(out) /\ Kept(e)')
    BY <1>2, <1>3, OutOrKept
<1>6. PICK last : last = Len(posts) + 1
    OBVIOUS
<1>7. /\ posts' \in Seq(Message)
      /\ \A i : i \in DOMAIN posts' <=> i \in DOMAIN posts \/ i = last
      /\ last \notin DOMAIN posts
      /\ posts'[last] = new /\ \A i \in DOMAIN posts : posts'[i] = posts[i]
    BY <1>3, <1>4, <1>6
<1>8. \A e : Went(e)' <=> Went(e) \/ e \in ToSet(out)
    BY <1>4, <1>7 DEF Went
<1>9. MessageTypes'
    BY <1>3, <1>5, <1>7 DEF MessageInv, MessageTypes
<1>10. Whole'
    BY <1>3, <1>5 DEF Whole, GoTogether
<1>11. PostsQueued'
    BY <1>3, <1>4, <1>5, <1>7 DEF MessageInv, PostsQueued
<1>12. OneChannel' <=> OneChannel
    BY <1>3 DEF OneChannel
<1>13. NoneLost'
    BY <1>3, <1>5, <1>8, <1>12 DEF MessageInv, NoneLost
<1>14. Once'
    <2>. SUFFICES ASSUME OneChannel, faults = 0
                  PROVE  Apart(messages)' /\ Apart(posts)' /\ \A e : ~(Went(e)' /\ Kept(e)')
        BY <1>3, <1>12 DEF Once
    <2>1. Apart(messages) /\ Apart(posts) /\ \A e : ~(Went(e) /\ Kept(e))
        BY DEF MessageInv, Once
    <2>2. Apart(messages)' /\ \A e : ~(Went(e)' /\ Kept(e)')
        BY <1>5, <1>8, <2>1
    <2>3. \A e \in ToSet(out) : \A i \in DOMAIN posts : e \notin ToSet(posts[i].embeds)
        BY <1>5, <2>1 DEF Went
    <2>4. \A i \in DOMAIN posts' : \A e : e \in ToSet(posts'[i].embeds) <=>
              (i \in DOMAIN posts /\ e \in ToSet(posts[i].embeds)) \/ (i = last /\ e \in ToSet(out))
        BY <1>4, <1>7
    <2>5. \A i, k \in DOMAIN posts' : \A e :
              e \in ToSet(posts'[i].embeds) /\ e \in ToSet(posts'[k].embeds) => i = k
        BY <2>1, <2>3, <2>4 DEF Apart
    <2>. QED BY <2>2, <2>5 DEF Apart
<1>. QED BY <1>9, <1>10, <1>11, <1>13, <1>14 DEF MessageInv

\* What is turned down is not lost.
LEMMA RefusedKeeps == ASSUME MessageInv, Refused PROVE MessageInv'
<1>1. PICK out : out = Outgoing.embeds
    OBVIOUS
<1>2. /\ refused' = refused \union ToSet(out) /\ messages' = Cleared /\ Post
      /\ UNCHANGED <<waiting, token, faults, queued, posts>>
    BY <1>1 DEF Refused
<1>3. /\ messages' \in Seq(Message)
      /\ \A i \in DOMAIN messages' : GoTogether(messages'[i].embeds, messages'[i].channel)
      /\ \A e : e \in ToSet(out) => Kept(e) /\ e \in queued /\ e \in Embeds
      /\ \A e : Kept(e)' => Kept(e)
      /\ OneChannel => \A e : Kept(e) => e \in ToSet(out) \/ Kept(e)'
      /\ (OneChannel /\ Apart(messages)) => Apart(messages)'
    BY <1>1, <1>2, OutOrKept
<1>4. \A e : Went(e)' <=> Went(e)
    BY <1>2 DEF Went
<1>5. MessageTypes'
    BY <1>2, <1>3 DEF MessageInv, MessageTypes
<1>6. Whole'
    BY <1>2, <1>3 DEF Whole, GoTogether
<1>7. PostsQueued'
    BY <1>2 DEF MessageInv, PostsQueued
<1>8. OneChannel' <=> OneChannel
    BY <1>2 DEF OneChannel
<1>9. NoneLost'
    BY <1>2, <1>3, <1>4, <1>8 DEF MessageInv, NoneLost
<1>10. Once'
    <2>1. Apart(posts)' <=> Apart(posts)
        BY <1>2 DEF Apart
    <2>. QED BY <1>2, <1>3, <1>4, <1>8, <2>1 DEF MessageInv, Once
<1>. QED BY <1>5, <1>6, <1>7, <1>9, <1>10 DEF MessageInv

\* A message that is put off keeps the embeds that were appended to it.
LEMMA PutOffKeeps ==
    ASSUME MessageInv, Post, Fault,
           messages' = [messages EXCEPT ![Chosen].embeds = Outgoing.embeds],
           waiting' \subseteq Channels, token' \in BOOLEAN, UNCHANGED <<queued, posts, refused>>
    PROVE  MessageInv'
<1>1. messages \in Seq(Message) /\ Whole /\ faults \in 0..MaxFaults
    BY DEF MessageInv, MessageTypes
<1>2. Chosen \in DOMAIN messages /\ Outgoing \in Found /\ Sound(Len(messages), Outgoing)
    BY <1>1, OutgoingIs
<1>3. PICK i, c, out : i = Chosen /\ c = messages[Chosen].channel /\ out = Outgoing.embeds
    OBVIOUS
<1>4. /\ i \in DOMAIN messages /\ out \in Seq(Embeds) /\ GoTogether(out, c)
      /\ c = messages[i].channel
      /\ \A e : In(e, i) => e \in ToSet(out)
    BY <1>2, <1>3 DEF Found, Sound, Taken
<1>5. /\ messages' \in Seq(Message) /\ DOMAIN messages' = DOMAIN messages
      /\ messages'[i].embeds = out /\ messages'[i].channel = c
      /\ \A k \in DOMAIN messages : k # i => messages'[k] = messages[k]
    <2>1. PICK new : new = [messages[i] EXCEPT !.embeds = out]
        OBVIOUS
    <2>2. messages[i] \in Message
        BY <1>1, <1>4
    <2>3. new \in Message /\ new.embeds = out /\ new.channel = c
        BY <1>4, <2>1, <2>2 DEF Message
    <2>4. messages' = [messages EXCEPT ![i] = new]
        BY <1>3, <2>1
    <2>5. DOMAIN messages = 1..Len(messages) /\ Len(messages) \in Nat /\ messages \in [1..Len(messages) -> Message]
        BY <1>1
    <2>6. /\ messages' \in [1..Len(messages) -> Message] /\ DOMAIN messages' = DOMAIN messages
          /\ messages'[i] = new /\ \A k \in DOMAIN messages : k # i => messages'[k] = messages[k]
        BY <1>4, <2>3, <2>4, <2>5
    <2>7. messages' \in Seq(Message)
        BY <2>5, <2>6
    <2>. QED BY <2>3, <2>6, <2>7
<1>6. faults' = faults + 1 /\ faults' # 0 /\ faults' \in 0..MaxFaults
    BY <1>1, QueueConstants DEF Fault
<1>7. MessageTypes'
    BY <1>5, <1>6 DEF MessageInv, MessageTypes
<1>8. Whole'
    <2>1. \A k \in DOMAIN messages' : GoTogether(messages'[k].embeds, messages'[k].channel)
        BY <1>1, <1>4, <1>5 DEF Whole
    <2>. QED BY <2>1 DEF Whole, GoTogether
<1>9. PostsQueued'
    BY DEF MessageInv, PostsQueued
<1>10. \A e : (Kept(e) => Kept(e)') /\ (Went(e)' <=> Went(e))
    BY <1>4, <1>5 DEF Kept, Went, In
<1>11. OneChannel' <=> OneChannel
    BY DEF OneChannel
<1>12. NoneLost'
    BY <1>10, <1>11 DEF MessageInv, NoneLost
<1>13. Once'
    BY <1>6 DEF Once
<1>. QED BY <1>7, <1>8, <1>9, <1>12, <1>13 DEF MessageInv

\* 429 and no answer put the message off.
LEMMA PostponedKeeps == ASSUME MessageInv, Postponed PROVE MessageInv'
<1>1. messages \in Seq(Message) /\ Whole /\ waiting \subseteq Channels /\ token \in BOOLEAN
    BY DEF MessageInv, MessageTypes
<1>2. Chosen \in DOMAIN messages
    BY <1>1, OutgoingIs DEF Postponed
<1>3. messages[Chosen].channel \in Channels
    <2>1. messages[Chosen] \in Message
        BY <1>1, <1>2
    <2>. QED BY <2>1 DEF Message
<1>4. waiting' \subseteq Channels /\ token' \in BOOLEAN
    BY <1>1, <1>3 DEF Postponed
<1>. QED BY <1>4, PutOffKeeps DEF Postponed

\* 401 does too, and ends the task.
LEMMA UnauthorizedKeeps == ASSUME MessageInv, Unauthorized PROVE MessageInv'
<1>1. waiting' \subseteq Channels /\ token' \in BOOLEAN
    BY DEF Unauthorized, MessageInv, MessageTypes
<1>. QED BY <1>1, PutOffKeeps DEF Unauthorized

-----------------------------------------------------------------------------
(* The invariant of the queue of calls.                                    *)

\* The calls of a queue are different ones.
Different(s) == \A i, k \in DOMAIN s : s[i].op = s[k].op => i = k

CallTypes ==
    /\ ops \in Seq([op : Ops, count : -1..5])
    /\ calling \in [op : Ops, count : -1..4] \union {None}
    /\ tried \in [Ops -> 0..6] /\ settled \subseteq Ops
    /\ Different(ops)

\* The retry_count of a call tells how often it was tried, and a call that waits or is
\* being made is in one place, was queued and is not settled.
Counted ==
    /\ \A i \in DOMAIN ops :
        /\ ops[i].op \in queued /\ ops[i].op \notin settled
        /\ ops[i].count = 4 - MaxRetry[ops[i].op] + tried[ops[i].op]
    /\ calling # None =>
        /\ calling.op \in queued /\ calling.op \notin settled
        /\ calling.count = 3 - MaxRetry[calling.op] + tried[calling.op]
        /\ \A i \in DOMAIN ops : ops[i].op # calling.op
    /\ \A o \in Ops : o \notin queued => tried[o] = 0 /\ o \notin settled

Waits(o) == \E i \in DOMAIN ops : ops[i].op = o
Retried ==
    \A o \in Ops :
        /\ tried[o] <= 1 + MaxRetry[o]
        /\ o \notin queued \/ o \in settled \/ o = calling.op \/ Waits(o) \/ tried[o] = 1 + MaxRetry[o]

CallInv == CallTypes /\ Counted /\ Retried

\* What is left of a queue when one is taken out are the others, each once.
LEMMA TakenOut ==
    ASSUME NEW S, NEW s \in Seq(S), NEW i \in DOMAIN s
    PROVE  /\ RemoveAt(s, i) \in Seq(S)
           /\ \A k \in DOMAIN RemoveAt(s, i) : \E m \in DOMAIN s \ {i} : RemoveAt(s, i)[k] = s[m]
           /\ \A m \in DOMAIN s \ {i} : \E k \in DOMAIN RemoveAt(s, i) : RemoveAt(s, i)[k] = s[m]
           /\ Different(s) => Different(RemoveAt(s, i))
<1>1. PICK n, t : n = Len(s) /\ t = RemoveAt(s, i)
    OBVIOUS
<1>2. n \in Nat /\ i \in 1..n /\ DOMAIN s = 1..n /\ s \in [1..n -> S]
    BY <1>1
<1>3. PICK a, b : a = SubSeq(s, 1, i - 1) /\ b = SubSeq(s, i + 1, n)
    OBVIOUS
<1>4. /\ a \in Seq(S) /\ Len(a) = i - 1 /\ \A k \in 1..(i - 1) : a[k] = s[k]
    BY <1>2, <1>3
<1>5. /\ b \in Seq(S) /\ Len(b) = n - i /\ \A k \in 1..(n - i) : b[k] = s[k + i]
    BY <1>1, <1>2, <1>3
<1>6. t = a \o b
    BY <1>1, <1>3 DEF RemoveAt
<1>7. t \in Seq(S) /\ DOMAIN t = 1..(n - 1)
    BY <1>2, <1>4, <1>5, <1>6
<1>8. ASSUME NEW k \in 1..(n - 1) PROVE t[k] = IF k < i THEN s[k] ELSE s[k + 1]
    <2>1. CASE k < i
        <3>1. k \in 1..(i - 1) /\ k \in 1..Len(a)
            BY <1>2, <1>4, <2>1
        <3>2. t[k] = a[k]
            BY <1>4, <1>5, <1>6, <3>1
        <3>. QED BY <1>4, <2>1, <3>1, <3>2
    <2>2. CASE ~(k < i)
        <3>1. k - (i - 1) \in 1..(n - i) /\ (k - (i - 1)) + i = k + 1
            BY <1>2, <2>2
        <3>2. t[k] = b[k - (i - 1)]
            <4>1. k \in 1..(Len(a) + Len(b)) /\ ~(k <= Len(a))
                BY <1>2, <1>4, <1>5, <2>2
            <4>. QED BY <1>4, <1>5, <1>6, <4>1, SMTT(30)
        <3>. QED BY <1>5, <2>2, <3>1, <3>2
    <2>. QED BY <2>1, <2>2
<1>9. \A k \in 1..(n - 1) : \E m \in (1..n) \ {i} : t[k] = s[m] /\ m = IF k < i THEN k ELSE k + 1
    <2>1. ASSUME NEW k \in 1..(n - 1)
          PROVE  (IF k < i THEN k ELSE k + 1) \in (1..n) \ {i}
        BY <1>2
    <2>. QED BY <1>8, <2>1
<1>10. \A m \in (1..n) \ {i} : \E k \in 1..(n - 1) : t[k] = s[m]
    <2>1. ASSUME NEW m \in (1..n) \ {i} PROVE \E k \in 1..(n - 1) : t[k] = s[m]
        <3>1. CASE m < i
            <4>1. m \in 1..(n - 1)
                BY <1>2, <3>1
            <4>. QED BY <1>8, <3>1, <4>1
        <3>2. CASE ~(m < i)
            <4>1. m - 1 \in 1..(n - 1) /\ ~(m - 1 < i) /\ (m - 1) + 1 = m
                BY <1>2, <3>2
            <4>. QED BY <1>8, <4>1
        <3>. QED BY <3>1, <3>2
    <2>. QED BY <2>1
<1>11. ASSUME Different(s) PROVE Different(t)
    <2>. SUFFICES ASSUME NEW k \in 1..(n - 1), NEW l \in 1..(n - 1), t[k].op = t[l].op PROVE k = l
        BY <1>7 DEF Different
    <2>1. PICK m \in (1..n) \ {i} : t[k] = s[m] /\ m = IF k < i THEN k ELSE k + 1
        BY <1>9
    <2>2. PICK r \in (1..n) \ {i} : t[l] = s[r] /\ r = IF l < i THEN l ELSE l + 1
        BY <1>9
    <2>3. m = r
        BY <1>2, <1>11, <2>1, <2>2 DEF Different
    <2>4. i \in Nat /\ k \in Nat /\ l \in Nat /\ (IF k < i THEN k ELSE k + 1) = (IF l < i THEN l ELSE l + 1)
        BY <1>2, <2>1, <2>2, <2>3
    <2>5. CASE k < i /\ l < i
        BY <2>4, <2>5
    <2>6. CASE k < i /\ ~(l < i)
        <3>1. k = l + 1 /\ ~(l < i) /\ k < i
            BY <2>4, <2>6
        <3>. QED BY <2>4, <3>1, SMTT(30)
    <2>7. CASE ~(k < i) /\ l < i
        <3>1. k + 1 = l /\ ~(k < i) /\ l < i
            BY <2>4, <2>7
        <3>. QED BY <2>4, <3>1, SMTT(30)
    <2>8. CASE ~(k < i) /\ ~(l < i)
        <3>1. k + 1 = l + 1
            BY <2>4, <2>8
        <3>. QED BY <2>4, <3>1, SMTT(30)
    <2>. QED BY <2>5, <2>6, <2>7, <2>8
<1>. QED BY <1>1, <1>2, <1>7, <1>9, <1>10, <1>11, ZenonT(60)

\* Every call of the queue has its type.
LEMMA CallsTyped == ASSUME CallInv PROVE \A i \in DOMAIN ops : ops[i] \in [op : Ops, count : -1..5]
<1>1. PICK S : S = [op : Ops, count : -1..5]
    OBVIOUS
<1>2. ops \in Seq(S)
    BY <1>1 DEF CallInv, CallTypes
<1>3. \A i \in DOMAIN ops : ops[i] \in S
    BY <1>2
<1>. QED BY <1>1, <1>3

\* What happens at the other queue, and that time passes, does not matter here.
LEMMA CallsStay ==
    ASSUME CallInv, UNCHANGED opVars, \A o \in Ops : o \in queued' <=> o \in queued
    PROVE  CallInv'
<1>. USE DEF opVars
<1>1. /\ \A i \in DOMAIN ops : ops[i].op \in Ops
      /\ calling # None => calling.op \in Ops
    <2>1. \A i \in DOMAIN ops : ops[i] \in [op : Ops, count : -1..5]
        BY CallsTyped
    <2>2. calling # None => calling \in [op : Ops, count : -1..4]
        BY Zenon DEF CallInv, CallTypes
    <2>. QED BY <2>1, <2>2
<1>2. CallTypes'
    BY DEF CallInv, CallTypes, Different, None
<1>3. Counted'
    BY <1>1 DEF CallInv, Counted, None
<1>4. Retried'
    BY DEF CallInv, Retried, Waits
<1>. QED BY <1>2, <1>3, <1>4 DEF CallInv

\* The types of what is in the queue and of the call that is made.
LEMMA CallsAre ==
    ASSUME CallInv
    PROVE  /\ \A i \in DOMAIN ops : ops[i].op \in Ops /\ ops[i].count \in -1..5
                                    /\ ops[i] = [op |-> ops[i].op, count |-> ops[i].count]
           /\ calling # None => calling.op \in Ops /\ calling.count \in -1..4
                                /\ calling = [op |-> calling.op, count |-> calling.count]
           /\ calling.op \in Ops => calling # None
           /\ \A o \in Ops : tried[o] \in 0..6 /\ MaxRetry[o] \in 0..5
<1>1. \A i \in DOMAIN ops : ops[i] \in [op : Ops, count : -1..5]
    BY CallsTyped
<1>2. calling # None => calling \in [op : Ops, count : -1..4]
    BY Zenon DEF CallInv, CallTypes
<1>3. calling = None => calling.op \notin Ops
    BY QueueConstants DEF None
<1>4. \A o \in Ops : tried[o] \in 0..6 /\ MaxRetry[o] \in 0..5
    BY QueueConstants DEF CallInv, CallTypes
<1>. QED BY <1>1, <1>2, <1>3, <1>4

\* A call at the end of the queue, where none of it was.
LEMMA AtTheEnd ==
    ASSUME CallInv, NEW new \in [op : Ops, count : -1..5], ops' = Append(ops, new),
           \A i \in DOMAIN ops : ops[i].op # new.op
    PROVE  /\ ops' \in Seq([op : Ops, count : -1..5]) /\ Different(ops)'
           /\ \A i \in DOMAIN ops' : ops'[i] = new \/ (i \in DOMAIN ops /\ ops'[i] = ops[i])
           /\ \A o : Waits(o)' <=> Waits(o) \/ o = new.op
<1>1. PICK last : last = Len(ops) + 1
    OBVIOUS
<1>2. ops \in Seq([op : Ops, count : -1..5]) /\ Different(ops)
    BY DEF CallInv, CallTypes
<1>3. /\ ops' \in Seq([op : Ops, count : -1..5])
      /\ \A i : i \in DOMAIN ops' <=> i \in DOMAIN ops \/ i = last
      /\ last \notin DOMAIN ops
      /\ ops'[last] = new /\ \A i \in DOMAIN ops : ops'[i] = ops[i]
    BY <1>1, <1>2
<1>4. Different(ops)'
    <2>1. \A i, k \in DOMAIN ops' : ops'[i].op = ops'[k].op => i = k
        BY <1>2, <1>3 DEF Different
    <2>. QED BY <2>1 DEF Different
<1>5. \A o : Waits(o)' <=> Waits(o) \/ o = new.op
    BY <1>3 DEF Waits
<1>. QED BY <1>3, <1>4, <1>5

\* A call that is queued is new, and has its retries before it.
LEMMA QueueOpKeeps == ASSUME CallInv, NEW o \in Ops, QueueOp(o) PROVE CallInv'
<1>1. PICK new : new = [op |-> o, count |-> 4 - MaxRetry[o]]
    OBVIOUS
<1>2. /\ o \notin queued /\ ops' = Append(ops, new) /\ queued' = queued \union {o}
      /\ UNCHANGED <<calling, tried, settled>>
    BY <1>1 DEF QueueOp
<1>3. MaxRetry[o] \in 0..5 /\ new \in [op : Ops, count : -1..5] /\ new.op = o /\ new.count = 4 - MaxRetry[o]
    BY <1>1, CallsAre
<1>4. /\ tried[o] = 0 /\ o \notin settled /\ o # calling.op
      /\ \A i \in DOMAIN ops : ops[i].op # o
    BY <1>2, CallsAre DEF CallInv, Counted
<1>5. /\ ops' \in Seq([op : Ops, count : -1..5]) /\ Different(ops)'
      /\ \A i \in DOMAIN ops' : ops'[i] = new \/ (i \in DOMAIN ops /\ ops'[i] = ops[i])
      /\ \A p : Waits(p)' <=> Waits(p) \/ p = o
    BY <1>2, <1>3, <1>4, AtTheEnd
<1>6. CallTypes'
    BY <1>2, <1>5 DEF CallInv, CallTypes, None
<1>7. Counted'
    <2>1. \A i \in DOMAIN ops' :
            /\ ops'[i].op \in queued' /\ ops'[i].op \notin settled'
            /\ ops'[i].count = 4 - MaxRetry[ops'[i].op] + tried'[ops'[i].op]
            /\ calling # None => ops'[i].op # calling.op
        BY <1>2, <1>3, <1>4, <1>5 DEF CallInv, Counted
    <2>. QED BY <1>2, <2>1 DEF CallInv, Counted, None
<1>8. Retried'
    BY <1>2, <1>3, <1>4, <1>5 DEF CallInv, Retried
<1>. QED BY <1>6, <1>7, <1>8 DEF CallInv

\* A call that is taken out is made, or its retries are over.
LEMMA TakeOpKeeps == ASSUME CallInv, TakeOp PROVE CallInv'
<1>1. PICK i \in DOMAIN ops :
        /\ ops' = RemoveAt(ops, i)
        /\ IF ops[i].count = 5 THEN UNCHANGED <<calling, tried>> ELSE Call(ops[i])
    BY DEF TakeOp
<1>2. calling = None /\ UNCHANGED <<settled, queued>>
    BY DEF TakeOp
<1>3. PICK o, c : o = ops[i].op /\ c = ops[i].count
    OBVIOUS
<1>4. /\ o \in Ops /\ c \in -1..5 /\ ops[i] = [op |-> o, count |-> c]
      /\ tried[o] \in 0..6 /\ MaxRetry[o] \in 0..5
    BY <1>3, CallsAre
<1>5. /\ o \in queued /\ o \notin settled /\ c = 4 - MaxRetry[o] + tried[o]
      /\ tried[o] <= 1 + MaxRetry[o]
    BY <1>3, <1>4 DEF CallInv, Counted, Retried
<1>6. /\ ops \in Seq([op : Ops, count : -1..5]) /\ Different(ops)
    BY DEF CallInv, CallTypes
<1>7. /\ ops' \in Seq([op : Ops, count : -1..5])
      /\ \A k \in DOMAIN ops' : \E m \in DOMAIN ops \ {i} : ops'[k] = ops[m]
      /\ \A m \in DOMAIN ops \ {i} : \E k \in DOMAIN ops' : ops'[k] = ops[m]
    BY <1>1, <1>6, TakenOut
<1>8. Different(ops)'
    <2>1. Different(RemoveAt(ops, i))
        BY <1>6, TakenOut
    <2>. QED BY <1>1, <2>1 DEF Different
<1>9. /\ \A k \in DOMAIN ops' : ops'[k].op # o
      /\ \A k \in DOMAIN ops' : /\ ops'[k].op \in Ops
                                /\ ops'[k].op \in queued /\ ops'[k].op \notin settled
                                /\ ops'[k].count = 4 - MaxRetry[ops'[k].op] + tried[ops'[k].op]
    <2>1. \A m \in DOMAIN ops \ {i} : ops[m].op # o
        BY <1>3, <1>6 DEF Different
    <2>. QED BY <1>7, <2>1, CallsAre DEF CallInv, Counted
<1>10. \A p : (Waits(p) /\ p # o) => Waits(p)'
    <2>1. ASSUME NEW p, Waits(p), p # o PROVE Waits(p)'
        <3>1. PICK m \in DOMAIN ops \ {i} : ops[m].op = p
            BY <1>3, <2>1 DEF Waits
        <3>. QED BY <1>7, <3>1 DEF Waits
    <2>. QED BY <2>1
<1>11. tried \in [Ops -> 0..6] /\ settled \subseteq Ops
    BY DEF CallInv, CallTypes
<1>12. CASE c = 5
    <2>1. UNCHANGED <<calling, tried>> /\ tried[o] = 1 + MaxRetry[o]
        BY <1>1, <1>3, <1>4, <1>5, <1>12
    <2>2. CallTypes'
        BY <1>2, <1>7, <1>8, <1>11, <2>1 DEF CallTypes, None
    <2>3. Counted'
        BY <1>2, <1>9, <2>1 DEF CallInv, Counted, None
    <2>4. Retried'
        BY <1>2, <1>10, <2>1 DEF CallInv, Retried
    <2>. QED BY <2>2, <2>3, <2>4 DEF CallInv
<1>13. CASE c # 5
    <2>1. calling' = [op |-> o, count |-> c] /\ tried' = [tried EXCEPT ![o] = @ + 1]
        BY <1>1, <1>3, <1>4, <1>13 DEF Call
    <2>2. /\ tried[o] + 1 <= 1 + MaxRetry[o] /\ tried[o] + 1 \in 0..6 /\ c \in -1..4
        BY <1>4, <1>5, <1>13
    <2>3. /\ tried'[o] = tried[o] + 1 /\ tried' \in [Ops -> 0..6]
          /\ \A p \in Ops : p # o => tried'[p] = tried[p]
        BY <1>4, <1>11, <2>1, <2>2
    <2>4. /\ calling' \in [op : Ops, count : -1..4] /\ calling'.op = o /\ calling'.count = c
        BY <1>4, <2>1, <2>2
    <2>5. CallTypes'
        BY <1>2, <1>7, <1>8, <1>11, <2>3, <2>4 DEF CallTypes
    <2>6. Counted'
        <3>1. \A k \in DOMAIN ops' : ops'[k].count = 4 - MaxRetry[ops'[k].op] + tried'[ops'[k].op]
            BY <1>9, <2>3
        <3>2. c = 3 - MaxRetry[o] + tried'[o]
            BY <1>4, <1>5, <2>3
        <3>3. \A p \in Ops : p \notin queued => tried'[p] = 0 /\ p \notin settled
            BY <1>5, <2>3 DEF CallInv, Counted
        <3>. QED BY <1>2, <1>5, <1>9, <2>4, <3>1, <3>2, <3>3 DEF Counted
    <2>7. Retried'
        <3>1. ASSUME NEW p \in Ops
              PROVE  /\ tried'[p] <= 1 + MaxRetry[p]
                     /\ \/ p \notin queued \/ p \in settled \/ p = calling'.op
                        \/ Waits(p)' \/ tried'[p] = 1 + MaxRetry[p]
            <4>1. CASE p = o
                BY <2>2, <2>3, <2>4, <4>1
            <4>2. CASE p # o
                <5>1. p # calling.op
                    BY <1>2, CallsAre
                <5>. QED BY <1>10, <2>3, <4>2, <5>1 DEF CallInv, Retried
            <4>. QED BY <4>1, <4>2
        <3>. QED BY <1>2, <3>1 DEF Retried
    <2>. QED BY <2>5, <2>6, <2>7 DEF CallInv
<1>. QED BY <1>12, <1>13

\* An answer settles the call.
LEMMA SettlingKeeps ==
    ASSUME CallInv, calling # None, settled' = settled \union {calling.op}, calling' = None,
           UNCHANGED <<ops, tried, queued>>
    PROVE  CallInv'
<1>1. calling.op \in Ops /\ calling.op \in queued /\ \A i \in DOMAIN ops : ops[i].op # calling.op
    BY CallsAre DEF CallInv, Counted
<1>2. CallTypes'
    BY <1>1 DEF CallInv, CallTypes, Different, None
<1>3. Counted'
    BY <1>1 DEF CallInv, Counted, None
<1>4. Retried'
    BY DEF CallInv, Retried, Waits
<1>. QED BY <1>2, <1>3, <1>4 DEF CallInv

\* A call that is put off waits again, with one retry less.
LEMMA OpPostponedKeeps == ASSUME CallInv, OpPostponed PROVE CallInv'
<1>1. PICK o, c, new : o = calling.op /\ c = calling.count /\ new = [op |-> o, count |-> c + 1]
    OBVIOUS
<1>2. /\ o \in Ops /\ c \in -1..4 /\ calling = [op |-> o, count |-> c]
      /\ tried[o] \in 0..6 /\ MaxRetry[o] \in 0..5
    BY <1>1, CallsAre DEF OpPostponed
<1>3. new \in [op : Ops, count : -1..5] /\ new.op = o /\ new.count = c + 1
    BY <1>1, <1>2
<1>4. /\ ops' = Append(ops, new) /\ calling' = None
      /\ UNCHANGED <<tried, settled, queued>>
    BY <1>1, <1>2 DEF OpPostponed
<1>5. /\ o \in queued /\ o \notin settled /\ c = 3 - MaxRetry[o] + tried[o]
      /\ \A i \in DOMAIN ops : ops[i].op # o
    BY <1>1 DEF CallInv, Counted, OpPostponed
<1>6. /\ ops' \in Seq([op : Ops, count : -1..5]) /\ Different(ops)'
      /\ \A i \in DOMAIN ops' : ops'[i] = new \/ (i \in DOMAIN ops /\ ops'[i] = ops[i])
      /\ \A p : Waits(p)' <=> Waits(p) \/ p = o
    BY <1>3, <1>4, <1>5, AtTheEnd
<1>7. CallTypes'
    BY <1>4, <1>6 DEF CallInv, CallTypes, None
<1>8. Counted'
    <2>1. new.count = 4 - MaxRetry[o] + tried[o]
        BY <1>2, <1>3, <1>5
    <2>2. \A i \in DOMAIN ops' :
            /\ ops'[i].op \in queued' /\ ops'[i].op \notin settled'
            /\ ops'[i].count = 4 - MaxRetry[ops'[i].op] + tried'[ops'[i].op]
        BY <1>3, <1>4, <1>5, <1>6, <2>1 DEF CallInv, Counted
    <2>. QED BY <1>4, <2>2 DEF CallInv, Counted, None
<1>9. Retried'
    BY <1>1, <1>4, <1>6 DEF CallInv, Retried
<1>. QED BY <1>7, <1>8, <1>9 DEF CallInv

-----------------------------------------------------------------------------
(* Both queues.                                                            *)

DiscordInv == MessageInv /\ CallInv

\* The queues begin empty.
LEMMA DiscordInvInit == Init => DiscordInv
<1>. SUFFICES ASSUME Init PROVE DiscordInv
    OBVIOUS
<1>. USE DEF Init
<1>1. DOMAIN messages = {} /\ DOMAIN posts = {} /\ DOMAIN ops = {}
    OBVIOUS
<1>2. MessageTypes
    BY QueueConstants DEF MessageTypes
<1>3. Whole /\ PostsQueued /\ NoneLost /\ Apart(messages) /\ Apart(posts) /\ \A e : ~Went(e)
    BY <1>1 DEF Whole, PostsQueued, NoneLost, Apart, Went
<1>4. CallTypes
    BY <1>1 DEF CallTypes, Different
<1>5. Counted /\ Retried
    <2>1. \A o \in Ops : tried[o] = 0 /\ MaxRetry[o] \in 0..5
        BY QueueConstants
    <2>. QED BY <1>1, <2>1 DEF Counted, Retried
<1>. QED BY <1>2, <1>3, <1>4, <1>5 DEF DiscordInv, MessageInv, CallInv, Once

\* Every step keeps the invariant of both queues: a step at one leaves that of the other alone.
LEMMA DiscordInvNext == DiscordInv /\ [Next]_vars => DiscordInv'
<1>. SUFFICES ASSUME DiscordInv, [Next]_vars PROVE DiscordInv'
    OBVIOUS
<1>1. /\ waiting \subseteq Channels /\ token \in BOOLEAN /\ faults \in 0..MaxFaults
      /\ MaxFaults \in Nat /\ Embeds \intersect Ops = {}
    BY QueueConstants DEF DiscordInv, MessageInv, MessageTypes
<1>2. MessageInv /\ CallInv
    BY DEF DiscordInv
<1>3. ASSUME NEW e \in Embeds, QueueDiscordMessage(e) PROVE DiscordInv'
    <2>1. MessageInv'
        BY <1>2, <1>3, QueueKeeps
    <2>2. UNCHANGED opVars /\ \A o \in Ops : o \in queued' <=> o \in queued
        BY <1>1, <1>3 DEF QueueDiscordMessage
    <2>. QED BY <1>2, <2>1, <2>2, CallsStay DEF DiscordInv
<1>4. ASSUME ProcessDiscordMessage PROVE DiscordInv'
    <2>1. MessageInv'
        BY <1>2, <1>4, AcceptedKeeps, RefusedKeeps, PostponedKeeps, UnauthorizedKeeps DEF ProcessDiscordMessage
    <2>2. UNCHANGED opVars /\ \A o \in Ops : o \in queued' <=> o \in queued
        BY <1>4 DEF ProcessDiscordMessage, Accepted, Refused, Postponed, Unauthorized
    <2>. QED BY <1>2, <2>1, <2>2, CallsStay DEF DiscordInv
<1>5. ASSUME NEW o \in Ops, QueueOp(o) PROVE DiscordInv'
    <2>1. CallInv'
        BY <1>2, <1>5, QueueOpKeeps
    <2>2. /\ UNCHANGED messageVars /\ waiting' \subseteq Channels /\ token' \in BOOLEAN
          /\ faults' \in 0..MaxFaults /\ (faults' = 0 => faults = 0)
          /\ queued \subseteq queued' /\ queued' \subseteq queued \union Ops
        BY <1>1, <1>5 DEF QueueOp
    <2>. QED BY <1>2, <2>1, <2>2, MessagesStay DEF DiscordInv
<1>6. ASSUME RunOps PROVE DiscordInv'
    <2>1. CASE TakeOp
        <3>1. CallInv'
            BY <1>2, <2>1, TakeOpKeeps
        <3>2. UNCHANGED <<messageVars, waiting, token, faults, queued>>
            BY <2>1 DEF TakeOp
        <3>. QED BY <1>1, <1>2, <3>1, <3>2, MessagesStay DEF DiscordInv
    <2>2. CASE OpAnswered
        <3>1. CallInv'
            BY <1>2, <2>2, SettlingKeeps DEF OpAnswered
        <3>2. UNCHANGED <<messageVars, waiting, token, faults, queued>>
            BY <2>2 DEF OpAnswered
        <3>. QED BY <1>1, <1>2, <3>1, <3>2, MessagesStay DEF DiscordInv
    <2>3. CASE OpUnauthorized
        <3>1. CallInv'
            BY <1>2, <2>3, SettlingKeeps DEF OpUnauthorized
        <3>2. /\ UNCHANGED <<messageVars, waiting, queued>> /\ token' \in BOOLEAN
              /\ faults' \in 0..MaxFaults /\ (faults' = 0 => faults = 0)
            <4>1. token' = FALSE /\ faults < MaxFaults /\ faults' = faults + 1
                BY <2>3 DEF OpUnauthorized, Fault
            <4>2. UNCHANGED <<messageVars, waiting, queued>>
                BY <2>3 DEF OpUnauthorized
            <4>3. faults' \in 0..MaxFaults /\ faults' # 0
                BY <1>1, <4>1
            <4>. QED BY <4>1, <4>2, <4>3
        <3>. QED BY <1>1, <1>2, <3>1, <3>2, MessagesStay DEF DiscordInv
    <2>4. CASE OpPostponed
        <3>1. CallInv'
            BY <1>2, <2>4, OpPostponedKeeps
        <3>2. Key[calling.op] \in Channels
            BY <1>2, <2>4, CallsAre, QueueConstants DEF OpPostponed
        <3>3. /\ UNCHANGED <<messageVars, token, queued>> /\ waiting' \subseteq Channels
              /\ faults' \in 0..MaxFaults /\ (faults' = 0 => faults = 0)
            BY <1>1, <2>4, <3>2 DEF OpPostponed, Fault
        <3>. QED BY <1>1, <1>2, <3>1, <3>3, MessagesStay DEF DiscordInv
    <2>. QED BY <1>6, <2>1, <2>2, <2>3, <2>4 DEF RunOps
<1>7. ASSUME NEW c \in Channels, WaitEnds(c) PROVE DiscordInv'
    <2>1. UNCHANGED <<messageVars, opVars, token, faults, queued>> /\ waiting' \subseteq Channels
        BY <1>1, <1>7 DEF WaitEnds
    <2>. QED BY <1>1, <1>2, <2>1, MessagesStay, CallsStay DEF DiscordInv
<1>8. ASSUME UNCHANGED vars PROVE DiscordInv'
    <2>1. UNCHANGED <<messageVars, opVars, waiting, token, faults, queued>>
        BY <1>8 DEF vars
    <2>. QED BY <1>1, <1>2, <2>1, MessagesStay, CallsStay DEF DiscordInv
<1>. QED BY <1>3, <1>4, <1>5, <1>6, <1>7, <1>8 DEF Next

\* What the invariant says of a call and of a notification.
LEMMA DiscordFollows == DiscordInv => TypeOK /\ NothingIsGivenUp
<1>. SUFFICES ASSUME DiscordInv PROVE TypeOK /\ NothingIsGivenUp
    OBVIOUS
<1>1. MessageTypes /\ CallTypes /\ Retried /\ NoneLost /\ Once
    BY DEF DiscordInv, MessageInv, CallInv
<1>2. TypeOK
    BY <1>1 DEF TypeOK, MessageTypes, CallTypes, Different
<1>3. OneChannel => Lost = {}
    <2>. SUFFICES ASSUME OneChannel, NEW e \in Lost PROVE FALSE
        OBVIOUS
    <2>1. e \in Embeds /\ e \in queued /\ e \notin refused /\ ~Went(e) /\ ~Kept(e)
        BY DEF Lost, Posted, Went, Kept
    <2>. QED BY <1>1, <2>1 DEF NoneLost
<1>4. ASSUME OneChannel, faults = 0, NEW e \in Embeds PROVE Cardinality(Posted(e)) <= 1
    <2>1. \A i, k \in Posted(e) : i = k
        BY <1>1, <1>4 DEF Once, Apart, Posted
    <2>2. CASE Posted(e) = {}
        BY <2>2, FS_EmptySet
    <2>3. CASE Posted(e) # {}
        <3>1. PICK i : Posted(e) = {i}
            BY <2>1, <2>3
        <3>2. Cardinality({i}) = 1
            BY FS_Singleton
        <3>. QED BY <3>1, <3>2
    <2>. QED BY <2>2, <2>3
<1>5. \A o \in Ops :
        /\ tried[o] <= 1 + MaxRetry[o]
        /\ \/ o \notin queued \/ o \in settled \/ o = calling.op
           \/ \E i \in DOMAIN ops : ops[i].op = o
           \/ tried[o] = 1 + MaxRetry[o]
    BY <1>1 DEF Retried, Waits
<1>. QED BY <1>2, <1>3, <1>4, <1>5 DEF NothingIsGivenUp

\* What a step that posts posts.
MeantPost ==
    LET post == Last(posts') IN
    /\ post.channel \notin waiting
    /\ \A k \in DOMAIN post.embeds : Channel[post.embeds[k]] = post.channel
    /\ Len(post.embeds) > 1 => Length(post.embeds) <= Limit

\* Only a message that Discord takes is posted, and it is the one put together.
LEMMA PostIsMeant == DiscordInv /\ [Next]_vars => (posts' # posts => MeantPost)
<1>. SUFFICES ASSUME DiscordInv, [Next]_vars, posts' # posts PROVE MeantPost
    OBVIOUS
<1>1. Accepted
    BY DEF vars, messageVars, opVars, Next, QueueDiscordMessage, QueueOp, ProcessDiscordMessage,
           Refused, Postponed, Unauthorized, RunOps, TakeOp, OpAnswered, OpUnauthorized, OpPostponed, WaitEnds
<1>2. messages \in Seq(Message) /\ posts \in Seq(Message) /\ Whole
    BY DEF DiscordInv, MessageInv, MessageTypes
<1>3. PICK new : new = [channel |-> messages[Chosen].channel, embeds |-> Outgoing.embeds]
    OBVIOUS
<1>4. new.channel = messages[Chosen].channel /\ new.embeds = Outgoing.embeds
    BY <1>3
<1>5. new.channel \notin waiting /\ GoTogether(new.embeds, new.channel)
    BY <1>1, <1>2, <1>4, OutgoingIs DEF Accepted, Sound
<1>6. Last(posts') = new
    <2>1. posts' = Append(posts, new)
        BY <1>1, <1>3 DEF Accepted
    <2>2. new \in Message
        <3>1. messages[Chosen] \in Message /\ Outgoing \in Found
            BY <1>1, <1>2, OutgoingIs DEF Accepted
        <3>. QED BY <1>3, <3>1 DEF Message, Found
    <2>3. Len(posts') = Len(posts) + 1 /\ posts'[Len(posts) + 1] = new
        BY <1>2, <2>1, <2>2
    <2>. QED BY <2>3 DEF Last
<1>. QED BY <1>5, <1>6 DEF MeantPost, GoTogether

\* The queues and their histories have their types, for any number of channels,
\* notifications and calls, and a call is in one place at most. (functions/notification.py,
\* QueueDiscordMessage, ProcessDiscordMessage; opqueue.py.)
THEOREM QueuesAreTyped == Spec => []TypeOK
<1>. QED BY DiscordInvInit, DiscordInvNext, DiscordFollows, PTL DEF Spec

\* A call without an answer is made once and retried max_retry times, and notifications
\* of one channel are posted or turned down, once each unless Discord puts them off,
\* however they are put together. (functions/notification.py, ProcessDiscordMessage;
\* opqueue.py, run.)
THEOREM NothingGivenUp == Spec => []NothingIsGivenUp
<1>. QED BY DiscordInvInit, DiscordInvNext, DiscordFollows, PTL DEF Spec

-----------------------------------------------------------------------------
(* The parts together.                                                     *)

\* Each part keeps its invariant while a behaviour is of it.
AllInv == DiscordInv /\ (focus = "hub" => HubInv)

\* Each part begins well.
LEMMA AllInvInit == AllInit => AllInv
BY DiscordInvInit, HubInvInit DEF AllInit, AllInv

\* A step of one part leaves the other alone.
LEMMA AllInvNext == AllInv /\ [AllNext]_all => AllInv'
<1>. SUFFICES ASSUME AllInv, [AllNext]_all PROVE AllInv'
    OBVIOUS
<1>1. UNCHANGED focus /\ [Next]_vars
    BY DEF AllNext, DiscordOnly, HubOnly, all
<1>2. focus = "hub" => [Hub!Next]_hubVars
    BY DEF AllNext, DiscordOnly, HubOnly, all
<1>. QED BY <1>1, <1>2, DiscordInvNext, HubInvNext DEF AllInv

\* Every variable of both parts has its type. (functions/notification.py, opqueue.py,
\* truckershub_sync.py.)
THEOREM ServicesTyped == AllSpec => []AllTyped
<1>1. AllInv => AllTyped
    BY DiscordFollows, HubFollows DEF AllInv, AllTyped
<1>. QED BY <1>1, AllInvInit, AllInvNext, PTL DEF AllSpec

\* Nothing that was taken on is given up or called done when it is not, in every state
\* and for constants of any size. (functions/notification.py, ProcessDiscordMessage;
\* opqueue.py, run; truckershub_sync.py, reconcile.)
THEOREM NothingDropped == AllSpec => []NothingIsDropped
<1>1. AllInv => NothingIsDropped
    BY DiscordFollows, HubFollows DEF AllInv, NothingIsDropped
<1>. QED BY <1>1, AllInvInit, AllInvNext, PTL DEF AllSpec

\* Every post goes to its own channel, not before discord_retry_after, and within the
\* limit if it was put together. (functions/notification.py, ProcessDiscordMessage.)
THEOREM PostsAreMeant == AllSpec => PostedAsMeant
<1>1. AllInv /\ [AllNext]_all => [posts' # posts => MeantPost]_vars
    <2>1. [AllNext]_all => [Next]_vars
        BY DEF AllNext, DiscordOnly, HubOnly, all
    <2>. QED BY <2>1, PostIsMeant DEF AllInv
<1>. QED BY <1>1, AllInvInit, AllInvNext, PTL DEF AllSpec, PostedAsMeant, MeantPost
=============================================================================
