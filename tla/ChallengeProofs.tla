--------------------------- MODULE ChallengeProofs ---------------------------
(***************************************************************************)
(* Theorems about Challenge: its types; that deliveries which are reported *)
(* and added at the same time complete nothing too late; and that requests *)
(* which come one after the other complete the challenge exactly as it is  *)
(* earned, the shares of a company adding up to its reward.                *)
(***************************************************************************)
EXTENDS Challenge, Sums, SequenceTheorems

(* What is kept of a request. Nobody's share is nothing.                   *)
Ops == {"none", "report", "put", "remove", "patch"}
Dues == UNION {[U -> Nat \ {0}] : U \in SUBSET Users}
Jobs == [pc : Steps, op : Ops, log : Nat, old : Nat, need : Nat, reward : Nat,
         who : SUBSET Users, due : Dues]

\* The steps a request may be at.
StepsOf(op, personal) ==
    CASE op = "none" -> {"idle"}
      [] op \in {"report", "put"} ->
            {"record", "judge"} \union IF personal THEN {"add"} ELSE {"share"}
      [] op = "remove" ->
            {"remove", "judge"} \union
            IF personal THEN {"take"} ELSE {"clear", "replace", "shares", "share"}
      [] op = "patch" ->
            {"update", "judge"} \union
            IF personal THEN {"points", "list", "add", "take"}
                        ELSE {"replace", "shares", "share"}

\* The numbers a request that is under way has read, the delivery it is about, and the
\* driver whose rows it is about to write.
Sensible(job, personal, last) ==
    /\ job.pc \in StepsOf(job.op, personal)
    /\ job.op # "none" => job.old \in Counts /\ job.need \in Counts /\ job.reward \in Rewards
    /\ job.log \in 0..last
    /\ job.op \in {"report", "put", "remove"} => job.log # 0
    /\ job.pc \in {"add", "take"} => \E u \in job.who : DOMAIN job.due = {u}

\* Nothing is due.
LEMMA NothingIsDue == Nothing \in Dues
<1>1. Nothing \in [{} -> Nat \ {0}]
    BY DEF Nothing
<1>2. {} \in SUBSET Users
    OBVIOUS
<1>. HIDE DEF Nothing
<1>. QED BY <1>1, <1>2 DEF Dues

DataTyped ==
    /\ challenge_type \in Types
    /\ delivery_count \in Counts
    /\ reward_points \in Rewards
    /\ IsFiniteSet(DOMAIN challenge_record)
    /\ challenge_record \in [DOMAIN challenge_record -> [log : 1..logged, time : 1..logged]]
    /\ challenge_completed \in [Users -> Seq(Nat)]
    /\ logged \in 0..MaxLogs
    /\ gone \subseteq 1..logged
    /\ edits \in 0..MaxEdits
    /\ overlap \in {"none", "adds", "any"}

JobsTyped ==
    /\ req \in [Reqs -> Jobs]
    /\ \A r \in Reqs : Sensible(req[r], Personal, logged)

TypeInv == DataTyped /\ JobsTyped

\* That is more than the type invariant says.
LEMMA TypeInvImplies == TypeInv => TypeOK
<1>. SUFFICES ASSUME TypeInv PROVE TypeOK
    OBVIOUS
<1>1. ASSUME NEW r \in Reqs
      PROVE  /\ req[r].pc \in Steps /\ req[r].op \in Ops
             /\ req[r].log \in 0..logged /\ req[r].who \subseteq Users
    BY DEF TypeInv, JobsTyped, Sensible, Jobs
<1>2. ASSUME NEW r \in Reqs, NEW u \in DOMAIN req[r].due
      PROVE  u \in Users /\ req[r].due[u] > 0
    <2>1. req[r].due \in Dues
        BY DEF TypeInv, JobsTyped, Jobs
    <2>2. PICK U \in SUBSET Users : req[r].due \in [U -> Nat \ {0}]
        BY <2>1 DEF Dues
    <2>3. u \in Users /\ req[r].due[u] \in Nat \ {0}
        BY <2>2
    <2>. QED BY <2>3
<1>. QED BY <1>1, <1>2 DEF TypeInv, DataTyped, TypeOK, Ops

-----------------------------------------------------------------------------
(* What the queries count.                                                 *)

Weights == [i \in DOMAIN challenge_record |-> Weight(i)]

\* A record is of a delivery of some driver, and has a weight.
LEMMA RecordsAreDeliveries ==
    DataTyped =>
        /\ IsFiniteSet(DOMAIN challenge_record)
        /\ Weights \in [DOMAIN challenge_record -> Nat]
        /\ \A i \in DOMAIN challenge_record :
            /\ challenge_record[i].log \in 1..logged /\ challenge_record[i].time \in Nat
            /\ Driver[challenge_record[i].log] \in Users
        /\ \A l \in 1..logged : Driver[l] \in Users /\ Distance[l] \in Nat
<1>. SUFFICES ASSUME DataTyped PROVE
        /\ Weights \in [DOMAIN challenge_record -> Nat]
        /\ \A i \in DOMAIN challenge_record :
            /\ challenge_record[i].log \in 1..logged /\ challenge_record[i].time \in Nat
            /\ Driver[challenge_record[i].log] \in Users
        /\ \A l \in 1..logged : Driver[l] \in Users /\ Distance[l] \in Nat
    BY DEF DataTyped
<1>1. ASSUME NEW l \in 1..logged PROVE Driver[l] \in Users /\ Distance[l] \in Nat
    <2>1. l \in 1..MaxLogs
        BY ChallengeConstants DEF DataTyped
    <2>. QED BY <2>1, ChallengeConstants
<1>2. ASSUME NEW i \in DOMAIN challenge_record
      PROVE  challenge_record[i].log \in 1..logged /\ challenge_record[i].time \in Nat
    <2>1. challenge_record[i] \in [log : 1..logged, time : 1..logged]
        BY DEF DataTyped
    <2>. QED BY <2>1
<1>3. \A i \in DOMAIN challenge_record : Weight(i) \in Nat
    BY <1>1, <1>2 DEF Weight
<1>. QED BY <1>1, <1>2, <1>3 DEF Weights

\* The queries add up the weights of the records.
LEMMA CountsAreSums ==
    DataTyped => \A U : /\ RecordsOf(U) \in SUBSET DOMAIN challenge_record
                        /\ CountOf(U) = SumOf(Weights, RecordsOf(U))
                        /\ CountOf(U) \in Nat
<1>. SUFFICES ASSUME DataTyped, NEW U
              PROVE  CountOf(U) = SumOf(Weights, RecordsOf(U)) /\ CountOf(U) \in Nat
    BY DEF RecordsOf
<1>. DEFINE S == RecordsOf(U)
            g == [i \in S |-> Weight(i)]
            Sum(it) == it = [s \in SUBSET S |->
                           IF s = {} THEN 0
                           ELSE Weight(CHOOSE x \in s : TRUE) + it[s \ {CHOOSE x \in s : TRUE}]]
<1>1. S \in SUBSET DOMAIN challenge_record
    BY DEF RecordsOf
<1>2. IsFiniteSet(S) /\ g \in [S -> Nat] /\ \A i \in S : g[i] = Weights[i]
    BY <1>1, RecordsAreDeliveries, FS_Subset DEF Weights
<1>3. \A it : SumsUp(it, g, S) <=> Sum(it)
    <2>1. \A s \in SUBSET S : s # {} => g[PickOne(s)] = Weight(CHOOSE x \in s : TRUE)
        BY DEF PickOne
    <2>. HIDE DEF g, S
    <2>. QED BY <2>1 DEF SumsUp, PickOne
<1>4. \E it : Sum(it)
    <2>. HIDE DEF g, S, Sum
    <2>. QED BY <1>2, <1>3, SumsExist
<1>. DEFINE it == CHOOSE it : Sum(it)
<1>5. Sum(it)
    BY <1>4
<1>6. CountOf(U) = it[S]
    BY Zenon DEF CountOf, MapThenSumSet, MapThenFoldSet
<1>. HIDE DEF it, Sum, g, S
<1>7. it[S] = SumOf(Weights, S)
    <2>1. PICK jt : /\ SumsUp(jt, Weights, DOMAIN challenge_record)
                    /\ \A s \in SUBSET DOMAIN challenge_record : SumOf(Weights, s) = jt[s]
        BY RecordsAreDeliveries, SumOfIsTheSum
    <2>2. SumsUp(it, g, S) /\ S \in SUBSET S
        BY <1>3, <1>5
    <2>3. it[S] = jt[S]
        BY <1>1, <1>2, <2>1, <2>2, RecordsAreDeliveries, SumsAgree
    <2>. QED BY <1>1, <2>1, <2>3
<1>8. it[S] \in Nat
    BY <1>1, <1>7, RecordsAreDeliveries, SumOfIsTheSum
<1>. QED BY <1>6, <1>7, <1>8 DEF S

\* The deliveries of some drivers are those of one of them and those of the others.
LEMMA CountOfSplits ==
    ASSUME DataTyped, NEW U, NEW u \in U
    PROVE  CountOf(U) = CountOf(U \ {u}) + Count(u)
<1>. DEFINE s == RecordsOf(U)
            v == RecordsOf(U \ {u})
<1>1. s \in SUBSET DOMAIN challenge_record /\ v \in SUBSET s /\ s \ v = RecordsOf({u})
    BY DEF RecordsOf
<1>. HIDE DEF s, v
<1>2. SumOf(Weights, s) = SumOf(Weights, v) + SumOf(Weights, s \ v)
    BY <1>1, RecordsAreDeliveries, SumOfParts
<1>3. SumOf(Weights, s \ v) = Count(u)
    BY <1>1, CountsAreSums DEF Count
<1>. QED BY <1>2, <1>3, CountsAreSums DEF s, v

Active == {u \in Users : Count(u) > 0}
Over(U, n) == IF CountOf(U) > n THEN CountOf(U) - n ELSE 0
Ends(U, u, n) ==
    /\ u \in U
    /\ CountOf(U \ {u}) < n
    /\ CountOf(U) >= n \/ U = Active
Divided(U, last, n) == [u \in U |-> IF u = last THEN Count(u) - Over(U, n) ELSE Count(u)]

\* What DistanceShares returns.
LEMMA DistanceSharesAre ==
    ASSUME NEW n
    PROVE  DistanceShares(n) =
               {Divided(p[1], p[2], n) :
                   p \in {q \in (SUBSET Active) \X Active : Ends(q[1], q[2], n)}}
BY Zenon DEF DistanceShares, Active, Over, Ends, Divided

\* Nobody's share is nothing.
LEMMA SharesAreDues ==
    ASSUME DataTyped, NEW n \in Nat
    PROVE  usercnt(n) \subseteq Dues
<1>1. Nothing \in Dues
    BY NothingIsDue
<1>2. DeliveryShares(n) \subseteq Dues
    <2>1. SUFFICES ASSUME NEW S \in FirstRecords(n)
                   PROVE  [u \in {v \in Users : RecordsOf({v}) \intersect S # {}} |->
                               Cardinality(RecordsOf({u}) \intersect S)] \in Dues
        BY DEF DeliveryShares
    <2>. DEFINE V == {v \in Users : RecordsOf({v}) \intersect S # {}}
    <2>2. ASSUME NEW u \in V PROVE Cardinality(RecordsOf({u}) \intersect S) \in Nat \ {0}
        <3>1. RecordsOf({u}) \intersect S \in SUBSET DOMAIN challenge_record
            BY DEF RecordsOf
        <3>2. IsFiniteSet(RecordsOf({u}) \intersect S)
            BY <3>1, RecordsAreDeliveries, FS_Subset
        <3>. QED BY <2>2, <3>2, FS_CardinalityType, FS_EmptySet
    <2>3. [u \in V |-> Cardinality(RecordsOf({u}) \intersect S)] \in [V -> Nat \ {0}]
        BY <2>2
    <2>. QED BY <2>3 DEF Dues
<1>3. DistanceShares(n) \subseteq Dues
    <2>1. SUFFICES ASSUME NEW U \in SUBSET Active, NEW last \in Active, Ends(U, last, n)
                   PROVE  Divided(U, last, n) \in Dues
        BY DistanceSharesAre
    <2>2. \A u \in U : Count(u) \in Nat \ {0}
        BY CountsAreSums DEF Active, Count
    <2>3. Count(last) - Over(U, n) \in Nat \ {0}
        <3>1. CountOf(U) = CountOf(U \ {last}) + Count(last)
            BY <2>1, CountOfSplits DEF Ends
        <3>2. CountOf(U) \in Nat /\ CountOf(U \ {last}) \in Nat /\ Count(last) \in Nat \ {0}
            BY <2>1, <2>2, CountsAreSums DEF Ends
        <3>3. CountOf(U \ {last}) < n
            BY <2>1 DEF Ends
        <3>. QED BY <3>1, <3>2, <3>3 DEF Over
    <2>4. Divided(U, last, n) \in [U -> Nat \ {0}]
        BY <2>2, <2>3 DEF Divided
    <2>. QED BY <2>4 DEF Dues, Active
<1>. QED BY <1>1, <1>2, <1>3 DEF usercnt

\* The records can be put in the order of their times, as far as one likes.
LEMMA FirstRecordsExist ==
    ASSUME DataTyped, NEW n \in Nat
    PROVE  FirstRecords(n) # {}
<1>. DEFINE D == DOMAIN challenge_record
            time(i) == challenge_record[i].time
            Earliest(S) == \A i \in S : \A j \in D \ S : time(i) <= time(j)
            Open == {k \in Nat : k <= Cardinality(D) /\ ~\E S \in SUBSET D : Cardinality(S) = k /\ Earliest(S)}
<1>1. IsFiniteSet(D) /\ Cardinality(D) \in Nat /\ \A i \in D : time(i) \in Nat
    BY RecordsAreDeliveries, FS_CardinalityType
<1>. HIDE DEF D, time
<1>2. Open = {}
    <2>1. SUFFICES ASSUME Open # {} PROVE FALSE
        OBVIOUS
    <2>2. PICK k \in Open : \A m \in Open : k <= m
        <3>1. Open \in SUBSET Nat
            OBVIOUS
        <3>. HIDE DEF Open
        <3>. QED BY <2>1, <3>1, LeastNatural
    <2>3. k \in Nat /\ k <= Cardinality(D) /\ ~\E S \in SUBSET D : Cardinality(S) = k /\ Earliest(S)
        BY <2>2
    <2>4. k # 0
        <3>1. {} \in SUBSET D /\ Cardinality({}) = 0 /\ Earliest({})
            BY FS_EmptySet
        <3>. QED BY <2>3, <3>1
    <2>5. k - 1 \in Nat /\ k - 1 \notin Open /\ k - 1 <= Cardinality(D)
        <3>1. k - 1 \in Nat /\ ~(k <= k - 1) /\ k - 1 <= Cardinality(D)
            BY <1>1, <2>3, <2>4
        <3>. HIDE DEF Open
        <3>. QED BY <2>2, <3>1
    <2>6. PICK S \in SUBSET D : Cardinality(S) = k - 1 /\ Earliest(S)
        BY <2>5
    <2>7. IsFiniteSet(S)
        BY <1>1, FS_Subset
    <2>8. D \ S # {}
        <3>1. S # D
            BY <1>1, <2>3, <2>6
        <3>. QED BY <3>1
    <2>9. PICK j \in D \ S : \A i \in D \ S : time(j) <= time(i)
        <3>. DEFINE times == {time(i) : i \in D \ S}
        <3>1. times \in SUBSET Nat /\ times # {}
            BY <1>1, <2>8
        <3>2. PICK t \in times : \A m \in times : t <= m
            <4>. HIDE DEF times
            <4>. QED BY <3>1, LeastNatural
        <3>. QED BY <3>2
    <2>10. Cardinality(S \union {j}) = k
        <3>1. Cardinality(S \union {j}) = Cardinality(S) + 1
            BY <2>7, <2>9, FS_AddElement
        <3>. QED BY <2>3, <2>6, <3>1
    <2>11. Earliest(S \union {j}) /\ S \union {j} \in SUBSET D
        BY <2>6, <2>9
    <2>. QED BY <2>3, <2>10, <2>11
<1>. DEFINE k == Min({n, Cardinality(D)})
<1>3. k \in Nat /\ k <= Cardinality(D)
    <2>1. {n, Cardinality(D)} \in SUBSET Nat /\ {n, Cardinality(D)} # {}
        BY <1>1
    <2>. QED BY <1>1, <2>1, MinIsLeast
<1>4. PICK S \in SUBSET D : Cardinality(S) = k /\ Earliest(S)
    <2>. HIDE DEF k
    <2>. QED BY <1>2, <1>3
<1>. QED BY <1>4 DEF FirstRecords, D, time

\* Where the deliveries are enough, somebody has a share.
LEMMA SharesAreSome ==
    ASSUME DataTyped, NEW n \in Nat \ {0}, Total >= n, NEW s \in usercnt(n)
    PROVE  DOMAIN s # {}
<1>1. CountOf({}) = 0
    <2>1. RecordsOf({}) = {}
        BY DEF RecordsOf
    <2>. QED BY <2>1, CountsAreSums, RecordsAreDeliveries, SumOfNone
<1>2. /\ DeliveryShares(n) # {}
      /\ \A t \in DeliveryShares(n) : DOMAIN t # {}
    <2>1. FirstRecords(n) # {}
        BY FirstRecordsExist
    <2>2. ASSUME NEW S \in FirstRecords(n)
          PROVE  {v \in Users : RecordsOf({v}) \intersect S # {}} # {}
        <3>1. DOMAIN challenge_record # {}
            <4>1. SUFFICES ASSUME DOMAIN challenge_record = {} PROVE FALSE
                OBVIOUS
            <4>2. RecordsOf(Users) = {} /\ RecordsOf({}) = {}
                BY <4>1 DEF RecordsOf
            <4>3. Total = CountOf({})
                BY <4>2, CountsAreSums DEF Total
            <4>. QED BY <1>1, <4>3
        <3>2. Cardinality(DOMAIN challenge_record) \in Nat \ {0}
            BY <3>1, RecordsAreDeliveries, FS_CardinalityType, FS_EmptySet
        <3>3. Min({n, Cardinality(DOMAIN challenge_record)}) # 0
            <4>1. /\ {n, Cardinality(DOMAIN challenge_record)} \in SUBSET Nat
                  /\ {n, Cardinality(DOMAIN challenge_record)} # {}
                BY <3>2
            <4>. QED BY <3>2, <4>1, MinIsLeast
        <3>4. S # {} /\ S \in SUBSET DOMAIN challenge_record
            BY <2>2, <3>3, FS_EmptySet DEF FirstRecords
        <3>5. PICK i \in S : TRUE
            BY <3>4
        <3>6. i \in RecordsOf({Driver[challenge_record[i].log]}) /\ Driver[challenge_record[i].log] \in Users
            BY <3>4, RecordsAreDeliveries DEF RecordsOf
        <3>. QED BY <3>6
    <2>. QED BY <2>1, <2>2 DEF DeliveryShares
<1>3. /\ DistanceShares(n) # {}
      /\ \A t \in DistanceShares(n) : DOMAIN t # {}
    <2>1. ASSUME NEW U \in SUBSET Active, NEW last \in Active, Ends(U, last, n)
          PROVE  DOMAIN Divided(U, last, n) # {}
        BY <2>1 DEF Ends, Divided
    <2>2. CountOf(Active) = Total
        <3>. DEFINE all == RecordsOf(Users)
                    some == RecordsOf(Active)
        <3>1. /\ all \in SUBSET DOMAIN challenge_record /\ some \in SUBSET all
              /\ all \ some \in SUBSET DOMAIN challenge_record
            BY DEF RecordsOf, Active
        <3>2. ASSUME NEW i \in all \ some PROVE Weights[i] = 0
            <4>. DEFINE u == Driver[challenge_record[i].log]
            <4>1. u \in Users /\ u \notin Active /\ i \in RecordsOf({u})
                BY DEF RecordsOf
            <4>. HIDE DEF u
            <4>2. Count(u) = 0 /\ Count(u) = SumOf(Weights, RecordsOf({u}))
                BY <4>1, CountsAreSums DEF Active, Count
            <4>3. RecordsOf({u}) \in SUBSET DOMAIN challenge_record
                BY CountsAreSums
            <4>4. SumOf(Weights, RecordsOf({u})) = Weights[i] + SumOf(Weights, RecordsOf({u}) \ {i})
                <5>1. PICK D, h, mine : D = DOMAIN challenge_record /\ h = Weights /\ mine = RecordsOf({u})
                    OBVIOUS
                <5>2. IsFiniteSet(D) /\ h \in [D -> Nat] /\ mine \in SUBSET D /\ i \in mine
                    BY <4>1, <4>3, <5>1, RecordsAreDeliveries
                <5>3. SumOf(h, mine) = h[i] + SumOf(h, mine \ {i})
                    BY <5>2, SumOfSplits
                <5>. QED BY <5>1, <5>3
            <4>5. SumOf(Weights, RecordsOf({u}) \ {i}) \in Nat /\ Weights[i] \in Nat
                BY <4>1, <4>3, RecordsAreDeliveries, SumOfIsTheSum
            <4>. QED BY <4>2, <4>4, <4>5
        <3>. HIDE DEF all, some
        <3>3. SumOf(Weights, all) = SumOf(Weights, some) + SumOf(Weights, all \ some)
            BY <3>1, RecordsAreDeliveries, SumOfParts
        <3>4. SumOf(Weights, all \ some) = 0
            BY <3>1, <3>2, RecordsAreDeliveries, SumOfNothing
        <3>. QED BY <3>3, <3>4, CountsAreSums DEF Total, all, some
    <2>3. \E U \in SUBSET Active, last \in Active : Ends(U, last, n)
        <3>. DEFINE Enough == {U \in SUBSET Active : CountOf(U) >= n}
                    Sizes == {Cardinality(U) : U \in Enough}
        <3>1. \A U \in SUBSET Active : IsFiniteSet(U) /\ Cardinality(U) \in Nat
            <4>1. \A U \in SUBSET Active : IsFiniteSet(U)
                BY ChallengeConstants, FS_Subset DEF Active
            <4>. QED BY <4>1, FS_CardinalityType
        <3>2. Sizes \in SUBSET Nat /\ Sizes # {}
            <4>1. Active \in Enough
                BY <2>2
            <4>. QED BY <3>1, <4>1
        <3>3. PICK k \in Sizes : \A m \in Sizes : k <= m
            <4>. HIDE DEF Sizes
            <4>. QED BY <3>2, LeastNatural
        <3>4. PICK U \in Enough : Cardinality(U) = k
            BY <3>3
        <3>5. \A V \in Enough : Cardinality(U) <= Cardinality(V)
            BY <3>3, <3>4
        <3>6. U \in SUBSET Active /\ CountOf(U) >= n /\ U # {}
            BY <1>1, <3>4
        <3>7. PICK last \in U : TRUE
            BY <3>6
        <3>8. U \ {last} \in SUBSET Active /\ U \ {last} \notin Enough
            <4>1. Cardinality(U \ {last}) = Cardinality(U) - 1 /\ Cardinality(U) \in Nat
                BY <3>1, <3>6, <3>7, FS_RemoveElement
            <4>2. ~(Cardinality(U) <= Cardinality(U \ {last}))
                BY <4>1
            <4>. HIDE DEF Enough
            <4>. QED BY <3>5, <3>6, <4>2
        <3>9. CountOf(U \ {last}) < n
            <4>1. ~(CountOf(U \ {last}) >= n)
                BY <3>8
            <4>. QED BY <4>1, CountsAreSums
        <3>. QED BY <3>6, <3>7, <3>9 DEF Ends
    <2>. DEFINE pairs == {q \in (SUBSET Active) \X Active : Ends(q[1], q[2], n)}
    <2>4. \A p \in pairs : DOMAIN Divided(p[1], p[2], n) # {}
        BY <2>1
    <2>5. pairs # {}
        <3>1. PICK U \in SUBSET Active, last \in Active : Ends(U, last, n)
            BY <2>3
        <3>2. <<U, last>> \in pairs
            BY <3>1
        <3>. QED BY <3>2
    <2>6. DistanceShares(n) = {Divided(p[1], p[2], n) : p \in pairs}
        BY DistanceSharesAre
    <2>. HIDE DEF pairs
    <2>. QED BY <2>4, <2>5, <2>6
<1>. QED BY <1>2, <1>3 DEF usercnt

-----------------------------------------------------------------------------
(* How a request moves on.                                                 *)

Moved(r) == req' \in [Reqs -> Jobs] /\ \A q \in Reqs : q # r => req'[q] = req[q]

\* It is still the same request.
Kept(r) ==
    /\ req'[r].op = req[r].op /\ req'[r].log = req[r].log /\ req'[r].old = req[r].old
    /\ req'[r].need = req[r].need /\ req'[r].reward = req[r].reward

\* Only its own entry changes.
LEMMA JobMoves ==
    ASSUME JobsTyped, NEW r \in Reqs, NEW j \in Jobs, req' = [req EXCEPT ![r] = j]
    PROVE  Moved(r) /\ req'[r] = j
BY DEF JobsTyped, Moved

\* A connection without a request.
LEMMA IdleIsAJob ==
    /\ Idle \in Jobs /\ Idle.pc = "idle" /\ Idle.op = "none" /\ Idle.log = 0
    /\ Idle.who = {} /\ Idle.due = Nothing
<1>1. Nothing \in Dues
    BY NothingIsDue
<1>. HIDE DEF Nothing, Dues
<1>. QED BY <1>1 DEF Idle, Jobs, Steps, Ops

\* What changes of a request that goes on.
LEMMA JobChanges ==
    ASSUME NEW j \in Jobs, NEW pc \in Steps, NEW who \in SUBSET Users, NEW due \in Dues
    PROVE  /\ [j EXCEPT !.pc = pc] \in Jobs
           /\ [j EXCEPT !.pc = pc, !.who = who] \in Jobs
           /\ [j EXCEPT !.pc = pc, !.due = due] \in Jobs
           /\ [j EXCEPT !.due = due] \in Jobs
<1>. HIDE DEF Steps, Dues
<1>. QED BY DEF Jobs

\* A request goes to another step.
LEMMA GotoMoves ==
    ASSUME JobsTyped, NEW r \in Reqs, NEW pc \in Steps, Goto(r, pc)
    PROVE  /\ Moved(r) /\ Kept(r) /\ req'[r].pc = pc
           /\ req'[r].who = req[r].who /\ req'[r].due = req[r].due
<1>1. PICK j : j = [req[r] EXCEPT !.pc = pc]
    OBVIOUS
<1>2. req[r] \in Jobs
    BY DEF JobsTyped
<1>3. j \in Jobs
    <2>1. req[r].who \in SUBSET Users /\ req[r].due \in Dues
        BY <1>2 DEF Jobs
    <2>. QED BY <1>1, <1>2, <2>1, JobChanges
<1>4. req' = [req EXCEPT ![r] = j]
    BY <1>1 DEF Goto
<1>5. Moved(r) /\ req'[r] = j
    BY <1>3, <1>4, JobMoves
<1>6. /\ j.pc = pc /\ j.op = req[r].op /\ j.log = req[r].log /\ j.old = req[r].old
      /\ j.need = req[r].need /\ j.reward = req[r].reward
      /\ j.who = req[r].who /\ j.due = req[r].due
    BY <1>1, <1>2 DEF Jobs
<1>. QED BY <1>5, <1>6 DEF Kept

\* A request has drivers to judge.
LEMMA JudgedMoves ==
    ASSUME JobsTyped, NEW r \in Reqs, NEW U \in SUBSET Users, Judged(r, U)
    PROVE  /\ Moved(r) /\ Kept(r) /\ req'[r].pc = "judge"
           /\ req'[r].who = U /\ req'[r].due = req[r].due
<1>1. PICK j : j = [req[r] EXCEPT !.pc = "judge", !.who = U]
    OBVIOUS
<1>2. req[r] \in Jobs
    BY DEF JobsTyped
<1>3. j \in Jobs
    <2>1. "judge" \in Steps /\ req[r].due \in Dues
        BY <1>2 DEF Jobs, Steps
    <2>. QED BY <1>1, <1>2, <2>1, JobChanges
<1>4. req' = [req EXCEPT ![r] = j]
    BY <1>1 DEF Judged
<1>5. Moved(r) /\ req'[r] = j
    BY <1>3, <1>4, JobMoves
<1>6. /\ j.pc = "judge" /\ j.op = req[r].op /\ j.log = req[r].log /\ j.old = req[r].old
      /\ j.need = req[r].need /\ j.reward = req[r].reward
      /\ j.who = U /\ j.due = req[r].due
    BY <1>1, <1>2 DEF Jobs
<1>. QED BY <1>5, <1>6 DEF Kept

\* A request ends.
LEMMA EndMoves ==
    ASSUME JobsTyped, NEW r \in Reqs, End(r)
    PROVE  Moved(r) /\ req'[r] = Idle
BY IdleIsAJob, JobMoves DEF End

\* A request judges those that are left, or ends if nobody is.
LEMMA JudgingMoves ==
    ASSUME JobsTyped, NEW r \in Reqs, NEW U \in SUBSET Users, Judging(r, U)
    PROVE  /\ Moved(r)
           /\ U = {} => req'[r] = Idle
           /\ U # {} => /\ Kept(r) /\ req'[r].pc = "judge"
                        /\ req'[r].who = U /\ req'[r].due = req[r].due
<1>1. CASE U = {}
    BY <1>1, EndMoves DEF Judging, End
<1>2. CASE U # {}
    <2>1. Judged(r, U)
        BY <1>2 DEF Judging, Judged
    <2>. QED BY <1>2, <2>1, JudgedMoves
<1>. QED BY <1>1, <1>2

\* A request has found out what is due.
LEMMA DueMoves ==
    ASSUME JobsTyped, NEW r \in Reqs, NEW pc \in Steps, NEW due \in Dues, Due(r, pc, due)
    PROVE  /\ Moved(r) /\ Kept(r) /\ req'[r].pc = pc
           /\ req'[r].who = req[r].who /\ req'[r].due = due
<1>1. PICK j : j = [req[r] EXCEPT !.pc = pc, !.due = due]
    OBVIOUS
<1>2. req[r] \in Jobs
    BY DEF JobsTyped
<1>3. j \in Jobs
    <2>1. req[r].who \in SUBSET Users
        BY <1>2 DEF Jobs
    <2>. QED BY <1>1, <1>2, <2>1, JobChanges
<1>4. req' = [req EXCEPT ![r] = j]
    BY <1>1 DEF Due
<1>5. Moved(r) /\ req'[r] = j
    BY <1>3, <1>4, JobMoves
<1>6. /\ j.pc = pc /\ j.op = req[r].op /\ j.log = req[r].log /\ j.old = req[r].old
      /\ j.need = req[r].need /\ j.reward = req[r].reward
      /\ j.who = req[r].who /\ j.due = due
    BY <1>1, <1>2 DEF Jobs
<1>. QED BY <1>5, <1>6 DEF Kept

\* A request has divided the reward among the drivers, or ends if there is nobody to give it to.
LEMMA SharedMoves ==
    ASSUME TypeInv, NEW r \in Reqs, Shared(r)
    PROVE  /\ Moved(r)
           /\ \E s \in usercnt(req[r].need) :
                IF DOMAIN s = {} THEN req'[r] = Idle
                ELSE /\ Kept(r) /\ req'[r].pc = "share"
                     /\ req'[r].who = req[r].who /\ req'[r].due = s
<1>1. req[r] \in Jobs /\ req[r].need \in Nat
    BY DEF TypeInv, JobsTyped, Jobs
<1>2. PICK s \in usercnt(req[r].need) :
        req' = [req EXCEPT ![r] = IF DOMAIN s = {} THEN Idle
                                  ELSE [@ EXCEPT !.pc = "share", !.due = s]]
    BY DEF Shared
<1>3. s \in Dues
    BY <1>1, <1>2, SharesAreDues DEF TypeInv
<1>4. CASE DOMAIN s = {}
    BY <1>2, <1>4, EndMoves DEF End, TypeInv
<1>5. CASE DOMAIN s # {}
    <2>1. "share" \in Steps /\ Due(r, "share", s)
        BY <1>2, <1>5 DEF Due, Steps
    <2>. QED BY <1>3, <1>5, <2>1, DueMoves DEF TypeInv
<1>. QED BY <1>4, <1>5

\* A request that moves on sensibly leaves all requests sensible.
LEMMA SensibleStays ==
    ASSUME TypeInv, NEW r \in Reqs, Moved(r), challenge_type' = challenge_type,
           logged' \in Nat, logged <= logged', Sensible(req'[r], Personal, logged')
    PROVE  JobsTyped'
<1>1. Personal' = Personal
    BY DEF Personal
<1>2. logged \in Nat
    BY DEF TypeInv, DataTyped
<1>3. ASSUME NEW q \in Reqs, q # r PROVE Sensible(req'[q], Personal, logged')
    <2>1. req'[q] = req[q] /\ Sensible(req[q], Personal, logged)
        BY <1>3 DEF Moved, TypeInv, JobsTyped
    <2>. QED BY <1>2, <2>1 DEF Sensible
<1>4. \A q \in Reqs : Sensible(req'[q], Personal', logged')
    BY <1>1, <1>3
<1>. QED BY <1>4 DEF Moved, JobsTyped, Sensible

-----------------------------------------------------------------------------
(* The types.                                                              *)

\* What a request is like when it begins.
LEMMA BeginMoves ==
    ASSUME TypeInv, NEW r \in Reqs, NEW op \in Ops, NEW l \in Nat, NEW pc \in Steps,
           NEW need \in Counts, NEW reward \in Rewards, Begin(r, op, l, pc, need, reward)
    PROVE  /\ Moved(r) /\ req[r] = Idle
           /\ req'[r].pc = pc /\ req'[r].op = op /\ req'[r].log = l /\ req'[r].need = need
           /\ req'[r].reward = reward /\ req'[r].old = delivery_count
           /\ req'[r].who = {} /\ req'[r].due = Nothing
           /\ overlap' \in {"none", "adds", "any"}
<1>1. PICK j : j = [Idle EXCEPT !.pc = pc, !.op = op, !.log = l, !.need = need,
                                !.reward = reward, !.old = delivery_count]
    OBVIOUS
<1>2. need \in Nat /\ reward \in Nat /\ delivery_count \in Nat
    BY ChallengeConstants DEF TypeInv, DataTyped
<1>3. /\ j.pc = pc /\ j.op = op /\ j.log = l /\ j.need = need /\ j.reward = reward
      /\ j.old = delivery_count /\ j.who = {} /\ j.due = Nothing
    BY <1>1 DEF Idle
<1>4. j \in Jobs
    <2>1. Nothing \in Dues
        BY NothingIsDue
    <2>. HIDE DEF Nothing, Dues, Steps, Ops
    <2>. QED BY <1>1, <1>2, <2>1 DEF Idle, Jobs
<1>5. req' = [req EXCEPT ![r] = j] /\ req[r] = Idle /\ Overlaps(op)
    BY <1>1 DEF Begin
<1>6. Moved(r) /\ req'[r] = j
    BY <1>4, <1>5, JobMoves DEF TypeInv
<1>7. overlap' \in {"none", "adds", "any"}
    BY <1>5 DEF Overlaps, TypeInv, DataTyped
<1>. QED BY <1>3, <1>5, <1>6, <1>7

\* The requests that arrive.
LEMMA TypeArrive ==
    ASSUME TypeInv, NEW r \in Reqs, Arrive(r)
    PROVE  TypeInv'
<1>. USE DEF TypeInv
<1>1. /\ logged \in Nat /\ MaxLogs \in Nat /\ edits \in Nat /\ MaxEdits \in Nat
      /\ delivery_count \in Counts /\ reward_points \in Rewards
    BY ChallengeConstants DEF DataTyped
<1>2. CASE process_challenge(r)
    <2>1. /\ logged' = logged + 1 /\ logged' \in 0..MaxLogs /\ edits' = edits
          /\ Begin(r, "report", logged + 1, "record", delivery_count, reward_points)
        BY <1>1, <1>2 DEF process_challenge
    <2>2. "report" \in Ops /\ "record" \in Steps /\ logged + 1 \in Nat
        BY <1>1 DEF Ops, Steps
    <2>3. /\ Moved(r) /\ req'[r].pc = "record" /\ req'[r].op = "report"
          /\ req'[r].log = logged + 1 /\ req'[r].need = delivery_count
          /\ req'[r].reward = reward_points /\ req'[r].old = delivery_count
          /\ overlap' \in {"none", "adds", "any"}
        BY <1>1, <2>1, <2>2, BeginMoves
    <2>4. UNCHANGED <<challenge_type, terms, challenge_record, challenge_completed, gone>>
        BY <2>1 DEF Begin
    <2>5. Sensible(req'[r], Personal, logged')
        BY <1>1, <2>1, <2>3 DEF Sensible, StepsOf
    <2>6. JobsTyped'
        BY <1>1, <2>1, <2>3, <2>4, <2>5, SensibleStays
    <2>7. DataTyped'
        <3>1. 1..logged \subseteq 1..logged'
            BY <1>1, <2>1
        <3>2. challenge_record' \in [DOMAIN challenge_record' -> [log : 1..logged', time : 1..logged']]
            BY <2>4, <3>1 DEF DataTyped
        <3>. QED BY <2>1, <2>3, <2>4, <3>1, <3>2 DEF DataTyped, terms
    <2>. QED BY <2>6, <2>7
<1>3. ASSUME NEW op \in {"put", "remove", "patch"}, NEW l \in 0..logged, NEW need \in Counts, NEW reward \in Rewards,
             NEW pc \in {"record", "remove", "update"}, Edit, UNCHANGED logged,
             Begin(r, op, l, pc, need, reward), op = "patch" \/ l # 0,
             pc = CASE op = "put" -> "record" [] op = "remove" -> "remove" [] OTHER -> "update"
      PROVE  TypeInv'
    <2>1. op \in Ops /\ pc \in Steps /\ l \in Nat
        BY DEF Ops, Steps
    <2>2. /\ Moved(r) /\ req'[r].pc = pc /\ req'[r].op = op /\ req'[r].log = l
          /\ req'[r].need = need /\ req'[r].reward = reward /\ req'[r].old = delivery_count
          /\ overlap' \in {"none", "adds", "any"}
        BY <1>3, <2>1, BeginMoves
    <2>3. UNCHANGED <<challenge_type, terms, challenge_record, challenge_completed, gone>>
        BY <1>3 DEF Begin
    <2>4. pc \in StepsOf(op, Personal) /\ pc \notin {"add", "take"}
        BY <1>3 DEF StepsOf
    <2>5. Sensible(req'[r], Personal, logged')
        BY <1>1, <1>3, <2>2, <2>4 DEF Sensible
    <2>6. JobsTyped'
        BY <1>1, <1>3, <2>2, <2>3, <2>5, SensibleStays
    <2>7. DataTyped'
        <3>1. edits' \in 0..MaxEdits
            BY <1>1, <1>3 DEF Edit
        <3>. QED BY <1>3, <2>2, <2>3, <3>1 DEF DataTyped, terms
    <2>. QED BY <2>6, <2>7
<1>4. ASSUME NEW l \in 1..MaxLogs, put_delivery(r, l) PROVE TypeInv'
    <2>1. /\ Edit /\ UNCHANGED logged /\ l \in 0..logged /\ l # 0
          /\ Begin(r, "put", l, "record", delivery_count, reward_points)
        BY <1>1, <1>4 DEF put_delivery
    <2>. QED BY <1>1, <1>3, <2>1
<1>5. ASSUME NEW l \in 1..MaxLogs, delete_delivery(r, l) PROVE TypeInv'
    <2>1. /\ Edit /\ UNCHANGED logged /\ RecordsWith(l) # {}
          /\ Begin(r, "remove", l, "remove", delivery_count, reward_points)
        BY <1>5 DEF delete_delivery
    <2>2. PICK i \in DOMAIN challenge_record : challenge_record[i].log = l
        BY <2>1 DEF RecordsWith
    <2>3. l \in 0..logged /\ l # 0
        BY <1>1, <2>2, RecordsAreDeliveries
    <2>. QED BY <1>1, <1>3, <2>1, <2>3
<1>6. ASSUME NEW need \in Counts, NEW reward \in Rewards, patch_challenge(r, need, reward)
      PROVE  TypeInv'
    <2>1. Edit /\ UNCHANGED logged /\ Begin(r, "patch", 0, "update", need, reward)
        BY <1>6 DEF patch_challenge
    <2>. QED BY <1>1, <1>3, <2>1
<1>. QED BY <1>2, <1>4, <1>5, <1>6 DEF Arrive

\* A delivery is logged without a request, or deleted.
LEMMA TypeOther ==
    ASSUME TypeInv, LogOther \/ \E l \in 1..MaxLogs : delete_dlog(l)
    PROVE  TypeInv'
<1>. USE DEF TypeInv
<1>1. logged \in Nat /\ MaxLogs \in Nat /\ edits \in Nat /\ MaxEdits \in Nat
    BY ChallengeConstants DEF DataTyped
<1>2. /\ UNCHANGED <<challenge_type, terms, challenge_record, challenge_completed, req, overlap>>
      /\ logged' \in 0..MaxLogs /\ logged <= logged' /\ edits' \in 0..MaxEdits
      /\ gone' \subseteq 1..logged'
    <2>1. CASE LogOther
        BY <1>1, <2>1 DEF LogOther, DataTyped
    <2>2. CASE \E l \in 1..MaxLogs : delete_dlog(l)
        BY <1>1, <2>2 DEF delete_dlog, Edit, DataTyped
    <2>. QED BY <2>1, <2>2
<1>3. JobsTyped'
    <2>1. Personal' = Personal /\ logged' \in Nat
        BY <1>1, <1>2 DEF Personal
    <2>2. ASSUME NEW r \in Reqs PROVE Sensible(req[r], Personal, logged')
        BY <1>1, <1>2, <2>1 DEF JobsTyped, Sensible
    <2>. QED BY <1>2, <2>1, <2>2 DEF JobsTyped, Sensible
<1>4. DataTyped'
    <2>1. 1..logged \subseteq 1..logged'
        BY <1>1, <1>2
    <2>2. challenge_record' \in [DOMAIN challenge_record' -> [log : 1..logged', time : 1..logged']]
        BY <1>2, <2>1 DEF DataTyped
    <2>. QED BY <1>2, <2>2 DEF DataTyped, terms
<1>. QED BY <1>3, <1>4

\* Which requests a step belongs to.
LEMMA StepsTell ==
    ASSUME TypeInv, NEW r \in Reqs
    PROVE  /\ req[r].pc = "idle" <=> req[r].op = "none"
           /\ req[r].pc = "record" => req[r].op \in {"report", "put"}
           /\ req[r].pc = "remove" => req[r].op = "remove"
           /\ req[r].pc = "update" => req[r].op = "patch"
           /\ req[r].pc \in {"points", "list"} => Personal /\ req[r].op = "patch"
           /\ req[r].pc = "add" => Personal /\ req[r].op \in {"report", "put", "patch"}
           /\ req[r].pc = "take" => Personal /\ req[r].op \in {"remove", "patch"}
           /\ req[r].pc = "clear" => ~Personal /\ req[r].op = "remove"
           /\ req[r].pc \in {"replace", "shares"} => ~Personal /\ req[r].op \in {"remove", "patch"}
           /\ req[r].pc = "share" => ~Personal
<1>1. req[r].pc \in StepsOf(req[r].op, Personal) /\ req[r].op \in Ops
    BY DEF TypeInv, JobsTyped, Sensible, Jobs
<1>2. CASE Personal
    BY <1>1, <1>2 DEF StepsOf, Ops
<1>3. CASE ~Personal
    BY <1>1, <1>3 DEF StepsOf, Ops
<1>. QED BY <1>2, <1>3

\* What a request that is under way has read.
LEMMA ReadByThen ==
    ASSUME TypeInv, NEW r \in Reqs, req[r].op # "none"
    PROVE  /\ req[r].old \in Counts /\ req[r].need \in Counts /\ req[r].reward \in Rewards
           /\ req[r].old \in Nat \ {0} /\ req[r].need \in Nat \ {0} /\ req[r].reward \in Nat
           /\ req[r].op \in {"report", "put", "remove"} =>
                req[r].log \in 1..logged /\ Driver[req[r].log] \in Users
           /\ req[r].who \in SUBSET Users /\ req[r].due \in Dues
<1>1. Sensible(req[r], Personal, logged) /\ req[r] \in Jobs /\ logged \in Nat
    BY DEF TypeInv, JobsTyped, DataTyped
<1>2. req[r].old \in Counts /\ req[r].need \in Counts /\ req[r].reward \in Rewards
    BY <1>1 DEF Sensible
<1>3. req[r].op \in {"report", "put", "remove"} => req[r].log \in 1..logged
    BY <1>1 DEF Sensible
<1>4. \A l \in 1..logged : Driver[l] \in Users
    BY RecordsAreDeliveries DEF TypeInv
<1>. QED BY <1>1, <1>2, <1>3, <1>4, ChallengeConstants DEF Jobs

\* There is a number for a new row.
LEMMA NewNumber ==
    ASSUME DataTyped
    PROVE  Min((1..Cardinality(DOMAIN challenge_record) + 1) \ DOMAIN challenge_record)
               \notin DOMAIN challenge_record
<1>. DEFINE D == DOMAIN challenge_record
            n == Cardinality(D)
            free == (1..n + 1) \ D
<1>1. IsFiniteSet(D) /\ n \in Nat
    BY RecordsAreDeliveries, FS_CardinalityType
<1>2. free # {}
    <2>1. SUFFICES ASSUME 1..n + 1 \subseteq D PROVE FALSE
        OBVIOUS
    <2>2. Cardinality(1..n + 1) = n + 1
        BY <1>1, FS_Interval
    <2>3. Cardinality(1..n + 1) <= n
        BY <1>1, <2>1, FS_Subset
    <2>. QED BY <1>1, <2>2, <2>3
<1>3. Min(free) \in free
    <2>1. free \in SUBSET Nat
        BY <1>1
    <2>. HIDE DEF free
    <2>. QED BY <1>2, <2>1, MinIsLeast
<1>4. Min(free) \notin D
    BY <1>3
<1>. QED BY <1>4

\* A request adds a record of its delivery.
LEMMA RecordAdds ==
    ASSUME TypeInv, NEW r \in Reqs, Record(r)
    PROVE  /\ Moved(r) /\ Kept(r) /\ req'[r].pc = "judge"
           /\ req'[r].who = {Driver[req[r].log]} /\ req'[r].due = req[r].due
           /\ \E new : \E time \in 1..logged :
                /\ new \notin DOMAIN challenge_record
                /\ DOMAIN challenge_record' = DOMAIN challenge_record \union {new}
                /\ challenge_record'[new] = [log |-> req[r].log, time |-> time]
                /\ \A i \in DOMAIN challenge_record : challenge_record'[i] = challenge_record[i]
                /\ challenge_record' = [i \in DOMAIN challenge_record' |-> challenge_record'[i]]
<1>1. req[r].pc = "record" /\ req[r].op \in {"report", "put"} /\ Judged(r, {Driver[req[r].log]})
    BY StepsTell DEF Record
<1>2. req[r].log \in 1..logged /\ Driver[req[r].log] \in Users /\ logged \in Nat
    BY <1>1, ReadByThen DEF TypeInv, DataTyped
<1>3. /\ Moved(r) /\ Kept(r) /\ req'[r].pc = "judge"
      /\ req'[r].who = {Driver[req[r].log]} /\ req'[r].due = req[r].due
    BY <1>1, <1>2, JudgedMoves DEF TypeInv
<1>4. PICK new, time :
        /\ new = Min((1..Cardinality(DOMAIN challenge_record) + 1) \ DOMAIN challenge_record)
        /\ time = IF req[r].op = "put" THEN req[r].log ELSE logged
    OBVIOUS
<1>5. new \notin DOMAIN challenge_record /\ time \in 1..logged
    BY <1>2, <1>4, NewNumber DEF TypeInv
<1>6. challenge_record' =
        [i \in DOMAIN challenge_record \union {new} |->
            IF i = new THEN [log |-> req[r].log, time |-> time] ELSE challenge_record[i]]
    BY <1>4 DEF Record
<1>. QED BY <1>3, <1>5, <1>6

\* A request removes the records of its delivery, and changes no other.
LEMMA RemoveTakes ==
    ASSUME TypeInv, NEW r \in Reqs, Remove(r)
    PROVE  /\ Moved(r) /\ Kept(r) /\ req'[r].pc = "judge"
           /\ req'[r].who = {Driver[req[r].log]} /\ req'[r].due = req[r].due
           /\ DOMAIN challenge_record' \in SUBSET DOMAIN challenge_record
           /\ \A i \in DOMAIN challenge_record' : challenge_record'[i] = challenge_record[i]
           /\ challenge_record' = [i \in DOMAIN challenge_record' |-> challenge_record'[i]]
<1>1. req[r].pc = "remove" /\ req[r].op = "remove" /\ Judged(r, {Driver[req[r].log]})
    BY StepsTell DEF Remove
<1>2. Driver[req[r].log] \in Users
    BY <1>1, ReadByThen
<1>3. /\ Moved(r) /\ Kept(r) /\ req'[r].pc = "judge"
      /\ req'[r].who = {Driver[req[r].log]} /\ req'[r].due = req[r].due
    BY <1>1, <1>2, JudgedMoves DEF TypeInv
<1>4. challenge_record' = [i \in DOMAIN challenge_record \ RecordsWith(req[r].log) |-> challenge_record[i]]
    BY DEF Remove
<1>. QED BY <1>3, <1>4

-----------------------------------------------------------------------------
(* What is due.                                                            *)

\* What a request finds out about a driver of a personal challenge, in numbers.
LEMMA AddsAndTakes ==
    ASSUME TypeInv, NEW r \in Reqs, req[r].op # "none", NEW u \in Users
    PROVE  /\ Rows(u) \in Nat /\ Count(u) \in Nat /\ Owed(r, u) \in Nat /\ Held(u) \in Nat
           /\ Adds(r, u) \in Nat /\ Takes(r, u) \in Nat
           /\ Held(u) = IF challenge_type = 3 THEN Rows(u) ELSE IF Rows(u) = 0 THEN 0 ELSE 1
           /\ req[r].op \in {"report", "put"} =>
                Takes(r, u) = 0 /\ Adds(r, u) = IF Owed(r, u) > Held(u) THEN 1 ELSE 0
           /\ req[r].op = "remove" =>
                Adds(r, u) = 0 /\ Takes(r, u) = IF Owed(r, u) < Held(u) THEN 1 ELSE 0
           /\ req[r].op = "patch" =>
                /\ Adds(r, u) = IF req[r].need < req[r].old /\ Owed(r, u) > Held(u)
                                THEN Owed(r, u) - Held(u) ELSE 0
                /\ Takes(r, u) = IF req[r].need > req[r].old /\ Owed(r, u) < Held(u)
                                 THEN Held(u) - Owed(r, u) ELSE 0
<1>1. \A n \in Nat : AtMostOne(n) = IF n = 0 THEN 0 ELSE 1
    <2>1. ASSUME NEW n \in Nat PROVE AtMostOne(n) = IF n = 0 THEN 0 ELSE 1
        <3>1. Min({n, 1}) \in {n, 1} /\ \A m \in {n, 1} : Min({n, 1}) <= m
            <4>1. {n, 1} \in SUBSET Nat /\ {n, 1} # {}
                OBVIOUS
            <4>. QED BY <4>1, MinIsLeast
        <3>2. Min({n, 1}) = IF n = 0 THEN 0 ELSE 1
            BY <3>1
        <3>. QED BY <3>2 DEF AtMostOne
    <2>. QED BY <2>1
<1>2. Rows(u) \in Nat /\ Count(u) \in Nat
    <2>1. challenge_completed[u] \in Seq(Nat)
        BY DEF TypeInv, DataTyped
    <2>. QED BY <2>1, CountsAreSums DEF Rows, Count, TypeInv
<1>3. req[r].need \in Nat \ {0} /\ req[r].old \in Nat \ {0} /\ req[r].op \in Ops
    BY ReadByThen DEF TypeInv, JobsTyped, Jobs
<1>4. Owed(r, u) \in Nat
    BY <1>2, <1>3, Quotient DEF Owed
<1>5. /\ Held(u) = IF challenge_type = 3 THEN Rows(u) ELSE IF Rows(u) = 0 THEN 0 ELSE 1
      /\ Held(u) \in Nat
    BY <1>1, <1>2 DEF Held
<1>6. /\ MoreBy(r, u) = IF Owed(r, u) > Held(u) THEN Owed(r, u) - Held(u) ELSE 0
      /\ FewerBy(r, u) = IF Owed(r, u) < Held(u) THEN Held(u) - Owed(r, u) ELSE 0
      /\ MoreBy(r, u) \in Nat /\ FewerBy(r, u) \in Nat
    BY <1>4, <1>5 DEF MoreBy, FewerBy
<1>7. CASE req[r].op \in {"report", "put"}
    <2>1. Adds(r, u) = AtMostOne(MoreBy(r, u)) /\ Takes(r, u) = 0
        BY <1>7 DEF Adds, Takes
    <2>. QED BY <1>1, <1>2, <1>4, <1>5, <1>6, <1>7, <2>1
<1>8. CASE req[r].op = "remove"
    <2>1. Takes(r, u) = AtMostOne(FewerBy(r, u)) /\ Adds(r, u) = 0
        BY <1>8 DEF Adds, Takes
    <2>. QED BY <1>1, <1>2, <1>4, <1>5, <1>6, <1>8, <2>1
<1>9. CASE req[r].op = "patch"
    <2>1. /\ Adds(r, u) = IF req[r].need < req[r].old THEN MoreBy(r, u) ELSE 0
          /\ Takes(r, u) = IF req[r].need > req[r].old THEN FewerBy(r, u) ELSE 0
        BY <1>9 DEF Adds, Takes
    <2>. QED BY <1>2, <1>3, <1>4, <1>5, <1>6, <1>9, <2>1
<1>. QED BY <1>3, <1>7, <1>8, <1>9 DEF Ops

\* The driver of whom a request treats the rows.
LEMMA DueToOne ==
    ASSUME TypeInv, NEW r \in Reqs, req[r].pc \in {"add", "take"}
    PROVE  \E u \in Users : /\ u \in req[r].who /\ DOMAIN req[r].due = {u}
                            /\ req[r].due[u] \in Nat \ {0}
<1>1. PICK u \in req[r].who : DOMAIN req[r].due = {u}
    BY DEF TypeInv, JobsTyped, Sensible
<1>2. req[r].due \in Dues /\ req[r].who \in SUBSET Users
    BY DEF TypeInv, JobsTyped, Jobs
<1>3. PICK U \in SUBSET Users : req[r].due \in [U -> Nat \ {0}]
    BY <1>2 DEF Dues
<1>4. req[r].due[u] \in Nat \ {0}
    BY <1>1, <1>3
<1>. QED BY <1>1, <1>2, <1>4

\* What becomes of a request that has judged one driver.
Passed(r, u) ==
    /\ Adds(r, u) = 0 /\ Takes(r, u) = 0
    /\ req[r].who \ {u} = {} => req'[r] = Idle
    /\ req[r].who \ {u} # {} => /\ Kept(r) /\ req'[r].pc = "judge"
                                /\ req'[r].who = req[r].who \ {u}
Found(r, u, pc, n) ==
    /\ n > 0 /\ Kept(r) /\ req'[r].pc = pc /\ req'[r].who = req[r].who
    /\ DOMAIN req'[r].due = {u} /\ req'[r].due[u] = n
JudgedOne(r, u) ==
    \/ Passed(r, u)
    \/ Found(r, u, "add", Adds(r, u))
    \/ Found(r, u, "take", Takes(r, u))

\* A personal challenge is judged driver by driver.
LEMMA JudgePersonalMoves ==
    ASSUME TypeInv, NEW r \in Reqs, JudgePersonal(r)
    PROVE  Moved(r) /\ \E u \in req[r].who : u \in Users /\ JudgedOne(r, u)
<1>1. req[r].pc = "judge" /\ req[r].op # "none"
    BY StepsTell DEF JudgePersonal
<1>2. PICK u \in req[r].who :
        \/ /\ Adds(r, u) = 0 /\ Takes(r, u) = 0
           /\ Judging(r, req[r].who \ {u})
        \/ Adds(r, u) > 0 /\ Due(r, "add", [v \in {u} |-> Adds(r, u)])
        \/ Takes(r, u) > 0 /\ Due(r, "take", [v \in {u} |-> Takes(r, u)])
    BY DEF JudgePersonal
<1>3. u \in Users /\ req[r].who \in SUBSET Users /\ req[r].who \ {u} \in SUBSET Users
    BY <1>1, <1>2, ReadByThen
<1>4. Adds(r, u) \in Nat /\ Takes(r, u) \in Nat
    BY <1>1, <1>3, AddsAndTakes
<1>5. ASSUME Adds(r, u) = 0 /\ Takes(r, u) = 0 /\ Judging(r, req[r].who \ {u})
      PROVE  Moved(r) /\ JudgedOne(r, u)
    <2>1. Moved(r) /\ Passed(r, u)
        BY <1>3, <1>5, JudgingMoves DEF TypeInv, Passed
    <2>. QED BY <2>1 DEF JudgedOne
<1>6. ASSUME NEW n \in Nat \ {0}, NEW pc \in {"add", "take"}, Due(r, pc, [v \in {u} |-> n])
      PROVE  Moved(r) /\ Found(r, u, pc, n)
    <2>1. PICK due : due = [v \in {u} |-> n]
        OBVIOUS
    <2>2. due \in Dues
        <3>1. {u} \in SUBSET Users /\ due \in [{u} -> Nat \ {0}]
            BY <1>3, <2>1
        <3>. QED BY <3>1 DEF Dues
    <2>3. pc \in Steps /\ Due(r, pc, due)
        BY <1>6, <2>1 DEF Steps
    <2>4. /\ Moved(r) /\ Kept(r) /\ req'[r].pc = pc
          /\ req'[r].who = req[r].who /\ req'[r].due = due
        BY <2>2, <2>3, DueMoves DEF TypeInv
    <2>. QED BY <2>1, <2>4 DEF Found
<1>7. ASSUME Adds(r, u) > 0 /\ Due(r, "add", [v \in {u} |-> Adds(r, u)])
      PROVE  Moved(r) /\ JudgedOne(r, u)
    <2>1. Adds(r, u) \in Nat \ {0}
        BY <1>4, <1>7
    <2>2. Moved(r) /\ Found(r, u, "add", Adds(r, u))
        BY <1>6, <1>7, <2>1
    <2>. QED BY <2>2 DEF JudgedOne
<1>8. ASSUME Takes(r, u) > 0 /\ Due(r, "take", [v \in {u} |-> Takes(r, u)])
      PROVE  Moved(r) /\ JudgedOne(r, u)
    <2>1. Takes(r, u) \in Nat \ {0}
        BY <1>4, <1>8
    <2>2. Moved(r) /\ Found(r, u, "take", Takes(r, u))
        BY <1>6, <1>8, <2>1
    <2>. QED BY <2>2 DEF JudgedOne
<1>9. Moved(r) /\ JudgedOne(r, u)
    BY <1>2, <1>5, <1>7, <1>8
<1>. QED BY <1>3, <1>9

-----------------------------------------------------------------------------
(* The types of the steps of a request.                                    *)

\* A request that ends, or goes on at a step of its kind, leaves the requests typed.
LEMMA JobsStay ==
    ASSUME TypeInv, NEW r \in Reqs, req[r].op # "none", Moved(r),
           challenge_type' = challenge_type, logged' = logged,
           \/ req'[r] = Idle
           \/ /\ Kept(r) /\ req'[r].pc \in StepsOf(req[r].op, Personal)
              /\ req'[r].pc \in {"add", "take"} => \E u \in req'[r].who : DOMAIN req'[r].due = {u}
    PROVE  JobsTyped'
<1>1. logged \in Nat /\ logged' \in Nat /\ logged <= logged' /\ 0 \in 0..logged'
    BY DEF TypeInv, DataTyped
<1>2. Sensible(req'[r], Personal, logged')
    <2>1. CASE req'[r] = Idle
        BY <1>1, <2>1, IdleIsAJob DEF Sensible, StepsOf
    <2>2. CASE /\ Kept(r) /\ req'[r].pc \in StepsOf(req[r].op, Personal)
               /\ req'[r].pc \in {"add", "take"} => \E u \in req'[r].who : DOMAIN req'[r].due = {u}
        <3>1. Sensible(req[r], Personal, logged)
            BY DEF TypeInv, JobsTyped
        <3>2. req'[r].log \in 0..logged' /\ (req'[r].op \in {"report", "put", "remove"} => req'[r].log # 0)
            BY <2>2, <3>1 DEF Kept, Sensible
        <3>3. req'[r].old \in Counts /\ req'[r].need \in Counts /\ req'[r].reward \in Rewards
            BY <2>2, ReadByThen DEF Kept
        <3>4. req'[r].pc \in StepsOf(req'[r].op, Personal)
            BY <2>2 DEF Kept
        <3>. QED BY <2>2, <3>2, <3>3, <3>4 DEF Sensible
    <2>. QED BY <2>1, <2>2
<1>. QED BY <1>1, <1>2, SensibleStays

\* Sequences of points.
LEMMA PointsAreSequences ==
    ASSUME NEW n \in Nat, NEW x \in Nat
    PROVE  [i \in 1..n |-> x] \in Seq(Nat) /\ Len([i \in 1..n |-> x]) = n
OBVIOUS

\* What a request does to the rows of a driver, or of all.
LEMMA RowsStayTyped ==
    ASSUME TypeInv, NEW r \in Reqs, Points(r) \/ Add(r) \/ Take(r) \/ Clear(r) \/ Share(r)
    PROVE  challenge_completed' \in [Users -> Seq(Nat)]
<1>1. req[r].op # "none" /\ req[r].reward \in Nat /\ req[r].need \in Nat \ {0}
    BY StepsTell, ReadByThen DEF Points, Add, Take, Clear, Share
<1>2. challenge_completed \in [Users -> Seq(Nat)]
    BY DEF TypeInv, DataTyped
<1>3. CASE Points(r)
    <2>1. challenge_completed' = [u \in Users |-> [i \in 1..Rows(u) |-> req[r].reward]]
        BY <1>3 DEF Points
    <2>2. \A u \in Users : Rows(u) \in Nat
        BY <1>2 DEF Rows
    <2>3. \A u \in Users : [i \in 1..Rows(u) |-> req[r].reward] \in Seq(Nat)
        BY <1>1, <2>2, PointsAreSequences
    <2>. QED BY <2>1, <2>3
<1>4. CASE Clear(r)
    BY <1>4 DEF Clear
<1>5. CASE Add(r)
    <2>1. req[r].pc = "add"
        BY <1>5 DEF Add
    <2>2. PICK u \in DOMAIN req[r].due :
            challenge_completed' = [challenge_completed EXCEPT
                ![u] = @ \o [i \in 1..req[r].due[u] |-> req[r].reward]]
        BY <1>5 DEF Add
    <2>3. u \in Users /\ req[r].due[u] \in Nat
        BY <2>1, <2>2, DueToOne
    <2>4. [i \in 1..req[r].due[u] |-> req[r].reward] \in Seq(Nat)
        BY <1>1, <2>3, PointsAreSequences
    <2>5. challenge_completed[u] \o [i \in 1..req[r].due[u] |-> req[r].reward] \in Seq(Nat)
        BY <1>2, <2>3, <2>4
    <2>. QED BY <1>2, <2>2, <2>5
<1>6. CASE Take(r)
    <2>1. req[r].pc = "take"
        BY <1>6 DEF Take
    <2>2. PICK u \in DOMAIN req[r].due :
            challenge_completed' = [challenge_completed EXCEPT
                ![u] = IF challenge_type # 3 \/ Len(@) < req[r].due[u] THEN <<>>
                       ELSE SubSeq(@, 1, Len(@) - req[r].due[u])]
        BY <1>6 DEF Take
    <2>3. u \in Users /\ req[r].due[u] \in Nat
        BY <2>1, <2>2, DueToOne
    <2>4. ASSUME NEW s \in Seq(Nat), ~(Len(s) < req[r].due[u])
          PROVE  SubSeq(s, 1, Len(s) - req[r].due[u]) \in Seq(Nat)
        BY <2>3, <2>4
    <2>5. PICK s : s = challenge_completed[u]
        OBVIOUS
    <2>6. PICK rest : rest = IF challenge_type # 3 \/ Len(s) < req[r].due[u] THEN <<>>
                             ELSE SubSeq(s, 1, Len(s) - req[r].due[u])
        OBVIOUS
    <2>7. s \in Seq(Nat) /\ rest \in Seq(Nat)
        BY <1>2, <2>3, <2>4, <2>5, <2>6
    <2>8. challenge_completed' = [challenge_completed EXCEPT ![u] = rest]
        BY <2>2, <2>5, <2>6
    <2>. QED BY <1>2, <2>7, <2>8
<1>7. CASE Share(r)
    <2>1. PICK u \in DOMAIN req[r].due :
            challenge_completed' = [challenge_completed EXCEPT
                ![u] = Append(@, RoundDiv(req[r].reward * req[r].due[u], req[r].need))]
        BY <1>7 DEF Share
    <2>2. u \in Users /\ req[r].due[u] \in Nat
        <3>1. req[r].due \in Dues
            BY <1>1, ReadByThen
        <3>2. PICK U \in SUBSET Users : req[r].due \in [U -> Nat \ {0}]
            BY <3>1 DEF Dues
        <3>. QED BY <2>1, <3>2
    <2>3. \A a \in Nat, b \in Nat \ {0} : RoundDiv(a, b) \in Nat
        <3>1. ASSUME NEW a \in Nat, NEW b \in Nat \ {0} PROVE RoundDiv(a, b) \in Nat
            <4>1. a \div b \in Nat
                BY Quotient
            <4>. DEFINE q == a \div b
            <4>2. q % 2 \in Nat /\ RoundDiv(a, b) \in {q, q + 1, q + (q % 2)}
                BY <4>1 DEF RoundDiv
            <4>. HIDE DEF q
            <4>. QED BY <4>1, <4>2 DEF q
        <3>. QED BY <3>1
    <2>4. req[r].reward * req[r].due[u] \in Nat
        BY <1>1, <2>2
    <2>5. RoundDiv(req[r].reward * req[r].due[u], req[r].need) \in Nat
        BY <1>1, <2>3, <2>4
    <2>6. Append(challenge_completed[u],
                 RoundDiv(req[r].reward * req[r].due[u], req[r].need)) \in Seq(Nat)
        BY <1>2, <2>2, <2>5
    <2>. QED BY <1>2, <2>1, <2>6
<1>. QED BY <1>3, <1>4, <1>5, <1>6, <1>7

\* A request that inserts the shares, of which there are some where the deliveries are
\* enough.
LEMMA SharedGoesOn ==
    ASSUME TypeInv, NEW r \in Reqs, req[r].op # "none", Shared(r)
    PROVE  /\ Moved(r)
           /\ req'[r] = Idle \/ (Kept(r) /\ req'[r].pc = "share")
           /\ Total >= req[r].need => Kept(r) /\ req'[r].pc = "share"
<1>1. PICK s \in usercnt(req[r].need) :
        IF DOMAIN s = {} THEN req'[r] = Idle
        ELSE /\ Kept(r) /\ req'[r].pc = "share"
             /\ req'[r].who = req[r].who /\ req'[r].due = s
    BY SharedMoves
<1>2. Total >= req[r].need => DOMAIN s # {}
    BY <1>1, ReadByThen, SharesAreSome DEF TypeInv
<1>. QED BY <1>1, <1>2, SharedMoves

\* How a company challenge is judged.
LEMMA JudgeCompanyMoves ==
    ASSUME TypeInv, NEW r \in Reqs, JudgeCompany(r)
    PROVE  /\ req[r].pc = "judge" /\ req[r].op # "none" /\ ~Personal /\ Moved(r)
           /\ req[r].op \in {"report", "put"} =>
                \/ Total >= req[r].need /\ NoRows /\ Kept(r) /\ req'[r].pc = "share"
                \/ ~(Total >= req[r].need /\ NoRows) /\ req'[r] = Idle
           /\ req[r].op = "remove" =>
                \/ ~(Total >= req[r].need) /\ Kept(r) /\ req'[r].pc = "clear"
                \/ Total >= req[r].need /\ NoRows /\ req'[r] = Idle
                \/ Total >= req[r].need /\ ~NoRows /\ Kept(r) /\ req'[r].pc = "replace"
           /\ req[r].op = "patch" => Kept(r) /\ req'[r].pc \in {"shares", "replace"}
<1>1. req[r].pc = "judge" /\ req[r].op # "none" /\ ~Personal
    BY StepsTell DEF JudgeCompany
<1>2. req[r].op \in Ops /\ JobsTyped
    BY DEF TypeInv, JobsTyped, Jobs
<1>3. CASE req[r].op \in {"report", "put"}
    <2>1. IF Total >= req[r].need /\ NoRows THEN Shared(r) ELSE End(r)
        BY <1>3 DEF JudgeCompany
    <2>. QED BY <1>1, <1>2, <1>3, <2>1, SharedGoesOn, EndMoves
<1>4. CASE req[r].op = "remove"
    <2>1. IF ~(Total >= req[r].need) THEN Goto(r, "clear")
          ELSE IF NoRows THEN End(r) ELSE Goto(r, "replace")
        BY <1>4 DEF JudgeCompany
    <2>2. "clear" \in Steps /\ "replace" \in Steps
        BY DEF Steps
    <2>. QED BY <1>1, <1>2, <1>4, <2>1, <2>2, EndMoves, GotoMoves
<1>5. CASE req[r].op = "patch"
    <2>1. IF NoRows THEN Goto(r, "shares") ELSE Goto(r, "replace")
        BY <1>5 DEF JudgeCompany
    <2>2. "shares" \in Steps /\ "replace" \in Steps
        BY DEF Steps
    <2>. QED BY <1>1, <1>2, <1>5, <2>1, <2>2, GotoMoves
<1>. QED BY <1>1, <1>2, <1>3, <1>4, <1>5 DEF Ops

\* How the shares are written.
LEMMA SharingMoves ==
    ASSUME TypeInv, NEW r \in Reqs
    PROVE  /\ Clear(r) =>
                /\ req[r].op # "none" /\ ~Personal /\ Moved(r)
                /\ \/ req[r].pc = "clear" /\ req'[r] = Idle
                   \/ req[r].pc = "replace" /\ Kept(r) /\ req'[r].pc = "shares"
           /\ Shares(r) =>
                /\ req[r].op # "none" /\ ~Personal /\ Moved(r)
                /\ \/ req'[r] = Idle \/ (Kept(r) /\ req'[r].pc = "share")
                /\ Total >= req[r].need => Kept(r) /\ req'[r].pc = "share"
           /\ Share(r) =>
                /\ req[r].op # "none" /\ ~Personal /\ Moved(r)
                /\ req'[r] = Idle \/ (Kept(r) /\ req'[r].pc = "share")
<1>1. JobsTyped
    BY DEF TypeInv
<1>2. ASSUME Clear(r)
      PROVE  /\ req[r].op # "none" /\ ~Personal /\ Moved(r)
             /\ \/ req[r].pc = "clear" /\ req'[r] = Idle
                \/ req[r].pc = "replace" /\ Kept(r) /\ req'[r].pc = "shares"
    <2>1. /\ req[r].pc \in {"clear", "replace"}
          /\ IF req[r].pc = "clear" THEN End(r) ELSE Goto(r, "shares")
        BY <1>2 DEF Clear
    <2>2. "shares" \in Steps
        BY DEF Steps
    <2>. QED BY <1>1, <2>1, <2>2, StepsTell, EndMoves, GotoMoves
<1>3. ASSUME Shares(r)
      PROVE  /\ req[r].op # "none" /\ ~Personal /\ Moved(r)
             /\ \/ req'[r] = Idle \/ (Kept(r) /\ req'[r].pc = "share")
             /\ Total >= req[r].need => Kept(r) /\ req'[r].pc = "share"
    <2>1. /\ req[r].pc = "shares"
          /\ IF req[r].op = "patch" /\ Total < req[r].need THEN End(r) ELSE Shared(r)
        BY <1>3 DEF Shares
    <2>2. req[r].op # "none" /\ ~Personal
        BY <2>1, StepsTell
    <2>3. Total \in Nat /\ req[r].need \in Nat
        BY <2>2, ReadByThen, CountsAreSums DEF Total, TypeInv
    <2>4. CASE req[r].op = "patch" /\ Total < req[r].need
        BY <1>1, <2>1, <2>2, <2>3, <2>4, EndMoves
    <2>5. CASE ~(req[r].op = "patch" /\ Total < req[r].need)
        BY <2>1, <2>2, <2>5, SharedGoesOn
    <2>. QED BY <2>4, <2>5
<1>4. ASSUME Share(r)
      PROVE  /\ req[r].op # "none" /\ ~Personal /\ Moved(r)
             /\ req'[r] = Idle \/ (Kept(r) /\ req'[r].pc = "share")
    <2>1. req[r].pc = "share" /\ req[r].op # "none" /\ ~Personal
        BY <1>4, StepsTell DEF Share
    <2>2. req[r].due \in Dues
        BY <2>1, ReadByThen
    <2>3. PICK u \in DOMAIN req[r].due :
            \/ End(r)
            \/ req' = [req EXCEPT ![r].due = [v \in DOMAIN req[r].due \ {u} |-> req[r].due[v]]]
        BY <1>4 DEF Share
    <2>4. CASE End(r)
        BY <1>1, <2>1, <2>4, EndMoves
    <2>5. ASSUME req' = [req EXCEPT ![r].due = [v \in DOMAIN req[r].due \ {u} |-> req[r].due[v]]]
          PROVE  Moved(r) /\ Kept(r) /\ req'[r].pc = "share"
        <3>1. PICK due : due = [v \in DOMAIN req[r].due \ {u} |-> req[r].due[v]]
            OBVIOUS
        <3>2. due \in Dues
            <4>1. PICK U \in SUBSET Users : req[r].due \in [U -> Nat \ {0}]
                BY <2>2 DEF Dues
            <4>2. U \ {u} \in SUBSET Users /\ due \in [U \ {u} -> Nat \ {0}]
                BY <3>1, <4>1
            <4>. QED BY <4>2 DEF Dues
        <3>3. PICK j : j = [req[r] EXCEPT !.due = due]
            OBVIOUS
        <3>4. req[r] \in Jobs
            BY DEF TypeInv, JobsTyped
        <3>5. j \in Jobs
            <4>1. req[r].pc \in Steps /\ req[r].who \in SUBSET Users
                BY <3>4 DEF Jobs
            <4>. QED BY <3>2, <3>3, <3>4, <4>1, JobChanges
        <3>6. req' = [req EXCEPT ![r] = j]
            BY <2>5, <3>1, <3>3
        <3>7. Moved(r) /\ req'[r] = j
            BY <1>1, <3>5, <3>6, JobMoves
        <3>8. /\ j.pc = req[r].pc /\ j.op = req[r].op /\ j.log = req[r].log /\ j.old = req[r].old
              /\ j.need = req[r].need /\ j.reward = req[r].reward
            BY <3>3, <3>4 DEF Jobs
        <3>. QED BY <2>1, <3>7, <3>8 DEF Kept
    <2>. QED BY <2>1, <2>3, <2>4, <2>5
<1>. QED BY <1>2, <1>3, <1>4

\* How the rows of personal challenges are written.
LEMMA RowsMoves ==
    ASSUME TypeInv, NEW r \in Reqs
    PROVE  /\ Update(r) =>
                /\ req[r].op = "patch" /\ Moved(r) /\ Kept(r)
                /\ req'[r].pc = IF Personal THEN "points" ELSE "judge"
           /\ Points(r) =>
                /\ req[r].op = "patch" /\ Personal /\ Moved(r) /\ Kept(r) /\ req'[r].pc = "list"
           /\ List(r) =>
                /\ req[r].op = "patch" /\ Personal /\ Moved(r)
                /\ Concerned(r) = {} => req'[r] = Idle
                /\ Concerned(r) # {} => /\ Kept(r) /\ req'[r].pc = "judge"
                                        /\ req'[r].who = Concerned(r)
           /\ Add(r) \/ Take(r) => req[r].op # "none" /\ Personal /\ Moved(r) /\
                \E u \in req[r].who :
                    /\ u \in Users /\ DOMAIN req[r].due = {u} /\ req[r].due[u] \in Nat \ {0}
                    /\ req[r].who \ {u} = {} => req'[r] = Idle
                    /\ req[r].who \ {u} # {} => /\ Kept(r) /\ req'[r].pc = "judge"
                                                /\ req'[r].who = req[r].who \ {u}
<1>1. JobsTyped /\ {"points", "list"} \subseteq Steps
    BY DEF TypeInv, Steps
<1>2. ASSUME Update(r)
      PROVE  /\ req[r].op = "patch" /\ Moved(r) /\ Kept(r)
             /\ req'[r].pc = IF Personal THEN "points" ELSE "judge"
    <2>1. req[r].op = "patch" /\ IF Personal THEN Goto(r, "points") ELSE Judged(r, {})
        BY <1>2, StepsTell DEF Update
    <2>. QED BY <1>1, <2>1, GotoMoves, JudgedMoves
<1>3. ASSUME Points(r)
      PROVE  req[r].op = "patch" /\ Personal /\ Moved(r) /\ Kept(r) /\ req'[r].pc = "list"
    BY <1>1, <1>3, StepsTell, GotoMoves DEF Points
<1>4. ASSUME List(r)
      PROVE  /\ req[r].op = "patch" /\ Personal /\ Moved(r)
             /\ Concerned(r) = {} => req'[r] = Idle
             /\ Concerned(r) # {} => /\ Kept(r) /\ req'[r].pc = "judge"
                                     /\ req'[r].who = Concerned(r)
    <2>1. req[r].op = "patch" /\ Personal /\ Judging(r, Concerned(r))
        BY <1>4, StepsTell DEF List
    <2>2. Concerned(r) \in SUBSET Users
        BY DEF Concerned
    <2>. QED BY <1>1, <2>1, <2>2, JudgingMoves
<1>5. ASSUME Add(r) \/ Take(r)
      PROVE  req[r].op # "none" /\ Personal /\ Moved(r) /\
                \E u \in req[r].who :
                    /\ u \in Users /\ DOMAIN req[r].due = {u} /\ req[r].due[u] \in Nat \ {0}
                    /\ req[r].who \ {u} = {} => req'[r] = Idle
                    /\ req[r].who \ {u} # {} => /\ Kept(r) /\ req'[r].pc = "judge"
                                                /\ req'[r].who = req[r].who \ {u}
    <2>1. req[r].pc \in {"add", "take"}
        BY <1>5 DEF Add, Take
    <2>2. PICK u \in req[r].who : /\ u \in Users /\ DOMAIN req[r].due = {u}
                                  /\ req[r].due[u] \in Nat \ {0}
        BY <2>1, DueToOne
    <2>3. Judging(r, req[r].who \ {u})
        BY <1>5, <2>2 DEF Add, Take
    <2>4. req[r].op # "none" /\ Personal /\ req[r].who \ {u} \in SUBSET Users
        BY <2>1, StepsTell, ReadByThen
    <2>. QED BY <1>1, <2>2, <2>3, <2>4, JudgingMoves
<1>. QED BY <1>2, <1>3, <1>4, <1>5

\* A request ends, or goes on at a step of its kind that is not its first.
GoesOn(r) ==
    \/ req'[r] = Idle
    \/ /\ Kept(r) /\ req'[r].pc \in StepsOf(req[r].op, Personal)
       /\ req'[r].pc \notin {"record", "remove", "update"}
       /\ req'[r].pc \in {"add", "take"} => \E u \in req'[r].who : DOMAIN req'[r].due = {u}

\* What all steps of a request have in common.
LEMMA ProceedMoves ==
    ASSUME TypeInv, NEW r \in Reqs, Proceed(r)
    PROVE  /\ req[r].op # "none" /\ Moved(r) /\ GoesOn(r)
           /\ UNCHANGED <<challenge_type, dlog, edits, overlap>>
           /\ Update(r) \/ (req[r].pc # "update" /\ UNCHANGED terms)
<1>1. req[r].op # "none" /\ Moved(r) /\ GoesOn(r)
    <2>1. req[r].op \in Ops
        BY DEF TypeInv, JobsTyped, Jobs
    <2>2. CASE Record(r)
        <3>1. req[r].op \in {"report", "put"}
            BY <2>2, StepsTell DEF Record
        <3>. QED BY <2>2, <3>1, RecordAdds DEF GoesOn, StepsOf
    <2>3. CASE Remove(r)
        <3>1. req[r].op = "remove"
            BY <2>3, StepsTell DEF Remove
        <3>. QED BY <2>3, <3>1, RemoveTakes DEF GoesOn, StepsOf
    <2>4. CASE Update(r) \/ Points(r) \/ List(r)
        <3>1. /\ req[r].op = "patch" /\ Moved(r)
              /\ \/ req'[r] = Idle
                 \/ Kept(r) /\ req'[r].pc = "judge"
                 \/ Kept(r) /\ req'[r].pc \in {"points", "list"} /\ Personal
            BY <2>4, RowsMoves
        <3>. QED BY <3>1 DEF GoesOn, StepsOf
    <2>5. CASE Add(r) \/ Take(r)
        <3>1. /\ req[r].op # "none" /\ Moved(r)
              /\ req'[r] = Idle \/ (Kept(r) /\ req'[r].pc = "judge")
            BY <2>5, RowsMoves
        <3>. QED BY <2>1, <3>1 DEF GoesOn, StepsOf, Ops
    <2>6. CASE JudgePersonal(r)
        <3>1. req[r].op # "none" /\ Personal
            BY <2>6, StepsTell DEF JudgePersonal
        <3>2. PICK u \in req[r].who : u \in Users /\ JudgedOne(r, u)
            BY <2>6, JudgePersonalMoves
        <3>3. CASE Passed(r, u)
            BY <2>1, <2>6, <3>1, <3>3, JudgePersonalMoves DEF GoesOn, Passed, StepsOf, Ops
        <3>4. CASE Found(r, u, "add", Adds(r, u))
            <4>1. req[r].op \in {"report", "put", "patch"}
                <5>1. Adds(r, u) > 0
                    BY <3>4 DEF Found
                <5>. QED BY <2>1, <3>1, <3>2, <5>1, AddsAndTakes DEF Ops
            <4>2. Kept(r) /\ req'[r].pc = "add" /\ u \in req'[r].who /\ DOMAIN req'[r].due = {u}
                BY <3>4 DEF Found
            <4>. QED BY <2>6, <3>1, <4>1, <4>2, JudgePersonalMoves DEF GoesOn, StepsOf
        <3>5. CASE Found(r, u, "take", Takes(r, u))
            <4>1. req[r].op \in {"remove", "patch"}
                <5>1. Takes(r, u) > 0
                    BY <3>5 DEF Found
                <5>. QED BY <2>1, <3>1, <3>2, <5>1, AddsAndTakes DEF Ops
            <4>2. Kept(r) /\ req'[r].pc = "take" /\ u \in req'[r].who /\ DOMAIN req'[r].due = {u}
                BY <3>5 DEF Found
            <4>. QED BY <2>6, <3>1, <4>1, <4>2, JudgePersonalMoves DEF GoesOn, StepsOf
        <3>. QED BY <3>2, <3>3, <3>4, <3>5 DEF JudgedOne
    <2>7. CASE JudgeCompany(r)
        BY <2>1, <2>7, JudgeCompanyMoves DEF GoesOn, StepsOf, Ops
    <2>8. CASE Clear(r)
        <3>1. /\ req[r].op # "none" /\ ~Personal /\ Moved(r)
              /\ req'[r] = Idle \/ (Kept(r) /\ req'[r].pc = "shares" /\ req[r].pc = "replace")
            BY <2>8, SharingMoves
        <3>2. req[r].pc = "replace" => req[r].op \in {"remove", "patch"}
            BY StepsTell
        <3>. QED BY <3>1, <3>2 DEF GoesOn, StepsOf
    <2>9. CASE Shares(r) \/ Share(r)
        <3>1. /\ req[r].op # "none" /\ ~Personal /\ Moved(r)
              /\ req'[r] = Idle \/ (Kept(r) /\ req'[r].pc = "share")
            BY <2>9, SharingMoves
        <3>. QED BY <2>1, <3>1 DEF GoesOn, StepsOf, Ops
    <2>. QED BY <2>2, <2>3, <2>4, <2>5, <2>6, <2>7, <2>8, <2>9 DEF Proceed
<1>2. UNCHANGED <<challenge_type, dlog, edits, overlap>>
    BY DEF Proceed, Record, Remove, Update, Points, List, JudgePersonal, Add, Take,
           JudgeCompany, Clear, Shares, Share
<1>3. Update(r) \/ (req[r].pc # "update" /\ UNCHANGED terms)
    BY DEF Proceed, Record, Remove, Points, List, JudgePersonal, Add, Take,
           JudgeCompany, Clear, Shares, Share
<1>. QED BY <1>1, <1>2, <1>3

\* Each step of a request keeps the types.
LEMMA TypeProceed ==
    ASSUME TypeInv, NEW r \in Reqs, Proceed(r)
    PROVE  TypeInv'
<1>1. req[r].op # "none" /\ Moved(r) /\ GoesOn(r)
    BY ProceedMoves
<1>2. UNCHANGED <<challenge_type, dlog, edits, overlap>>
    BY ProceedMoves
<1>3. JobsTyped'
    BY <1>1, <1>2, JobsStay DEF dlog, GoesOn
<1>4. delivery_count' \in Counts /\ reward_points' \in Rewards
    <2>1. CASE Update(r)
        <3>1. delivery_count' = req[r].need /\ reward_points' = req[r].reward
            BY <2>1 DEF Update
        <3>. QED BY <1>1, <3>1, ReadByThen
    <2>2. CASE ~Update(r)
        <3>1. UNCHANGED terms
            BY <2>2, ProceedMoves
        <3>. QED BY <3>1 DEF terms, TypeInv, DataTyped
    <2>. QED BY <2>1, <2>2
<1>5. challenge_completed' \in [Users -> Seq(Nat)]
    <2>1. CASE Points(r) \/ Add(r) \/ Take(r) \/ Clear(r) \/ Share(r)
        BY <2>1, RowsStayTyped
    <2>2. CASE ~(Points(r) \/ Add(r) \/ Take(r) \/ Clear(r) \/ Share(r))
        <3>1. UNCHANGED challenge_completed
            BY <2>2 DEF Proceed, Record, Remove, Update, List, JudgePersonal, JudgeCompany, Shares
        <3>. QED BY <3>1 DEF TypeInv, DataTyped
    <2>. QED BY <2>1, <2>2
<1>6. /\ IsFiniteSet(DOMAIN challenge_record')
      /\ challenge_record' \in [DOMAIN challenge_record' -> [log : 1..logged, time : 1..logged]]
    <2>1. /\ IsFiniteSet(DOMAIN challenge_record)
          /\ challenge_record \in [DOMAIN challenge_record -> [log : 1..logged, time : 1..logged]]
        BY DEF TypeInv, DataTyped
    <2>2. CASE Record(r)
        <3>1. PICK new, time :
                /\ time \in 1..logged
                /\ DOMAIN challenge_record' = DOMAIN challenge_record \union {new}
                /\ challenge_record'[new] = [log |-> req[r].log, time |-> time]
                /\ \A i \in DOMAIN challenge_record : challenge_record'[i] = challenge_record[i]
                /\ challenge_record' = [i \in DOMAIN challenge_record' |-> challenge_record'[i]]
            BY <2>2, RecordAdds
        <3>2. req[r].log \in 1..logged
            BY <2>2, StepsTell, ReadByThen DEF Record
        <3>3. IsFiniteSet(DOMAIN challenge_record')
            BY <2>1, <3>1, FS_AddElement
        <3>4. \A i \in DOMAIN challenge_record' : challenge_record'[i] \in [log : 1..logged, time : 1..logged]
            BY <2>1, <3>1, <3>2
        <3>. QED BY <3>1, <3>3, <3>4
    <2>3. CASE Remove(r)
        <3>1. /\ DOMAIN challenge_record' \in SUBSET DOMAIN challenge_record
              /\ \A i \in DOMAIN challenge_record' : challenge_record'[i] = challenge_record[i]
              /\ challenge_record' = [i \in DOMAIN challenge_record' |-> challenge_record'[i]]
            BY <2>3, RemoveTakes
        <3>2. IsFiniteSet(DOMAIN challenge_record')
            BY <2>1, <3>1, FS_Subset
        <3>3. \A i \in DOMAIN challenge_record' : challenge_record'[i] \in [log : 1..logged, time : 1..logged]
            BY <2>1, <3>1
        <3>. QED BY <3>1, <3>2, <3>3
    <2>4. CASE ~Record(r) /\ ~Remove(r)
        <3>1. UNCHANGED challenge_record
            BY <2>4 DEF Proceed, Update, Points, List, JudgePersonal, Add, Take, JudgeCompany,
                        Clear, Shares, Share
        <3>. QED BY <2>1, <3>1
    <2>. QED BY <2>2, <2>3, <2>4
<1>7. DataTyped'
    BY <1>2, <1>4, <1>5, <1>6 DEF TypeInv, DataTyped, dlog
<1>. QED BY <1>3, <1>7 DEF TypeInv

\* At the start nothing is recorded or completed and no request has arrived.
LEMMA TypeInit == Init => TypeInv
<1>. SUFFICES ASSUME Init PROVE TypeInv
    OBVIOUS
<1>1. MaxLogs \in Nat /\ MaxEdits \in Nat
    BY ChallengeConstants
<1>2. DOMAIN challenge_record = {}
    BY DEF Init, Nothing
<1>3. IsFiniteSet(DOMAIN challenge_record)
    BY <1>2, FS_EmptySet
<1>4. challenge_record \in [DOMAIN challenge_record -> [log : 1..logged, time : 1..logged]]
    BY <1>2 DEF Init, Nothing
<1>5. DataTyped
    BY <1>1, <1>3, <1>4 DEF Init, DataTyped
<1>6. ASSUME NEW r \in Reqs PROVE req[r] = Idle /\ Sensible(req[r], Personal, logged)
    <2>1. req[r] = Idle /\ 0 \in 0..logged
        BY DEF Init
    <2>. QED BY <2>1, IdleIsAJob DEF Sensible, StepsOf
<1>7. JobsTyped
    BY <1>6, IdleIsAJob DEF Init, JobsTyped
<1>. QED BY <1>5, <1>7 DEF TypeInv

\* A step that changes nothing keeps the types.
LEMMA TypeStutter ==
    ASSUME TypeInv, UNCHANGED vars
    PROVE  TypeInv'
<1>1. DataTyped'
    BY DEF vars, terms, dlog, TypeInv, DataTyped
<1>2. JobsTyped'
    BY DEF vars, dlog, TypeInv, JobsTyped, Sensible, Personal
<1>. QED BY <1>1, <1>2 DEF TypeInv

\* Every step keeps the types.
LEMMA TypeNext == TypeInv /\ [Next]_vars => TypeInv'
BY TypeStutter, TypeArrive, TypeProceed, TypeOther DEF Next

\* Every variable has its type in every behaviour: what is recorded is a delivery that
\* was logged, points are numbers, a request is at a step of its kind, and nobody is due
\* an empty share.
THEOREM TypeCorrect == Spec => []TypeOK
<1>1. Spec => []TypeInv
    BY TypeInit, TypeNext, PTL DEF Spec
<1>. QED BY <1>1, TypeInvImplies, PTL

-----------------------------------------------------------------------------
(* Requests at the same time.                                              *)

\* No removal or edit has run into another request, and no counted distance is gone.
Orderly == overlap # "any" /\ (ByDistance => gone = {})

\* Requests that run at the same time all add, and each that is under way has read what
\* the challenge still asks for.
OverlapInv ==
    overlap # "any" =>
        /\ \A r, q \in Reqs :
            r # q /\ req[r].op # "none" /\ req[q].op # "none"
                => req[r].op \in {"report", "put"}
        /\ \A r \in Reqs :
            req[r].op # "none" =>
                delivery_count = IF req[r].pc = "update" THEN req[r].old ELSE req[r].need

\* How a request arrives, whichever it is.
LEMMA ArriveMoves ==
    ASSUME TypeInv, NEW r \in Reqs, Arrive(r)
    PROVE  /\ Moved(r) /\ req[r] = Idle
           /\ req'[r].op \in {"report", "put", "remove", "patch"}
           /\ req'[r].pc \in {"record", "remove", "update"}
           /\ req'[r].op = "patch" <=> req'[r].pc = "update"
           /\ req'[r].old = delivery_count /\ req'[r].who = {}
           /\ req'[r].op # "patch" => req'[r].need = delivery_count
           /\ Overlaps(req'[r].op)
           /\ UNCHANGED <<challenge_type, terms, challenge_record, challenge_completed, gone>>
<1>1. /\ delivery_count \in Counts /\ reward_points \in Rewards /\ logged \in Nat
    BY DEF TypeInv, DataTyped
<1>2. ASSUME NEW op \in {"report", "put", "remove", "patch"}, NEW l \in Nat,
             NEW pc \in {"record", "remove", "update"}, op = "patch" <=> pc = "update",
             NEW need \in Counts, NEW reward \in Rewards, op # "patch" => need = delivery_count,
             Begin(r, op, l, pc, need, reward)
      PROVE  /\ Moved(r) /\ req[r] = Idle
             /\ req'[r].op = op /\ req'[r].pc = pc
             /\ req'[r].old = delivery_count /\ req'[r].who = {} /\ req'[r].need = need
             /\ Overlaps(req'[r].op)
             /\ UNCHANGED <<challenge_type, terms, challenge_record, challenge_completed, gone>>
    <2>1. op \in Ops /\ pc \in Steps
        BY DEF Ops, Steps
    <2>2. /\ Moved(r) /\ req[r] = Idle
          /\ req'[r].op = op /\ req'[r].pc = pc
          /\ req'[r].old = delivery_count /\ req'[r].who = {} /\ req'[r].need = need
        BY <1>2, <2>1, BeginMoves
    <2>3. /\ Overlaps(op)
          /\ UNCHANGED <<challenge_type, terms, challenge_record, challenge_completed, gone>>
        BY <1>2 DEF Begin
    <2>. QED BY <2>2, <2>3
<1>3. CASE process_challenge(r)
    <2>1. Begin(r, "report", logged + 1, "record", delivery_count, reward_points)
        BY <1>3 DEF process_challenge
    <2>2. logged + 1 \in Nat
        BY <1>1
    <2>. QED BY <1>1, <1>2, <2>1, <2>2
<1>4. ASSUME NEW l \in 1..MaxLogs, put_delivery(r, l) \/ delete_delivery(r, l)
      PROVE  \/ Begin(r, "put", l, "record", delivery_count, reward_points)
             \/ Begin(r, "remove", l, "remove", delivery_count, reward_points)
    BY <1>4 DEF put_delivery, delete_delivery
<1>5. CASE \E l \in 1..MaxLogs : put_delivery(r, l) \/ delete_delivery(r, l)
    <2>1. PICK l \in 1..MaxLogs : put_delivery(r, l) \/ delete_delivery(r, l)
        BY <1>5
    <2>2. l \in Nat
        BY ChallengeConstants
    <2>3. CASE Begin(r, "put", l, "record", delivery_count, reward_points)
        BY <1>1, <1>2, <2>2, <2>3
    <2>4. CASE Begin(r, "remove", l, "remove", delivery_count, reward_points)
        BY <1>1, <1>2, <2>2, <2>4
    <2>. QED BY <1>4, <2>1, <2>3, <2>4
<1>6. CASE \E need \in Counts, reward \in Rewards : patch_challenge(r, need, reward)
    <2>1. PICK need \in Counts, reward \in Rewards : Begin(r, "patch", 0, "update", need, reward)
        BY <1>6 DEF patch_challenge
    <2>. QED BY <1>2, <2>1
<1>. QED BY <1>3, <1>5, <1>6 DEF Arrive

\* What an arrival makes of overlap, where it does not make it "any".
LEMMA OverlapsTells ==
    ASSUME NEW op \in Ops \ {"none"}, Overlaps(op), overlap' # "any"
    PROVE  /\ overlap # "any"
           /\ \/ \A q \in Reqs : req[q].op = "none"
              \/ op \in {"report", "put"} /\ \A q \in Reqs : req[q].op \in {"none", "report", "put"}
<1>. DEFINE Running == {req[q].op : q \in Reqs} \ {"none"}
<1>1. overlap' = IF Running = {} THEN overlap
                 ELSE IF overlap = "any" \/ ~ (Running \union {op} \subseteq {"report", "put"})
                      THEN "any" ELSE "adds"
    BY DEF Overlaps
<1>2. CASE Running = {}
    <2>1. \A q \in Reqs : req[q].op = "none"
        BY <1>2
    <2>. QED BY <1>1, <1>2, <2>1
<1>3. CASE Running # {}
    <2>1. overlap # "any" /\ Running \union {op} \subseteq {"report", "put"}
        BY <1>1, <1>3
    <2>2. \A q \in Reqs : req[q].op # "none" => req[q].op \in Running
        OBVIOUS
    <2>. HIDE DEF Running
    <2>3. \A q \in Reqs : req[q].op \in {"none", "report", "put"}
        BY <2>1, <2>2
    <2>. QED BY <2>1, <2>3
<1>. QED BY <1>2, <1>3

\* A request that goes on is what it was, and has read what it had.
LEMMA OverlapNext ==
    ASSUME TypeInv, OverlapInv, [Next]_vars
    PROVE  OverlapInv'
<1>. SUFFICES ASSUME overlap' # "any"
              PROVE  /\ \A p, q \in Reqs :
                          p # q /\ req'[p].op # "none" /\ req'[q].op # "none"
                            => req'[p].op \in {"report", "put"}
                     /\ \A p \in Reqs :
                          req'[p].op # "none" =>
                              delivery_count' = IF req'[p].pc = "update" THEN req'[p].old
                                                ELSE req'[p].need
    BY DEF OverlapInv
<1>1. ASSUME NEW r \in Reqs, Arrive(r)
      PROVE  /\ \A p, q \in Reqs :
                  p # q /\ req'[p].op # "none" /\ req'[q].op # "none"
                    => req'[p].op \in {"report", "put"}
             /\ \A p \in Reqs :
                  req'[p].op # "none" =>
                      delivery_count' = IF req'[p].pc = "update" THEN req'[p].old ELSE req'[p].need
    <2>1. /\ Moved(r) /\ req'[r].op \in Ops \ {"none"}
          /\ req'[r].op = "patch" <=> req'[r].pc = "update"
          /\ req'[r].old = delivery_count
          /\ req'[r].op # "patch" => req'[r].need = delivery_count
          /\ Overlaps(req'[r].op) /\ delivery_count' = delivery_count
        BY <1>1, ArriveMoves DEF Ops, terms
    <2>2. PICK op : op = req'[r].op
        OBVIOUS
    <2>3. overlap # "any" /\ \/ \A q \in Reqs : req[q].op = "none"
                             \/ /\ op \in {"report", "put"}
                                /\ \A q \in Reqs : req[q].op \in {"none", "report", "put"}
        <3>1. op \in Ops \ {"none"} /\ Overlaps(op)
            BY <2>1, <2>2
        <3>. QED BY <3>1, OverlapsTells
    <2>4. \A q \in Reqs : q # r => req'[q] = req[q]
        BY <2>1 DEF Moved
    <2>. QED BY <2>1, <2>2, <2>3, <2>4 DEF OverlapInv
<1>2. ASSUME NEW r \in Reqs, Proceed(r)
      PROVE  /\ \A p, q \in Reqs :
                  p # q /\ req'[p].op # "none" /\ req'[q].op # "none"
                    => req'[p].op \in {"report", "put"}
             /\ \A p \in Reqs :
                  req'[p].op # "none" =>
                      delivery_count' = IF req'[p].pc = "update" THEN req'[p].old ELSE req'[p].need
    <2>1. /\ req[r].op # "none" /\ Moved(r) /\ GoesOn(r) /\ overlap' = overlap
          /\ Update(r) \/ (req[r].pc # "update" /\ UNCHANGED terms)
        BY <1>2, ProceedMoves
    <2>2. \/ req'[r].op = "none"
          \/ /\ req'[r].op = req[r].op /\ req'[r].need = req[r].need /\ req'[r].pc # "update"
        BY <2>1, IdleIsAJob DEF GoesOn, Kept
    <2>3. \A q \in Reqs : q # r => req'[q] = req[q]
        BY <2>1 DEF Moved
    <2>4. CASE Update(r)
        <3>1. req[r].op = "patch" /\ delivery_count' = req[r].need
            BY <2>4, StepsTell DEF Update
        <3>2. \A q \in Reqs : q # r => req[q].op = "none"
            BY <2>1, <3>1 DEF OverlapInv
        <3>. QED BY <2>2, <2>3, <3>1, <3>2
    <2>5. CASE req[r].pc # "update" /\ UNCHANGED terms
        <3>1. delivery_count' = delivery_count
            BY <2>5 DEF terms
        <3>. QED BY <2>1, <2>2, <2>3, <2>5, <3>1 DEF OverlapInv
    <2>. QED BY <2>1, <2>4, <2>5
<1>3. CASE LogOther \/ (\E l \in 1..MaxLogs : delete_dlog(l)) \/ UNCHANGED vars
    <2>1. overlap' = overlap /\ req' = req /\ delivery_count' = delivery_count
        BY <1>3 DEF LogOther, delete_dlog, vars, terms
    <2>. QED BY <2>1 DEF OverlapInv
<1>. QED BY <1>1, <1>2, <1>3 DEF Next

-----------------------------------------------------------------------------
(* How the counts change.                                                  *)

Summed ==
    /\ Weights \in [DOMAIN challenge_record -> Nat]
    /\ \A U : /\ RecordsOf(U) \in SUBSET DOMAIN challenge_record
              /\ CountOf(U) = SumOf(Weights, RecordsOf(U))
              /\ CountOf(U) \in Nat

\* What the queries count in the next state.
LEMMA CountsAreSumsThen ==
    DataTyped' => /\ Weights' \in [DOMAIN challenge_record' -> Nat]
                  /\ \A U : /\ RecordsOf(U)' \in SUBSET DOMAIN challenge_record'
                            /\ CountOf(U)' = SumOf(Weights', RecordsOf(U)')
                            /\ CountOf(U)' \in Nat
<1>1. DataTyped => Summed
    BY CountsAreSums, RecordsAreDeliveries DEF Summed
<1>2. DataTyped' => Summed'
    BY <1>1, PTL
<1>. QED BY <1>2 DEF Summed

\* Only a delivery of which the distance counts matters when it is deleted.
LEMMA CountsStay ==
    ASSUME DataTyped, DataTyped', UNCHANGED <<challenge_record, challenge_type>>,
           gone' = gone \/ ~ByDistance
    PROVE  \A U : RecordsOf(U)' = RecordsOf(U) /\ CountOf(U)' = CountOf(U)
<1>1. Weights' = Weights
    <2>1. \A i \in DOMAIN challenge_record : Weight(i)' = Weight(i)
        BY DEF Weight, ByDistance
    <2>. QED BY <2>1 DEF Weights
<1>2. \A U : RecordsOf(U)' = RecordsOf(U)
    BY DEF RecordsOf
<1>3. \A U : CountOf(U)' = SumOf(Weights', RecordsOf(U)') /\ CountOf(U) = SumOf(Weights, RecordsOf(U))
    BY CountsAreSums, CountsAreSumsThen
<1>. QED BY <1>1, <1>2, <1>3

\* A record more counts for its driver, once or by its distance.
LEMMA CountsGrow ==
    ASSUME TypeInv, TypeInv', NEW r \in Reqs, Record(r), NEW U
    PROVE  /\ CountOf(U) \in Nat /\ CountOf(U)' \in Nat /\ CountOf(U) <= CountOf(U)'
           /\ Driver[req[r].log] \notin U => CountOf(U)' = CountOf(U)
           /\ ~ByDistance => CountOf(U)' <= CountOf(U) + 1
<1>. DEFINE D == DOMAIN challenge_record
<1>1. PICK new, time :
        /\ new \notin D
        /\ DOMAIN challenge_record' = D \union {new}
        /\ challenge_record'[new] = [log |-> req[r].log, time |-> time]
        /\ \A i \in D : challenge_record'[i] = challenge_record[i]
    BY RecordAdds
<1>2. UNCHANGED <<challenge_type, gone>>
    BY DEF Record, dlog
<1>3. /\ IsFiniteSet(D) /\ Weights \in [D -> Nat] /\ RecordsOf(U) \in SUBSET D
      /\ CountOf(U) = SumOf(Weights, RecordsOf(U)) /\ CountOf(U) \in Nat
    BY RecordsAreDeliveries, CountsAreSums DEF TypeInv
<1>4. /\ Weights' \in [DOMAIN challenge_record' -> Nat]
      /\ CountOf(U)' = SumOf(Weights', RecordsOf(U)') /\ CountOf(U)' \in Nat
    BY CountsAreSumsThen DEF TypeInv
<1>5. \A i \in D : Weights'[i] = Weights[i]
    <2>1. \A i \in D : Weight(i)' = Weight(i)
        BY <1>1, <1>2 DEF Weight, ByDistance
    <2>. QED BY <1>1, <2>1 DEF Weights
<1>6. RecordsOf(U)' = IF Driver[req[r].log] \in U THEN RecordsOf(U) \union {new} ELSE RecordsOf(U)
    <2>1. challenge_record'[new].log = req[r].log
        BY <1>1
    <2>. QED BY <1>1, <2>1 DEF RecordsOf
<1>7. Weights'[new] \in Nat /\ (~ByDistance => Weights'[new] = 1)
    <2>1. new \in DOMAIN challenge_record'
        BY <1>1
    <2>2. ~ByDistance => Weight(new)' = 1
        BY <1>2 DEF Weight, ByDistance
    <2>3. Weights'[new] = Weight(new)'
        BY <2>1 DEF Weights
    <2>. QED BY <1>4, <2>1, <2>2, <2>3
<1>8. PICK h, T : h = Weights' /\ T = DOMAIN challenge_record'
    OBVIOUS
<1>9. /\ IsFiniteSet(T) /\ h \in [T -> Nat] /\ RecordsOf(U) \in SUBSET T
      /\ RecordsOf(U) \union {new} \in SUBSET T
    BY <1>1, <1>3, <1>4, <1>8, FS_AddElement
<1>10. SumOf(h, RecordsOf(U)) = SumOf(Weights, RecordsOf(U))
    <2>1. \A x \in RecordsOf(U) : Weights[x] = h[x]
        BY <1>3, <1>5, <1>8
    <2>. QED BY <1>3, <1>9, <2>1, SumOfAgrees
<1>11. SumOf(h, RecordsOf(U) \union {new}) = h[new] + SumOf(h, RecordsOf(U))
    <2>1. new \in RecordsOf(U) \union {new} /\ (RecordsOf(U) \union {new}) \ {new} = RecordsOf(U)
        BY <1>1, <1>3
    <2>2. SumOf(h, RecordsOf(U) \union {new}) =
            h[new] + SumOf(h, (RecordsOf(U) \union {new}) \ {new})
        BY <1>9, <2>1, SumOfSplits
    <2>. QED BY <2>1, <2>2
<1>12. CASE Driver[req[r].log] \in U
    <2>1. CountOf(U)' = h[new] + CountOf(U)
        BY <1>3, <1>4, <1>6, <1>8, <1>10, <1>11, <1>12
    <2>. QED BY <1>3, <1>4, <1>7, <1>8, <1>12, <2>1
<1>13. CASE Driver[req[r].log] \notin U
    <2>1. CountOf(U)' = CountOf(U)
        BY <1>3, <1>4, <1>6, <1>8, <1>10, <1>13
    <2>. QED BY <1>3, <2>1
<1>. QED BY <1>12, <1>13

\* What counts less when records are removed is what they counted.
LEMMA CountsLose ==
    ASSUME TypeInv, TypeInv', NEW r \in Reqs, Remove(r), NEW U
    PROVE  \E lost \in SUBSET RecordsOf(U) :
             /\ \A i \in lost : challenge_record[i].log = req[r].log
             /\ CountOf(U) \in Nat /\ CountOf(U)' \in Nat /\ SumOf(Weights, lost) \in Nat
             /\ CountOf(U) = CountOf(U)' + SumOf(Weights, lost)
<1>. DEFINE D == DOMAIN challenge_record
<1>1. /\ DOMAIN challenge_record' \in SUBSET D
      /\ \A i \in DOMAIN challenge_record' : challenge_record'[i] = challenge_record[i]
    BY RemoveTakes
<1>2. UNCHANGED <<challenge_type, gone>>
    BY DEF Remove, dlog
<1>3. /\ IsFiniteSet(D) /\ Weights \in [D -> Nat] /\ RecordsOf(U) \in SUBSET D
      /\ CountOf(U) = SumOf(Weights, RecordsOf(U)) /\ CountOf(U) \in Nat
    BY RecordsAreDeliveries, CountsAreSums DEF TypeInv
<1>4. /\ Weights' \in [DOMAIN challenge_record' -> Nat]
      /\ RecordsOf(U)' \in SUBSET DOMAIN challenge_record'
      /\ CountOf(U)' = SumOf(Weights', RecordsOf(U)') /\ CountOf(U)' \in Nat
    BY CountsAreSumsThen DEF TypeInv
<1>5. \A i \in DOMAIN challenge_record' : Weights'[i] = Weights[i]
    <2>1. \A i \in DOMAIN challenge_record' : Weight(i)' = Weight(i)
        BY <1>1, <1>2 DEF Weight, ByDistance
    <2>. QED BY <1>1, <2>1 DEF Weights
<1>6. RecordsOf(U)' \in SUBSET RecordsOf(U)
    BY <1>1 DEF RecordsOf
<1>7. PICK h, T, v : h = Weights' /\ T = DOMAIN challenge_record' /\ v = RecordsOf(U)'
    OBVIOUS
<1>8. IsFiniteSet(T) /\ h \in [T -> Nat] /\ v \in SUBSET T /\ v \in SUBSET RecordsOf(U) /\ v \in SUBSET D
    BY <1>1, <1>3, <1>4, <1>6, <1>7, FS_Subset
<1>9. SumOf(h, v) = SumOf(Weights, v)
    <2>1. \A x \in v : Weights[x] = h[x]
        BY <1>4, <1>5, <1>7
    <2>. QED BY <1>3, <1>8, <2>1, SumOfAgrees
<1>10. SumOf(Weights, RecordsOf(U)) = SumOf(Weights, v) + SumOf(Weights, RecordsOf(U) \ v)
    BY <1>3, <1>8, SumOfParts
<1>11. RecordsOf(U) \ v \in SUBSET D
    BY <1>3
<1>12. SumOf(Weights, v) \in Nat /\ SumOf(Weights, RecordsOf(U) \ v) \in Nat
    BY <1>3, <1>8, <1>11, SumOfIsTheSum
<1>13. \A i \in RecordsOf(U) \ v : challenge_record[i].log = req[r].log
    <2>1. DOMAIN challenge_record' = D \ RecordsWith(req[r].log)
        BY DEF Remove
    <2>2. \A i \in RecordsOf(U) \ v : i \in D /\ i \notin DOMAIN challenge_record'
        BY <1>1, <1>3, <1>7 DEF RecordsOf
    <2>. QED BY <2>1, <2>2 DEF RecordsWith
<1>14. CountOf(U) = CountOf(U)' + SumOf(Weights, RecordsOf(U) \ v)
    BY <1>3, <1>4, <1>7, <1>9, <1>10
<1>. QED BY <1>3, <1>4, <1>12, <1>13, <1>14

\* Nothing counts for more when records are removed.
LEMMA CountsShrink ==
    ASSUME TypeInv, TypeInv', NEW r \in Reqs, Remove(r), NEW U
    PROVE  CountOf(U) \in Nat /\ CountOf(U)' \in Nat /\ CountOf(U)' <= CountOf(U)
BY CountsLose

\* What is orderly was so before.
LEMMA OrderlyBefore ==
    ASSUME TypeInv, TypeInv', [Next]_vars, Orderly'
    PROVE  /\ Orderly /\ challenge_type' = challenge_type /\ Personal' = Personal
           /\ gone' = gone \/ ~ByDistance
<1>1. /\ challenge_type' = challenge_type /\ overlap # "any"
      /\ gone' = gone \/ \E l : gone' = gone \union {l}
    <2>1. ASSUME NEW r \in Reqs, Arrive(r)
          PROVE  challenge_type' = challenge_type /\ overlap # "any" /\ gone' = gone
        <3>1. PICK op : op = req'[r].op
            OBVIOUS
        <3>2. op \in Ops \ {"none"} /\ Overlaps(op) /\ challenge_type' = challenge_type /\ gone' = gone
            BY <2>1, <3>1, ArriveMoves DEF Ops
        <3>. QED BY <3>2, OverlapsTells DEF Orderly
    <2>2. ASSUME NEW r \in Reqs, Proceed(r)
          PROVE  challenge_type' = challenge_type /\ overlap # "any" /\ gone' = gone
        BY <2>2, ProceedMoves DEF dlog, Orderly
    <2>3. CASE LogOther \/ (\E l \in 1..MaxLogs : delete_dlog(l)) \/ UNCHANGED vars
        BY <2>3 DEF LogOther, delete_dlog, vars, dlog, Orderly
    <2>. QED BY <2>1, <2>2, <2>3 DEF Next
<1>2. Personal' = Personal /\ ByDistance' = ByDistance
    BY <1>1 DEF Personal, ByDistance
<1>3. ByDistance => gone = {} /\ gone' = {}
    BY <1>1, <1>2 DEF Orderly
<1>. QED BY <1>1, <1>2, <1>3 DEF Orderly

-----------------------------------------------------------------------------
(* Company challenges.                                                     *)

\* The requests that will see that there is enough, or write the shares.
Sharing(r) ==
    \/ req[r].pc = "judge" /\ req[r].op # "remove"
    \/ req[r].pc \in {"replace", "shares", "share"}

\* What the company has earned somebody is about to give; and what is about to be cleared
\* is not earned any more.
CompanyInv ==
    Orderly /\ ~Personal =>
        /\ NoRows /\ Total >= delivery_count => \E r \in Reqs : Sharing(r)
        /\ \A r \in Reqs : req[r].pc = "clear" => Total < delivery_count

\* The requests beside one that is under way only add, and there is none beside a removal
\* or an edit. What it asks for is what the challenge asks for.
LEMMA Beside ==
    ASSUME TypeInv, OverlapInv, Orderly, NEW r \in Reqs, req[r].op # "none"
    PROVE  /\ \A q \in Reqs : q # r => req[q].op \in {"none", "report", "put"} /\ req[q].pc # "clear"
           /\ req[r].op \in {"remove", "patch"} => \A q \in Reqs : q # r => req[q].op = "none" /\ req[q].pc = "idle"
           /\ req[r].pc # "update" => delivery_count = req[r].need
           /\ req[r].pc = "update" => delivery_count = req[r].old
<1>1. overlap # "any"
    BY DEF Orderly
<1>2. ASSUME NEW q \in Reqs, q # r
      PROVE  /\ req[q].op \in {"none", "report", "put"} /\ req[q].pc # "clear"
             /\ req[r].op \in {"remove", "patch"} => req[q].op = "none" /\ req[q].pc = "idle"
    <2>1. req[q].op \in {"none", "report", "put"}
        BY <1>1, <1>2 DEF OverlapInv
    <2>2. req[r].op \in {"remove", "patch"} => req[q].op = "none"
        BY <1>1, <1>2 DEF OverlapInv
    <2>. QED BY <2>1, <2>2, StepsTell
<1>. QED BY <1>1, <1>2 DEF OverlapInv

\* A company challenge of which somebody has a row has been given.
LEMMA ShareIsARow ==
    ASSUME TypeInv, TypeInv', NEW r \in Reqs, Share(r)
    PROVE  ~NoRows'
<1>1. PICK u \in DOMAIN req[r].due : \E points : challenge_completed' = [challenge_completed EXCEPT ![u] = Append(@, points)]
    BY DEF Share
<1>2. u \in Users
    <2>1. req[r].due \in Dues
        BY DEF TypeInv, JobsTyped, Jobs
    <2>2. PICK U \in SUBSET Users : req[r].due \in [U -> Nat \ {0}]
        BY <2>1 DEF Dues
    <2>. QED BY <1>1, <2>2
<1>3. challenge_completed[u] \in Seq(Nat) /\ challenge_completed'[u] \in Seq(Nat)
    BY <1>2 DEF TypeInv, DataTyped
<1>4. PICK points : challenge_completed'[u] = Append(challenge_completed[u], points)
    BY <1>1, <1>2 DEF TypeInv, DataTyped
<1>5. Len(challenge_completed'[u]) # 0
    <2>1. PICK s, t : s = challenge_completed[u] /\ t = challenge_completed'[u]
        OBVIOUS
    <2>2. s \in Seq(Nat) /\ t = Append(s, points)
        BY <1>3, <1>4, <2>1
    <2>3. Len(t) = Len(s) + 1 /\ Len(s) \in Nat
        BY <2>2
    <2>. QED BY <2>1, <2>3
<1>. QED BY <1>2, <1>5 DEF NoRows, Rows

\* Each step keeps it.
LEMMA CompanyNext ==
    ASSUME TypeInv, TypeInv', OverlapInv, CompanyInv, [Next]_vars
    PROVE  CompanyInv'
<1>. SUFFICES ASSUME Orderly', ~Personal'
              PROVE  /\ NoRows' /\ Total' >= delivery_count' => \E q \in Reqs : Sharing(q)'
                     /\ \A q \in Reqs : req'[q].pc = "clear" => Total' < delivery_count'
    BY DEF CompanyInv
<1>1. Orderly /\ ~Personal /\ challenge_type' = challenge_type /\ (gone' = gone \/ ~ByDistance)
    BY OrderlyBefore
<1>2. /\ NoRows /\ Total >= delivery_count => \E q \in Reqs : Sharing(q)
      /\ \A q \in Reqs : req[q].pc = "clear" => Total < delivery_count
    BY <1>1 DEF CompanyInv
<1>3. Total \in Nat /\ delivery_count \in Nat /\ Total' \in Nat /\ delivery_count' \in Nat
    BY CountsAreSums, CountsAreSumsThen, ChallengeConstants DEF Total, TypeInv, DataTyped
<1>4. challenge_record' = challenge_record => Total' = Total
    BY <1>1, CountsStay DEF TypeInv, Total
<1>5. challenge_completed' = challenge_completed => NoRows' = NoRows
    BY DEF NoRows, Rows
<1>6. ASSUME NEW r \in Reqs, Arrive(r)
      PROVE  /\ NoRows' /\ Total' >= delivery_count' => \E q \in Reqs : Sharing(q)'
             /\ \A q \in Reqs : req'[q].pc = "clear" => Total' < delivery_count'
    <2>1. /\ Moved(r) /\ req[r] = Idle /\ req'[r].pc # "clear"
          /\ delivery_count' = delivery_count /\ Total' = Total /\ NoRows' = NoRows
        BY <1>4, <1>5, <1>6, ArriveMoves DEF terms
    <2>2. \A q \in Reqs : q # r => req'[q] = req[q]
        BY <2>1 DEF Moved
    <2>3. ~Sharing(r)
        BY <2>1, IdleIsAJob DEF Sharing
    <2>4. \A q \in Reqs : Sharing(q) => Sharing(q)'
        BY <2>2, <2>3 DEF Sharing
    <2>. QED BY <1>2, <2>1, <2>2, <2>4
<1>7. ASSUME NEW r \in Reqs, Proceed(r)
      PROVE  /\ NoRows' /\ Total' >= delivery_count' => \E q \in Reqs : Sharing(q)'
             /\ \A q \in Reqs : req'[q].pc = "clear" => Total' < delivery_count'
    <2>1. /\ req[r].op # "none" /\ Moved(r)
          /\ Update(r) \/ (req[r].pc # "update" /\ UNCHANGED terms)
        BY <1>7, ProceedMoves
    <2>2. \A q \in Reqs : q # r => req'[q] = req[q]
        BY <2>1 DEF Moved
    <2>3. \A q \in Reqs : q # r => req'[q].pc # "clear"
        BY <1>1, <2>1, <2>2, Beside
    <2>4. req[r].pc # "update" => delivery_count' = delivery_count /\ delivery_count = req[r].need
        BY <1>1, <2>1, Beside DEF terms, Update
    <2>5. ASSUME req[r].op = "remove", ~Sharing(r) PROVE ~(NoRows /\ Total >= delivery_count)
        <3>1. \A q \in Reqs : q # r => ~Sharing(q)
            BY <1>1, <2>1, <2>5, Beside DEF Sharing
        <3>. QED BY <1>2, <2>5, <3>1
    <2>6. CASE Record(r)
        <3>1. req'[r].pc = "judge" /\ req'[r].op \in {"report", "put"}
            BY <2>6, StepsTell, RecordAdds DEF Record, Kept
        <3>2. Sharing(r)'
            BY <3>1 DEF Sharing
        <3>. QED BY <2>3, <3>1, <3>2
    <2>7. CASE Remove(r)
        <3>1. req[r].op = "remove" /\ req[r].pc = "remove" /\ req'[r].pc = "judge"
            BY <2>7, StepsTell, RemoveTakes DEF Remove
        <3>2. ~(NoRows /\ Total >= delivery_count)
            BY <2>5, <3>1 DEF Sharing
        <3>3. Total' <= Total /\ NoRows' = NoRows
            BY <1>5, <2>7, CountsShrink DEF Total, Remove
        <3>. QED BY <1>3, <2>3, <2>4, <3>1, <3>2, <3>3
    <2>8. CASE Update(r)
        <3>1. req'[r].op = "patch" /\ req'[r].pc = "judge"
            BY <1>1, <2>8, RowsMoves DEF Kept
        <3>2. Sharing(r)'
            BY <3>1 DEF Sharing
        <3>. QED BY <2>3, <3>1, <3>2
    <2>9. CASE JudgeCompany(r)
        <3>1. Total' = Total /\ NoRows' = NoRows /\ delivery_count' = delivery_count /\ delivery_count = req[r].need
            BY <1>4, <1>5, <2>4, <2>9 DEF JudgeCompany
        <3>2. req[r].pc = "judge" /\ req[r].op \in Ops
            BY <2>9, JudgeCompanyMoves DEF TypeInv, JobsTyped, Jobs
        <3>3. req'[r].pc \in {"share", "shares", "replace"} => Sharing(r)'
            BY DEF Sharing
        <3>4. CASE req[r].op \in {"report", "put"}
            BY <2>3, <2>9, <3>1, <3>3, <3>4, IdleIsAJob, JudgeCompanyMoves
        <3>5. CASE req[r].op = "remove"
            <4>1. ~(NoRows /\ Total >= delivery_count)
                BY <2>5, <3>2, <3>5 DEF Sharing
            <4>. QED BY <1>3, <2>3, <2>9, <3>1, <3>3, <3>5, <4>1, IdleIsAJob, JudgeCompanyMoves
        <3>6. CASE req[r].op = "patch"
            BY <2>3, <2>9, <3>3, <3>6, JudgeCompanyMoves
        <3>. QED BY <2>1, <3>2, <3>4, <3>5, <3>6 DEF Ops
    <2>10. CASE Clear(r)
        <3>1. \/ req[r].pc = "clear" /\ req'[r] = Idle
              \/ req[r].pc = "replace" /\ req'[r].pc = "shares"
            BY <2>10, SharingMoves
        <3>2. req'[r].pc = "shares" => Sharing(r)'
            BY DEF Sharing
        <3>3. Total' = Total /\ (req[r].pc = "clear" => Total < delivery_count)
            BY <1>2, <1>4, <2>10 DEF Clear
        <3>. QED BY <1>3, <2>3, <2>4, <3>1, <3>2, <3>3, IdleIsAJob
    <2>11. CASE Shares(r)
        <3>1. /\ req'[r] = Idle \/ req'[r].pc = "share"
              /\ Total >= req[r].need => req'[r].pc = "share"
            BY <2>11, SharingMoves
        <3>2. req'[r].pc = "share" => Sharing(r)'
            BY DEF Sharing
        <3>3. Total' = Total /\ req[r].pc = "shares"
            BY <1>4, <2>11 DEF Shares
        <3>. QED BY <1>3, <2>3, <2>4, <3>1, <3>2, <3>3, IdleIsAJob
    <2>12. CASE Share(r)
        <3>1. req'[r] = Idle \/ req'[r].pc = "share"
            BY <2>12, SharingMoves
        <3>. QED BY <2>3, <2>12, <3>1, ShareIsARow, IdleIsAJob
    <2>13. CASE Points(r) \/ List(r) \/ Add(r) \/ Take(r) \/ JudgePersonal(r)
        BY <1>1, <2>13, RowsMoves DEF JudgePersonal
    <2>. QED BY <1>7, <2>6, <2>7, <2>8, <2>9, <2>10, <2>11, <2>12, <2>13 DEF Proceed
<1>8. CASE LogOther \/ (\E l \in 1..MaxLogs : delete_dlog(l)) \/ UNCHANGED vars
    <2>1. /\ req' = req /\ delivery_count' = delivery_count
          /\ challenge_record' = challenge_record /\ challenge_completed' = challenge_completed
        BY <1>8 DEF LogOther, delete_dlog, vars, terms
    <2>2. \A q \in Reqs : Sharing(q) => Sharing(q)'
        BY <2>1 DEF Sharing
    <2>. QED BY <1>2, <1>4, <1>5, <2>1, <2>2
<1>. QED BY <1>6, <1>7, <1>8 DEF Next

-----------------------------------------------------------------------------
(* Personal challenges.                                                    *)

\* The rows that c deliveries are worth where n complete a challenge of type t.
WorthOf(t, c, n) == IF t = 3 THEN c \div n ELSE IF c >= n THEN 1 ELSE 0
WorthAt(n, u) == WorthOf(challenge_type, Count(u), n)

\* More deliveries are worth more, but by one at most if there is one more; and the more a
\* challenge asks for the less they are worth.
LEMMA WorthIs ==
    ASSUME NEW t, NEW c \in Nat, NEW n \in Nat \ {0}
    PROVE  /\ WorthOf(t, c, n) \in Nat
           /\ t # 3 => WorthOf(t, c, n) <= 1
           /\ \A d \in Nat : d <= c => WorthOf(t, d, n) <= WorthOf(t, c, n)
           /\ \A d \in Nat : t # 3 \/ d <= c + 1 => WorthOf(t, d, n) <= WorthOf(t, c, n) + 1
           /\ \A m \in Nat \ {0} : n <= m => WorthOf(t, c, m) <= WorthOf(t, c, n)
           /\ c = 0 => WorthOf(t, c, n) = 0
<1>1. CASE t = 3
    <2>1. \A a \in Nat, b \in Nat \ {0} : WorthOf(t, a, b) = a \div b
        BY <1>1 DEF WorthOf
    <2>2. c \div n \in Nat /\ (c = 0 => c \div n = 0)
        BY Quotient, QuotientGrows
    <2>3. \A d \in Nat : /\ d <= c => d \div n <= c \div n
                         /\ d <= c + 1 => d \div n <= c \div n + 1
        BY QuotientGrows
    <2>4. \A m \in Nat \ {0} : n <= m => c \div m <= c \div n
        BY QuotientShrinks
    <2>. QED BY <1>1, <2>1, <2>2, <2>3, <2>4
<1>2. CASE t # 3
    BY <1>2 DEF WorthOf
<1>. QED BY <1>1, <1>2

\* The requests that may still give u a row, each one.
Adding(u) ==
    {r \in Reqs : /\ req[r].op \in {"report", "put"}
                  /\ req[r].pc \in {"judge", "add"} /\ u \in req[r].who}

\* A removal or an edit is about to write u's rows, or has yet to judge u.
Treats(r, u) == req[r].pc \in {"add", "take"} /\ u \in DOMAIN req[r].due
Pends(r, u) ==
    req[r].op = "patch" /\ req[r].pc \in {"judge", "add", "take"} /\ u \in req[r].who /\ ~Treats(r, u)

\* What it is about to do leaves u what the deliveries are worth, once it is done with u.
Handled(r, u) ==
    /\ req[r].pc \in {"points", "list"} => Rows(u) >= WorthAt(req[r].old, u)
    /\ Treats(r, u) /\ req[r].pc = "add" => Rows(u) + req[r].due[u] >= Worth(u)
    /\ Treats(r, u) /\ req[r].pc = "take" =>
         IF challenge_type = 3 THEN Rows(u) >= Worth(u) + req[r].due[u] ELSE Worth(u) = 0
    /\ Pends(r, u) => u \in Concerned(r) /\ Rows(u) >= WorthAt(req[r].old, u)
    /\ req[r].pc \notin {"points", "list"} /\ ~Treats(r, u) /\ ~Pends(r, u) => Rows(u) >= Worth(u)

\* Nobody removes or edits.
Plain == \A r \in Reqs : req[r].op \notin {"remove", "patch"}

\* A driver has the rows that the deliveries are worth, but for those that requests will
\* add which have yet to look.
PersonalInv ==
    Orderly /\ Personal =>
        \A u \in Users :
            /\ Plain => Rows(u) + Cardinality(Adding(u)) >= Worth(u)
            /\ \A r \in Reqs : req[r].op \in {"remove", "patch"} => Handled(r, u)

\* The numbers it is about.
Numbers ==
    /\ delivery_count \in Nat \ {0} /\ challenge_type \in 1..5
    /\ \A u \in Users : /\ Rows(u) \in Nat /\ Count(u) \in Nat /\ Worth(u) \in Nat
                        /\ Worth(u) = WorthOf(challenge_type, Count(u), delivery_count)
                        /\ IsFiniteSet(Adding(u)) /\ Cardinality(Adding(u)) \in Nat

\* They are numbers.
LEMMA NumbersOf == TypeInv => Numbers
<1>. SUFFICES ASSUME TypeInv, NEW u \in Users
              PROVE  /\ delivery_count \in Nat \ {0} /\ challenge_type \in 1..5
                     /\ Rows(u) \in Nat /\ Count(u) \in Nat
                     /\ Worth(u) = WorthAt(delivery_count, u) /\ Worth(u) \in Nat
                     /\ IsFiniteSet(Adding(u)) /\ Cardinality(Adding(u)) \in Nat
    BY ChallengeConstants DEF TypeInv, DataTyped, Numbers, WorthAt
<1>1. delivery_count \in Nat \ {0} /\ challenge_type \in 1..5
    BY ChallengeConstants DEF TypeInv, DataTyped
<1>2. Rows(u) \in Nat
    <2>1. challenge_completed[u] \in Seq(Nat)
        BY DEF TypeInv, DataTyped
    <2>. QED BY <2>1 DEF Rows
<1>3. Count(u) \in Nat
    BY CountsAreSums DEF Count, TypeInv
<1>4. Worth(u) = WorthAt(delivery_count, u)
    BY DEF Worth, WorthAt, WorthOf
<1>5. WorthAt(delivery_count, u) \in Nat
    BY <1>1, <1>3, WorthIs DEF WorthAt
<1>6. IsFiniteSet(Adding(u)) /\ Cardinality(Adding(u)) \in Nat
    <2>1. IsFiniteSet(Adding(u))
        BY ChallengeConstants, FS_Subset DEF Adding
    <2>. QED BY <2>1, FS_CardinalityType
<1>. QED BY <1>1, <1>2, <1>3, <1>4, <1>5, <1>6

\* In the next state too.
LEMMA NumbersThen == TypeInv' => Numbers'
BY NumbersOf, PTL

\* How many rows the drivers have next.
LEMMA RowsThen ==
    ASSUME TypeInv, NEW r \in Reqs
    PROVE  /\ Points(r) => \A v \in Users : Rows(v)' = Rows(v)
           /\ \A u \in Users : Add(r) /\ DOMAIN req[r].due = {u} =>
                \A v \in Users : Rows(v)' = IF v = u THEN Rows(u) + req[r].due[u] ELSE Rows(v)
           /\ \A u \in Users : Take(r) /\ DOMAIN req[r].due = {u} =>
                \A v \in Users :
                    Rows(v)' = IF v = u
                               THEN IF challenge_type # 3 \/ Rows(u) < req[r].due[u] THEN 0
                                    ELSE Rows(u) - req[r].due[u]
                               ELSE Rows(v)
           /\ challenge_completed' = challenge_completed => \A v \in Users : Rows(v)' = Rows(v)
<1>1. challenge_completed \in [Users -> Seq(Nat)]
    BY DEF TypeInv, DataTyped
<1>2. \A v \in Users : Rows(v) \in Nat
    BY <1>1 DEF Rows
<1>3. ASSUME Points(r), NEW v \in Users PROVE Rows(v)' = Rows(v)
    <2>1. challenge_completed'[v] = [i \in 1..Rows(v) |-> req[r].reward]
        BY <1>3 DEF Points
    <2>2. req[r].reward \in Nat
        BY <1>3, StepsTell, ReadByThen DEF Points
    <2>3. Len([i \in 1..Rows(v) |-> req[r].reward]) = Rows(v)
        BY <1>2, <2>2, PointsAreSequences
    <2>. QED BY <2>1, <2>3 DEF Rows
<1>4. ASSUME NEW u \in Users, Add(r), DOMAIN req[r].due = {u}, NEW v \in Users
      PROVE  Rows(v)' = IF v = u THEN Rows(u) + req[r].due[u] ELSE Rows(v)
    <2>1. req[r].pc = "add" /\ challenge_completed' = [challenge_completed EXCEPT
                ![u] = @ \o [i \in 1..req[r].due[u] |-> req[r].reward]]
        BY <1>4 DEF Add
    <2>2. req[r].due[u] \in Nat /\ req[r].reward \in Nat
        BY <1>4, <2>1, StepsTell, DueToOne, ReadByThen
    <2>3. PICK s, t : s = challenge_completed[u] /\ t = [i \in 1..req[r].due[u] |-> req[r].reward]
        OBVIOUS
    <2>4. s \in Seq(Nat) /\ t \in Seq(Nat) /\ Len(t) = req[r].due[u]
        BY <1>1, <2>2, <2>3, PointsAreSequences
    <2>5. challenge_completed' = [challenge_completed EXCEPT ![u] = s \o t]
        BY <2>1, <2>3
    <2>6. Len(s \o t) = Len(s) + Len(t)
        BY <2>4, ConcatProperties
    <2>7. CASE v = u
        <3>1. challenge_completed'[v] = s \o t
            BY <1>1, <2>5, <2>7
        <3>. QED BY <2>3, <2>4, <2>6, <2>7, <3>1 DEF Rows
    <2>8. CASE v # u
        <3>1. challenge_completed'[v] = challenge_completed[v]
            BY <1>1, <2>5, <2>8
        <3>. QED BY <2>8, <3>1 DEF Rows
    <2>. QED BY <2>7, <2>8
<1>5. ASSUME NEW u \in Users, Take(r), DOMAIN req[r].due = {u}, NEW v \in Users
      PROVE  Rows(v)' = IF v = u
                        THEN IF challenge_type # 3 \/ Rows(u) < req[r].due[u] THEN 0
                             ELSE Rows(u) - req[r].due[u]
                        ELSE Rows(v)
    <2>1. req[r].pc = "take" /\ challenge_completed' = [challenge_completed EXCEPT
                ![u] = IF challenge_type # 3 \/ Len(@) < req[r].due[u] THEN <<>>
                       ELSE SubSeq(@, 1, Len(@) - req[r].due[u])]
        BY <1>5 DEF Take
    <2>2. PICK d : d = req[r].due[u] /\ d \in Nat
        BY <1>5, <2>1, DueToOne
    <2>3. PICK s : s = challenge_completed[u]
        OBVIOUS
    <2>4. PICK t : t = IF challenge_type # 3 \/ Len(s) < d THEN <<>> ELSE SubSeq(s, 1, Len(s) - d)
        OBVIOUS
    <2>5. challenge_completed' = [challenge_completed EXCEPT ![u] = t]
        BY <2>1, <2>2, <2>3, <2>4
    <2>6. s \in Seq(Nat) /\ Len(s) = Rows(u) /\ Len(s) \in Nat
        BY <1>1, <2>3 DEF Rows
    <2>7. Len(t) = IF challenge_type # 3 \/ Rows(u) < d THEN 0 ELSE Rows(u) - d
        <3>1. CASE challenge_type # 3 \/ Rows(u) < d
            BY <2>4, <2>6, <3>1
        <3>2. CASE ~(challenge_type # 3 \/ Rows(u) < d)
            <4>1. t = SubSeq(s, 1, Len(s) - d)
                BY <2>4, <2>6, <3>2
            <4>2. Len(s) - d \in 0..Len(s)
                BY <2>2, <2>6, <3>2
            <4>3. Len(SubSeq(s, 1, Len(s) - d)) = Len(s) - d
                BY <2>6, <4>2
            <4>. QED BY <2>6, <3>2, <4>1, <4>3
        <3>. QED BY <3>1, <3>2
    <2>8. CASE v = u
        <3>1. challenge_completed'[v] = t
            BY <1>1, <2>5, <2>8
        <3>2. Rows(v)' = Len(t)
            BY <3>1 DEF Rows
        <3>. QED BY <2>2, <2>7, <2>8, <3>2
    <2>9. CASE v # u
        <3>1. challenge_completed'[v] = challenge_completed[v]
            BY <1>1, <2>5, <2>9
        <3>. QED BY <2>9, <3>1 DEF Rows
    <2>. QED BY <2>8, <2>9
<1>6. challenge_completed' = challenge_completed => \A v \in Users : Rows(v)' = Rows(v)
    BY DEF Rows
<1>. QED BY <1>3, <1>4, <1>5, <1>6

\* The rows that a request finds a driver's deliveries are worth.
LEMMA OwedIsWorth ==
    ASSUME TypeInv, OverlapInv, Orderly, NEW r \in Reqs, req[r].op # "none", req[r].pc # "update",
           NEW u \in Users, challenge_type = 3 \/ req[r].op # "patch"
    PROVE  Owed(r, u) = Worth(u)
<1>1. req[r].need = delivery_count
    BY Beside
<1>. QED BY <1>1 DEF Owed, Worth

\* A report or an addition gives the rows that it brings about, or there is another
\* that will.
LEMMA PersonalAdds ==
    ASSUME TypeInv, TypeInv', OverlapInv, PersonalInv, Orderly, Personal,
           challenge_type' = challenge_type, gone' = gone \/ ~ByDistance,
           NEW r \in Reqs, Proceed(r), req[r].op \in {"report", "put"}
    PROVE  PersonalInv'
<1>1. \A q \in Reqs : q # r => req[q].op \in {"none", "report", "put"}
    BY Beside
<1>2. /\ Moved(r) /\ GoesOn(r) /\ req[r].pc # "update" /\ delivery_count' = delivery_count
      /\ delivery_count = req[r].need
    <2>1. req[r].pc # "update"
        BY StepsTell
    <2>. QED BY <2>1, ProceedMoves, Beside DEF terms, Update
<1>3. \A q \in Reqs : q # r => req'[q] = req[q]
    BY <1>2 DEF Moved
<1>4. \A q \in Reqs : req'[q].op \in {"none", "report", "put"}
    BY <1>1, <1>2, <1>3, IdleIsAJob DEF GoesOn, Kept
<1>5. \A u \in Users : Rows(u) + Cardinality(Adding(u)) >= Worth(u)
    <2>1. Plain
        BY <1>1 DEF Plain
    <2>. QED BY <2>1 DEF PersonalInv
<1>6. Numbers /\ Numbers'
    BY NumbersOf, NumbersThen
<1>7. SUFFICES ASSUME NEW u \in Users
               PROVE  Rows(u)' + Cardinality(Adding(u)') >= Worth(u)'
    BY <1>4 DEF PersonalInv
<1>8. /\ Rows(u) \in Nat /\ Rows(u)' \in Nat /\ Worth(u) \in Nat /\ Worth(u)' \in Nat
      /\ IsFiniteSet(Adding(u)) /\ Cardinality(Adding(u)) \in Nat
      /\ Cardinality(Adding(u)') \in Nat /\ Rows(u) + Cardinality(Adding(u)) >= Worth(u)
    BY <1>5, <1>6 DEF Numbers
<1>9. challenge_record' = challenge_record => Worth(u)' = Worth(u)
    <2>1. challenge_record' = challenge_record => Count(u)' = Count(u)
        BY CountsStay DEF TypeInv, Count
    <2>. QED BY <1>2, <2>1 DEF Worth
<1>10. \A q \in Reqs : q # r => (q \in Adding(u)' <=> q \in Adding(u))
    BY <1>3 DEF Adding
<1>11. Adding(u) \subseteq Reqs /\ Adding(u)' \subseteq Reqs
    BY DEF Adding
<1>12. /\ r \in Adding(u) <=> req[r].pc \in {"judge", "add"} /\ u \in req[r].who
       /\ r \in Adding(u)' <=> /\ req'[r].op \in {"report", "put"}
                               /\ req'[r].pc \in {"judge", "add"} /\ u \in req'[r].who
    BY DEF Adding
<1>13. (r \in Adding(u)' <=> r \in Adding(u)) => Cardinality(Adding(u)') = Cardinality(Adding(u))
    <2>1. (r \in Adding(u)' <=> r \in Adding(u)) => Adding(u)' = Adding(u)
        BY <1>10, <1>11
    <2>. QED BY <2>1
<1>14. CASE Record(r)
    <2>1. /\ req[r].pc = "record" /\ req'[r].pc = "judge" /\ req'[r].who = {Driver[req[r].log]}
          /\ req'[r].op = req[r].op /\ challenge_completed' = challenge_completed
        BY <1>14, RecordAdds DEF Record, Kept
    <2>2. Rows(u)' = Rows(u)
        BY <2>1, RowsThen
    <2>3. /\ Count(u) \in Nat /\ Count(u)' \in Nat /\ delivery_count \in Nat \ {0}
          /\ Driver[req[r].log] # u => Count(u)' = Count(u)
          /\ challenge_type # 3 \/ Count(u)' <= Count(u) + 1
        BY <1>6, <1>14, CountsGrow DEF Count, ByDistance, Numbers
    <2>4. /\ Worth(u) = WorthOf(challenge_type, Count(u), delivery_count)
          /\ Worth(u)' = WorthOf(challenge_type, Count(u)', delivery_count)
        BY <1>2, <1>6 DEF Numbers
    <2>5. CASE Driver[req[r].log] = u
        <3>1. Worth(u)' <= Worth(u) + 1
            BY <2>3, <2>4, WorthIs
        <3>2. r \notin Adding(u) /\ Adding(u)' = Adding(u) \union {r}
            BY <1>10, <1>11, <1>12, <2>1, <2>5
        <3>3. Cardinality(Adding(u)') = Cardinality(Adding(u)) + 1
            BY <1>8, <3>2, FS_AddElement
        <3>. QED BY <1>8, <2>2, <3>1, <3>3
    <2>6. CASE Driver[req[r].log] # u
        <3>1. r \notin Adding(u) /\ r \notin Adding(u)'
            BY <1>12, <2>1, <2>6
        <3>. QED BY <1>8, <1>13, <2>2, <2>3, <2>4, <2>6, <3>1
    <2>. QED BY <2>5, <2>6
<1>15. CASE JudgePersonal(r)
    <2>1. /\ req[r].pc = "judge" /\ Rows(u)' = Rows(u) /\ Worth(u)' = Worth(u)
        BY <1>9, <1>15, RowsThen DEF JudgePersonal
    <2>2. PICK w \in req[r].who : w \in Users /\ JudgedOne(r, w)
        BY <1>15, JudgePersonalMoves
    <2>3. /\ Takes(r, w) = 0 /\ Adds(r, w) = IF Owed(r, w) > Held(w) THEN 1 ELSE 0
          /\ Owed(r, w) \in Nat /\ Held(w) \in Nat /\ Held(w) <= Rows(w)
        BY <1>6, <2>2, AddsAndTakes DEF Numbers
    <2>4. CASE Passed(r, w)
        <3>1. CASE u = w
            <4>1. Owed(r, w) = Worth(w) /\ Adds(r, w) = 0
                BY <1>2, <2>2, <2>4, OwedIsWorth DEF Passed
            <4>2. Rows(u) >= Worth(u)
                BY <1>8, <2>3, <3>1, <4>1
            <4>. QED BY <1>8, <2>1, <4>2
        <3>2. CASE u # w
            <4>1. r \in Adding(u)' <=> r \in Adding(u)
                <5>1. CASE req[r].who \ {w} = {}
                    BY <1>12, <2>4, <3>2, <5>1, IdleIsAJob DEF Passed
                <5>2. CASE req[r].who \ {w} # {}
                    BY <1>12, <2>1, <2>4, <3>2, <5>2 DEF Passed, Kept
                <5>. QED BY <5>1, <5>2
            <4>. QED BY <1>8, <1>13, <2>1, <4>1
        <3>. QED BY <3>1, <3>2
    <2>5. CASE Found(r, w, "add", Adds(r, w))
        <3>1. r \in Adding(u)' <=> r \in Adding(u)
            BY <1>12, <2>1, <2>5 DEF Found, Kept
        <3>. QED BY <1>8, <1>13, <2>1, <3>1
    <2>6. ~Found(r, w, "take", Takes(r, w))
        BY <2>3 DEF Found
    <2>. QED BY <2>2, <2>4, <2>5, <2>6 DEF JudgedOne
<1>16. CASE Add(r)
    <2>1. req[r].pc = "add" /\ Worth(u)' = Worth(u)
        BY <1>9, <1>16 DEF Add
    <2>2. PICK w \in req[r].who :
            /\ w \in Users /\ DOMAIN req[r].due = {w} /\ req[r].due[w] \in Nat \ {0}
            /\ req[r].who \ {w} = {} => req'[r] = Idle
            /\ req[r].who \ {w} # {} => /\ Kept(r) /\ req'[r].pc = "judge"
                                        /\ req'[r].who = req[r].who \ {w}
        BY <1>16, RowsMoves
    <2>3. Rows(u)' = IF u = w THEN Rows(w) + req[r].due[w] ELSE Rows(u)
        BY <1>16, <2>2, RowsThen
    <2>4. r \in Adding(u)' <=> r \in Adding(u) /\ u # w
        <3>1. CASE req[r].who \ {w} = {}
            BY <1>12, <2>1, <2>2, <3>1, IdleIsAJob
        <3>2. CASE req[r].who \ {w} # {}
            BY <1>12, <2>1, <2>2, <3>2 DEF Kept
        <3>. QED BY <3>1, <3>2
    <2>5. CASE u = w
        <3>1. r \in Adding(u) /\ Adding(u)' = Adding(u) \ {r}
            BY <1>10, <1>11, <1>12, <2>1, <2>2, <2>4, <2>5
        <3>2. Cardinality(Adding(u)') = Cardinality(Adding(u)) - 1
            BY <1>8, <3>1, FS_RemoveElement
        <3>3. Rows(u)' = Rows(u) + req[r].due[w]
            BY <2>3, <2>5
        <3>4. PICK d \in Nat \ {0} : Rows(u)' = Rows(u) + d
            BY <2>2, <3>3
        <3>. QED BY <1>8, <2>1, <3>2, <3>4
    <2>6. CASE u # w
        BY <1>8, <1>13, <2>1, <2>3, <2>4, <2>6
    <2>. QED BY <2>5, <2>6
<1>17. ~Remove(r) /\ ~Update(r) /\ ~Points(r) /\ ~List(r) /\ ~Take(r)
    BY StepsTell DEF Remove, Update, Points, List, Take
<1>18. ~JudgeCompany(r) /\ ~Clear(r) /\ ~Shares(r) /\ ~Share(r)
    BY StepsTell DEF JudgeCompany, Clear, Shares, Share
<1>. QED BY <1>14, <1>15, <1>16, <1>17, <1>18 DEF Proceed

\* Whom an edit concerns, in numbers.
LEMMA ConcernedAre ==
    ASSUME TypeInv, NEW r \in Reqs, req[r].op # "none", NEW u \in Users
    PROVE  IF challenge_type = 3
           THEN /\ u \in Concerned(r) => req[r].old # req[r].need
                /\ u \notin Concerned(r) => req[r].old = req[r].need \/ Count(u) = 0
           ELSE u \in Concerned(r) <=> \/ req[r].old <= Count(u) /\ Count(u) < req[r].need
                                       \/ req[r].need <= Count(u) /\ Count(u) < req[r].old
<1>1. CASE challenge_type = 3
    <2>1. u \in Concerned(r) <=> req[r].old # req[r].need /\ RecordsOf({u}) # {}
        BY <1>1 DEF Concerned
    <2>2. RecordsOf({u}) = {} => Count(u) = 0
        <3>1. Count(u) = SumOf(Weights, RecordsOf({u})) /\ SumOf(Weights, {}) = 0
            BY CountsAreSums, RecordsAreDeliveries, SumOfNone DEF Count, TypeInv
        <3>. QED BY <3>1
    <2>. QED BY <1>1, <2>1, <2>2
<1>2. CASE challenge_type # 3
    <2>. DEFINE both == {req[r].old, req[r].need}
    <2>1. req[r].old \in Nat /\ req[r].need \in Nat /\ Count(u) \in Nat
        BY ReadByThen, CountsAreSums DEF Count, TypeInv
    <2>2. both \in SUBSET Nat /\ both # {} /\ \E b \in Nat : \A n \in both : n <= b
        <3>1. CASE req[r].old <= req[r].need
            BY <2>1, <3>1
        <3>2. CASE ~(req[r].old <= req[r].need)
            BY <2>1, <3>2
        <3>. QED BY <3>1, <3>2
    <2>3. /\ Min(both) \in both /\ \A n \in both : Min(both) <= n
          /\ Max(both) \in both /\ \A n \in both : Max(both) >= n
        <3>. HIDE DEF both
        <3>. QED BY <2>2, MinIsLeast, MaxIsGreatest
    <2>4. u \in Concerned(r) <=> Min(both) <= Count(u) /\ Count(u) < Max(both)
        BY <1>2 DEF Concerned
    <2>5. PICK low, high : low = Min(both) /\ high = Max(both)
        OBVIOUS
    <2>6. /\ low \in {req[r].old, req[r].need} /\ low <= req[r].old /\ low <= req[r].need
          /\ high \in {req[r].old, req[r].need} /\ high >= req[r].old /\ high >= req[r].need
          /\ u \in Concerned(r) <=> low <= Count(u) /\ Count(u) < high
        BY <2>3, <2>4, <2>5
    <2>. QED BY <1>2, <2>1, <2>6
<1>. QED BY <1>1, <1>2

\* Whom it does not concern does not have too little because of it.
LEMMA NotConcerned ==
    ASSUME TypeInv, NEW r \in Reqs, req[r].op # "none", req[r].need = delivery_count,
           NEW u \in Users, u \notin Concerned(r)
    PROVE  Worth(u) <= WorthAt(req[r].old, u)
<1>1. /\ req[r].old \in Nat \ {0} /\ delivery_count \in Nat \ {0} /\ Count(u) \in Nat
      /\ Worth(u) = WorthOf(challenge_type, Count(u), delivery_count)
    BY ReadByThen, NumbersOf DEF Numbers
<1>2. WorthAt(req[r].old, u) = WorthOf(challenge_type, Count(u), req[r].old)
    BY DEF WorthAt
<1>3. CASE challenge_type = 3
    <2>1. req[r].old = delivery_count \/ Count(u) = 0
        BY <1>3, ConcernedAre
    <2>2. /\ WorthOf(challenge_type, Count(u), delivery_count) \in Nat
          /\ WorthOf(challenge_type, Count(u), req[r].old) \in Nat
          /\ Count(u) = 0 => WorthOf(challenge_type, Count(u), delivery_count) = 0
        BY <1>1, WorthIs
    <2>. QED BY <1>1, <1>2, <2>1, <2>2
<1>4. CASE challenge_type # 3
    <2>1. ~ \/ req[r].old <= Count(u) /\ Count(u) < delivery_count
            \/ delivery_count <= Count(u) /\ Count(u) < req[r].old
        BY <1>4, ConcernedAre
    <2>. QED BY <1>1, <1>2, <1>4, <2>1 DEF WorthOf
<1>. QED BY <1>3, <1>4

\* What an edit finds out about a driver it concerns is enough.
LEMMA ConcernedIsJudged ==
    ASSUME TypeInv, NEW r \in Reqs, req[r].op = "patch", req[r].need = delivery_count,
           NEW u \in Concerned(r), u \in Users, Rows(u) >= WorthAt(req[r].old, u)
    PROVE  /\ Adds(r, u) = 0 /\ Takes(r, u) = 0 => Rows(u) >= Worth(u)
           /\ Adds(r, u) > 0 => Rows(u) + Adds(r, u) >= Worth(u)
           /\ Takes(r, u) > 0 => IF challenge_type = 3 THEN Rows(u) >= Worth(u) + Takes(r, u)
                                 ELSE Worth(u) = 0
<1>1. PICK old, need, c, rows, owed, held, adds, takes, w :
        /\ old = req[r].old /\ need = req[r].need /\ c = Count(u) /\ rows = Rows(u)
        /\ owed = Owed(r, u) /\ held = Held(u) /\ adds = Adds(r, u) /\ takes = Takes(r, u)
        /\ w = Worth(u)
    OBVIOUS
<1>2. /\ old \in Nat \ {0} /\ need \in Nat \ {0} /\ c \in Nat /\ rows \in Nat /\ w \in Nat
      /\ w = WorthOf(challenge_type, c, need) /\ rows >= WorthOf(challenge_type, c, old)
    BY <1>1, ReadByThen, NumbersOf DEF Numbers, WorthAt
<1>3. /\ owed \in Nat /\ held \in Nat
      /\ held = IF challenge_type = 3 THEN rows ELSE IF rows = 0 THEN 0 ELSE 1
      /\ adds = IF need < old /\ owed > held THEN owed - held ELSE 0
      /\ takes = IF need > old /\ owed < held THEN held - owed ELSE 0
    BY <1>1, AddsAndTakes
<1>4. CASE challenge_type = 3
    <2>1. old # need
        BY <1>1, <1>4, ConcernedAre
    <2>2. owed = w
        BY <1>1, <1>4 DEF Owed, Worth
    <2>3. need > old => w <= WorthOf(challenge_type, c, old) /\ WorthOf(challenge_type, c, old) \in Nat
        <3>1. old \in Nat \ {0} /\ need \in Nat \ {0} /\ c \in Nat
            BY <1>2
        <3>2. WorthOf(challenge_type, c, old) \in Nat
            BY <3>1, WorthIs
        <3>3. old <= need => WorthOf(challenge_type, c, need) <= WorthOf(challenge_type, c, old)
            BY <3>1, WorthIs
        <3>. QED BY <1>2, <3>1, <3>2, <3>3
    <2>4. /\ adds = 0 /\ takes = 0 => rows >= w
          /\ adds > 0 => rows + adds >= w
          /\ takes > 0 => rows >= w + takes
        BY <1>2, <1>3, <1>4, <2>1, <2>2, <2>3
    <2>. QED BY <1>1, <1>4, <2>4
<1>5. CASE challenge_type # 3
    <2>1. \/ old <= c /\ c < need
          \/ need <= c /\ c < old
        BY <1>1, <1>5, ConcernedAre
    <2>2. owed = IF need < old THEN 1 ELSE 0
        BY <1>1, <1>5 DEF Owed
    <2>3. w = IF c >= need THEN 1 ELSE 0
        BY <1>2, <1>5 DEF WorthOf
    <2>4. /\ adds = 0 /\ takes = 0 => rows >= w
          /\ adds > 0 => rows + adds >= w
          /\ takes > 0 => w = 0
        BY <1>2, <1>3, <1>5, <2>1, <2>2, <2>3
    <2>. QED BY <1>1, <1>5, <2>4
<1>. QED BY <1>4, <1>5

\* A removal or an edit leaves the rows that the deliveries are worth, or is about to.
LEMMA PersonalSerial ==
    ASSUME TypeInv, TypeInv', OverlapInv, PersonalInv, Orderly, Personal,
           challenge_type' = challenge_type, gone' = gone \/ ~ByDistance,
           NEW r \in Reqs, Proceed(r), req[r].op \in {"remove", "patch"}
    PROVE  PersonalInv'
<1>1. Moved(r) /\ GoesOn(r) /\ \A q \in Reqs : q # r => req'[q].op = "none"
    BY ProceedMoves, Beside DEF Moved
<1>2. \A u \in Users : Handled(r, u)
    BY DEF PersonalInv
<1>3. Numbers /\ Numbers'
    BY NumbersOf, NumbersThen
<1>4. SUFFICES ASSUME NEW u \in Users
               PROVE  (req'[r] = Idle => Rows(u)' >= Worth(u)') /\ (Kept(r) => Handled(r, u)')
    <2>1. ASSUME NEW u \in Users, Plain'
          PROVE  Rows(u)' + Cardinality(Adding(u)') >= Worth(u)'
        <3>1. req'[r] = Idle
            BY <1>1, <2>1 DEF GoesOn, Kept, Plain
        <3>2. /\ Rows(u)' \in Nat /\ Worth(u)' \in Nat /\ Cardinality(Adding(u)') \in Nat
              /\ Rows(u)' >= Worth(u)'
            BY <1>3, <1>4, <3>1 DEF Numbers
        <3>. QED BY <3>2
    <2>2. ASSUME NEW u \in Users, NEW q \in Reqs, req'[q].op \in {"remove", "patch"}
          PROVE  Handled(q, u)'
        <3>1. q = r
            BY <1>1, <2>2
        <3>2. req'[r] # Idle
            BY <2>2, <3>1, IdleIsAJob
        <3>3. Kept(r)
            BY <1>1, <3>2 DEF GoesOn
        <3>4. Handled(r, u)'
            BY <1>4, <3>3
        <3>. QED BY <3>1, <3>4
    <2>. QED BY <2>1, <2>2 DEF PersonalInv
<1>5. /\ Rows(u) \in Nat /\ Rows(u)' \in Nat /\ Worth(u) \in Nat /\ Worth(u)' \in Nat
      /\ Count(u) \in Nat /\ Count(u)' \in Nat /\ delivery_count \in Nat \ {0}
      /\ Worth(u) = WorthOf(challenge_type, Count(u), delivery_count)
      /\ Worth(u)' = WorthOf(challenge_type, Count(u)', delivery_count')
    BY <1>3 DEF Numbers
<1>6. /\ req[r].pc # "update" => req[r].need = delivery_count
      /\ req[r].pc = "update" => req[r].old = delivery_count
    BY Beside
<1>7. /\ challenge_record' = challenge_record => Count(u)' = Count(u)
      /\ challenge_record' = challenge_record /\ UNCHANGED terms => Worth(u)' = Worth(u)
      /\ challenge_record' = challenge_record /\ Kept(r) =>
            WorthAt(req[r].old, u)' = WorthAt(req[r].old, u) /\ Concerned(r)' = Concerned(r)
    <2>1. challenge_record' = challenge_record =>
            /\ Count(u)' = Count(u)
            /\ \A v \in Users : RecordsOf({v})' = RecordsOf({v}) /\ Count(v)' = Count(v)
        BY CountsStay DEF TypeInv, Count
    <2>2. challenge_record' = challenge_record /\ UNCHANGED terms => Worth(u)' = Worth(u)
        BY <1>5, <2>1 DEF terms
    <2>3. challenge_record' = challenge_record /\ Kept(r) => Concerned(r)' = Concerned(r)
        BY <2>1 DEF Concerned, Kept
    <2>4. challenge_record' = challenge_record /\ Kept(r) => WorthAt(req[r].old, u)' = WorthAt(req[r].old, u)
        BY <2>1 DEF WorthAt, Kept
    <2>. QED BY <2>1, <2>2, <2>3, <2>4
\* Of those that are still to be judged one has been dealt with.
<1>8. ASSUME NEW w \in req[r].who, req[r].pc \in {"judge", "add", "take"},
             req[r].pc \in {"add", "take"} => DOMAIN req[r].due = {w},
             challenge_record' = challenge_record, UNCHANGED terms,
             u # w => Rows(u)' = Rows(u), u = w => Rows(u)' >= Worth(u),
             req[r].who \ {w} = {} => req'[r] = Idle,
             req[r].who \ {w} # {} => /\ Kept(r) /\ req'[r].pc = "judge"
                                      /\ req'[r].who = req[r].who \ {w}
      PROVE  (req'[r] = Idle => Rows(u)' >= Worth(u)') /\ (Kept(r) => Handled(r, u)')
    <2>1. Worth(u)' = Worth(u)
        BY <1>7, <1>8
    <2>2. u # w => ~Treats(r, u)
        BY <1>8 DEF Treats
    <2>3. u # w /\ u \notin req[r].who => Rows(u) >= Worth(u)
        BY <1>2, <1>8, <2>2 DEF Handled, Pends
    <2>4. ASSUME req[r].who \ {w} = {}
          PROVE  (req'[r] = Idle => Rows(u)' >= Worth(u)') /\ (Kept(r) => Handled(r, u)')
        <3>1. Rows(u)' >= Worth(u)'
            BY <1>8, <2>1, <2>3, <2>4
        <3>2. ~Kept(r)
            BY <1>8, <2>4, IdleIsAJob DEF Kept
        <3>. QED BY <3>1, <3>2
    <2>5. ASSUME req[r].who \ {w} # {}
          PROVE  (req'[r] = Idle => Rows(u)' >= Worth(u)') /\ (Kept(r) => Handled(r, u)')
        <3>1. /\ Kept(r) /\ req'[r].pc = "judge" /\ req'[r].who = req[r].who \ {w}
              /\ req'[r].op = req[r].op /\ req'[r] # Idle
            BY <1>8, <2>5, IdleIsAJob DEF Kept
        <3>2. ~Treats(r, u)'
            BY <3>1 DEF Treats
        <3>3. Pends(r, u)' => Pends(r, u) /\ u # w
            BY <1>8, <2>2, <3>1, <3>2 DEF Pends
        <3>4. Pends(r, u)' => u \in Concerned(r)' /\ Rows(u)' >= WorthAt(req[r].old, u)'
            BY <1>2, <1>7, <1>8, <3>1, <3>3 DEF Handled
        <3>5. ~Pends(r, u)' => u = w \/ ~Pends(r, u)
            BY <1>8, <3>1, <3>2 DEF Pends
        <3>6. ~Pends(r, u)' => Rows(u)' >= Worth(u)'
            BY <1>2, <1>8, <2>1, <2>2, <3>5 DEF Handled
        <3>. QED BY <3>1, <3>2, <3>4, <3>6 DEF Handled
    <2>. QED BY <2>4, <2>5
<1>9. CASE Remove(r)
    <2>1. /\ req[r].pc = "remove" /\ req[r].op = "remove" /\ Kept(r) /\ req'[r].pc = "judge"
          /\ challenge_completed' = challenge_completed /\ UNCHANGED terms
        BY <1>9, RemoveTakes, StepsTell DEF Remove
    <2>2. Rows(u)' = Rows(u) /\ Rows(u) >= Worth(u)
        BY <1>2, <2>1, RowsThen DEF Handled, Treats, Pends
    <2>3. Count(u)' <= Count(u)
        BY <1>9, CountsShrink DEF Count
    <2>4. Worth(u)' <= Worth(u)
        <3>1. delivery_count' = delivery_count
            BY <2>1 DEF terms
        <3>. QED BY <1>5, <2>3, <3>1, WorthIs
    <2>5. Rows(u)' >= Worth(u)'
        BY <1>5, <2>2, <2>4
    <2>6. Handled(r, u)'
        BY <2>1, <2>5 DEF Handled, Treats, Pends, Kept
    <2>. QED BY <2>5, <2>6
<1>10. CASE Update(r)
    <2>1. /\ req[r].pc = "update" /\ Kept(r) /\ req'[r].pc = "points" /\ req'[r] # Idle
          /\ challenge_completed' = challenge_completed /\ challenge_record' = challenge_record
        BY <1>10, RowsMoves, IdleIsAJob DEF Update
    <2>2. Rows(u)' = Rows(u) /\ Rows(u) >= Worth(u)
        BY <1>2, <2>1, RowsThen DEF Handled, Treats, Pends
    <2>3. WorthAt(req[r].old, u)' = Worth(u)
        <3>1. WorthAt(req[r].old, u) = Worth(u)
            BY <1>5, <1>6, <2>1 DEF WorthAt
        <3>. QED BY <1>7, <2>1, <3>1
    <2>4. Handled(r, u)'
        BY <2>1, <2>2, <2>3 DEF Handled, Treats, Pends
    <2>. QED BY <2>1, <2>4
<1>11. CASE Points(r)
    <2>1. /\ req[r].pc = "points" /\ Kept(r) /\ req'[r].pc = "list" /\ req'[r] # Idle
          /\ challenge_record' = challenge_record
        BY <1>11, RowsMoves, IdleIsAJob DEF Points
    <2>2. Rows(u)' = Rows(u) /\ Rows(u) >= WorthAt(req[r].old, u)
        BY <1>2, <1>11, <2>1, RowsThen DEF Handled
    <2>3. WorthAt(req[r].old, u)' = WorthAt(req[r].old, u)
        BY <1>7, <2>1
    <2>4. Handled(r, u)'
        BY <2>1, <2>2, <2>3 DEF Handled, Treats, Pends
    <2>. QED BY <2>1, <2>4
<1>12. CASE List(r)
    <2>1. /\ req[r].pc = "list" /\ req[r].op = "patch"
          /\ challenge_completed' = challenge_completed /\ UNCHANGED terms
          /\ challenge_record' = challenge_record
        BY <1>12, StepsTell DEF List
    <2>2. Rows(u)' = Rows(u) /\ Rows(u) >= WorthAt(req[r].old, u)
        BY <1>2, <2>1, RowsThen DEF Handled
    <2>3. WorthAt(req[r].old, u) \in Nat
        <3>1. req[r].old \in Nat \ {0}
            BY <2>1, ReadByThen
        <3>. QED BY <1>5, <3>1, WorthIs DEF WorthAt
    <2>4. u \notin Concerned(r) => Rows(u)' >= Worth(u)'
        <3>1. u \notin Concerned(r) => Worth(u) <= WorthAt(req[r].old, u)
            BY <1>6, <2>1, NotConcerned
        <3>2. Worth(u)' = Worth(u)
            BY <1>7, <2>1
        <3>. QED BY <1>5, <2>2, <2>3, <3>1, <3>2
    <2>5. ASSUME req'[r] = Idle PROVE Rows(u)' >= Worth(u)'
        <3>1. Concerned(r) = {}
            BY <1>12, <2>1, <2>5, IdleIsAJob, RowsMoves DEF Kept
        <3>. QED BY <2>4, <3>1
    <2>6. ASSUME Kept(r) PROVE Handled(r, u)'
        <3>1. req'[r] # Idle
            BY <2>1, <2>6, IdleIsAJob DEF Kept
        <3>2. req'[r].pc = "judge" /\ req'[r].who = Concerned(r)
            BY <1>12, <3>1, RowsMoves
        <3>3. /\ Concerned(r)' = Concerned(r)
              /\ WorthAt(req[r].old, u)' = WorthAt(req[r].old, u)
            BY <1>7, <2>1, <2>6
        <3>4. ~Treats(r, u)'
            BY <3>2 DEF Treats
        <3>5. Pends(r, u)' <=> u \in Concerned(r)
            BY <2>1, <2>6, <3>2, <3>4 DEF Pends, Kept
        <3>. QED BY <2>2, <2>4, <3>2, <3>3, <3>4, <3>5 DEF Handled
    <2>. QED BY <2>5, <2>6
<1>13. CASE Add(r) \/ Take(r)
    <2>1. PICK w \in req[r].who :
            /\ w \in Users /\ DOMAIN req[r].due = {w} /\ req[r].due[w] \in Nat \ {0}
            /\ req[r].who \ {w} = {} => req'[r] = Idle
            /\ req[r].who \ {w} # {} => /\ Kept(r) /\ req'[r].pc = "judge"
                                        /\ req'[r].who = req[r].who \ {w}
        BY <1>13, RowsMoves
    <2>2. /\ req[r].pc \in {"add", "take"} /\ UNCHANGED terms
          /\ challenge_record' = challenge_record
        BY <1>13 DEF Add, Take
    <2>3. u # w => Rows(u)' = Rows(u)
        BY <1>13, <2>1, RowsThen
    <2>4. PICK d \in Nat \ {0} : d = req[r].due[w]
        BY <2>1
    <2>5. ASSUME u = w PROVE Rows(u)' >= Worth(u)
        <3>1. Treats(r, u)
            BY <2>1, <2>2, <2>5 DEF Treats
        <3>2. CASE Add(r)
            <4>1. req[r].pc = "add"
                BY <3>2 DEF Add
            <4>2. Rows(u)' = Rows(u) + d
                BY <2>1, <2>4, <2>5, <3>2, RowsThen
            <4>3. Rows(u) + d >= Worth(u)
                BY <1>2, <2>4, <2>5, <3>1, <4>1 DEF Handled
            <4>. QED BY <4>2, <4>3
        <3>3. CASE Take(r)
            <4>1. req[r].pc = "take"
                BY <3>3 DEF Take
            <4>2. Rows(u)' = IF challenge_type # 3 \/ Rows(u) < d THEN 0 ELSE Rows(u) - d
                BY <2>1, <2>4, <2>5, <3>3, RowsThen
            <4>3. IF challenge_type = 3 THEN Rows(u) >= Worth(u) + d ELSE Worth(u) = 0
                BY <1>2, <2>4, <2>5, <3>1, <4>1 DEF Handled
            <4>. QED BY <1>5, <4>2, <4>3
        <3>. QED BY <1>13, <3>2, <3>3
    <2>. QED BY <1>8, <2>1, <2>2, <2>3, <2>5
<1>14. CASE JudgePersonal(r)
    <2>1. /\ req[r].pc = "judge" /\ Rows(u)' = Rows(u) /\ Worth(u)' = Worth(u) /\ UNCHANGED terms
          /\ challenge_record' = challenge_record
        BY <1>7, <1>14, RowsThen DEF JudgePersonal
    <2>2. PICK w \in req[r].who : w \in Users /\ JudgedOne(r, w)
        BY <1>14, JudgePersonalMoves
    <2>3. ~Treats(r, u)
        BY <2>1 DEF Treats
    <2>4. /\ Pends(r, u) <=> req[r].op = "patch" /\ u \in req[r].who
          /\ Pends(r, u) => u \in Concerned(r) /\ Rows(u) >= WorthAt(req[r].old, u)
          /\ ~Pends(r, u) => Rows(u) >= Worth(u)
        BY <1>2, <2>1, <2>3 DEF Handled, Pends
\* What is found out about a driver is right.
    <2>5. ASSUME u = w
          PROVE  /\ Adds(r, u) = 0 /\ Takes(r, u) = 0 => Rows(u) >= Worth(u)
                 /\ Adds(r, u) > 0 => Rows(u) + Adds(r, u) >= Worth(u)
                 /\ Takes(r, u) > 0 => IF challenge_type = 3 THEN Rows(u) >= Worth(u) + Takes(r, u)
                                       ELSE Worth(u) = 0
        <3>1. CASE req[r].op = "patch"
            <4>1. /\ u \in Concerned(r) /\ Rows(u) >= WorthAt(req[r].old, u)
                  /\ req[r].need = delivery_count
                BY <1>6, <2>1, <2>2, <2>4, <2>5, <3>1
            <4>. QED BY <3>1, <4>1, ConcernedIsJudged
        <3>2. CASE req[r].op = "remove"
            <4>1. Owed(r, u) = Worth(u) /\ Rows(u) >= Worth(u)
                BY <2>1, <2>4, <3>2, OwedIsWorth
            <4>2. PICK rows, worth, held, adds, takes :
                    /\ rows = Rows(u) /\ worth = Worth(u) /\ held = Held(u)
                    /\ adds = Adds(r, u) /\ takes = Takes(r, u)
                OBVIOUS
            <4>3. /\ rows \in Nat /\ worth \in Nat /\ adds = 0
                  /\ held = IF challenge_type = 3 THEN rows ELSE IF rows = 0 THEN 0 ELSE 1
                  /\ takes = IF worth < held THEN 1 ELSE 0
                BY <1>5, <3>2, <4>1, <4>2, AddsAndTakes
            <4>4. takes > 0 => IF challenge_type = 3 THEN rows >= worth + takes ELSE worth = 0
                BY <4>3
            <4>. QED BY <4>1, <4>2, <4>3, <4>4
        <3>. QED BY <3>1, <3>2
    <2>6. CASE Passed(r, w)
        <3>1. u = w => Rows(u)' >= Worth(u)
            BY <2>1, <2>5, <2>6 DEF Passed
        <3>. QED BY <1>8, <2>1, <2>6, <3>1 DEF Passed
    <2>7. ASSUME NEW pc \in {"add", "take"}, NEW n, Found(r, w, pc, n),
                 pc = "add" => n = Adds(r, w), pc = "take" => n = Takes(r, w)
          PROVE  (req'[r] = Idle => Rows(u)' >= Worth(u)') /\ (Kept(r) => Handled(r, u)')
        <3>1. /\ Kept(r) /\ req'[r].pc = pc /\ req'[r].who = req[r].who /\ n > 0
              /\ DOMAIN req'[r].due = {w} /\ req'[r].due[w] = n /\ req'[r].op = req[r].op
              /\ req'[r] # Idle
            BY <2>7, IdleIsAJob DEF Found, Kept
        <3>2. Treats(r, u)' <=> u = w
            BY <3>1 DEF Treats
        <3>3. /\ Concerned(r)' = Concerned(r)
              /\ WorthAt(req[r].old, u)' = WorthAt(req[r].old, u)
            BY <1>7, <2>1, <3>1
        <3>4. CASE u = w
            <4>1. ~Pends(r, u)'
                BY <3>2, <3>4 DEF Pends
            <4>2. CASE pc = "add"
                <5>1. Rows(u)' + n >= Worth(u)'
                    BY <2>1, <2>5, <2>7, <3>1, <3>4, <4>2
                <5>. QED BY <3>1, <3>2, <3>4, <4>1, <4>2, <5>1 DEF Handled
            <4>3. CASE pc = "take"
                <5>1. IF challenge_type' = 3 THEN Rows(u)' >= Worth(u)' + n ELSE Worth(u)' = 0
                    BY <2>1, <2>5, <2>7, <3>1, <3>4, <4>3
                <5>. QED BY <3>1, <3>2, <3>4, <4>1, <4>3, <5>1 DEF Handled
            <4>. QED BY <2>7, <4>2, <4>3
        <3>5. CASE u # w
            <4>1. Pends(r, u)' <=> Pends(r, u)
                BY <2>4, <2>7, <3>1, <3>2, <3>5 DEF Pends
            <4>2. Handled(r, u)'
                BY <2>1, <2>4, <2>7, <3>1, <3>2, <3>3, <3>5, <4>1 DEF Handled
            <4>. QED BY <3>1, <4>2
        <3>. QED BY <3>4, <3>5
    <2>8. CASE Found(r, w, "add", Adds(r, w))
        BY <2>7, <2>8
    <2>9. CASE Found(r, w, "take", Takes(r, w))
        BY <2>7, <2>9
    <2>. QED BY <2>2, <2>6, <2>8, <2>9 DEF JudgedOne
<1>15. ~Record(r) /\ ~JudgeCompany(r) /\ ~Clear(r) /\ ~Shares(r) /\ ~Share(r)
    BY StepsTell DEF Record, JudgeCompany, Clear, Shares, Share
<1>. QED BY <1>9, <1>10, <1>11, <1>12, <1>13, <1>14, <1>15 DEF Proceed

\* A request that arrives finds the rows as they should be, and a removal or an edit does so
\* alone; what else happens concerns no personal challenge.
LEMMA PersonalArrives ==
    ASSUME TypeInv, TypeInv', OverlapInv, PersonalInv, Orderly, Orderly', Personal,
           gone' = gone \/ ~ByDistance,
           UNCHANGED <<challenge_type, terms, challenge_record, challenge_completed>>,
           req' = req \/ \E r \in Reqs : Arrive(r)
    PROVE  PersonalInv'
<1>1. /\ \A U : RecordsOf(U)' = RecordsOf(U) /\ CountOf(U)' = CountOf(U)
      /\ \A u \in Users : Rows(u)' = Rows(u)
    BY CountsStay DEF TypeInv, Rows
<1>2. \A u \in Users : Count(u)' = Count(u) /\ Worth(u)' = Worth(u)
    BY <1>1 DEF Count, Worth, terms
<1>3. Numbers
    BY NumbersOf
<1>4. ASSUME NEW u \in Users, NEW q \in Reqs, req'[q] = req[q], Handled(q, u)
      PROVE  Handled(q, u)'
    <2>1. Concerned(q)' = Concerned(q)
        BY <1>1, <1>2, <1>4 DEF Concerned
    <2>2. WorthAt(req[q].old, u)' = WorthAt(req[q].old, u)
        BY <1>2, <1>4 DEF WorthAt
    <2>3. Treats(q, u)' = Treats(q, u)
        BY <1>4 DEF Treats
    <2>4. Pends(q, u)' = Pends(q, u)
        BY <1>4, <2>3 DEF Pends
    <2>. QED BY <1>1, <1>2, <1>4, <2>1, <2>2, <2>3, <2>4 DEF Handled
<1>5. CASE req' = req
    <2>1. Plain' = Plain /\ \A u \in Users : Adding(u)' = Adding(u)
        BY <1>5 DEF Plain, Adding
    <2>. QED BY <1>1, <1>2, <1>4, <1>5, <2>1 DEF PersonalInv
<1>6. ASSUME NEW r \in Reqs, Arrive(r) PROVE PersonalInv'
    <2>1. /\ \A q \in Reqs : q # r => req'[q] = req[q]
          /\ req[r].op = "none" /\ req[r].pc = "idle"
          /\ req'[r].op \in {"report", "put", "remove", "patch"}
          /\ req'[r].pc \in {"record", "remove", "update"}
        BY <1>6, ArriveMoves, IdleIsAJob DEF Moved
    <2>2. PICK op : op = req'[r].op
        OBVIOUS
    <2>3. \/ \A q \in Reqs : req[q].op = "none"
          \/ op \in {"report", "put"} /\ \A q \in Reqs : req[q].op \in {"none", "report", "put"}
        <3>1. op \in Ops \ {"none"} /\ Overlaps(op) /\ overlap' # "any"
            BY <1>6, <2>1, <2>2, ArriveMoves DEF Ops, Orderly
        <3>. QED BY <3>1, OverlapsTells
    <2>4. Plain
        BY <2>3 DEF Plain
    <2>5. ASSUME NEW u \in Users PROVE Adding(u)' = Adding(u)
        BY <2>1 DEF Adding
    <2>6. ASSUME NEW u \in Users
          PROVE  Rows(u)' + Cardinality(Adding(u)') >= Worth(u)'
        BY <1>1, <1>2, <2>4, <2>5 DEF PersonalInv
    <2>7. ASSUME NEW u \in Users, NEW q \in Reqs, req'[q].op \in {"remove", "patch"}
          PROVE  Handled(q, u)'
        <3>1. q = r /\ \A p \in Reqs : req[p].op = "none"
            BY <2>1, <2>2, <2>3, <2>7
        <3>2. Adding(u) = {}
            BY <3>1 DEF Adding
        <3>3. Rows(u) + 0 >= Worth(u) /\ Rows(u) \in Nat /\ Worth(u) \in Nat
            BY <1>3, <2>4, <3>2, FS_EmptySet DEF PersonalInv, Numbers
        <3>4. Rows(u)' >= Worth(u)'
            BY <1>1, <1>2, <3>3
        <3>. QED BY <2>1, <3>1, <3>4 DEF Handled, Treats, Pends
    <2>. QED BY <2>6, <2>7 DEF PersonalInv
<1>. QED BY <1>5, <1>6

\* Each step keeps the rows of personal challenges.
LEMMA PersonalNext ==
    ASSUME TypeInv, TypeInv', OverlapInv, PersonalInv, [Next]_vars
    PROVE  PersonalInv'
<1>1. SUFFICES ASSUME Orderly', Personal' PROVE PersonalInv'
    BY DEF PersonalInv
<1>2. Orderly /\ Personal /\ challenge_type' = challenge_type /\ (gone' = gone \/ ~ByDistance)
    BY <1>1, OrderlyBefore
<1>3. ASSUME NEW r \in Reqs, Proceed(r) PROVE PersonalInv'
    <2>1. req[r].op \in {"report", "put"} \/ req[r].op \in {"remove", "patch"}
        BY <1>3, ProceedMoves DEF TypeInv, JobsTyped, Jobs, Ops
    <2>. QED BY <1>2, <1>3, <2>1, PersonalAdds, PersonalSerial
<1>4. ASSUME NEW r \in Reqs, Arrive(r) PROVE PersonalInv'
    <2>1. UNCHANGED <<challenge_type, terms, challenge_record, challenge_completed>>
        BY <1>4, ArriveMoves
    <2>. QED BY <1>1, <1>2, <1>4, <2>1, PersonalArrives
<1>5. CASE LogOther \/ (\E l \in 1..MaxLogs : delete_dlog(l)) \/ UNCHANGED vars
    <2>1. req' = req /\ UNCHANGED <<challenge_type, terms, challenge_record, challenge_completed>>
        BY <1>5 DEF LogOther, delete_dlog, vars
    <2>. QED BY <1>1, <1>2, <2>1, PersonalArrives
<1>. QED BY <1>3, <1>4, <1>5 DEF Next

-----------------------------------------------------------------------------
(* All of it.                                                              *)

EarnedInv == TypeInv /\ OverlapInv /\ PersonalInv /\ CompanyInv

\* At the start nothing is worth anything.
LEMMA EarnedInit == Init => EarnedInv
<1>. SUFFICES ASSUME Init PROVE EarnedInv
    OBVIOUS
<1>1. TypeInv
    BY TypeInit
<1>2. \A r \in Reqs : req[r].pc = "idle" /\ req[r].op = "none"
    BY IdleIsAJob DEF Init
<1>3. OverlapInv
    BY <1>2 DEF OverlapInv
<1>4. \A U : CountOf(U) = 0
    <2>1. ASSUME NEW U PROVE CountOf(U) = 0
        <3>1. RecordsOf(U) = {}
            BY DEF Init, Nothing, RecordsOf
        <3>. QED BY <1>1, <3>1, CountsAreSums, RecordsAreDeliveries, SumOfNone DEF TypeInv
    <2>. QED BY <2>1
<1>5. Numbers
    BY <1>1, NumbersOf
<1>6. ASSUME NEW u \in Users
      PROVE  Worth(u) = 0 /\ Rows(u) + Cardinality(Adding(u)) >= Worth(u)
    <2>1. Worth(u) = 0
        BY <1>4, <1>5, WorthIs DEF Numbers, Count
    <2>. QED BY <1>5, <2>1 DEF Numbers
<1>7. PersonalInv
    BY <1>2, <1>6 DEF PersonalInv
<1>8. CompanyInv
    <2>1. Total = 0
        BY <1>4 DEF Total
    <2>2. ~(Total >= delivery_count)
        BY <1>5, <2>1 DEF Numbers
    <2>. QED BY <1>2, <2>2 DEF CompanyInv
<1>. QED BY <1>1, <1>3, <1>7, <1>8 DEF EarnedInv

\* Every step keeps what is earned.
LEMMA EarnedNext == EarnedInv /\ [Next]_vars => EarnedInv'
<1>. SUFFICES ASSUME EarnedInv, [Next]_vars PROVE EarnedInv'
    OBVIOUS
<1>1. TypeInv /\ TypeInv' /\ OverlapInv /\ PersonalInv /\ CompanyInv
    BY TypeNext DEF EarnedInv
<1>2. OverlapInv'
    BY <1>1, OverlapNext
<1>3. PersonalInv'
    BY <1>1, PersonalNext
<1>4. CompanyInv'
    BY <1>1, CompanyNext
<1>. QED BY <1>1, <1>2, <1>3, <1>4 DEF EarnedInv

\* When the requests are done a driver has the rows that the deliveries are worth, and a
\* company challenge that is not given is not earned.
LEMMA EarnedTells == EarnedInv => NothingEarnedIsMissed
<1>. SUFFICES ASSUME EarnedInv, Settled, overlap # "any"
              PROVE  IF Personal THEN \A u \in Users : Rows(u) >= Worth(u)
                     ELSE NoRows => Total < delivery_count
    BY DEF NothingEarnedIsMissed
<1>1. TypeInv /\ Orderly /\ PersonalInv /\ CompanyInv /\ Numbers
    BY NumbersOf DEF EarnedInv, Settled, Orderly
<1>2. \A r \in Reqs : req[r].pc = "idle" /\ req[r].op = "none"
    BY IdleIsAJob DEF Settled, Quiet
<1>3. ASSUME Personal, NEW u \in Users PROVE Rows(u) >= Worth(u)
    <2>1. Plain /\ Adding(u) = {}
        BY <1>2 DEF Plain, Adding
    <2>2. Rows(u) + 0 >= Worth(u) /\ Rows(u) \in Nat /\ Worth(u) \in Nat
        BY <1>1, <1>3, <2>1, FS_EmptySet DEF PersonalInv, Numbers
    <2>. QED BY <2>2
<1>4. ASSUME ~Personal, NoRows PROVE Total < delivery_count
    <2>1. ~(Total >= delivery_count)
        BY <1>1, <1>2, <1>4 DEF CompanyInv, Sharing
    <2>2. Total \in Nat /\ delivery_count \in Nat
        BY <1>1, CountsAreSums DEF Total, TypeInv, Numbers
    <2>. QED BY <2>1, <2>2
<1>. QED BY <1>3, <1>4

\* Reports and additions of deliveries that overlap miss nothing that is earned, and neither
\* do removals and edits that come alone: in every behaviour, for any drivers, deliveries,
\* connections and terms of the challenge.
THEOREM NothingMissed == Spec => []NothingEarnedIsMissed
<1>1. Spec => []EarnedInv
    BY EarnedInit, EarnedNext, PTL DEF Spec
<1>. QED BY <1>1, EarnedTells, PTL

-----------------------------------------------------------------------------
(* What the shares add up to.                                              *)

\* Rounding changes a quotient by half of one at most.
LEMMA RoundDivNear ==
    ASSUME NEW a \in Nat, NEW b \in Nat \ {0}
    PROVE  /\ RoundDiv(a, b) \in Nat
           /\ (2 * b) * RoundDiv(a, b) <= 2 * a + b
           /\ 2 * a <= (2 * b) * RoundDiv(a, b) + b
<1>1. PICK q, m, p : q = a \div b /\ m = a % b /\ p = RoundDiv(a, b)
    OBVIOUS
<1>2. a \in Int /\ b \in Int /\ b > 0
    OBVIOUS
<1>3. q \in Nat /\ m \in 0..b-1 /\ a = b * q + m
    BY <1>1, <1>2, Quotient
<1>4. p = CASE 2 * m < b -> q [] 2 * m > b -> q + 1 [] OTHER -> q + (q % 2)
    BY <1>1 DEF RoundDiv
<1>5. q % 2 \in {0, 1}
    BY <1>3
<1>6. p = IF 2 * m < b THEN q ELSE IF 2 * m > b THEN q + 1 ELSE q + (q % 2)
    BY <1>3, <1>4
<1>7. p \in {q, q + 1} /\ (p = q => 2 * m <= b) /\ (p = q + 1 => 2 * m >= b)
    BY <1>2, <1>3, <1>5, <1>6
<1>8. (2 * b) * q = 2 * (b * q) /\ (2 * b) * (q + 1) = 2 * (b * q) + 2 * b /\ b * q \in Nat
    BY <1>2, <1>3
<1>9. p \in Nat /\ (2 * b) * p <= 2 * a + b /\ 2 * a <= (2 * b) * p + b
    BY <1>2, <1>3, <1>7, <1>8
<1>. QED BY <1>1, <1>9

\* What the drivers have is what they have one by one.
Tallies == [u \in Users |-> Count(u)]
LEMMA TalliesAddUp ==
    ASSUME DataTyped
    PROVE  /\ Tallies \in [Users -> Nat]
           /\ \A U \in SUBSET Users : SumOf(Tallies, U) = CountOf(U)
           /\ CountOf(Active) = Total
<1>. DEFINE F == [U \in SUBSET Users |-> CountOf(U)]
<1>1. Tallies \in [Users -> Nat] /\ F \in [SUBSET Users -> Nat]
    BY CountsAreSums DEF Tallies, Count
<1>2. F[{}] = 0
    <2>1. RecordsOf({}) = {}
        BY DEF RecordsOf
    <2>2. CountOf({}) = 0
        BY <2>1, CountsAreSums, RecordsAreDeliveries, SumOfNone
    <2>. QED BY <2>2
<1>3. ASSUME NEW U \in SUBSET Users, NEW u \in U PROVE F[U] = Tallies[u] + F[U \ {u}]
    <2>1. CountOf(U) = CountOf(U \ {u}) + Count(u)
        BY CountOfSplits
    <2>2. CountOf(U \ {u}) \in Nat /\ Count(u) \in Nat
        BY CountsAreSums DEF Count
    <2>3. F[U] = CountOf(U) /\ F[U \ {u}] = CountOf(U \ {u}) /\ Tallies[u] = Count(u)
        BY DEF Tallies
    <2>. QED BY <2>1, <2>2, <2>3
<1>4. \A U \in SUBSET Users : SumOf(Tallies, U) = F[U]
    <2>1. PICK g, G : g = Tallies /\ G = F
        OBVIOUS
    <2>2. IsFiniteSet(Users)
        BY ChallengeConstants
    <2>3. g \in [Users -> Nat] /\ G \in [SUBSET Users -> Nat] /\ G[{}] = 0
        BY <1>1, <1>2, <2>1
    <2>4. \A U \in SUBSET Users : \A u \in U : G[U] = g[u] + G[U \ {u}]
        BY <1>3, <2>1
    <2>. HIDE DEF F
    <2>5. \A U \in SUBSET Users : SumOf(g, U) = G[U]
        <3>1. TakesApart(G, g, Users)
            BY <2>2, <2>3, <2>4 DEF TakesApart
        <3>. QED BY <3>1, TakenApart
    <2>. QED BY <2>1, <2>5
<1>5. \A U \in SUBSET Users : SumOf(Tallies, U) = CountOf(U)
    BY <1>4
<1>6. CountOf(Active) = Total
    <2>1. Active \in SUBSET Users /\ Users \ Active \in SUBSET Users
        BY DEF Active
    <2>2. SumOf(Tallies, Users) = SumOf(Tallies, Active) + SumOf(Tallies, Users \ Active)
        <3>1. IsFiniteSet(Users) /\ Users \in SUBSET Users
            BY ChallengeConstants
        <3>. QED BY <1>1, <2>1, <3>1, SumOfParts
    <2>3. \A u \in Users \ Active : Tallies[u] = 0
        BY CountsAreSums DEF Tallies, Active, Count
    <2>4. SumOf(Tallies, Users \ Active) = 0
        BY <1>1, <2>1, <2>3, SumOfNothing, ChallengeConstants
    <2>5. SumOf(Tallies, Users) = Total /\ SumOf(Tallies, Active) = CountOf(Active)
        BY <1>5, <2>1 DEF Total
    <2>6. CountOf(Active) \in Nat
        BY CountsAreSums
    <2>. QED BY <2>2, <2>4, <2>5, <2>6
<1>. QED BY <1>1, <1>5, <1>6

\* What somebody's distance goes beyond n is taken from it.
LEMMA DividedAddsUp ==
    ASSUME DataTyped, NEW n \in Nat \ {0}, Total >= n,
           NEW U \in SUBSET Active, NEW last \in Active, Ends(U, last, n)
    PROVE  /\ U \in SUBSET Users /\ Divided(U, last, n) \in [U -> Nat \ {0}]
           /\ SumOf(Divided(U, last, n), U) = n
<1>. DEFINE s == Divided(U, last, n)
<1>1. U \in SUBSET Users /\ last \in U /\ U \ {last} \in SUBSET Users /\ IsFiniteSet(U)
    BY ChallengeConstants, FS_Subset DEF Active, Ends
<1>2. /\ CountOf(U) = CountOf(U \ {last}) + Count(last)
      /\ CountOf(U) \in Nat /\ CountOf(U \ {last}) \in Nat /\ Count(last) \in Nat
      /\ CountOf(U \ {last}) < n /\ CountOf(U) >= n
    BY <1>1, CountOfSplits, CountsAreSums, TalliesAddUp DEF Ends, Count
<1>3. Over(U, n) = CountOf(U) - n
    BY <1>2 DEF Over
<1>4. s \in [U -> Nat \ {0}]
    <2>1. \A u \in U : Count(u) \in Nat \ {0}
        BY CountsAreSums DEF Active, Count
    <2>2. Count(last) - Over(U, n) \in Nat \ {0}
        BY <1>2, <1>3
    <2>. QED BY <2>1, <2>2 DEF Divided
<1>5. s[last] = Count(last) - (CountOf(U) - n)
    BY <1>1, <1>3 DEF Divided
<1>6. \A u \in U \ {last} : s[u] = Tallies[u]
    BY <1>1 DEF Divided, Tallies
<1>. HIDE DEF s
<1>7. SumOf(s, U) = s[last] + SumOf(s, U \ {last})
    BY <1>1, <1>4, SumOfSplits
<1>8. SumOf(s, U \ {last}) = SumOf(Tallies, U \ {last})
    <2>1. IsFiniteSet(Users) /\ Tallies \in [Users -> Nat] /\ U \ {last} \in SUBSET U
        BY TalliesAddUp, ChallengeConstants
    <2>. QED BY <1>1, <1>4, <1>6, <2>1, SumOfAgrees
<1>9. SumOf(Tallies, U \ {last}) = CountOf(U \ {last})
    BY <1>1, TalliesAddUp
<1>10. SumOf(s, U) = n
    BY <1>2, <1>5, <1>7, <1>8, <1>9
<1>. QED BY <1>1, <1>4, <1>10 DEF s

\* Each of the first n deliveries is somebody's.
LEMMA DeliveriesAddUp ==
    ASSUME DataTyped, ~ByDistance, NEW n \in Nat \ {0}, Total >= n, NEW S \in FirstRecords(n)
    PROVE  LET V == {v \in Users : RecordsOf({v}) \intersect S # {}}
               s == [u \in V |-> Cardinality(RecordsOf({u}) \intersect S)]
           IN  s \in [V -> Nat \ {0}] /\ SumOf(s, V) = n
<1>. DEFINE V == {v \in Users : RecordsOf({v}) \intersect S # {}}
            s == [u \in V |-> Cardinality(RecordsOf({u}) \intersect S)]
            D == DOMAIN challenge_record
<1>1. IsFiniteSet(D) /\ Cardinality(D) \in Nat /\ IsFiniteSet(Users)
    BY RecordsAreDeliveries, FS_CardinalityType, ChallengeConstants
<1>2. Total = Cardinality(D)
    <2>1. RecordsOf(Users) = D
        BY RecordsAreDeliveries DEF RecordsOf
    <2>2. Weights \in [D -> Nat] /\ \A i \in D : Weights[i] = 1
        BY RecordsAreDeliveries DEF Weights, Weight
    <2>3. SumOf(Weights, D) = Cardinality(D)
        BY <1>1, <2>2, SumOfOnes
    <2>4. CountOf(Users) = SumOf(Weights, RecordsOf(Users))
        BY CountsAreSums
    <2>. QED BY <2>1, <2>3, <2>4 DEF Total
<1>3. S \in SUBSET D /\ Cardinality(S) = n /\ IsFiniteSet(S)
    <2>1. S \in SUBSET D /\ Cardinality(S) = Min({n, Cardinality(D)})
        BY DEF FirstRecords
    <2>2. {n, Cardinality(D)} \in SUBSET Nat /\ {n, Cardinality(D)} # {}
        BY <1>1
    <2>3. /\ Min({n, Cardinality(D)}) \in {n, Cardinality(D)}
          /\ \A m \in {n, Cardinality(D)} : Min({n, Cardinality(D)}) <= m
        BY <2>2, MinIsLeast
    <2>4. Min({n, Cardinality(D)}) = n
        BY <1>1, <1>2, <2>3
    <2>. QED BY <1>1, <2>1, <2>4, FS_Subset
<1>. DEFINE k == [i \in S |-> Driver[challenge_record[i].log]]
            g == [u \in Users |-> Cardinality(Mapped(S, k, {u}))]
<1>4. \A u : Mapped(S, k, {u}) = RecordsOf({u}) \intersect S
    BY <1>3 DEF Mapped, RecordsOf
<1>5. Mapped(S, k, Users) = S
    BY <1>3, RecordsAreDeliveries DEF Mapped
<1>6. g \in [Users -> Nat] /\ SumOf(g, Users) = n
    <2>1. PICK key : key = k
        OBVIOUS
    <2>2. /\ [u \in Users |-> Cardinality(Mapped(S, key, {u}))] \in [Users -> Nat]
          /\ SumOf([u \in Users |-> Cardinality(Mapped(S, key, {u}))], Users)
                = Cardinality(Mapped(S, key, Users))
        BY <1>1, <1>3, SumOfMapped
    <2>3. g = [u \in Users |-> Cardinality(Mapped(S, key, {u}))]
        BY <2>1
    <2>4. Mapped(S, key, Users) = S
        BY <1>5, <2>1
    <2>. HIDE DEF g
    <2>. QED BY <1>3, <2>2, <2>3, <2>4
<1>7. \A u \in Users : g[u] = Cardinality(RecordsOf({u}) \intersect S)
    BY <1>4
<1>8. s \in [V -> Nat \ {0}]
    <2>1. ASSUME NEW u \in V PROVE Cardinality(RecordsOf({u}) \intersect S) \in Nat \ {0}
        <3>1. IsFiniteSet(RecordsOf({u}) \intersect S)
            BY <1>3, FS_Subset
        <3>. QED BY <2>1, <3>1, FS_CardinalityType, FS_EmptySet
    <2>. QED BY <2>1
<1>9. V \in SUBSET Users /\ \A u \in V : g[u] = s[u]
    BY <1>7
<1>10. \A u \in Users \ V : g[u] = 0
    BY <1>7, FS_EmptySet
<1>. HIDE DEF g, s, V
<1>11. SumOf(g, Users) = SumOf(g, V) + SumOf(g, Users \ V)
    <2>1. Users \in SUBSET Users
        OBVIOUS
    <2>. QED BY <1>1, <1>6, <1>9, <2>1, SumOfParts
<1>12. SumOf(g, Users \ V) = 0
    <2>1. Users \ V \in SUBSET Users
        OBVIOUS
    <2>. QED BY <1>1, <1>6, <1>10, <2>1, SumOfNothing
<1>13. SumOf(g, V) = SumOf(s, V)
    <2>1. IsFiniteSet(V) /\ V \in SUBSET V
        BY <1>1, <1>9, FS_Subset
    <2>. QED BY <1>1, <1>6, <1>8, <1>9, <2>1, SumOfAgrees
<1>14. SumOf(g, V) \in Nat
    BY <1>1, <1>6, <1>9, SumOfIsTheSum
<1>15. s \in [V -> Nat \ {0}] /\ SumOf(s, V) = n
    BY <1>6, <1>8, <1>11, <1>12, <1>13, <1>14
<1>. QED BY <1>15 DEF s, V

\* Where the deliveries are enough, the shares add up to what completes the challenge.
LEMMA SharesAddUp ==
    ASSUME DataTyped, NEW n \in Nat \ {0}, Total >= n, NEW s \in usercnt(n)
    PROVE  \E U \in SUBSET Users : U # {} /\ s \in [U -> Nat \ {0}] /\ SumOf(s, U) = n
<1>1. DOMAIN s # {}
    BY SharesAreSome
<1>2. s # Nothing
    BY <1>1 DEF Nothing
<1>3. SUFFICES \E U \in SUBSET Users : s \in [U -> Nat \ {0}] /\ SumOf(s, U) = n
    BY <1>1
<1>4. s \in IF ByDistance THEN DistanceShares(n) ELSE DeliveryShares(n)
    BY <1>2 DEF usercnt
<1>5. CASE ByDistance
    <2>1. PICK U \in SUBSET Active, last \in Active :
            Ends(U, last, n) /\ s = Divided(U, last, n)
        BY <1>4, <1>5, DistanceSharesAre
    <2>. QED BY <2>1, DividedAddsUp
<1>6. CASE ~ByDistance
    <2>1. PICK S \in FirstRecords(n) :
            s = [u \in {v \in Users : RecordsOf({v}) \intersect S # {}} |->
                     Cardinality(RecordsOf({u}) \intersect S)]
        BY <1>4, <1>6 DEF DeliveryShares
    <2>2. PICK V : V = {v \in Users : RecordsOf({v}) \intersect S # {}}
        OBVIOUS
    <2>3. s \in [V -> Nat \ {0}] /\ SumOf(s, V) = n
        BY <1>6, <2>1, <2>2, DeliveriesAddUp
    <2>. QED BY <2>2, <2>3
<1>. QED BY <1>5, <1>6

\* The prize is a sum.
Firsts == [u \in Users |-> First(u)]
LEMMA PrizeIsASum ==
    ASSUME DataTyped
    PROVE  Firsts \in [Users -> Nat] /\ Prize = SumOf(Firsts, Users)
<1>. DEFINE Sum(it) == it = [s \in SUBSET Users |->
                           IF s = {} THEN 0
                           ELSE First(CHOOSE x \in s : TRUE) + it[s \ {CHOOSE x \in s : TRUE}]]
            it == CHOOSE it : Sum(it)
<1>1. IsFiniteSet(Users) /\ Users \in SUBSET Users
    BY ChallengeConstants
<1>2. Firsts \in [Users -> Nat]
    <2>1. ASSUME NEW u \in Users PROVE First(u) \in Nat
        <3>1. PICK s : s = challenge_completed[u]
            OBVIOUS
        <3>2. s \in Seq(Nat)
            BY <3>1 DEF DataTyped
        <3>3. Len(s) # 0 => s[1] \in Nat
            BY <3>2
        <3>. QED BY <3>1, <3>3 DEF First, Rows
    <2>. QED BY <2>1 DEF Firsts
<1>3. \A jt : SumsUp(jt, Firsts, Users) <=> Sum(jt)
    <2>1. \A s \in SUBSET Users : s # {} => Firsts[PickOne(s)] = First(CHOOSE x \in s : TRUE)
        BY DEF PickOne, Firsts
    <2>. QED BY <2>1 DEF SumsUp, PickOne
<1>4. Prize = it[Users]
    BY Zenon DEF Prize, MapThenSumSet, MapThenFoldSet
<1>5. SumOf(Firsts, Users) = (CHOOSE jt : SumsUp(jt, Firsts, Users))[Users]
    <2>1. DOMAIN Firsts = Users
        BY DEF Firsts
    <2>. QED BY <2>1 DEF SumOf
<1>. HIDE DEF Sum
<1>6. (CHOOSE jt : SumsUp(jt, Firsts, Users)) = CHOOSE jt : Sum(jt)
    BY <1>3
<1>. QED BY <1>2, <1>4, <1>5, <1>6

-----------------------------------------------------------------------------
(* Requests that come one after the other.                                 *)

\* No request has run into another, and no counted distance is gone.
Alone == overlap = "none" /\ (ByDistance => gone = {})

Free == \A r \in Reqs : req[r].op = "none"
OnlyOne(r) == \A q \in Reqs : q # r => req[q].op = "none"
Unrecorded(r) == \A i \in DOMAIN challenge_record : challenge_record[i].log # req[r].log

\* Of the requests one at most is under way. It has read the reward, and what it records is
\* not recorded: each delivery is recorded once.
AloneInv ==
    overlap = "none" =>
        /\ \A r \in Reqs : req[r].op # "none" => OnlyOne(r)
        /\ \A r \in Reqs : req[r].op # "none" /\ req[r].pc # "update" => req[r].reward = reward_points
        /\ \A i, j \in DOMAIN challenge_record :
            challenge_record[i].log = challenge_record[j].log => i = j
        /\ \A r \in Reqs : req[r].pc = "record" => Unrecorded(r)

\* Only a request that finds no other leaves it at that.
LEMMA OverlapsNever ==
    ASSUME NEW op \in Ops \ {"none"}, Overlaps(op), overlap' = "none"
    PROVE  overlap = "none" /\ Free
<1>. DEFINE Running == {req[q].op : q \in Reqs} \ {"none"}
<1>1. overlap' = IF Running = {} THEN overlap
                 ELSE IF overlap = "any" \/ ~ (Running \union {op} \subseteq {"report", "put"})
                      THEN "any" ELSE "adds"
    BY DEF Overlaps
<1>2. CASE Running = {}
    <2>1. Free
        BY <1>2 DEF Free
    <2>. QED BY <1>1, <1>2, <2>1
<1>3. CASE Running # {}
    <2>. HIDE DEF Running
    <2>. QED BY <1>1, <1>3
<1>. QED BY <1>2, <1>3

\* A request arrives with the reward of now, and records only what is not recorded.
LEMMA ArriveReads ==
    ASSUME TypeInv, NEW r \in Reqs, Arrive(r)
    PROVE  /\ req'[r].op # "patch" => req'[r].reward = reward_points
           /\ req'[r].pc = "record" => RecordsWith(req'[r].log) = {}
<1>1. /\ delivery_count \in Counts /\ reward_points \in Rewards /\ logged \in Nat
    BY DEF TypeInv, DataTyped
<1>2. CASE process_challenge(r)
    <2>1. Begin(r, "report", logged + 1, "record", delivery_count, reward_points)
        BY <1>2 DEF process_challenge
    <2>2. "report" \in Ops /\ "record" \in Steps /\ logged + 1 \in Nat
        BY <1>1 DEF Ops, Steps
    <2>3. req'[r].log = logged + 1 /\ req'[r].reward = reward_points
        BY <1>1, <2>1, <2>2, BeginMoves
    <2>4. RecordsWith(logged + 1) = {}
        <3>1. ASSUME NEW i \in DOMAIN challenge_record PROVE challenge_record[i].log # logged + 1
            <4>1. challenge_record[i].log \in 1..logged
                BY RecordsAreDeliveries DEF TypeInv
            <4>. QED BY <1>1, <4>1
        <3>. QED BY <3>1 DEF RecordsWith
    <2>. QED BY <2>3, <2>4
<1>3. ASSUME NEW l \in 1..MaxLogs, put_delivery(r, l)
      PROVE  req'[r].reward = reward_points /\ RecordsWith(req'[r].log) = {}
    <2>1. RecordsWith(l) = {} /\ Begin(r, "put", l, "record", delivery_count, reward_points)
        BY <1>3 DEF put_delivery
    <2>2. "put" \in Ops /\ "record" \in Steps /\ l \in Nat
        BY ChallengeConstants DEF Ops, Steps
    <2>3. req'[r].log = l /\ req'[r].reward = reward_points
        BY <1>1, <2>1, <2>2, BeginMoves
    <2>. QED BY <2>1, <2>3
<1>4. ASSUME NEW l \in 1..MaxLogs, delete_delivery(r, l)
      PROVE  req'[r].reward = reward_points /\ req'[r].pc = "remove"
    <2>1. Begin(r, "remove", l, "remove", delivery_count, reward_points)
        BY <1>4 DEF delete_delivery
    <2>2. "remove" \in Ops /\ "remove" \in Steps /\ l \in Nat
        BY ChallengeConstants DEF Ops, Steps
    <2>. QED BY <1>1, <2>1, <2>2, BeginMoves
<1>5. ASSUME NEW need \in Counts, NEW reward \in Rewards, patch_challenge(r, need, reward)
      PROVE  req'[r].op = "patch" /\ req'[r].pc = "update"
    <2>1. Begin(r, "patch", 0, "update", need, reward)
        BY <1>5 DEF patch_challenge
    <2>2. "patch" \in Ops /\ "update" \in Steps
        BY DEF Ops, Steps
    <2>. QED BY <2>1, <2>2, BeginMoves
<1>. QED BY <1>2, <1>3, <1>4, <1>5 DEF Arrive

\* Who is alone was so before, and what happens is the arrival of a request, a step of the
\* only one, or nothing to the challenge.
Arrived(r) == Arrive(r) /\ Free /\ OnlyOne(r)'
Proceeded(r) == Proceed(r) /\ OnlyOne(r) /\ OnlyOne(r)'
Still == req' = req /\ UNCHANGED <<challenge_type, terms, challenge_record, challenge_completed>>
LEMMA AloneBefore ==
    ASSUME TypeInv, AloneInv, [Next]_vars, overlap' = "none"
    PROVE  /\ overlap = "none"
           /\ Still \/ \E r \in Reqs : Arrived(r) \/ Proceeded(r)
<1>1. ASSUME NEW r \in Reqs, Arrive(r) PROVE overlap = "none" /\ Arrived(r)
    <2>1. PICK op : op = req'[r].op
        OBVIOUS
    <2>2. op \in Ops \ {"none"} /\ Overlaps(op) /\ Moved(r)
        BY <1>1, <2>1, ArriveMoves DEF Ops
    <2>3. overlap = "none" /\ Free
        BY <2>2, OverlapsNever
    <2>4. OnlyOne(r)'
        BY <2>2, <2>3 DEF Moved, Free, OnlyOne
    <2>. QED BY <1>1, <2>3, <2>4 DEF Arrived
<1>2. ASSUME NEW r \in Reqs, Proceed(r) PROVE overlap = "none" /\ Proceeded(r)
    <2>1. req[r].op # "none" /\ Moved(r) /\ overlap = "none"
        BY <1>2, ProceedMoves
    <2>2. OnlyOne(r)
        BY <2>1 DEF AloneInv
    <2>3. OnlyOne(r)'
        BY <2>1, <2>2 DEF Moved, OnlyOne
    <2>. QED BY <1>2, <2>1, <2>2, <2>3 DEF Proceeded
<1>3. CASE LogOther \/ (\E l \in 1..MaxLogs : delete_dlog(l)) \/ UNCHANGED vars
    BY <1>3 DEF LogOther, delete_dlog, vars, Still
<1>. QED BY <1>1, <1>2, <1>3 DEF Next

\* Each step keeps it.
LEMMA AloneNext ==
    ASSUME TypeInv, AloneInv, [Next]_vars
    PROVE  AloneInv'
<1>. SUFFICES ASSUME overlap' = "none"
              PROVE  /\ \A q \in Reqs : req'[q].op # "none" => OnlyOne(q)'
                     /\ \A q \in Reqs : req'[q].op # "none" /\ req'[q].pc # "update"
                            => req'[q].reward = reward_points'
                     /\ \A i, j \in DOMAIN challenge_record' :
                            challenge_record'[i].log = challenge_record'[j].log => i = j
                     /\ \A q \in Reqs : req'[q].pc = "record" => Unrecorded(q)'
    BY DEF AloneInv
<1>1. overlap = "none" /\ (Still \/ \E r \in Reqs : Arrived(r) \/ Proceeded(r))
    BY AloneBefore
<1>2. /\ \A r \in Reqs : req[r].op # "none" => OnlyOne(r)
      /\ \A r \in Reqs : req[r].op # "none" /\ req[r].pc # "update" => req[r].reward = reward_points
      /\ \A i, j \in DOMAIN challenge_record :
            challenge_record[i].log = challenge_record[j].log => i = j
      /\ \A r \in Reqs : req[r].pc = "record" => Unrecorded(r)
    BY <1>1 DEF AloneInv
<1>3. \A q \in Reqs : challenge_record' = challenge_record /\ req'[q] = req[q] => Unrecorded(q)' = Unrecorded(q)
    BY DEF Unrecorded
<1>4. CASE Still
    <2>1. /\ req' = req /\ reward_points' = reward_points /\ challenge_record' = challenge_record
        BY <1>4 DEF Still, terms
    <2>2. \A q \in Reqs : OnlyOne(q)' = OnlyOne(q)
        BY <2>1 DEF OnlyOne
    <2>. QED BY <1>2, <1>3, <2>1, <2>2
<1>5. ASSUME NEW r \in Reqs, OnlyOne(r)', Moved(r)
      PROVE  /\ \A q \in Reqs : req'[q].op # "none" => q = r
             /\ \A q \in Reqs : req'[q].op # "none" => OnlyOne(q)'
             /\ \A q \in Reqs : q # r => req'[q] = req[q]
    BY <1>5 DEF OnlyOne, Moved
<1>6. ASSUME NEW r \in Reqs, Arrived(r)
      PROVE  /\ \A q \in Reqs : req'[q].op # "none" => OnlyOne(q)'
             /\ \A q \in Reqs : req'[q].op # "none" /\ req'[q].pc # "update"
                    => req'[q].reward = reward_points'
             /\ \A i, j \in DOMAIN challenge_record' :
                    challenge_record'[i].log = challenge_record'[j].log => i = j
             /\ \A q \in Reqs : req'[q].pc = "record" => Unrecorded(q)'
    <2>1. Arrive(r) /\ OnlyOne(r)' /\ Moved(r)
        BY <1>6, ArriveMoves DEF Arrived
    <2>2. /\ reward_points' = reward_points /\ challenge_record' = challenge_record
          /\ req'[r].op = "patch" <=> req'[r].pc = "update"
          /\ req'[r].op # "patch" => req'[r].reward = reward_points
          /\ req'[r].pc = "record" => RecordsWith(req'[r].log) = {}
        BY <2>1, ArriveMoves, ArriveReads DEF terms
    <2>3. req'[r].pc = "record" => Unrecorded(r)'
        BY <2>2 DEF Unrecorded, RecordsWith
    <2>4. \A q \in Reqs : req'[q].pc = "record" => Unrecorded(q)'
        BY <1>2, <1>3, <1>5, <2>1, <2>2, <2>3
    <2>. QED BY <1>2, <1>5, <2>1, <2>2, <2>4
<1>7. ASSUME NEW r \in Reqs, Proceeded(r)
      PROVE  /\ \A q \in Reqs : req'[q].op # "none" => OnlyOne(q)'
             /\ \A q \in Reqs : req'[q].op # "none" /\ req'[q].pc # "update"
                    => req'[q].reward = reward_points'
             /\ \A i, j \in DOMAIN challenge_record' :
                    challenge_record'[i].log = challenge_record'[j].log => i = j
             /\ \A q \in Reqs : req'[q].pc = "record" => Unrecorded(q)'
    <2>1. /\ Proceed(r) /\ OnlyOne(r) /\ OnlyOne(r)' /\ Moved(r) /\ GoesOn(r) /\ req[r].op # "none"
          /\ Update(r) \/ (req[r].pc # "update" /\ UNCHANGED terms)
        BY <1>7, ProceedMoves DEF Proceeded
    <2>2. ASSUME NEW q \in Reqs, q # r PROVE req'[q].op = "none" /\ req'[q].pc = "idle"
        BY <1>5, <2>1, <2>2, StepsTell DEF OnlyOne
    <2>3. req'[r].pc # "record"
        BY <2>1, IdleIsAJob DEF GoesOn
    <2>4. req'[r].op # "none" => req'[r].reward = req[r].reward
        BY <2>1, IdleIsAJob DEF GoesOn, Kept
    <2>5. Update(r) => reward_points' = req[r].reward
        BY DEF Update
    <2>6. req'[r].op # "none" => req'[r].reward = reward_points'
        BY <1>2, <2>1, <2>4, <2>5 DEF terms
    <2>7. \A i, j \in DOMAIN challenge_record' :
            challenge_record'[i].log = challenge_record'[j].log => i = j
        <3>1. CASE Record(r)
            <4>1. PICK new : /\ DOMAIN challenge_record' = DOMAIN challenge_record \union {new}
                             /\ challenge_record'[new].log = req[r].log
                             /\ \A i \in DOMAIN challenge_record : challenge_record'[i] = challenge_record[i]
                <5>1. PICK new, time :
                        /\ DOMAIN challenge_record' = DOMAIN challenge_record \union {new}
                        /\ challenge_record'[new] = [log |-> req[r].log, time |-> time]
                        /\ \A i \in DOMAIN challenge_record : challenge_record'[i] = challenge_record[i]
                    BY <3>1, RecordAdds
                <5>2. challenge_record'[new].log = req[r].log
                    BY <5>1
                <5>. QED BY <5>1, <5>2
            <4>2. \A i \in DOMAIN challenge_record : challenge_record[i].log # req[r].log
                BY <1>2, <3>1 DEF Record, Unrecorded
            <4>. QED BY <1>2, <4>1, <4>2
        <3>2. CASE Remove(r)
            BY <1>2, <3>2, RemoveTakes
        <3>3. CASE ~Record(r) /\ ~Remove(r)
            <4>1. challenge_record' = challenge_record
                BY <2>1, <3>3 DEF Proceed, Update, Points, List, JudgePersonal, Add, Take,
                                  JudgeCompany, Clear, Shares, Share
            <4>. QED BY <1>2, <4>1
        <3>. QED BY <3>1, <3>2, <3>3
    <2>. QED BY <1>5, <2>1, <2>2, <2>3, <2>6, <2>7
<1>. QED BY <1>1, <1>4, <1>6, <1>7

\* All rows of a personal challenge have the points that it gives now, but for the moment in
\* which an edit has changed what it gives.
PointsInv ==
    overlap = "none" /\ Personal /\ (\A r \in Reqs : req[r].pc # "points") =>
        \A u \in Users : challenge_completed[u] \in Seq({reward_points})

\* Each step keeps it.
LEMMA PointsNext ==
    ASSUME TypeInv, TypeInv', AloneInv, PointsInv, [Next]_vars
    PROVE  PointsInv'
<1>. SUFFICES ASSUME overlap' = "none", Personal', \A r \in Reqs : req'[r].pc # "points", NEW u \in Users
              PROVE  challenge_completed'[u] \in Seq({reward_points'})
    BY DEF PointsInv
<1>1. overlap = "none" /\ (Still \/ \E r \in Reqs : Arrived(r) \/ Proceeded(r))
    BY AloneBefore
<1>2. challenge_completed \in [Users -> Seq(Nat)] /\ reward_points \in Nat
    BY ChallengeConstants DEF TypeInv, DataTyped
<1>3. Personal /\ (\A r \in Reqs : req[r].pc # "points") =>
            \A v \in Users : challenge_completed[v] \in Seq({reward_points})
    BY <1>1 DEF PointsInv
<1>4. CASE Still
    BY <1>3, <1>4 DEF Still, terms, Personal
<1>5. ASSUME NEW r \in Reqs, Arrived(r)
      PROVE  challenge_completed'[u] \in Seq({reward_points'})
    <2>1. UNCHANGED <<challenge_type, terms, challenge_completed>>
        BY <1>5, ArriveMoves DEF Arrived
    <2>2. \A q \in Reqs : req[q].pc # "points"
        BY <1>5, StepsTell DEF Arrived, Free
    <2>. QED BY <1>3, <2>1, <2>2 DEF terms, Personal
<1>6. ASSUME NEW r \in Reqs, Proceeded(r)
      PROVE  challenge_completed'[u] \in Seq({reward_points'})
    <2>1. /\ Proceed(r) /\ OnlyOne(r) /\ req[r].op # "none" /\ challenge_type' = challenge_type
          /\ Update(r) \/ (req[r].pc # "update" /\ UNCHANGED terms)
        BY <1>6, ProceedMoves DEF Proceeded
    <2>2. Personal
        BY <2>1 DEF Personal
    <2>3. ~Update(r)
        BY <2>2, RowsMoves
    <2>4. reward_points' = reward_points /\ req[r].reward = reward_points /\ req[r].reward \in Nat
        BY <1>1, <2>1, <2>3, ReadByThen DEF terms, AloneInv
    <2>5. PICK p : p = reward_points
        OBVIOUS
    <2>6. ASSUME NEW n \in Nat PROVE [i \in 1..n |-> p] \in Seq({p})
        OBVIOUS
    <2>7. CASE Points(r)
        <3>1. Rows(u) \in Nat
            BY <1>2 DEF Rows
        <3>2. challenge_completed'[u] = [i \in 1..Rows(u) |-> p]
            BY <2>4, <2>5, <2>7 DEF Points
        <3>. QED BY <2>4, <2>5, <2>6, <3>1, <3>2
    <2>8. ASSUME ~Points(r) PROVE challenge_completed[u] \in Seq({p})
        <3>1. req[r].pc # "points"
            BY <2>1, <2>8 DEF Proceed, Record, Remove, Update, List, JudgePersonal, Add, Take,
                              JudgeCompany, Clear, Shares, Share
        <3>2. \A q \in Reqs : req[q].pc # "points"
            BY <2>1, <3>1, StepsTell DEF OnlyOne
        <3>. QED BY <1>3, <2>2, <2>5, <3>2
    <2>9. CASE Add(r)
        <3>1. challenge_completed[u] \in Seq({p})
            BY <2>8, <2>9 DEF Add, Points
        <3>2. PICK w \in Users : DOMAIN req[r].due = {w} /\ req[r].due[w] \in Nat
            BY <2>9, DueToOne DEF Add
        <3>3. challenge_completed' = [challenge_completed EXCEPT
                    ![w] = @ \o [i \in 1..req[r].due[w] |-> p]]
            BY <2>4, <2>5, <2>9, <3>2 DEF Add
        <3>4. PICK s, t : s = challenge_completed[u] /\ t = [i \in 1..req[r].due[w] |-> p]
            OBVIOUS
        <3>5. s \in Seq({p}) /\ t \in Seq({p})
            BY <2>6, <3>1, <3>2, <3>4
        <3>6. s \o t \in Seq({p})
            BY <3>5, ConcatProperties
        <3>7. challenge_completed'[u] = IF u = w THEN s \o t ELSE s
            BY <1>2, <3>2, <3>3, <3>4
        <3>. QED BY <2>4, <2>5, <3>5, <3>6, <3>7
    <2>10. CASE Take(r)
        <3>1. challenge_completed[u] \in Seq({p})
            BY <2>8, <2>10 DEF Take, Points
        <3>2. PICK w \in Users : DOMAIN req[r].due = {w} /\ req[r].due[w] \in Nat
            BY <2>10, DueToOne DEF Take
        <3>3. challenge_completed' = [challenge_completed EXCEPT
                    ![w] = IF challenge_type # 3 \/ Len(@) < req[r].due[w] THEN <<>>
                           ELSE SubSeq(@, 1, Len(@) - req[r].due[w])]
            BY <2>10, <3>2 DEF Take
        <3>4. PICK s, n : s = challenge_completed[u] /\ n = Len(challenge_completed[u]) - req[r].due[w]
            OBVIOUS
        <3>5. s \in Seq({p}) /\ Len(s) \in Nat /\ n \in Int /\ n <= Len(s)
            BY <3>1, <3>2, <3>4
        <3>6. \A i \in 1..n : s[i] \in {p}
            <4>1. \A i \in 1..Len(s) : s[i] \in {p}
                BY <3>5
            <4>. QED BY <3>5, <4>1
        <3>7. SubSeq(s, 1, n) \in Seq({p})
            BY <3>5, <3>6, SubSeqProperties
        <3>8. challenge_completed'[u] \in {s, <<>>, SubSeq(s, 1, n)}
            BY <1>2, <3>2, <3>3, <3>4
        <3>9. <<>> \in Seq({p})
            OBVIOUS
        <3>. QED BY <2>4, <2>5, <3>5, <3>7, <3>8, <3>9
    <2>11. ~JudgeCompany(r) /\ ~Clear(r) /\ ~Shares(r) /\ ~Share(r)
        BY <2>2, StepsTell DEF JudgeCompany, Clear, Shares, Share
    <2>12. CASE Record(r) \/ Remove(r) \/ List(r) \/ JudgePersonal(r)
        <3>1. challenge_completed' = challenge_completed /\ ~Points(r)
            BY <2>12 DEF Record, Remove, List, JudgePersonal, Points
        <3>. QED BY <2>4, <2>5, <2>8, <3>1
    <2>. QED BY <2>1, <2>3, <2>7, <2>9, <2>10, <2>11, <2>12 DEF Proceed
<1>. QED BY <1>1, <1>4, <1>5, <1>6

\* A delivery that is recorded once counts once, and for its driver only.
LEMMA CountsDrop ==
    ASSUME TypeInv, TypeInv', AloneInv, overlap = "none", NEW r \in Reqs, Remove(r), NEW u
    PROVE  /\ Count(u) \in Nat /\ Count(u)' \in Nat /\ Count(u)' <= Count(u)
           /\ Driver[req[r].log] # u => Count(u)' = Count(u)
           /\ ~ByDistance => Count(u) <= Count(u)' + 1
<1>1. PICK lost \in SUBSET RecordsOf({u}) :
        /\ \A i \in lost : challenge_record[i].log = req[r].log
        /\ Count(u) \in Nat /\ Count(u)' \in Nat /\ SumOf(Weights, lost) \in Nat
        /\ Count(u) = Count(u)' + SumOf(Weights, lost)
    BY CountsLose DEF Count
<1>2. \A i, j \in lost : i = j
    BY <1>1 DEF AloneInv, RecordsOf
<1>3. IsFiniteSet(DOMAIN challenge_record) /\ Weights \in [DOMAIN challenge_record -> Nat]
      /\ lost \in SUBSET DOMAIN challenge_record
    BY <1>1, RecordsAreDeliveries DEF TypeInv, RecordsOf
<1>4. CASE lost = {}
    <2>1. SumOf(Weights, lost) = 0
        BY <1>3, <1>4, SumOfNone
    <2>. QED BY <1>1, <2>1
<1>5. CASE lost # {}
    <2>1. PICK i : lost = {i}
        <3>1. PICK i \in lost : TRUE
            BY <1>5
        <3>2. lost = {i}
            BY <1>2, <3>1
        <3>. QED BY <3>2
    <2>2. Driver[req[r].log] = u
        BY <1>1, <2>1 DEF RecordsOf
    <2>3. SumOf(Weights, lost) = Weights[i] + SumOf(Weights, {})
        <3>1. i \in lost /\ lost \ {i} = {}
            BY <2>1
        <3>2. SumOf(Weights, lost) = Weights[i] + SumOf(Weights, lost \ {i})
            BY <1>3, <3>1, SumOfSplits
        <3>. QED BY <3>1, <3>2
    <2>4. SumOf(Weights, {}) = 0
        BY <1>3, SumOfNone
    <2>5. ~ByDistance => Weights[i] = 1
        BY <1>3, <2>1 DEF Weights, Weight
    <2>6. Weights[i] \in Nat
        BY <1>3, <2>1
    <2>. QED BY <1>1, <2>2, <2>3, <2>4, <2>5, <2>6
<1>. QED BY <1>4, <1>5

\* What a request that runs alone leaves to do.
Waits(r, u) ==
    req[r].pc \in {"judge", "add", "take"} /\ u \in req[r].who /\ ~Treats(r, u)
Exact(r, u) ==
    /\ req[r].pc \in {"points", "list"} => Rows(u) = WorthAt(req[r].old, u)
    /\ Treats(r, u) /\ req[r].pc = "add" => Rows(u) + req[r].due[u] = Worth(u)
    /\ Treats(r, u) /\ req[r].pc = "take" =>
         IF challenge_type = 3 THEN Rows(u) = Worth(u) + req[r].due[u] ELSE Worth(u) = 0
    /\ Waits(r, u) =>
         /\ req[r].op \in {"report", "put"} => Rows(u) <= Worth(u) /\ Worth(u) <= Rows(u) + 1
         /\ req[r].op = "remove" =>
              /\ Worth(u) <= Rows(u) /\ Rows(u) <= Worth(u) + 1
              /\ challenge_type # 3 => Rows(u) <= 1
         /\ req[r].op = "patch" => u \in Concerned(r) /\ Rows(u) = WorthAt(req[r].old, u)
    /\ req[r].pc \notin {"points", "list"} /\ ~Treats(r, u) /\ ~Waits(r, u) => Rows(u) = Worth(u)

\* A driver has exactly the rows that the deliveries are worth, or will have them.
ExactInv ==
    Alone /\ Personal =>
        \A u \in Users :
            /\ Free => Rows(u) = Worth(u)
            /\ \A r \in Reqs : req[r].op # "none" => Exact(r, u)

\* For whom an edit does not concern it changes nothing.
LEMMA NotConcernedExactly ==
    ASSUME TypeInv, NEW r \in Reqs, req[r].op # "none", req[r].need = delivery_count,
           NEW u \in Users, u \notin Concerned(r)
    PROVE  Worth(u) = WorthAt(req[r].old, u)
<1>1. /\ req[r].old \in Nat \ {0} /\ delivery_count \in Nat \ {0} /\ Count(u) \in Nat
      /\ Worth(u) = WorthOf(challenge_type, Count(u), delivery_count)
    BY ReadByThen, NumbersOf DEF Numbers
<1>2. WorthAt(req[r].old, u) = WorthOf(challenge_type, Count(u), req[r].old)
    BY DEF WorthAt
<1>3. CASE challenge_type = 3
    <2>1. req[r].old = delivery_count \/ Count(u) = 0
        BY <1>3, ConcernedAre
    <2>2. Count(u) = 0 => /\ WorthOf(challenge_type, Count(u), delivery_count) = 0
                          /\ WorthOf(challenge_type, Count(u), req[r].old) = 0
        BY <1>1, WorthIs
    <2>. QED BY <1>1, <1>2, <2>1, <2>2
<1>4. CASE challenge_type # 3
    <2>1. ~ \/ req[r].old <= Count(u) /\ Count(u) < delivery_count
            \/ delivery_count <= Count(u) /\ Count(u) < req[r].old
        BY <1>4, ConcernedAre
    <2>. QED BY <1>1, <1>2, <1>4, <2>1 DEF WorthOf
<1>. QED BY <1>3, <1>4

\* What is found out about a driver is exactly what is missing, or too much.
JudgesRight(r, u) ==
    /\ Adds(r, u) = 0 /\ Takes(r, u) = 0 => Rows(u) = Worth(u)
    /\ Adds(r, u) > 0 => Rows(u) + Adds(r, u) = Worth(u)
    /\ Takes(r, u) > 0 => IF challenge_type = 3 THEN Rows(u) = Worth(u) + Takes(r, u)
                          ELSE Worth(u) = 0

\* An edit judges by what a driver had before.
LEMMA EditJudgesRight ==
    ASSUME TypeInv, NEW r \in Reqs, req[r].op = "patch", req[r].need = delivery_count,
           NEW u \in Concerned(r), u \in Users, Rows(u) = WorthAt(req[r].old, u)
    PROVE  JudgesRight(r, u)
<1>1. PICK old, need, c, rows, owed, held, adds, takes, w :
        /\ old = req[r].old /\ need = req[r].need /\ c = Count(u) /\ rows = Rows(u)
        /\ owed = Owed(r, u) /\ held = Held(u) /\ adds = Adds(r, u) /\ takes = Takes(r, u)
        /\ w = Worth(u)
    OBVIOUS
<1>2. /\ old \in Nat \ {0} /\ need \in Nat \ {0} /\ c \in Nat /\ rows \in Nat /\ w \in Nat
      /\ w = WorthOf(challenge_type, c, need) /\ rows = WorthOf(challenge_type, c, old)
    BY <1>1, ReadByThen, NumbersOf DEF Numbers, WorthAt
<1>3. /\ owed \in Nat /\ held \in Nat
      /\ held = IF challenge_type = 3 THEN rows ELSE IF rows = 0 THEN 0 ELSE 1
      /\ adds = IF need < old /\ owed > held THEN owed - held ELSE 0
      /\ takes = IF need > old /\ owed < held THEN held - owed ELSE 0
    BY <1>1, AddsAndTakes
<1>4. CASE challenge_type = 3
    <2>1. old # need
        BY <1>1, <1>4, ConcernedAre
    <2>2. owed = w
        BY <1>1, <1>4 DEF Owed, Worth
    <2>3. (need > old => w <= rows) /\ (need < old => rows <= w)
        <3>1. old \in Nat \ {0} /\ need \in Nat \ {0} /\ c \in Nat
            BY <1>2
        <3>2. old <= need => WorthOf(challenge_type, c, need) <= WorthOf(challenge_type, c, old)
            BY <3>1, WorthIs
        <3>3. need <= old => WorthOf(challenge_type, c, old) <= WorthOf(challenge_type, c, need)
            BY <3>1, WorthIs
        <3>. QED BY <1>2, <3>1, <3>2, <3>3
    <2>4. /\ adds = 0 /\ takes = 0 => rows = w
          /\ adds > 0 => rows + adds = w
          /\ takes > 0 => rows = w + takes
        BY <1>2, <1>3, <1>4, <2>1, <2>2, <2>3
    <2>. QED BY <1>1, <1>4, <2>4 DEF JudgesRight
<1>5. CASE challenge_type # 3
    <2>1. \/ old <= c /\ c < need
          \/ need <= c /\ c < old
        BY <1>1, <1>5, ConcernedAre
    <2>2. owed = IF need < old THEN 1 ELSE 0
        BY <1>1, <1>5 DEF Owed
    <2>3. (w = IF c >= need THEN 1 ELSE 0) /\ (rows = IF c >= old THEN 1 ELSE 0)
        BY <1>2, <1>5 DEF WorthOf
    <2>4. /\ adds = 0 /\ takes = 0 => rows = w
          /\ adds > 0 => rows + adds = w
          /\ takes > 0 => w = 0
        BY <1>2, <1>3, <1>5, <2>1, <2>2, <2>3
    <2>. QED BY <1>1, <1>5, <2>4 DEF JudgesRight
<1>. QED BY <1>4, <1>5

\* The other requests judge by the change of one delivery.
LEMMA ChangeJudgesRight ==
    ASSUME TypeInv, OverlapInv, Orderly, NEW r \in Reqs, req[r].pc = "judge",
           NEW u \in Users,
           \/ /\ req[r].op \in {"report", "put"}
              /\ Rows(u) <= Worth(u) /\ Worth(u) <= Rows(u) + 1
           \/ /\ req[r].op = "remove" /\ Worth(u) <= Rows(u) /\ Rows(u) <= Worth(u) + 1
              /\ challenge_type # 3 => Rows(u) <= 1
    PROVE  JudgesRight(r, u)
<1>1. Owed(r, u) = Worth(u)
    BY OwedIsWorth
<1>2. PICK rows, worth, held, adds, takes :
        /\ rows = Rows(u) /\ worth = Worth(u) /\ held = Held(u)
        /\ adds = Adds(r, u) /\ takes = Takes(r, u)
    OBVIOUS
<1>3. /\ rows \in Nat /\ worth \in Nat /\ (challenge_type # 3 => worth <= 1)
      /\ held = IF challenge_type = 3 THEN rows ELSE IF rows = 0 THEN 0 ELSE 1
    <2>1. challenge_type # 3 => Worth(u) <= 1
        BY DEF Worth
    <2>. QED BY <1>2, <2>1, AddsAndTakes, NumbersOf DEF Numbers
<1>4. CASE req[r].op \in {"report", "put"}
    <2>1. takes = 0 /\ adds = IF worth > held THEN 1 ELSE 0
        BY <1>1, <1>2, <1>4, AddsAndTakes
    <2>2. rows <= worth /\ worth <= rows + 1
        BY <1>2, <1>4
    <2>3. (adds = 0 => rows = worth) /\ (adds > 0 => rows + adds = worth)
        BY <1>3, <2>1, <2>2
    <2>. QED BY <1>2, <2>1, <2>3 DEF JudgesRight
<1>5. CASE req[r].op = "remove"
    <2>1. adds = 0 /\ takes = IF worth < held THEN 1 ELSE 0
        BY <1>1, <1>2, <1>5, AddsAndTakes
    <2>2. worth <= rows /\ rows <= worth + 1 /\ (challenge_type # 3 => rows <= 1)
        BY <1>2, <1>5
    <2>3. (takes = 0 => rows = worth)
          /\ (takes > 0 => IF challenge_type = 3 THEN rows = worth + takes ELSE worth = 0)
        BY <1>3, <2>1, <2>2
    <2>. QED BY <1>2, <2>1, <2>3 DEF JudgesRight
<1>. QED BY <1>4, <1>5

\* The step of a request that runs alone leaves the rows right, or what it has left to do.
LEMMA ExactProceeds ==
    ASSUME TypeInv, TypeInv', OverlapInv, AloneInv, overlap = "none", Orderly, Personal,
           challenge_type' = challenge_type, gone' = gone \/ ~ByDistance,
           NEW r \in Reqs, Proceed(r), \A v \in Users : Exact(r, v), NEW u \in Users
    PROVE  (req'[r] = Idle => Rows(u)' = Worth(u)') /\ (Kept(r) => Exact(r, u)')
<1>1. Moved(r) /\ GoesOn(r) /\ req[r].op # "none"
    BY ProceedMoves
<1>2. Numbers /\ Numbers'
    BY NumbersOf, NumbersThen
<1>3. /\ Rows(u) \in Nat /\ Rows(u)' \in Nat /\ Worth(u) \in Nat /\ Worth(u)' \in Nat
      /\ Count(u) \in Nat /\ Count(u)' \in Nat /\ delivery_count \in Nat \ {0}
      /\ Worth(u) = WorthOf(challenge_type, Count(u), delivery_count)
      /\ Worth(u)' = WorthOf(challenge_type, Count(u)', delivery_count')
    BY <1>2 DEF Numbers
<1>4. /\ req[r].pc # "update" => req[r].need = delivery_count
      /\ req[r].pc = "update" => req[r].old = delivery_count
    BY <1>1, Beside
<1>5. /\ challenge_record' = challenge_record => Count(u)' = Count(u)
      /\ challenge_record' = challenge_record /\ UNCHANGED terms => Worth(u)' = Worth(u)
      /\ challenge_record' = challenge_record /\ Kept(r) =>
            WorthAt(req[r].old, u)' = WorthAt(req[r].old, u) /\ Concerned(r)' = Concerned(r)
    <2>1. challenge_record' = challenge_record =>
            /\ Count(u)' = Count(u)
            /\ \A v \in Users : RecordsOf({v})' = RecordsOf({v}) /\ Count(v)' = Count(v)
        BY CountsStay DEF TypeInv, Count
    <2>2. challenge_record' = challenge_record /\ UNCHANGED terms => Worth(u)' = Worth(u)
        BY <1>3, <2>1 DEF terms
    <2>3. challenge_record' = challenge_record /\ Kept(r) => Concerned(r)' = Concerned(r)
        BY <2>1 DEF Concerned, Kept
    <2>4. challenge_record' = challenge_record /\ Kept(r) => WorthAt(req[r].old, u)' = WorthAt(req[r].old, u)
        BY <2>1 DEF WorthAt, Kept
    <2>. QED BY <2>1, <2>2, <2>3, <2>4
\* Of those that are still to be judged one has been dealt with.
<1>6. ASSUME NEW w \in req[r].who, req[r].pc \in {"judge", "add", "take"},
             req[r].pc \in {"add", "take"} => DOMAIN req[r].due = {w},
             challenge_record' = challenge_record, UNCHANGED terms,
             u # w => Rows(u)' = Rows(u), u = w => Rows(u)' = Worth(u),
             req[r].who \ {w} = {} => req'[r] = Idle,
             req[r].who \ {w} # {} => /\ Kept(r) /\ req'[r].pc = "judge"
                                      /\ req'[r].who = req[r].who \ {w}
      PROVE  (req'[r] = Idle => Rows(u)' = Worth(u)') /\ (Kept(r) => Exact(r, u)')
    <2>1. Worth(u)' = Worth(u)
        BY <1>5, <1>6
    <2>2. u # w => ~Treats(r, u)
        BY <1>6 DEF Treats
    <2>3. u # w /\ u \notin req[r].who => Rows(u) = Worth(u)
        BY <1>6, <2>2 DEF Exact, Waits
    <2>4. ASSUME req[r].who \ {w} = {}
          PROVE  (req'[r] = Idle => Rows(u)' = Worth(u)') /\ (Kept(r) => Exact(r, u)')
        <3>1. Rows(u)' = Worth(u)'
            BY <1>6, <2>1, <2>3, <2>4
        <3>2. ~Kept(r)
            BY <1>1, <1>6, <2>4, IdleIsAJob DEF Kept
        <3>. QED BY <3>1, <3>2
    <2>5. ASSUME req[r].who \ {w} # {}
          PROVE  (req'[r] = Idle => Rows(u)' = Worth(u)') /\ (Kept(r) => Exact(r, u)')
        <3>1. /\ Kept(r) /\ req'[r].pc = "judge" /\ req'[r].who = req[r].who \ {w}
              /\ req'[r].op = req[r].op /\ req'[r] # Idle
            BY <1>6, <2>5, IdleIsAJob DEF Kept
        <3>2. ~Treats(r, u)'
            BY <3>1 DEF Treats
        <3>3. Waits(r, u)' => Waits(r, u) /\ u # w
            BY <1>6, <2>2, <3>1, <3>2 DEF Waits
        <3>4. /\ Waits(r, u)' => Rows(u)' = Rows(u)
              /\ Concerned(r)' = Concerned(r) /\ WorthAt(req[r].old, u)' = WorthAt(req[r].old, u)
              /\ challenge_type' = challenge_type
            BY <1>5, <1>6, <3>1, <3>3
        <3>5. Waits(r, u)' =>
                 /\ req'[r].op \in {"report", "put"} => Rows(u)' <= Worth(u)' /\ Worth(u)' <= Rows(u)' + 1
                 /\ req'[r].op = "remove" =>
                      /\ Worth(u)' <= Rows(u)' /\ Rows(u)' <= Worth(u)' + 1
                      /\ challenge_type' # 3 => Rows(u)' <= 1
                 /\ req'[r].op = "patch" => u \in Concerned(r)' /\ Rows(u)' = WorthAt(req[r].old, u)'
            BY <2>1, <3>1, <3>3, <3>4 DEF Exact
        <3>6. ~Waits(r, u)' => u = w \/ ~Waits(r, u)
            BY <1>6, <3>1, <3>2 DEF Waits
        <3>7. ~Waits(r, u)' => Rows(u)' = Worth(u)'
            BY <1>6, <2>1, <2>2, <3>6 DEF Exact
        <3>. QED BY <3>1, <3>2, <3>5, <3>7 DEF Exact
    <2>. QED BY <2>4, <2>5
<1>7. CASE Record(r) \/ Remove(r)
    <2>1. /\ req[r].pc \in {"record", "remove"} /\ Kept(r) /\ req'[r].pc = "judge"
          /\ req'[r].who = {Driver[req[r].log]} /\ req'[r].op = req[r].op /\ req'[r] # Idle
          /\ challenge_completed' = challenge_completed /\ UNCHANGED terms
          /\ (Record(r) => req[r].op \in {"report", "put"}) /\ (Remove(r) => req[r].op = "remove")
        BY <1>7, RecordAdds, RemoveTakes, StepsTell, IdleIsAJob DEF Record, Remove, Kept
    <2>2. Rows(u)' = Rows(u) /\ Rows(u) = Worth(u)
        BY <2>1, RowsThen DEF Exact, Treats, Waits
    <2>3. ~Treats(r, u)' /\ (Waits(r, u)' <=> Driver[req[r].log] = u)
        BY <2>1 DEF Treats, Waits
    <2>4. delivery_count' = delivery_count
        BY <2>1 DEF terms
    <2>5. Driver[req[r].log] # u => Count(u)' = Count(u)
        BY <1>7, CountsGrow, CountsDrop DEF Count
    <2>6. Driver[req[r].log] # u => Rows(u)' = Worth(u)'
        BY <1>3, <2>2, <2>4, <2>5
    <2>7. challenge_type # 3 => Worth(u) <= 1
        BY DEF Worth
    <2>8. CASE Record(r)
        <3>1. Count(u) <= Count(u)' /\ (challenge_type # 3 \/ Count(u)' <= Count(u) + 1)
            BY <2>8, CountsGrow DEF Count, ByDistance
        <3>2. Worth(u) <= Worth(u)'
            BY <1>3, <2>4, <3>1, WorthIs
        <3>3. Worth(u)' <= Worth(u) + 1
            BY <1>3, <2>4, <3>1, WorthIs
        <3>4. Rows(u)' <= Worth(u)' /\ Worth(u)' <= Rows(u)' + 1
            BY <1>3, <2>2, <3>2, <3>3
        <3>5. Exact(r, u)'
            BY <2>1, <2>3, <2>6, <2>8, <3>4 DEF Exact
        <3>. QED BY <2>1, <3>5
    <2>9. CASE Remove(r)
        <3>1. Count(u)' <= Count(u) /\ (challenge_type # 3 \/ Count(u) <= Count(u)' + 1)
            BY <2>9, CountsDrop DEF ByDistance
        <3>2. Worth(u)' <= Worth(u)
            BY <1>3, <2>4, <3>1, WorthIs
        <3>3. Worth(u) <= Worth(u)' + 1
            BY <1>3, <2>4, <3>1, WorthIs
        <3>4. Worth(u)' <= Rows(u)' /\ Rows(u)' <= Worth(u)' + 1
            BY <1>3, <2>2, <3>2, <3>3
        <3>5. challenge_type' # 3 => Rows(u)' <= 1
            BY <2>2, <2>7
        <3>6. Exact(r, u)'
            BY <2>1, <2>3, <2>6, <2>9, <3>4, <3>5 DEF Exact
        <3>. QED BY <2>1, <3>6
    <2>. QED BY <1>7, <2>8, <2>9
<1>8. CASE Update(r)
    <2>1. /\ req[r].pc = "update" /\ Kept(r) /\ req'[r].pc = "points" /\ req'[r] # Idle
          /\ challenge_completed' = challenge_completed /\ challenge_record' = challenge_record
        BY <1>8, RowsMoves, IdleIsAJob DEF Update
    <2>2. Rows(u)' = Rows(u) /\ Rows(u) = Worth(u)
        BY <2>1, RowsThen DEF Exact, Treats, Waits
    <2>3. WorthAt(req[r].old, u)' = Worth(u)
        <3>1. WorthAt(req[r].old, u) = Worth(u)
            BY <1>3, <1>4, <2>1 DEF WorthAt
        <3>. QED BY <1>5, <2>1, <3>1
    <2>4. Exact(r, u)'
        BY <2>1, <2>2, <2>3 DEF Exact, Treats, Waits
    <2>. QED BY <2>1, <2>4
<1>9. CASE Points(r)
    <2>1. /\ req[r].pc = "points" /\ Kept(r) /\ req'[r].pc = "list" /\ req'[r] # Idle
          /\ challenge_record' = challenge_record
        BY <1>9, RowsMoves, IdleIsAJob DEF Points
    <2>2. Rows(u)' = Rows(u) /\ Rows(u) = WorthAt(req[r].old, u)
        BY <1>9, <2>1, RowsThen DEF Exact
    <2>3. WorthAt(req[r].old, u)' = WorthAt(req[r].old, u)
        BY <1>5, <2>1
    <2>4. Exact(r, u)'
        BY <2>1, <2>2, <2>3 DEF Exact, Treats, Waits
    <2>. QED BY <2>1, <2>4
<1>10. CASE List(r)
    <2>1. /\ req[r].pc = "list" /\ req[r].op = "patch"
          /\ challenge_completed' = challenge_completed /\ UNCHANGED terms
          /\ challenge_record' = challenge_record
        BY <1>10, StepsTell DEF List
    <2>2. Rows(u)' = Rows(u) /\ Rows(u) = WorthAt(req[r].old, u)
        BY <2>1, RowsThen DEF Exact
    <2>3. u \notin Concerned(r) => Rows(u)' = Worth(u)'
        <3>1. u \notin Concerned(r) => Worth(u) = WorthAt(req[r].old, u)
            BY <1>4, <2>1, NotConcernedExactly
        <3>2. Worth(u)' = Worth(u)
            BY <1>5, <2>1
        <3>. QED BY <2>2, <3>1, <3>2
    <2>4. ASSUME req'[r] = Idle PROVE Rows(u)' = Worth(u)'
        <3>1. Concerned(r) = {}
            BY <1>10, <2>1, <2>4, IdleIsAJob, RowsMoves DEF Kept
        <3>. QED BY <2>3, <3>1
    <2>5. ASSUME Kept(r) PROVE Exact(r, u)'
        <3>1. req'[r] # Idle
            BY <2>1, <2>5, IdleIsAJob DEF Kept
        <3>2. req'[r].pc = "judge" /\ req'[r].who = Concerned(r) /\ req'[r].op = "patch"
            BY <1>10, <2>1, <2>5, <3>1, RowsMoves DEF Kept
        <3>3. /\ Concerned(r)' = Concerned(r)
              /\ WorthAt(req[r].old, u)' = WorthAt(req[r].old, u)
            BY <1>5, <2>1, <2>5
        <3>4. ~Treats(r, u)'
            BY <3>2 DEF Treats
        <3>5. Waits(r, u)' <=> u \in Concerned(r)
            BY <3>2, <3>4 DEF Waits
        <3>6. Rows(u)' = WorthAt(req[r].old, u)'
            BY <2>2, <3>3
        <3>. QED BY <2>3, <3>2, <3>3, <3>4, <3>5, <3>6 DEF Exact
    <2>. QED BY <2>4, <2>5
<1>11. CASE Add(r) \/ Take(r)
    <2>1. PICK w \in req[r].who :
            /\ w \in Users /\ DOMAIN req[r].due = {w} /\ req[r].due[w] \in Nat \ {0}
            /\ req[r].who \ {w} = {} => req'[r] = Idle
            /\ req[r].who \ {w} # {} => /\ Kept(r) /\ req'[r].pc = "judge"
                                        /\ req'[r].who = req[r].who \ {w}
        BY <1>11, RowsMoves
    <2>2. /\ req[r].pc \in {"add", "take"} /\ UNCHANGED terms
          /\ challenge_record' = challenge_record
        BY <1>11 DEF Add, Take
    <2>3. u # w => Rows(u)' = Rows(u)
        BY <1>11, <2>1, RowsThen
    <2>4. PICK d \in Nat \ {0} : d = req[r].due[w]
        BY <2>1
    <2>5. ASSUME u = w PROVE Rows(u)' = Worth(u)
        <3>1. Treats(r, u)
            BY <2>1, <2>2, <2>5 DEF Treats
        <3>2. CASE Add(r)
            <4>1. req[r].pc = "add"
                BY <3>2 DEF Add
            <4>2. Rows(u)' = Rows(u) + d
                BY <2>1, <2>4, <2>5, <3>2, RowsThen
            <4>3. Rows(u) + d = Worth(u)
                BY <2>4, <2>5, <3>1, <4>1 DEF Exact
            <4>. QED BY <4>2, <4>3
        <3>3. CASE Take(r)
            <4>1. req[r].pc = "take"
                BY <3>3 DEF Take
            <4>2. Rows(u)' = IF challenge_type # 3 \/ Rows(u) < d THEN 0 ELSE Rows(u) - d
                BY <2>1, <2>4, <2>5, <3>3, RowsThen
            <4>3. IF challenge_type = 3 THEN Rows(u) = Worth(u) + d ELSE Worth(u) = 0
                BY <2>4, <2>5, <3>1, <4>1 DEF Exact
            <4>. QED BY <1>3, <4>2, <4>3
        <3>. QED BY <1>11, <3>2, <3>3
    <2>. QED BY <1>6, <2>1, <2>2, <2>3, <2>5
<1>12. CASE JudgePersonal(r)
    <2>1. /\ req[r].pc = "judge" /\ Rows(u)' = Rows(u) /\ Worth(u)' = Worth(u) /\ UNCHANGED terms
          /\ challenge_record' = challenge_record
        BY <1>5, <1>12, RowsThen DEF JudgePersonal
    <2>2. PICK w \in req[r].who : w \in Users /\ JudgedOne(r, w)
        BY <1>12, JudgePersonalMoves
    <2>3. ~Treats(r, u) /\ (Waits(r, u) <=> u \in req[r].who)
        BY <2>1 DEF Treats, Waits
\* What is found out about a driver is right.
    <2>4. ASSUME u = w PROVE JudgesRight(r, u)
        <3>1. Waits(r, u)
            BY <2>2, <2>3, <2>4
        <3>2. CASE req[r].op = "patch"
            <4>1. /\ u \in Concerned(r) /\ Rows(u) = WorthAt(req[r].old, u)
                  /\ req[r].need = delivery_count
                BY <1>4, <2>1, <3>1, <3>2 DEF Exact
            <4>. QED BY <3>2, <4>1, EditJudgesRight
        <3>3. CASE req[r].op # "patch"
            <4>1. req[r].op \in {"report", "put", "remove"}
                BY <1>1, <3>3 DEF TypeInv, JobsTyped, Jobs, Ops
            <4>2. \/ /\ req[r].op \in {"report", "put"}
                     /\ Rows(u) <= Worth(u) /\ Worth(u) <= Rows(u) + 1
                  \/ /\ req[r].op = "remove" /\ Worth(u) <= Rows(u) /\ Rows(u) <= Worth(u) + 1
                     /\ challenge_type # 3 => Rows(u) <= 1
                BY <3>1, <4>1 DEF Exact
            <4>. QED BY <2>1, <4>2, ChangeJudgesRight
        <3>. QED BY <3>2, <3>3
    <2>5. CASE Passed(r, w)
        <3>1. u = w => Rows(u)' = Worth(u)
            BY <2>1, <2>4, <2>5 DEF Passed, JudgesRight
        <3>. QED BY <1>6, <2>1, <2>5, <3>1 DEF Passed
    <2>6. ASSUME NEW pc \in {"add", "take"}, NEW n, Found(r, w, pc, n),
                 pc = "add" => n = Adds(r, w), pc = "take" => n = Takes(r, w)
          PROVE  (req'[r] = Idle => Rows(u)' = Worth(u)') /\ (Kept(r) => Exact(r, u)')
        <3>1. /\ Kept(r) /\ req'[r].pc = pc /\ req'[r].who = req[r].who /\ n > 0
              /\ DOMAIN req'[r].due = {w} /\ req'[r].due[w] = n /\ req'[r].op = req[r].op
              /\ req'[r] # Idle
            BY <2>6, IdleIsAJob DEF Found, Kept
        <3>2. Treats(r, u)' <=> u = w
            BY <3>1 DEF Treats
        <3>3. /\ Concerned(r)' = Concerned(r)
              /\ WorthAt(req[r].old, u)' = WorthAt(req[r].old, u)
            BY <1>5, <2>1, <3>1
        <3>4. CASE u = w
            <4>1. ~Waits(r, u)'
                BY <3>2, <3>4 DEF Waits
            <4>2. CASE pc = "add"
                <5>1. Rows(u)' + n = Worth(u)'
                    BY <2>1, <2>4, <2>6, <3>1, <3>4, <4>2 DEF JudgesRight
                <5>. QED BY <3>1, <3>2, <3>4, <4>1, <4>2, <5>1 DEF Exact
            <4>3. CASE pc = "take"
                <5>1. IF challenge_type' = 3 THEN Rows(u)' = Worth(u)' + n ELSE Worth(u)' = 0
                    BY <2>1, <2>4, <2>6, <3>1, <3>4, <4>3 DEF JudgesRight
                <5>. QED BY <3>1, <3>2, <3>4, <4>1, <4>3, <5>1 DEF Exact
            <4>. QED BY <2>6, <4>2, <4>3
        <3>5. CASE u # w
            <4>1. Waits(r, u)' <=> Waits(r, u)
                BY <2>3, <2>6, <3>1, <3>2, <3>5 DEF Waits
            <4>2. Exact(r, u)'
                BY <2>1, <2>3, <2>6, <3>1, <3>2, <3>3, <3>5, <4>1 DEF Exact
            <4>. QED BY <3>1, <4>2
        <3>. QED BY <3>4, <3>5
    <2>7. CASE Found(r, w, "add", Adds(r, w))
        BY <2>6, <2>7
    <2>8. CASE Found(r, w, "take", Takes(r, w))
        BY <2>6, <2>8
    <2>. QED BY <2>2, <2>5, <2>7, <2>8 DEF JudgedOne
<1>13. ~JudgeCompany(r) /\ ~Clear(r) /\ ~Shares(r) /\ ~Share(r)
    BY StepsTell DEF JudgeCompany, Clear, Shares, Share
<1>. QED BY <1>7, <1>8, <1>9, <1>10, <1>11, <1>12, <1>13 DEF Proceed

\* What is alone is orderly, and was so before.
LEMMA AloneWasOrderly ==
    ASSUME TypeInv, TypeInv', AloneInv, [Next]_vars, Alone'
    PROVE  /\ Alone /\ Orderly /\ overlap = "none"
           /\ challenge_type' = challenge_type /\ Personal' = Personal
           /\ gone' = gone \/ ~ByDistance
<1>1. overlap = "none"
    BY AloneBefore DEF Alone
<1>2. Orderly'
    BY DEF Alone, Orderly
<1>3. /\ Orderly /\ challenge_type' = challenge_type /\ Personal' = Personal
      /\ gone' = gone \/ ~ByDistance
    BY <1>2, OrderlyBefore
<1>. QED BY <1>1, <1>3 DEF Alone, Orderly

\* Each step keeps the rows of personal challenges exactly.
LEMMA ExactNext ==
    ASSUME TypeInv, TypeInv', OverlapInv, AloneInv, ExactInv, [Next]_vars
    PROVE  ExactInv'
<1>. SUFFICES ASSUME Alone', Personal', NEW u \in Users
              PROVE  /\ Free' => Rows(u)' = Worth(u)'
                     /\ \A q \in Reqs : req'[q].op # "none" => Exact(q, u)'
    BY DEF ExactInv
<1>1. /\ Alone /\ Personal /\ Orderly /\ overlap = "none"
      /\ challenge_type' = challenge_type /\ (gone' = gone \/ ~ByDistance)
    BY AloneWasOrderly
<1>2. Still \/ \E r \in Reqs : Arrived(r) \/ Proceeded(r)
    BY AloneBefore DEF Alone
<1>3. \A v \in Users : /\ Free => Rows(v) = Worth(v)
                       /\ \A q \in Reqs : req[q].op # "none" => Exact(q, v)
    BY <1>1 DEF ExactInv
<1>4. ASSUME UNCHANGED <<challenge_type, terms, challenge_record, challenge_completed>>
      PROVE  /\ \A U : RecordsOf(U)' = RecordsOf(U)
             /\ \A v \in Users : /\ Count(v)' = Count(v) /\ Worth(v)' = Worth(v)
                                 /\ Rows(v)' = Rows(v)
    <2>1. \A U : RecordsOf(U)' = RecordsOf(U) /\ CountOf(U)' = CountOf(U)
        BY <1>1, <1>4, CountsStay DEF TypeInv
    <2>. QED BY <1>4, <2>1 DEF Count, Worth, Rows, terms
<1>5. CASE Still
    <2>1. /\ UNCHANGED <<challenge_type, terms, challenge_record, challenge_completed>>
          /\ req' = req
        BY <1>5 DEF Still
    <2>2. Free' => Free
        BY <2>1 DEF Free
    <2>3. ASSUME NEW q \in Reqs, req'[q].op # "none" PROVE Exact(q, u)'
        <3>1. Concerned(q)' = Concerned(q)
            <4>1. req'[q] = req[q] /\ challenge_type' = challenge_type
                BY <2>1
            <4>2. \A v \in Users : RecordsOf({v})' = RecordsOf({v}) /\ Count(v)' = Count(v)
                BY <1>4, <2>1
            <4>. QED BY <4>1, <4>2 DEF Concerned
        <3>2. WorthAt(req[q].old, u)' = WorthAt(req[q].old, u)
            BY <1>4, <2>1 DEF WorthAt
        <3>3. Treats(q, u)' = Treats(q, u)
            BY <2>1 DEF Treats
        <3>4. Waits(q, u)' = Waits(q, u)
            BY <2>1, <3>3 DEF Waits
        <3>5. Exact(q, u)
            BY <1>3, <2>1, <2>3
        <3>. QED BY <1>4, <2>1, <3>1, <3>2, <3>3, <3>4, <3>5 DEF Exact
    <2>. QED BY <1>3, <1>4, <2>1, <2>2, <2>3
<1>6. ASSUME NEW r \in Reqs, Arrived(r)
      PROVE  /\ Free' => Rows(u)' = Worth(u)'
             /\ \A q \in Reqs : req'[q].op # "none" => Exact(q, u)'
    <2>1. /\ UNCHANGED <<challenge_type, terms, challenge_record, challenge_completed>>
          /\ req'[r].pc \in {"record", "remove", "update"}
          /\ Free /\ OnlyOne(r)'
        BY <1>6, ArriveMoves DEF Arrived
    <2>2. Rows(u)' = Worth(u)'
        BY <1>3, <1>4, <2>1
    <2>3. ASSUME NEW q \in Reqs, req'[q].op # "none" PROVE Exact(q, u)'
        <3>1. q = r
            BY <2>1, <2>3 DEF OnlyOne
        <3>. QED BY <2>1, <2>2, <3>1 DEF Exact, Treats, Waits
    <2>. QED BY <2>2, <2>3
<1>7. ASSUME NEW r \in Reqs, Proceeded(r)
      PROVE  /\ Free' => Rows(u)' = Worth(u)'
             /\ \A q \in Reqs : req'[q].op # "none" => Exact(q, u)'
    <2>1. /\ Proceed(r) /\ OnlyOne(r)' /\ req[r].op # "none" /\ GoesOn(r)
        BY <1>7, ProceedMoves DEF Proceeded
    <2>2. \A v \in Users : Exact(r, v)
        BY <1>3, <2>1
    <2>3. (req'[r] = Idle => Rows(u)' = Worth(u)') /\ (Kept(r) => Exact(r, u)')
        BY <1>1, <2>1, <2>2, ExactProceeds
    <2>4. Free' => req'[r] = Idle
        BY <2>1 DEF Free, GoesOn, Kept
    <2>5. ASSUME NEW q \in Reqs, req'[q].op # "none" PROVE Exact(q, u)'
        <3>1. q = r
            BY <2>1, <2>5 DEF OnlyOne
        <3>2. Kept(r)
            BY <2>1, <2>5, <3>1, IdleIsAJob DEF GoesOn
        <3>. QED BY <2>3, <3>1, <3>2
    <2>. QED BY <2>3, <2>4, <2>5
<1>. QED BY <1>2, <1>5, <1>6, <1>7

-----------------------------------------------------------------------------
(* Company challenges that are given.                                      *)

\* The reward is divided among the drivers U by the shares s of what completes the challenge,
\* and all but those in D have theirs, which is a row.
GivenBy(U, s, D) ==
    /\ SumOf(s, U) = delivery_count
    /\ D \in SUBSET U
    /\ \A u \in Users :
         challenge_completed[u] =
            IF u \in U \ D THEN <<RoundDiv(reward_points * s[u], delivery_count)>> ELSE <<>>
Given(D, due) ==
    \E U \in SUBSET Users : U # {} /\ \E s \in [U -> Nat \ {0}] :
        GivenBy(U, s, D) /\ \A u \in D : due[u] = s[u]

\* A company challenge is given to nobody, or wholly.
Fair == IF NoRows THEN Total < delivery_count ELSE Given({}, Nothing) /\ Total >= delivery_count

\* What a request that runs alone leaves to do.
Dealt(r) ==
    /\ req[r].pc \in {"record", "remove", "update"} => Fair
    /\ req[r].pc = "judge" /\ req[r].op \in {"report", "put"} => NoRows \/ Fair
    /\ req[r].pc = "judge" /\ req[r].op = "remove" /\ NoRows => Total < delivery_count
    /\ req[r].pc = "clear" => Total < delivery_count
    /\ req[r].pc \in {"replace", "shares"} /\ req[r].op = "remove" => Total >= delivery_count
    /\ req[r].pc = "shares" => NoRows
    /\ req[r].pc = "share" => Total >= delivery_count /\ Given(DOMAIN req[r].due, req[r].due)

\* The drivers have their shares of a company challenge, or will have them.
ShareInv ==
    Alone /\ ~Personal =>
        /\ Free => Fair
        /\ \A r \in Reqs : req[r].op # "none" => Dealt(r)

\* What has been divided is what is due.
LEMMA DividedIsDue ==
    ASSUME TypeInv, Total >= delivery_count, NoRows, NEW s \in usercnt(delivery_count)
    PROVE  Given(DOMAIN s, s)
<1>1. DataTyped /\ delivery_count \in Nat \ {0}
    BY ChallengeConstants DEF TypeInv, DataTyped
<1>2. PICK U \in SUBSET Users : U # {} /\ s \in [U -> Nat \ {0}] /\ SumOf(s, U) = delivery_count
    BY <1>1, SharesAddUp
<1>3. DOMAIN s = U /\ U \ DOMAIN s = {}
    BY <1>2
<1>4. ASSUME NEW u \in Users PROVE challenge_completed[u] = <<>>
    <2>1. PICK t : t = challenge_completed[u]
        OBVIOUS
    <2>2. t \in Seq(Nat) /\ Len(t) = 0
        BY <1>1, <2>1 DEF DataTyped, NoRows, Rows
    <2>. QED BY <2>1, <2>2
<1>5. GivenBy(U, s, DOMAIN s)
    BY <1>2, <1>3, <1>4 DEF GivenBy
<1>. QED BY <1>2, <1>5 DEF Given

\* Whoever gets a share gets the right one.
LEMMA ShareIsGiven ==
    ASSUME TypeInv, NEW U \in SUBSET Users, NEW s, NEW D, GivenBy(U, s, D), NEW u \in D,
           UNCHANGED terms,
           challenge_completed' = [challenge_completed EXCEPT
               ![u] = Append(@, RoundDiv(reward_points * s[u], delivery_count))]
    PROVE  GivenBy(U, s, D \ {u})'
<1>1. challenge_completed \in [Users -> Seq(Nat)] /\ D \in SUBSET U /\ u \in Users
    BY DEF TypeInv, DataTyped, GivenBy
<1>2. PICK p : p = RoundDiv(reward_points * s[u], delivery_count)
    OBVIOUS
<1>3. challenge_completed[u] = <<>>
    BY <1>1 DEF GivenBy
<1>4. Append(<<>>, p) = <<p>>
    OBVIOUS
<1>5. ASSUME NEW v \in Users
      PROVE  challenge_completed'[v] =
                IF v \in U \ (D \ {u}) THEN <<RoundDiv(reward_points * s[v], delivery_count)>> ELSE <<>>
    <2>1. CASE v = u
        BY <1>1, <1>2, <1>3, <1>4, <2>1
    <2>2. CASE v # u
        <3>1. challenge_completed'[v] = challenge_completed[v]
            BY <1>1, <2>2
        <3>. QED BY <2>2, <3>1 DEF GivenBy
    <2>. QED BY <2>1, <2>2
<1>6. /\ SumOf(s, U) = delivery_count' /\ D \ {u} \in SUBSET U
      /\ reward_points' = reward_points /\ delivery_count' = delivery_count
    BY <1>1 DEF GivenBy, terms
<1>. QED BY <1>5, <1>6 DEF GivenBy

\* A request that runs alone deals with a company challenge fairly.
LEMMA ShareProceeds ==
    ASSUME TypeInv, TypeInv', OverlapInv, AloneInv, overlap = "none", Orderly, ~Personal,
           challenge_type' = challenge_type, gone' = gone \/ ~ByDistance,
           NEW r \in Reqs, Proceed(r), Dealt(r)
    PROVE  (req'[r] = Idle => Fair') /\ (Kept(r) => Dealt(r)')
<1>1. Moved(r) /\ GoesOn(r) /\ req[r].op # "none"
    BY ProceedMoves
<1>2. /\ req[r].pc # "update" => req[r].need = delivery_count /\ req[r].reward = reward_points
      /\ Update(r) \/ (req[r].pc # "update" /\ UNCHANGED terms)
    BY <1>1, Beside, ProceedMoves DEF AloneInv
<1>3. Total \in Nat /\ delivery_count \in Nat \ {0} /\ Total' \in Nat /\ delivery_count' \in Nat \ {0}
    BY CountsAreSums, CountsAreSumsThen, ChallengeConstants DEF Total, TypeInv, DataTyped
<1>4. challenge_record' = challenge_record => Total' = Total
    BY CountsStay DEF TypeInv, Total
<1>5. challenge_completed' = challenge_completed => NoRows' = NoRows
    BY DEF NoRows, Rows
<1>6. ASSUME challenge_completed' = challenge_completed, UNCHANGED terms, NEW D, NEW due, Given(D, due)
      PROVE  Given(D, due)'
    <2>1. PICK U \in SUBSET Users : U # {} /\ \E s \in [U -> Nat \ {0}] :
            GivenBy(U, s, D) /\ \A u \in D : due[u] = s[u]
        BY <1>6 DEF Given
    <2>2. PICK s \in [U -> Nat \ {0}] : GivenBy(U, s, D) /\ \A u \in D : due[u] = s[u]
        BY <2>1
    <2>3. GivenBy(U, s, D)'
        BY <1>6, <2>2 DEF GivenBy, terms
    <2>. QED BY <2>1, <2>2, <2>3 DEF Given
<1>7. ASSUME UNCHANGED <<challenge_completed, challenge_record>>, UNCHANGED terms, Fair
      PROVE  Fair'
    <2>1. NoRows' = NoRows /\ Total' = Total /\ delivery_count' = delivery_count
        BY <1>4, <1>5, <1>7 DEF terms
    <2>2. Given({}, Nothing) => Given({}, Nothing)'
        BY <1>6, <1>7
    <2>3. Nothing' = Nothing
        BY DEF Nothing
    <2>. QED BY <1>7, <2>1, <2>2 DEF Fair
\* When the shares have been computed.
<1>8. ASSUME Shared(r), NoRows, Total >= delivery_count, req[r].pc # "update",
             UNCHANGED <<challenge_completed, challenge_record>>, UNCHANGED terms
      PROVE  (req'[r] = Idle => Fair') /\ (Kept(r) => Dealt(r)')
    <2>1. PICK s \in usercnt(delivery_count) :
            IF DOMAIN s = {} THEN req'[r] = Idle
            ELSE /\ Kept(r) /\ req'[r].pc = "share"
                 /\ req'[r].who = req[r].who /\ req'[r].due = s
        BY <1>2, <1>8, SharedMoves
    <2>2. DOMAIN s # {}
        BY <1>3, <1>8, SharesAreSome DEF TypeInv
    <2>3. /\ req'[r].pc = "share" /\ req'[r].due = s
        BY <2>1, <2>2
    <2>4. Given(DOMAIN s, s)'
        BY <1>6, <1>8, DividedIsDue
    <2>5. Total' >= delivery_count'
        BY <1>4, <1>8 DEF terms
    <2>6. Dealt(r)'
        BY <2>3, <2>4, <2>5 DEF Dealt
    <2>7. req'[r] # Idle
        BY <2>3, IdleIsAJob
    <2>. QED BY <2>6, <2>7
<1>9. CASE Record(r)
    <2>1. /\ req[r].pc = "record" /\ req'[r].pc = "judge" /\ req'[r].op \in {"report", "put"}
          /\ req'[r] # Idle /\ challenge_completed' = challenge_completed /\ UNCHANGED terms
        BY <1>9, RecordAdds, StepsTell, IdleIsAJob DEF Record, Kept
    <2>2. Fair
        BY <2>1 DEF Dealt
    <2>3. Total <= Total' /\ delivery_count' = delivery_count /\ NoRows' = NoRows
        BY <1>5, <1>9, <2>1, CountsGrow DEF Total, terms
    <2>4. NoRows' \/ Fair'
        <3>1. Given({}, Nothing) => Given({}, Nothing)'
            BY <1>6, <2>1
        <3>. QED BY <1>3, <2>2, <2>3, <3>1 DEF Fair
    <2>. QED BY <2>1, <2>4 DEF Dealt
<1>10. CASE Remove(r)
    <2>1. /\ req[r].pc = "remove" /\ req'[r].pc = "judge" /\ req'[r].op = "remove"
          /\ req'[r] # Idle /\ challenge_completed' = challenge_completed /\ UNCHANGED terms
        BY <1>10, RemoveTakes, StepsTell, IdleIsAJob DEF Remove, Kept
    <2>2. NoRows => Total < delivery_count
        BY <2>1 DEF Dealt, Fair
    <2>3. Total' <= Total /\ delivery_count' = delivery_count /\ NoRows' = NoRows
        BY <1>5, <1>10, <2>1, CountsShrink DEF Total, terms
    <2>4. NoRows' => Total' < delivery_count'
        BY <1>3, <2>2, <2>3
    <2>. QED BY <2>1, <2>4 DEF Dealt
<1>11. CASE Update(r)
    <2>1. req'[r].op = "patch" /\ req'[r].pc = "judge" /\ req'[r] # Idle
        BY <1>11, RowsMoves, IdleIsAJob DEF Kept
    <2>. QED BY <2>1 DEF Dealt
<1>12. CASE JudgeCompany(r)
    <2>1. /\ req[r].pc = "judge" /\ UNCHANGED <<challenge_completed, challenge_record>>
          /\ UNCHANGED terms /\ req[r].op \in Ops
        BY <1>12 DEF JudgeCompany, TypeInv, JobsTyped, Jobs
    <2>2. /\ NoRows' = NoRows /\ Total' = Total /\ delivery_count' = delivery_count
          /\ req[r].need = delivery_count
        BY <1>2, <1>4, <1>5, <2>1 DEF terms
    <2>3. CASE req[r].op \in {"report", "put"}
        <3>1. IF Total >= req[r].need /\ NoRows THEN Shared(r) ELSE End(r)
            BY <1>12, <2>3 DEF JudgeCompany
        <3>2. CASE Total >= req[r].need /\ NoRows
            BY <1>8, <2>1, <2>2, <3>1, <3>2
        <3>3. CASE ~(Total >= req[r].need /\ NoRows)
            <4>1. req'[r] = Idle
                BY <3>1, <3>3, EndMoves DEF TypeInv
            <4>2. Fair
                <5>1. NoRows => Total < delivery_count
                    BY <1>3, <2>2, <3>3
                <5>2. NoRows \/ Fair
                    BY <2>1, <2>3 DEF Dealt
                <5>. QED BY <5>1, <5>2 DEF Fair
            <4>. QED BY <1>1, <1>7, <2>1, <4>1, <4>2, IdleIsAJob DEF Kept
        <3>. QED BY <3>2, <3>3
    <2>4. CASE req[r].op = "remove"
        <3>1. \/ ~(Total >= delivery_count) /\ req'[r].pc = "clear"
              \/ Total >= delivery_count /\ NoRows /\ req'[r] = Idle
              \/ Total >= delivery_count /\ req'[r].pc = "replace"
            BY <1>12, <2>2, <2>4, JudgeCompanyMoves
        <3>2. ~(Total >= delivery_count /\ NoRows)
            BY <1>3, <2>1, <2>4 DEF Dealt
        <3>3. \/ Total' < delivery_count' /\ req'[r].pc = "clear"
              \/ Total' >= delivery_count' /\ req'[r].pc = "replace"
            BY <1>3, <2>2, <3>1, <3>2
        <3>4. req'[r] # Idle
            BY <3>3, IdleIsAJob
        <3>. QED BY <3>3, <3>4 DEF Dealt
    <2>5. CASE req[r].op = "patch"
        <3>1. IF NoRows THEN Goto(r, "shares") ELSE Goto(r, "replace")
            BY <1>12, <2>5 DEF JudgeCompany
        <3>2. "shares" \in Steps /\ "replace" \in Steps
            BY DEF Steps
        <3>3. \/ NoRows /\ Kept(r) /\ req'[r].pc = "shares"
              \/ Kept(r) /\ req'[r].pc = "replace"
            BY <3>1, <3>2, GotoMoves DEF TypeInv
        <3>4. req'[r].op = "patch" /\ req'[r] # Idle
            BY <2>5, <3>3, IdleIsAJob DEF Kept
        <3>. QED BY <2>2, <3>3, <3>4 DEF Dealt
    <2>. QED BY <1>1, <2>1, <2>3, <2>4, <2>5 DEF Ops
<1>13. CASE Clear(r)
    <2>1. /\ UNCHANGED terms /\ challenge_record' = challenge_record
          /\ challenge_completed' = [u \in Users |-> <<>>]
        BY <1>13 DEF Clear
    <2>2. NoRows' /\ Total' = Total /\ delivery_count' = delivery_count
        <3>1. \A u \in Users : Len(challenge_completed'[u]) = 0
            BY <2>1
        <3>. QED BY <1>4, <2>1, <3>1 DEF NoRows, Rows, terms
    <2>3. \/ req[r].pc = "clear" /\ req'[r] = Idle
          \/ req[r].pc = "replace" /\ Kept(r) /\ req'[r].pc = "shares"
        BY <1>13, SharingMoves
    <2>4. CASE req[r].pc = "clear" /\ req'[r] = Idle
        <3>1. Fair'
            BY <2>2, <2>4 DEF Dealt, Fair
        <3>. QED BY <1>1, <2>4, <3>1, IdleIsAJob DEF Kept
    <2>5. CASE req[r].pc = "replace" /\ Kept(r) /\ req'[r].pc = "shares"
        <3>1. req'[r] # Idle /\ req'[r].op = req[r].op
            BY <2>5, IdleIsAJob DEF Kept
        <3>2. req[r].op = "remove" => Total' >= delivery_count'
            BY <2>2, <2>5 DEF Dealt
        <3>. QED BY <2>2, <2>5, <3>1, <3>2 DEF Dealt
    <2>. QED BY <2>3, <2>4, <2>5
<1>14. CASE Shares(r)
    <2>1. /\ req[r].pc = "shares" /\ UNCHANGED <<challenge_completed, challenge_record>>
          /\ UNCHANGED terms
          /\ IF req[r].op = "patch" /\ Total < req[r].need THEN End(r) ELSE Shared(r)
        BY <1>14 DEF Shares
    <2>2. NoRows /\ req[r].need = delivery_count /\ req[r].op \in {"remove", "patch"}
        BY <1>2, <2>1, StepsTell DEF Dealt
    <2>3. CASE req[r].op = "patch" /\ Total < req[r].need
        <3>1. req'[r] = Idle
            BY <2>1, <2>3, EndMoves DEF TypeInv
        <3>2. Fair
            BY <2>2, <2>3 DEF Fair
        <3>. QED BY <1>1, <1>7, <2>1, <3>1, <3>2, IdleIsAJob DEF Kept
    <2>4. CASE ~(req[r].op = "patch" /\ Total < req[r].need)
        <3>1. Total >= delivery_count
            BY <1>3, <2>1, <2>2, <2>4 DEF Dealt
        <3>. QED BY <1>8, <2>1, <2>2, <2>4, <3>1
    <2>. QED BY <2>3, <2>4
<1>15. CASE Share(r)
    <2>1. /\ req[r].pc = "share" /\ UNCHANGED terms /\ challenge_record' = challenge_record
        BY <1>15 DEF Share
    <2>2. req[r].need = delivery_count /\ req[r].reward = reward_points
        BY <1>2, <2>1
    <2>3. PICK u, left :
            /\ u \in DOMAIN req[r].due
            /\ left = [v \in DOMAIN req[r].due \ {u} |-> req[r].due[v]]
            /\ challenge_completed' =
                   [challenge_completed EXCEPT
                        ![u] = Append(@, RoundDiv(reward_points * req[r].due[u], delivery_count))]
            /\ IF DOMAIN left = {} THEN End(r) ELSE req' = [req EXCEPT ![r].due = left]
        BY <1>15, <2>2 DEF Share
    <2>4. PICK D, due : D = DOMAIN req[r].due /\ due = req[r].due
        OBVIOUS
    <2>5. Total >= delivery_count /\ Given(D, due)
        BY <2>1, <2>4 DEF Dealt
    <2>6. PICK U \in SUBSET Users : U # {} /\ \E s \in [U -> Nat \ {0}] :
            GivenBy(U, s, D) /\ \A v \in D : due[v] = s[v]
        BY <2>5 DEF Given
    <2>7. PICK s \in [U -> Nat \ {0}] : GivenBy(U, s, D) /\ \A v \in D : due[v] = s[v]
        BY <2>6
    <2>8. challenge_completed' =
            [challenge_completed EXCEPT
                 ![u] = Append(@, RoundDiv(reward_points * s[u], delivery_count))]
        BY <2>3, <2>4, <2>6, <2>7
    <2>9. GivenBy(U, s, D \ {u})'
        BY <2>1, <2>3, <2>4, <2>6, <2>7, <2>8, ShareIsGiven
    <2>10. DOMAIN left = D \ {u} /\ \A v \in D \ {u} : left[v] = s[v]
        BY <2>3, <2>4, <2>6, <2>7
    <2>11. Total' >= delivery_count' /\ ~NoRows'
        BY <1>4, <1>15, <2>1, <2>5, ShareIsARow DEF terms
    <2>12. CASE DOMAIN left = {}
        <3>1. req'[r] = Idle
            BY <2>3, <2>12, EndMoves DEF TypeInv
        <3>2. GivenBy(U, s, {})'
            BY <2>9, <2>10, <2>12
        <3>3. Given({}, Nothing)'
            BY <2>6, <2>7, <3>2 DEF Given
        <3>4. Fair'
            BY <2>11, <3>3 DEF Fair
        <3>. QED BY <1>1, <3>1, <3>4, IdleIsAJob DEF Kept
    <2>13. CASE DOMAIN left # {}
        <3>1. req'[r].due = left /\ req'[r].pc = "share"
            <4>1. req' = [req EXCEPT ![r].due = left] /\ req[r] \in Jobs /\ req \in [Reqs -> Jobs]
                BY <2>3, <2>13 DEF TypeInv, JobsTyped
            <4>. QED BY <2>1, <4>1 DEF Jobs
        <3>2. Given(DOMAIN left, left)'
            BY <2>6, <2>7, <2>9, <2>10 DEF Given
        <3>3. Dealt(r)'
            BY <2>11, <3>1, <3>2 DEF Dealt
        <3>. QED BY <3>1, <3>3, IdleIsAJob
    <2>. QED BY <2>12, <2>13
<1>16. ~Points(r) /\ ~List(r) /\ ~JudgePersonal(r) /\ ~Add(r) /\ ~Take(r)
    BY StepsTell DEF Points, List, JudgePersonal, Add, Take
<1>. QED BY <1>9, <1>10, <1>11, <1>12, <1>13, <1>14, <1>15, <1>16 DEF Proceed

\* Each step keeps it.
LEMMA ShareNext ==
    ASSUME TypeInv, TypeInv', OverlapInv, AloneInv, ShareInv, [Next]_vars
    PROVE  ShareInv'
<1>. SUFFICES ASSUME Alone', ~Personal'
              PROVE  /\ Free' => Fair'
                     /\ \A q \in Reqs : req'[q].op # "none" => Dealt(q)'
    BY DEF ShareInv
<1>1. /\ Alone /\ ~Personal /\ Orderly /\ overlap = "none"
      /\ challenge_type' = challenge_type /\ (gone' = gone \/ ~ByDistance)
    BY AloneWasOrderly
<1>2. Still \/ \E r \in Reqs : Arrived(r) \/ Proceeded(r)
    BY AloneBefore DEF Alone
<1>3. /\ Free => Fair
      /\ \A q \in Reqs : req[q].op # "none" => Dealt(q)
    BY <1>1 DEF ShareInv
<1>4. ASSUME UNCHANGED <<challenge_type, terms, challenge_record, challenge_completed>>
      PROVE  /\ Total' = Total /\ NoRows' = NoRows /\ delivery_count' = delivery_count
             /\ \A D, due : Given(D, due)' = Given(D, due)
             /\ Fair' = Fair
    <2>1. Total' = Total
        BY <1>1, <1>4, CountsStay DEF TypeInv, Total
    <2>2. NoRows' = NoRows /\ delivery_count' = delivery_count
        BY <1>4 DEF NoRows, Rows, terms
    <2>3. ASSUME NEW D, NEW due PROVE Given(D, due)' = Given(D, due)
        BY <1>4 DEF Given, GivenBy, terms
    <2>4. Given({}, Nothing)' = Given({}, Nothing)
        BY <2>3 DEF Nothing
    <2>5. Fair' = Fair
        BY <2>1, <2>2, <2>4 DEF Fair
    <2>. QED BY <2>1, <2>2, <2>3, <2>5
<1>5. CASE Still
    <2>1. /\ UNCHANGED <<challenge_type, terms, challenge_record, challenge_completed>>
          /\ req' = req
        BY <1>5 DEF Still
    <2>2. Free' => Free
        BY <2>1 DEF Free
    <2>3. ASSUME NEW q \in Reqs, req'[q].op # "none" PROVE Dealt(q)'
        <3>1. PICK D, due : D = DOMAIN req[q].due /\ due = req[q].due
            OBVIOUS
        <3>2. Given(D, due)' = Given(D, due)
            BY <1>4, <2>1
        <3>3. req'[q] = req[q] /\ Dealt(q)
            BY <1>3, <2>1, <2>3
        <3>. QED BY <1>4, <2>1, <3>1, <3>2, <3>3 DEF Dealt
    <2>. QED BY <1>3, <1>4, <2>1, <2>2, <2>3
<1>6. ASSUME NEW r \in Reqs, Arrived(r)
      PROVE  /\ Free' => Fair'
             /\ \A q \in Reqs : req'[q].op # "none" => Dealt(q)'
    <2>1. /\ UNCHANGED <<challenge_type, terms, challenge_record, challenge_completed>>
          /\ req'[r].pc \in {"record", "remove", "update"}
          /\ Free /\ OnlyOne(r)'
        BY <1>6, ArriveMoves DEF Arrived
    <2>2. Fair'
        BY <1>3, <1>4, <2>1
    <2>3. ASSUME NEW q \in Reqs, req'[q].op # "none" PROVE Dealt(q)'
        <3>1. q = r
            BY <2>1, <2>3 DEF OnlyOne
        <3>. QED BY <2>1, <2>2, <3>1 DEF Dealt
    <2>. QED BY <2>2, <2>3
<1>7. ASSUME NEW r \in Reqs, Proceeded(r)
      PROVE  /\ Free' => Fair'
             /\ \A q \in Reqs : req'[q].op # "none" => Dealt(q)'
    <2>1. /\ Proceed(r) /\ OnlyOne(r)' /\ req[r].op # "none" /\ GoesOn(r)
        BY <1>7, ProceedMoves DEF Proceeded
    <2>2. Dealt(r)
        BY <1>3, <2>1
    <2>3. (req'[r] = Idle => Fair') /\ (Kept(r) => Dealt(r)')
        BY <1>1, <2>1, <2>2, ShareProceeds
    <2>4. Free' => req'[r] = Idle
        BY <2>1 DEF Free, GoesOn, Kept
    <2>5. ASSUME NEW q \in Reqs, req'[q].op # "none" PROVE Dealt(q)'
        <3>1. q = r
            BY <2>1, <2>5 DEF OnlyOne
        <3>2. Kept(r)
            BY <2>1, <2>5, <3>1, IdleIsAJob DEF GoesOn
        <3>. QED BY <2>3, <3>1, <3>2
    <2>. QED BY <2>3, <2>4, <2>5
<1>. QED BY <1>2, <1>5, <1>6, <1>7

\* Shares that add up to what completes the challenge add up to its reward but for the
\* rounding of each.
LEMMA SharesMakeTheReward ==
    ASSUME NEW U, IsFiniteSet(U), NEW s \in [U -> Nat], NEW f \in [U -> Nat],
           NEW n \in Nat \ {0}, NEW p \in Nat, SumOf(s, U) = n,
           \A u \in U : f[u] = RoundDiv(p * s[u], n)
    PROVE  /\ 2 * SumOf(f, U) <= 2 * p + Cardinality(U)
           /\ 2 * p <= 2 * SumOf(f, U) + Cardinality(U)
<1>1. ASSUME NEW u \in U
      PROVE  /\ (2 * n) * f[u] <= (2 * p) * s[u] + n
             /\ (2 * p) * s[u] <= (2 * n) * f[u] + n
    <2>1. PICK a \in Nat : a = p * s[u]
        <3>1. p * s[u] \in Nat
            OBVIOUS
        <3>. QED BY <3>1
    <2>2. /\ (2 * n) * RoundDiv(a, n) <= 2 * a + n
          /\ 2 * a <= (2 * n) * RoundDiv(a, n) + n
        BY RoundDivNear
    <2>3. 2 * a = (2 * p) * s[u]
        BY <2>1
    <2>. QED BY <2>1, <2>2, <2>3
<1>2. PICK x, k : x = SumOf(f, U) /\ k = Cardinality(U)
    OBVIOUS
<1>3. x \in Nat /\ k \in Nat /\ U \in SUBSET U
    BY <1>2, SumOfIsTheSum, FS_CardinalityType
<1>4. (2 * n) * x <= (2 * p) * n + n * k
    <2>1. 2 * n \in Nat /\ 2 * p \in Nat /\ n \in Nat
        OBVIOUS
    <2>2. \A t \in SUBSET U : (2 * n) * SumOf(f, t) <= (2 * p) * SumOf(s, t) + n * Cardinality(t)
        BY <1>1, <2>1, SumOfBounded
    <2>. QED BY <1>2, <1>3, <2>2
<1>5. (2 * p) * n <= (2 * n) * x + n * k
    <2>1. 2 * n \in Nat /\ 2 * p \in Nat /\ n \in Nat
        OBVIOUS
    <2>2. \A t \in SUBSET U : (2 * p) * SumOf(s, t) <= (2 * n) * SumOf(f, t) + n * Cardinality(t)
        BY <1>1, <2>1, SumOfBounded
    <2>. QED BY <1>2, <1>3, <2>2
<1>6. 2 * x <= 2 * p + k
    <2>1. n * (2 * x) = (2 * n) * x /\ n * (2 * p + k) = (2 * p) * n + n * k
        BY <1>3
    <2>2. 2 * x \in Nat /\ 2 * p + k \in Nat
        BY <1>3
    <2>3. n * (2 * x) <= n * (2 * p + k)
        BY <1>4, <2>1
    <2>. QED BY <2>2, <2>3, SameFactor
<1>7. 2 * p <= 2 * x + k
    <2>1. n * (2 * p) = (2 * p) * n /\ n * (2 * x + k) = (2 * n) * x + n * k
        BY <1>3
    <2>2. 2 * p \in Nat /\ 2 * x + k \in Nat
        BY <1>3
    <2>3. n * (2 * p) <= n * (2 * x + k)
        BY <1>5, <2>1
    <2>. QED BY <2>2, <2>3, SameFactor
<1>. QED BY <1>2, <1>6, <1>7

-----------------------------------------------------------------------------
(* All of it.                                                              *)

\* What holds of a challenge of which the requests come one after the other.
CompletedInv == EarnedInv /\ AloneInv /\ PointsInv /\ ExactInv /\ ShareInv

\* At the start nobody has or is owed anything.
LEMMA CompletedInit == Init => CompletedInv
<1>. SUFFICES ASSUME Init PROVE CompletedInv
    OBVIOUS
<1>1. EarnedInv /\ TypeInv /\ Numbers
    BY EarnedInit, NumbersOf DEF EarnedInv
<1>2. \A r \in Reqs : req[r].pc = "idle" /\ req[r].op = "none"
    BY IdleIsAJob DEF Init
<1>3. DOMAIN challenge_record = {}
    BY DEF Init, Nothing
<1>4. \A U : CountOf(U) = 0
    <2>1. ASSUME NEW U PROVE CountOf(U) = 0
        <3>1. RecordsOf(U) = {}
            BY <1>3 DEF RecordsOf
        <3>. QED BY <1>1, <3>1, CountsAreSums, RecordsAreDeliveries, SumOfNone DEF TypeInv
    <2>. QED BY <2>1
<1>5. \A u \in Users : challenge_completed[u] = <<>> /\ Rows(u) = 0
    <2>1. \A u \in Users : challenge_completed[u] = <<>>
        BY DEF Init
    <2>2. Len(<<>>) = 0
        OBVIOUS
    <2>. QED BY <2>1, <2>2 DEF Rows
<1>6. AloneInv
    BY <1>2, <1>3 DEF AloneInv
<1>7. PointsInv
    <2>1. \A p : <<>> \in Seq({p})
        OBVIOUS
    <2>. QED BY <1>5, <2>1 DEF PointsInv
<1>8. \A u \in Users : Worth(u) = 0
    BY <1>1, <1>4, WorthIs DEF Numbers, Count
<1>9. ExactInv
    BY <1>2, <1>5, <1>8 DEF ExactInv
<1>10. Fair
    <2>1. Total = 0 /\ delivery_count \in Nat \ {0}
        BY <1>1, <1>4 DEF Total, Numbers
    <2>. QED BY <1>5, <2>1 DEF Fair, NoRows
<1>11. ShareInv
    BY <1>2, <1>10 DEF ShareInv
<1>. QED BY <1>1, <1>6, <1>7, <1>9, <1>11 DEF CompletedInv

\* Every step keeps that.
LEMMA CompletedNext == CompletedInv /\ [Next]_vars => CompletedInv'
<1>. SUFFICES ASSUME CompletedInv, [Next]_vars PROVE CompletedInv'
    OBVIOUS
<1>1. EarnedInv /\ EarnedInv' /\ AloneInv /\ PointsInv /\ ExactInv /\ ShareInv
    BY EarnedNext DEF CompletedInv
<1>2. TypeInv /\ TypeInv' /\ OverlapInv
    BY <1>1 DEF EarnedInv
<1>3. AloneInv' /\ PointsInv' /\ ExactInv' /\ ShareInv'
    BY <1>1, <1>2, AloneNext, PointsNext, ExactNext, ShareNext
<1>. QED BY <1>1, <1>3 DEF CompletedInv

\* A company challenge that is given is given by the rows of those who share it.
LEMMA GivenIsShared ==
    ASSUME TypeInv, Given({}, Nothing)
    PROVE  LET sharing == {u \in Users : Rows(u) > 0} IN
           /\ sharing # {}
           /\ \A u \in sharing : Rows(u) = 1
           /\ 2 * Prize <= 2 * reward_points + Cardinality(sharing)
           /\ 2 * reward_points <= 2 * Prize + Cardinality(sharing)
<1>1. PICK U \in SUBSET Users : U # {} /\ \E s \in [U -> Nat \ {0}] : GivenBy(U, s, {})
    BY DEF Given
<1>2. PICK s \in [U -> Nat \ {0}] : GivenBy(U, s, {})
    BY <1>1
<1>3. DataTyped /\ delivery_count \in Nat \ {0} /\ reward_points \in Nat
    BY ChallengeConstants DEF TypeInv, DataTyped
<1>4. IsFiniteSet(Users)
    BY ChallengeConstants
<1>5. IsFiniteSet(U) /\ Users \in SUBSET Users
    BY <1>4, FS_Subset
<1>6. ASSUME NEW u \in Users
      PROVE  /\ u \in U => Rows(u) = 1 /\ Firsts[u] = RoundDiv(reward_points * s[u], delivery_count)
             /\ u \notin U => Rows(u) = 0 /\ Firsts[u] = 0
    <2>1. PICK p : p = RoundDiv(reward_points * s[u], delivery_count)
        OBVIOUS
    <2>2. challenge_completed[u] = IF u \in U THEN <<p>> ELSE <<>>
        BY <1>2, <2>1 DEF GivenBy
    <2>3. Len(<<p>>) = 1 /\ <<p>>[1] = p /\ Len(<<>>) = 0
        OBVIOUS
    <2>4. Firsts[u] = IF Rows(u) = 0 THEN 0 ELSE challenge_completed[u][1]
        BY DEF Firsts, First
    <2>. QED BY <2>1, <2>2, <2>3, <2>4 DEF Rows
<1>7. {u \in Users : Rows(u) > 0} = U
    BY <1>6
<1>8. Firsts \in [Users -> Nat] /\ Prize = SumOf(Firsts, Users)
    BY <1>3, PrizeIsASum
<1>9. PICK f : f = [u \in U |-> Firsts[u]]
    OBVIOUS
<1>10. f \in [U -> Nat] /\ \A u \in U : f[u] = Firsts[u]
    BY <1>8, <1>9
<1>11. SumOf(Firsts, Users) = SumOf(f, U)
    <2>1. SumOf(Firsts, Users) = SumOf(Firsts, U) + SumOf(Firsts, Users \ U)
        BY <1>4, <1>5, <1>8, SumOfParts
    <2>2. SumOf(Firsts, Users \ U) = 0
        <3>1. Users \ U \in SUBSET Users /\ \A u \in Users \ U : Firsts[u] = 0
            BY <1>6
        <3>. QED BY <1>4, <1>8, <3>1, SumOfNothing
    <2>3. SumOf(Firsts, U) = SumOf(f, U)
        <3>1. U \in SUBSET U
            OBVIOUS
        <3>. QED BY <1>4, <1>5, <1>8, <1>10, <3>1, SumOfAgrees
    <2>4. SumOf(Firsts, U) \in Nat
        BY <1>4, <1>8, SumOfIsTheSum
    <2>. QED BY <2>1, <2>2, <2>3, <2>4
<1>12. /\ 2 * SumOf(f, U) <= 2 * reward_points + Cardinality(U)
       /\ 2 * reward_points <= 2 * SumOf(f, U) + Cardinality(U)
    <2>1. \A u \in U : f[u] = RoundDiv(reward_points * s[u], delivery_count)
        BY <1>6, <1>10
    <2>2. s \in [U -> Nat] /\ SumOf(s, U) = delivery_count
        BY <1>2 DEF GivenBy
    <2>. QED BY <1>3, <1>5, <1>10, <2>1, <2>2, SharesMakeTheReward
<1>13. \A u \in U : Rows(u) = 1
    BY <1>6
<1>. QED BY <1>1, <1>7, <1>8, <1>11, <1>12, <1>13

\* When the requests are done, the challenge is completed as it should be.
LEMMA CompletedTells == CompletedInv => CompletedAsEarned
<1>. DEFINE sharing == {u \in Users : Rows(u) > 0}
<1>. SUFFICES ASSUME CompletedInv, Settled, overlap = "none"
              PROVE  IF Personal
                     THEN \A u \in Users :
                             /\ Rows(u) = Worth(u)
                             /\ \A i \in 1..Rows(u) : challenge_completed[u][i] = reward_points
                     ELSE /\ sharing = {} <=> Total < delivery_count
                          /\ sharing # {} =>
                              /\ \A u \in sharing : Rows(u) = 1
                              /\ 2 * Prize <= 2 * reward_points + Cardinality(sharing)
                              /\ 2 * reward_points <= 2 * Prize + Cardinality(sharing)
    BY DEF CompletedAsEarned
<1>1. TypeInv /\ Numbers /\ Alone /\ PointsInv /\ ExactInv /\ ShareInv
    BY NumbersOf DEF CompletedInv, EarnedInv, Settled, Alone
<1>2. Free /\ \A r \in Reqs : req[r].pc = "idle"
    BY IdleIsAJob DEF Settled, Quiet, Free
<1>3. ASSUME Personal, NEW u \in Users
      PROVE  /\ Rows(u) = Worth(u)
             /\ \A i \in 1..Rows(u) : challenge_completed[u][i] = reward_points
    <2>1. Rows(u) = Worth(u)
        BY <1>1, <1>2, <1>3 DEF ExactInv
    <2>2. PICK t, p : t = challenge_completed[u] /\ p = reward_points
        OBVIOUS
    <2>3. t \in Seq({p})
        BY <1>1, <1>2, <1>3, <2>2 DEF PointsInv
    <2>4. \A i \in 1..Len(t) : t[i] = p
        BY <2>3
    <2>. QED BY <2>1, <2>2, <2>4 DEF Rows
<1>4. ASSUME ~Personal
      PROVE  /\ sharing = {} <=> Total < delivery_count
             /\ sharing # {} =>
                 /\ \A u \in sharing : Rows(u) = 1
                 /\ 2 * Prize <= 2 * reward_points + Cardinality(sharing)
                 /\ 2 * reward_points <= 2 * Prize + Cardinality(sharing)
    <2>1. Fair
        BY <1>1, <1>2, <1>4 DEF ShareInv
    <2>2. Total \in Nat /\ delivery_count \in Nat /\ \A u \in Users : Rows(u) \in Nat
        BY <1>1, CountsAreSums DEF Total, TypeInv, Numbers
    <2>3. CASE NoRows
        <3>1. sharing = {}
            BY <2>3 DEF NoRows
        <3>2. Total < delivery_count
            BY <2>1, <2>3 DEF Fair
        <3>. QED BY <3>1, <3>2
    <2>4. CASE ~NoRows
        <3>1. Given({}, Nothing) /\ Total >= delivery_count
            BY <2>1, <2>4 DEF Fair
        <3>2. /\ sharing # {}
              /\ \A u \in sharing : Rows(u) = 1
              /\ 2 * Prize <= 2 * reward_points + Cardinality(sharing)
              /\ 2 * reward_points <= 2 * Prize + Cardinality(sharing)
            BY <1>1, <3>1, GivenIsShared
        <3>. HIDE DEF sharing
        <3>. QED BY <2>2, <3>1, <3>2
    <2>. QED BY <2>3, <2>4
<1>. QED BY <1>3, <1>4

\* Requests that come one after the other leave a challenge completed exactly if its deliveries
\* are enough for what it asks now, with rows that are worth what it gives now or, in a company
\* challenge, with one share each that add up to it but for their rounding: in every behaviour,
\* for any drivers, deliveries, connections and terms of the challenge.
THEOREM CompletedRight == Spec => []CompletedAsEarned
<1>1. Spec => []CompletedInv
    BY CompletedInit, CompletedNext, PTL DEF Spec
<1>. QED BY <1>1, CompletedTells, PTL
=============================================================================
