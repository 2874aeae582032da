--------------------------- MODULE WorkersProofs ---------------------------
(***************************************************************************)
(* Proofs about the parts in Workers, each of any size. The statistics: at *)
(* most one worker counts, the cursor never falls behind what was counted  *)
(* to the end, and the statistics are what StatsTally allows: each delivery*)
(* is added as a whole and at most once, in order, and each stop leaves a  *)
(* part of one behind at most. The pool: a connection is of one request.   *)
(* The transports under way: a trip is shown once, one that was logged is  *)
(* completed, and what is closed stays closed. At the end, the parts       *)
(* together.                                                               *)
(***************************************************************************)
EXTENDS Workers, Sums

-----------------------------------------------------------------------------
(* The statistics (DlogStats).                                             *)

PCs == {"look", "set", "wait", "stopped", "read", "next", "count"}
WorkerRecords == [pc : PCs, first : BOOLEAN, logid : Nat, max : Nat,
            job : Tally!Deliveries \union {NoJob}, part : SUBSET Cells]

TypeInv ==
    /\ lastid \in 0..MaxLog
    /\ DOMAIN dlog \subseteq 1..lastid /\ \A l \in DOMAIN dlog : dlog[l] \in Tally!Deliveries
    /\ DOMAIN importing \subseteq 1..lastid
    /\ \A l \in DOMAIN importing : importing[l] \in Tally!Deliveries
    /\ dlog_stats \in [Cells -> Nat]
    /\ dlog_stats_up_to \in 0..lastid \union {1}
    /\ pid \in Procs \union {None, Gone}
    /\ worker \in [Procs -> WorkerRecords]
    /\ stops \in 0..MaxStops

\* A worker that went through its first round found no other one about to set the
\* key, and nobody removes the key: whoever sets it a second time has it.
KeyInv ==
    \A p \in Procs :
        /\ worker[p].pc = "wait" => worker[p].first
        /\ worker[p].pc \in {"read", "next", "count"} => ~worker[p].first
        /\ ~worker[p].first \/ worker[p].pc = "wait" => pid # None
        /\ worker[p].first /\ worker[p].pc \in {"look", "set"} => pid # p
        /\ ~worker[p].first /\ worker[p].pc \in {"set", "read", "next", "count"} => pid = p
        /\ \A q \in Procs : ~worker[p].first /\ worker[q].first => worker[q].pc # "set"

\* What is being counted lies beyond the cursor, what was counted does not.
JobInv ==
    \A p \in Procs :
        /\ worker[p].logid <= worker[p].max /\ worker[p].max <= lastid
        /\ worker[p].part \subseteq Rows(worker[p].job)
        /\ worker[p].pc = "next" => dlog_stats_up_to <= worker[p].logid
        /\ worker[p].pc = "count" => /\ dlog_stats_up_to < worker[p].logid
                                     /\ worker[p].job \in Tally!Deliveries
SettledInv ==
    /\ DOMAIN settled \subseteq 1..dlog_stats_up_to
    /\ \A l \in DOMAIN settled : settled[l] \in Tally!Deliveries

StatsInv == TypeInv /\ KeyInv /\ JobInv /\ SettledInv

-----------------------------------------------------------------------------
(* The operators of the model.                                             *)

\* What a delivery adds to a row is a number, and only its rows get something.
LEMMA AmountIsNat ==
    \A d \in Tally!Deliveries \union {NoJob}, c \in Cells :
        /\ Amount(d, c) \in Nat /\ Amount(d, c) = Tally!Amount(d, c)
        /\ c \notin Rows(d) => Amount(d, c) = 0
<1>1. ASSUME NEW d \in Tally!Deliveries \union {NoJob} PROVE d.items \in [Keys -> Nat]
    <2>1. d \in Tally!Deliveries => d.items \in Contents
        BY DEF Tally!Deliveries
    <2>2. NoJob.items \in [Keys -> Nat]
        BY DEF NoJob
    <2>. QED BY <2>1, <2>2, DlogStatsConstants
<1>2. ASSUME NEW d \in Tally!Deliveries \union {NoJob}, NEW c \in Cells
      PROVE  /\ Amount(d, c) \in Nat /\ Amount(d, c) = Tally!Amount(d, c)
             /\ c \notin Rows(d) => Amount(d, c) = 0
    <2>1. d.items[c[2]] \in Nat
        BY <1>1 DEF Cells
    <2>2. Amount(d, c) \in Nat
        BY <2>1 DEF Amount
    <2>3. Amount(d, c) = Tally!Amount(d, c)
        BY DEF Amount, Tally!Amount, Company, Tally!Company
    <2>. QED BY <2>2, <2>3 DEF Rows
<1>. QED BY <1>2

\* The tally of some deliveries is a number in each row.
LEMMA TallyOfTyped ==
    ASSUME NEW T, IsFiniteSet(DOMAIN T), \A l \in DOMAIN T : T[l] \in Tally!Deliveries
    PROVE  Tally!TallyOf(T) \in [Cells -> Nat]
<1>1. ASSUME NEW c \in Cells
      PROVE  Tally!MapThenSumSet(LAMBDA l : Tally!Amount(T[l], c), DOMAIN T) \in Nat
    <2>. DEFINE S == DOMAIN T
                g == [l \in S |-> Tally!Amount(T[l], c)]
                Sum(it) == it = [s \in SUBSET S |->
                               IF s = {} THEN 0
                               ELSE Tally!Amount(T[CHOOSE x \in s : TRUE], c) + it[s \ {CHOOSE x \in s : TRUE}]]
    <2>1. g \in [S -> Nat]
        BY AmountIsNat
    <2>2. \A it : SumsUp(it, g, S) <=> Sum(it)
        <3>1. \A s \in SUBSET S : s # {} => g[PickOne(s)] = Tally!Amount(T[CHOOSE x \in s : TRUE], c)
            BY DEF PickOne
        <3>. HIDE DEF g
        <3>. QED BY <3>1 DEF SumsUp, PickOne
    <2>3. \E it : Sum(it)
        <3>. HIDE DEF g, S, Sum
        <3>. QED BY <2>1, <2>2, SumsExist DEF S
    <2>. DEFINE it == CHOOSE it : Sum(it)
    <2>4. Sum(it)
        BY <2>3
    <2>5. Tally!MapThenSumSet(LAMBDA l : Tally!Amount(T[l], c), DOMAIN T) = it[S]
        BY Zenon DEF Tally!MapThenSumSet, Tally!MapThenFoldSet
    <2>6. it[S] \in Nat
        <3>. HIDE DEF g, it, Sum
        <3>. QED BY <2>1, <2>2, <2>4, SumsAreNatural
    <2>. QED BY <2>5, <2>6
<1>2. Tally!TallyOf(T) = [c \in Cells |-> Tally!MapThenSumSet(LAMBDA l : Tally!Amount(T[l], c), DOMAIN T)]
    <2>1. Tally!Subjects \X Keys = Cells
        BY DEF Tally!Subjects, Tally!Company, Cells, Company
    <2>. DEFINE F(A) == [c \in A |-> Tally!MapThenSumSet(LAMBDA l : Tally!Amount(T[l], c), DOMAIN T)]
    <2>2. Tally!TallyOf(T) = F(Tally!Subjects \X Keys)
        BY Zenon DEF Tally!TallyOf
    <2>. HIDE DEF F
    <2>3. Tally!TallyOf(T) = F(Cells)
        BY <2>1, <2>2
    <2>. QED BY <2>3, Zenon DEF F
<1>. QED BY <1>1, <1>2

\* With one worker that counts, what is added so far is what it wrote.
LEMMA AddedByOne ==
    ASSUME NEW p, Counting = {p}, NEW c,
           (IF c \in worker[p].part THEN 0 ELSE Amount(worker[p].job, c)) \in Nat
    PROVE  Added(c) = IF c \in worker[p].part THEN 0 ELSE Amount(worker[p].job, c)
<1>. DEFINE val == IF c \in worker[p].part THEN 0 ELSE Amount(worker[p].job, c)
            f(q) == IF c \in worker[q].part THEN 0 ELSE Amount(worker[q].job, c)
            Sum(it) == it = [s \in SUBSET Counting |->
                           IF s = {} THEN 0
                           ELSE f(CHOOSE x \in s : TRUE) + it[s \ {CHOOSE x \in s : TRUE}]]
            one == [s \in SUBSET Counting |-> IF s = {} THEN 0 ELSE val]
            it == CHOOSE it : Sum(it)
<1>1. \A s \in SUBSET {p} : s = {} \/ s = {p}
    OBVIOUS
<1>2. \A s \in SUBSET {p} : s # {} => (CHOOSE x \in s : TRUE) = p /\ s \ {CHOOSE x \in s : TRUE} = {}
    BY <1>1
<1>3. Sum(one)
    <2>. HIDE DEF f, val
    <2>1. f(p) = val /\ val + 0 = val
        BY DEF f, val
    <2>. QED BY <1>2, <2>1
<1>4. Sum(it)
    BY <1>3
<1>5. it[{p}] = val + 0
    <2>1. it[{}] = 0
        BY <1>4
    <2>2. it[{p}] = f(CHOOSE x \in {p} : TRUE) + it[{p} \ {CHOOSE x \in {p} : TRUE}]
        <3>. HIDE DEF f, it
        <3>. QED BY <1>4
    <2>. HIDE DEF it, f
    <2>3. it[{p}] = f(p) + it[{}]
        BY <2>2, <1>2
    <2>. QED BY <2>1, <2>3 DEF f
<1>6. Added(c) = it[Counting]
    BY Zenon DEF Added, MapThenSumSet, MapThenFoldSet
<1>. HIDE DEF it
<1>. QED BY <1>5, <1>6

-----------------------------------------------------------------------------
(* The invariant.                                                          *)

\* A worker that has just started, or has ended its round.
LEMMA FreshTyped ==
    /\ Fresh \in WorkerRecords /\ [Fresh EXCEPT !.first = FALSE] \in WorkerRecords
    /\ Fresh.pc = "look" /\ Fresh.first /\ Fresh.logid = 0 /\ Fresh.max = 0 /\ Fresh.part = {}
    /\ Fresh.job = NoJob
BY DEF Fresh, WorkerRecords, PCs

\* At the start there are no deliveries, no worker counts, and the statistics are
\* empty.
LEMMA StatsInvInit == Init => StatsInv
<1>. SUFFICES ASSUME Init PROVE StatsInv
    OBVIOUS
<1>1. TypeInv
    BY FreshTyped, DlogStatsConstants DEF Init, TypeInv, NoDelivery
<1>2. \A p \in Procs : worker[p] = Fresh
    BY DEF Init
<1>3. KeyInv
    BY <1>2, FreshTyped, DlogStatsConstants DEF Init, KeyInv
<1>4. JobInv
    BY <1>2, FreshTyped DEF Init, JobInv
<1>5. SettledInv
    BY DEF Init, SettledInv, NoDelivery
<1>. QED BY <1>1, <1>3, <1>4, <1>5 DEF StatsInv

\* The deliveries are not the workers' to change, and their changes leave the workers
\* as they are.
LEMMA DeliveriesKeep ==
    ASSUME StatsInv,
           UNCHANGED <<dlog_stats, dlog_stats_up_to, pid, worker, settled, stops>>,
           lastid' \in 0..MaxLog, lastid <= lastid',
           DOMAIN dlog' \subseteq 1..lastid', \A l \in DOMAIN dlog' : dlog'[l] \in Tally!Deliveries,
           DOMAIN importing' \subseteq 1..lastid',
           \A l \in DOMAIN importing' : importing'[l] \in Tally!Deliveries
    PROVE  StatsInv'
<1>1. lastid \in Nat /\ lastid' \in Nat /\ dlog_stats_up_to \in Nat
    BY DlogStatsConstants DEF StatsInv, TypeInv
<1>2. TypeInv'
    BY <1>1 DEF StatsInv, TypeInv
<1>3. KeyInv'
    BY DEF StatsInv, KeyInv
<1>4. JobInv'
    <2>1. \A p \in Procs : worker[p].max \in Nat
        BY DEF StatsInv, TypeInv, WorkerRecords
    <2>. QED BY <1>1, <2>1 DEF StatsInv, JobInv
<1>5. SettledInv'
    BY DEF StatsInv, SettledInv
<1>. QED BY <1>2, <1>3, <1>4, <1>5 DEF StatsInv

\* Imports, deletions and reconciliations, each of them.
LEMMA EnvironmentKeeps ==
    ASSUME StatsInv
    PROVE  /\ \A u \in Drivers \union {Company}, items \in Contents : Insert(u, items) => StatsInv'
           /\ \A l \in 1..MaxLog : Commit(l) \/ Rollback(l) \/ delete_dlog(l) => StatsInv'
           /\ \A l \in 1..MaxLog, u \in Drivers : reconcile(l, u) => StatsInv'
<1>1. /\ lastid \in 0..MaxLog /\ MaxLog \in Nat
      /\ DOMAIN dlog \subseteq 1..lastid /\ \A l \in DOMAIN dlog : dlog[l] \in Tally!Deliveries
      /\ DOMAIN importing \subseteq 1..lastid
      /\ \A l \in DOMAIN importing : importing[l] \in Tally!Deliveries
    BY DlogStatsConstants DEF StatsInv, TypeInv
<1>2. Tally!Deliveries = [userid : Drivers \union {Company}, items : Contents]
    BY DEF Tally!Deliveries, Tally!Subjects, Tally!Company, Company
<1>3. ASSUME NEW u \in Drivers \union {Company}, NEW items \in Contents, Insert(u, items)
      PROVE  StatsInv'
    <2>1. [userid |-> u, items |-> items] \in Tally!Deliveries
        BY <1>2
    <2>2. lastid' = lastid + 1 /\ lastid' \in 0..MaxLog /\ dlog' = dlog
        BY <1>1, <1>3 DEF Insert
    <2>3. importing' = With(importing, lastid + 1, [userid |-> u, items |-> items])
        BY <1>3 DEF Insert
    <2>4. DOMAIN importing' = DOMAIN importing \union {lastid + 1}
        BY <2>3 DEF With
    <2>5. \A l \in DOMAIN importing' : importing'[l] \in Tally!Deliveries
        BY <1>1, <2>1, <2>3 DEF With
    <2>6. DOMAIN importing' \subseteq 1..lastid' /\ DOMAIN dlog' \subseteq 1..lastid'
        BY <1>1, <2>2, <2>4
    <2>. QED BY <1>1, <1>3, <2>2, <2>5, <2>6, DeliveriesKeep DEF Insert
<1>4. ASSUME NEW l \in 1..MaxLog, Commit(l) PROVE StatsInv'
    <2>1. l \in DOMAIN importing /\ lastid' = lastid
        BY <1>4 DEF Commit
    <2>2. DOMAIN dlog' \subseteq 1..lastid' /\ \A i \in DOMAIN dlog' : dlog'[i] \in Tally!Deliveries
        BY <1>1, <1>4, <2>1 DEF Commit, With
    <2>3. DOMAIN importing' \subseteq 1..lastid' /\ \A i \in DOMAIN importing' : importing'[i] \in Tally!Deliveries
        BY <1>1, <1>4, <2>1 DEF Commit, Without
    <2>. QED BY <1>1, <1>4, <2>1, <2>2, <2>3, DeliveriesKeep DEF Commit
<1>5. ASSUME NEW l \in 1..MaxLog, Rollback(l) PROVE StatsInv'
    <2>1. lastid' = lastid /\ dlog' = dlog
        BY <1>5 DEF Rollback
    <2>2. DOMAIN importing' \subseteq 1..lastid' /\ \A i \in DOMAIN importing' : importing'[i] \in Tally!Deliveries
        BY <1>1, <1>5, <2>1 DEF Rollback, Without
    <2>. QED BY <1>1, <1>5, <2>1, <2>2, DeliveriesKeep DEF Rollback
<1>6. ASSUME NEW l \in 1..MaxLog, delete_dlog(l) PROVE StatsInv'
    <2>1. lastid' = lastid /\ importing' = importing
        BY <1>6 DEF delete_dlog
    <2>2. DOMAIN dlog' \subseteq 1..lastid' /\ \A i \in DOMAIN dlog' : dlog'[i] \in Tally!Deliveries
        BY <1>1, <1>6, <2>1 DEF delete_dlog, Without
    <2>. QED BY <1>1, <1>6, <2>1, <2>2, DeliveriesKeep DEF delete_dlog
<1>7. ASSUME NEW l \in 1..MaxLog, NEW u \in Drivers, reconcile(l, u) PROVE StatsInv'
    <2>1. lastid' = lastid /\ importing' = importing /\ dlog' = [dlog EXCEPT ![l].userid = u]
        BY <1>7 DEF reconcile
    <2>2. DOMAIN dlog' = DOMAIN dlog
        BY <2>1
    <2>3. \A i \in DOMAIN dlog : [dlog[i] EXCEPT !.userid = u] \in Tally!Deliveries
        BY <1>1, <1>2
    <2>4. \A i \in DOMAIN dlog' : dlog'[i] \in Tally!Deliveries
        BY <1>1, <2>1, <2>3
    <2>. QED BY <1>1, <1>7, <2>1, <2>2, <2>4, DeliveriesKeep DEF reconcile
<1>. QED BY <1>3, <1>4, <1>5, <1>6, <1>7

\* A step of the worker of p that leaves deliveries and rows as they are.
LEMMA OneWorkerMoves ==
    ASSUME StatsInv, NEW p \in Procs, NEW w \in WorkerRecords,
           worker' = [worker EXCEPT ![p] = w],
           UNCHANGED <<deliveries, dlog_stats, dlog_stats_up_to, settled>>,
           stops' \in 0..MaxStops, pid' \in Procs \union {None, Gone},
           w.logid <= w.max, w.max <= lastid, w.part \subseteq Rows(w.job),
           w.pc = "next" => dlog_stats_up_to <= w.logid,
           w.pc = "count" => dlog_stats_up_to < w.logid /\ w.job \in Tally!Deliveries,
           KeyInv'
    PROVE  StatsInv'
<1>1. \A q \in Procs : worker'[q] = IF q = p THEN w ELSE worker[q]
    BY DEF StatsInv, TypeInv
<1>2. TypeInv'
    BY DEF StatsInv, TypeInv, deliveries
<1>3. JobInv'
    <2>1. lastid' = lastid /\ dlog_stats_up_to' = dlog_stats_up_to
        BY DEF deliveries
    <2>. QED BY <1>1, <2>1 DEF StatsInv, JobInv
<1>4. SettledInv'
    BY DEF StatsInv, SettledInv
<1>. QED BY <1>2, <1>3, <1>4 DEF StatsInv

\* Who goes on: what the three steps that agree on it do to the key and the worker.
LEMMA AgreeKeeps ==
    ASSUME StatsInv, NEW p \in Procs
    PROVE  Look(p) \/ Set(p) \/ Wait(p) => StatsInv'
<1>1. /\ worker \in [Procs -> WorkerRecords] /\ worker[p] \in WorkerRecords
      /\ pid \in Procs \union {None, Gone} /\ stops \in 0..MaxStops
      /\ KeyInv /\ JobInv
    BY DEF StatsInv, TypeInv
<1>2. None \notin Procs /\ Gone \notin Procs /\ None # Gone
    BY DlogStatsConstants DEF None, Gone
<1>3. ASSUME NEW pc \in PCs, NEW first \in BOOLEAN,
             worker' = [worker EXCEPT ![p] = [worker[p] EXCEPT !.pc = pc, !.first = first]],
             UNCHANGED <<deliveries, dlog_stats, dlog_stats_up_to, settled, stops>>,
             pid' \in Procs \union {None, Gone}, pc \notin {"next", "count"}, KeyInv'
      PROVE  StatsInv'
    <2>. DEFINE w == [worker[p] EXCEPT !.pc = pc, !.first = first]
    <2>1. w \in WorkerRecords
        BY <1>1 DEF WorkerRecords
    <2>2. w.logid = worker[p].logid /\ w.max = worker[p].max /\ w.part = worker[p].part
          /\ w.job = worker[p].job /\ w.pc = pc
        BY <1>1 DEF WorkerRecords
    <2>3. w.logid <= w.max /\ w.max <= lastid /\ w.part \subseteq Rows(w.job)
        BY <1>1, <2>2 DEF JobInv
    <2>. HIDE DEF w
    <2>. QED BY <1>1, <1>3, <2>1, <2>2, <2>3, OneWorkerMoves DEF w
<1>4. ASSUME Look(p) PROVE StatsInv'
    <2>. DEFINE pc == IF pid \in {None, p} THEN "set" ELSE "stopped"
    <2>1. /\ worker[p].pc = "look" /\ pid' = pid
          /\ worker' = [worker EXCEPT ![p].pc = pc]
        BY <1>4 DEF Look
    <2>2. worker' = [worker EXCEPT ![p] = [worker[p] EXCEPT !.pc = pc, !.first = worker[p].first]]
        BY <1>1, <2>1 DEF WorkerRecords
    <2>3. \A q \in Procs : /\ worker'[q].first = worker[q].first
                           /\ worker'[q].pc = IF q = p THEN pc ELSE worker[q].pc
        BY <1>1, <2>2 DEF WorkerRecords
    <2>4. pc \in PCs /\ pc \in {"set", "stopped"} /\ (pc = "set" => pid \in {None, p})
        BY DEF PCs
    <2>. HIDE DEF pc
    <2>5. KeyInv'
        <3>1. worker[p].first => pid # p
            BY <1>1, <2>1 DEF KeyInv
        <3>2. ~worker[p].first => pid # None
            BY <1>1 DEF KeyInv
        <3>3. pid = None => \A q \in Procs : worker[q].first
            BY <1>1 DEF KeyInv
        <3>. QED BY <1>1, <2>1, <2>3, <2>4, <3>1, <3>2, <3>3 DEF KeyInv
    <2>6. worker[p].first \in BOOLEAN
        BY <1>1 DEF WorkerRecords
    <2>. QED BY <1>1, <1>3, <1>4, <2>1, <2>2, <2>4, <2>5, <2>6 DEF Look
<1>5. ASSUME Set(p) PROVE StatsInv'
    <2>. DEFINE pc == IF worker[p].first THEN "wait" ELSE "read"
    <2>1. /\ worker[p].pc = "set" /\ pid' = p
          /\ worker' = [worker EXCEPT ![p].pc = pc]
        BY <1>5 DEF Set
    <2>2. worker' = [worker EXCEPT ![p] = [worker[p] EXCEPT !.pc = pc, !.first = worker[p].first]]
        BY <1>1, <2>1 DEF WorkerRecords
    <2>3. \A q \in Procs : /\ worker'[q].first = worker[q].first
                           /\ worker'[q].pc = IF q = p THEN pc ELSE worker[q].pc
        BY <1>1, <2>2 DEF WorkerRecords
    <2>4. pc \in PCs /\ pc = IF worker[p].first THEN "wait" ELSE "read"
        BY DEF PCs
    <2>. HIDE DEF pc
    <2>5. KeyInv'
        <3>1. ~worker[p].first => pid = p
            BY <1>1, <2>1 DEF KeyInv
        <3>2. worker[p].first => \A q \in Procs : worker[q].first
            BY <1>1, <2>1 DEF KeyInv
        <3>. QED BY <1>1, <1>2, <2>1, <2>3, <2>4, <3>1, <3>2 DEF KeyInv
    <2>6. worker[p].first \in BOOLEAN
        BY <1>1 DEF WorkerRecords
    <2>. QED BY <1>1, <1>3, <1>5, <2>1, <2>2, <2>4, <2>5, <2>6 DEF Set
<1>6. ASSUME Wait(p) PROVE StatsInv'
    <2>1. /\ worker[p].pc = "wait" /\ \A q \in Procs \ {p} : worker[q].pc # "set"
          /\ worker' = [worker EXCEPT ![p].pc = "look", ![p].first = FALSE] /\ pid' = pid
        BY <1>6 DEF Wait
    <2>2. worker' = [worker EXCEPT ![p] = [worker[p] EXCEPT !.pc = "look", !.first = FALSE]]
        BY <1>1, <2>1 DEF WorkerRecords
    <2>3. \A q \in Procs : /\ worker'[q].first = IF q = p THEN FALSE ELSE worker[q].first
                           /\ worker'[q].pc = IF q = p THEN "look" ELSE worker[q].pc
        BY <1>1, <2>2 DEF WorkerRecords
    <2>4. KeyInv'
        BY <1>1, <2>1, <2>3 DEF KeyInv
    <2>5. "look" \in PCs
        BY DEF PCs
    <2>. QED BY <1>1, <1>3, <1>6, <2>1, <2>2, <2>4, <2>5 DEF Wait
<1>. QED BY <1>4, <1>5, <1>6

\* One worker counts. (UpdateDlogStats in threads.py, the key multiprocess-pid.)
LEMMA KeyExcludes == KeyInv => OneWorker
BY DEF KeyInv, OneWorker

\* The cursor moves within the logids that were given out.
LEMMA HighestLog ==
    ASSUME TypeInv
    PROVE  LET max == Max(DOMAIN dlog \union {0}) IN
           max \in Nat /\ max <= lastid /\ \A l \in DOMAIN dlog : l <= max
<1>. DEFINE T == DOMAIN dlog \union {0}
<1>1. T \in SUBSET Nat /\ T # {} /\ lastid \in Nat /\ \A n \in T : n <= lastid
    BY DlogStatsConstants DEF TypeInv
<1>2. Max(T) \in T /\ \A n \in T : Max(T) >= n
    <2>. HIDE DEF T
    <2>. QED BY <1>1, MaxIsGreatest
<1>. QED BY <1>1, <1>2

\* A step to the next delivery finds one beyond where it looks from, or ends the round.
LEMMA SeekKeeps ==
    ASSUME StatsInv, NEW p \in Procs, worker[p].pc \in {"read", "next"},
           NEW from \in Nat, NEW max \in Nat, dlog_stats_up_to <= from, max <= lastid,
           Seek(p, from, max),
           UNCHANGED <<deliveries, dlog_stats, dlog_stats_up_to, pid, settled, stops>>
    PROVE  /\ StatsInv'
           /\ worker'[p].pc = "count" => worker'[p].part = Rows(worker'[p].job)
           /\ \A q \in Procs : q # p => worker'[q] = worker[q]
<1>1. /\ worker \in [Procs -> WorkerRecords] /\ worker[p] \in WorkerRecords
      /\ pid \in Procs \union {None, Gone} /\ stops \in 0..MaxStops
      /\ KeyInv /\ JobInv /\ lastid \in Nat /\ dlog_stats_up_to \in Nat
    BY DlogStatsConstants DEF StatsInv, TypeInv
<1>2. ~worker[p].first /\ pid = p /\ \A q \in Procs : worker[q].first => worker[q].pc # "set"
    BY <1>1 DEF KeyInv
<1>. DEFINE found == {l \in DOMAIN dlog : from < l /\ l <= max /\ Readable(l)}
            next == Min(found)
            none == [Fresh EXCEPT !.first = FALSE]
            some == [worker[p] EXCEPT !.pc = "count", !.logid = next, !.max = max,
                                      !.job = dlog[next], !.part = Rows(dlog[next])]
            w == IF found = {} THEN none ELSE some
<1>3. worker' = [worker EXCEPT ![p] = w]
    BY DEF Seek
<1>4. CASE found = {}
    <2>1. w = none
        BY <1>4
    <2>. HIDE DEF w
    <2>2. none.pc = "look" /\ none.first = FALSE /\ none.logid = 0 /\ none.max = 0
          /\ none.part = {} /\ none \in WorkerRecords
        BY FreshTyped DEF Fresh
    <2>. HIDE DEF none, found, some
    <2>3. \A q \in Procs : worker'[q] = IF q = p THEN none ELSE worker[q]
        BY <1>1, <1>3, <2>1
    <2>4. KeyInv'
        BY <1>1, <1>2, <2>2, <2>3 DEF KeyInv
    <2>5. StatsInv'
        <3>1. worker' = [worker EXCEPT ![p] = none] /\ pid' \in Procs \union {None, Gone} /\ stops' \in 0..MaxStops
            BY <1>1, <1>3, <2>1
        <3>2. /\ none.logid <= none.max /\ none.max <= lastid /\ none.part \subseteq Rows(none.job)
              /\ none.pc \notin {"next", "count"}
            BY <1>1, <2>2
        <3>. QED BY <2>2, <2>4, <3>1, <3>2, OneWorkerMoves
    <2>. QED BY <2>2, <2>3, <2>5
<1>5. CASE found # {}
    <2>1. next \in found
        <3>1. found \in SUBSET Nat
            BY DlogStatsConstants DEF StatsInv, TypeInv
        <3>. HIDE DEF found
        <3>. QED BY <1>5, <3>1, MinIsLeast
    <2>2. /\ next \in DOMAIN dlog /\ from < next /\ next <= max /\ next \in Nat
          /\ dlog[next] \in Tally!Deliveries
        BY <2>1, <1>1 DEF StatsInv, TypeInv
    <2>3. w = some
        BY <1>5
    <2>4. /\ some.pc = "count" /\ some.first = worker[p].first /\ some.logid = next /\ some.max = max
          /\ some.job = dlog[next] /\ some.part = Rows(dlog[next])
        BY <1>1 DEF WorkerRecords
    <2>5. some \in WorkerRecords
        <3>1. Rows(dlog[next]) \in SUBSET Cells
            BY DEF Rows
        <3>. HIDE DEF next, found
        <3>. QED BY <1>1, <2>2, <3>1 DEF WorkerRecords, PCs
    <2>. HIDE DEF w, some, none, found, next
    <2>6. \A q \in Procs : worker'[q] = IF q = p THEN some ELSE worker[q]
        BY <1>1, <1>3, <2>3
    <2>7. KeyInv'
        BY <1>1, <1>2, <2>4, <2>6 DEF KeyInv
    <2>8. dlog_stats_up_to < next
        BY <1>1, <2>2
    <2>9. StatsInv'
        BY <1>1, <1>3, <2>2, <2>3, <2>4, <2>5, <2>7, <2>8, OneWorkerMoves
    <2>. QED BY <2>4, <2>6, <2>9
<1>. QED BY <1>4, <1>5

\* A round that begins, or goes on, has the next delivery with all its rows to
\* write.
LEMMA BeginKeeps ==
    ASSUME StatsInv, NEW p \in Procs, Begin(p) \/ NextLog(p)
    PROVE  /\ StatsInv'
           /\ worker'[p].pc = "count" => worker'[p].part = Rows(worker'[p].job)
           /\ \A q \in Procs : q # p => worker'[q] = worker[q]
<1>1. TypeInv /\ JobInv /\ worker[p] \in WorkerRecords /\ dlog_stats_up_to \in Nat
    BY DlogStatsConstants DEF StatsInv, TypeInv
<1>2. CASE Begin(p)
    <2>. DEFINE max == Max(DOMAIN dlog \union {0})
    <2>1. max \in Nat /\ max <= lastid
        BY <1>1, HighestLog
    <2>2. worker[p].pc = "read" /\ Seek(p, dlog_stats_up_to, max)
          /\ UNCHANGED <<deliveries, dlog_stats, dlog_stats_up_to, pid, settled, stops>>
        BY <1>2 DEF Begin
    <2>. HIDE DEF max
    <2>. QED BY <1>1, <2>1, <2>2, SeekKeeps
<1>3. CASE NextLog(p)
    <2>1. worker[p].pc = "next" /\ Seek(p, worker[p].logid, worker[p].max)
          /\ UNCHANGED <<deliveries, dlog_stats, dlog_stats_up_to, pid, settled, stops>>
        BY <1>3 DEF NextLog
    <2>2. /\ worker[p].logid \in Nat /\ worker[p].max \in Nat /\ worker[p].max <= lastid
          /\ dlog_stats_up_to <= worker[p].logid
        BY <1>1, <2>1 DEF WorkerRecords, JobInv
    <2>. QED BY <2>1, <2>2, SeekKeeps
<1>. QED BY <1>2, <1>3

\* What a worker that counts, and nobody else, does.
LEMMA ItemKeeps ==
    ASSUME StatsInv, NEW p \in Procs, NEW c \in Cells, Item(p, c)
    PROVE  StatsInv'
<1>1. /\ worker \in [Procs -> WorkerRecords] /\ worker[p] \in WorkerRecords /\ dlog_stats \in [Cells -> Nat]
      /\ KeyInv /\ JobInv
    BY DEF StatsInv, TypeInv
<1>. DEFINE w == [worker[p] EXCEPT !.part = worker[p].part \ {c}]
<1>2. worker' = [worker EXCEPT ![p] = w]
    BY <1>1 DEF Item, WorkerRecords
<1>3. /\ w \in WorkerRecords /\ w.pc = worker[p].pc /\ w.first = worker[p].first /\ w.logid = worker[p].logid
      /\ w.max = worker[p].max /\ w.job = worker[p].job /\ w.part = worker[p].part \ {c}
    BY <1>1 DEF WorkerRecords
<1>. HIDE DEF w
<1>4. \A q \in Procs : worker'[q] = IF q = p THEN w ELSE worker[q]
    BY <1>1, <1>2
<1>5. dlog_stats' \in [Cells -> Nat]
    <2>1. Amount(worker[p].job, c) \in Nat /\ dlog_stats[c] \in Nat
        BY <1>1, AmountIsNat DEF WorkerRecords
    <2>2. dlog_stats' = [dlog_stats EXCEPT ![c] = dlog_stats[c] + Amount(worker[p].job, c)]
        BY DEF Item
    <2>3. dlog_stats[c] + Amount(worker[p].job, c) \in Nat
        BY <2>1
    <2>. QED BY <1>1, <2>2, <2>3
<1>6. UNCHANGED <<lastid, dlog, importing, dlog_stats_up_to, pid, settled, stops>>
    BY DEF Item, deliveries
<1>7. TypeInv'
    BY <1>1, <1>2, <1>3, <1>5, <1>6 DEF StatsInv, TypeInv
<1>8. KeyInv'
    BY <1>1, <1>3, <1>4, <1>6 DEF KeyInv
<1>9. JobInv'
    BY <1>1, <1>3, <1>4, <1>6 DEF JobInv
<1>10. SettledInv'
    BY <1>6 DEF StatsInv, SettledInv
<1>. QED BY <1>7, <1>8, <1>9, <1>10 DEF StatsInv

\* What follows a delivery, whether it was counted to the end or not.
LEMMA LeaveKeeps ==
    ASSUME StatsInv, NEW p \in Procs, worker[p].pc = "count",
           worker' = [worker EXCEPT ![p].pc = "next", ![p].job = NoJob, ![p].part = {}],
           UNCHANGED <<deliveries, dlog_stats, pid>>,
           stops' \in 0..MaxStops,
           \/ UNCHANGED <<dlog_stats_up_to, settled>>
           \/ /\ dlog_stats_up_to' = worker[p].logid
              /\ settled' = With(settled, worker[p].logid, worker[p].job)
    PROVE  StatsInv'
<1>1. /\ worker \in [Procs -> WorkerRecords] /\ worker[p] \in WorkerRecords
      /\ KeyInv /\ JobInv /\ SettledInv /\ lastid \in Nat /\ dlog_stats_up_to \in Nat
    BY DlogStatsConstants DEF StatsInv, TypeInv
<1>2. /\ dlog_stats_up_to < worker[p].logid /\ worker[p].job \in Tally!Deliveries
      /\ worker[p].logid \in Nat /\ worker[p].max \in Nat
      /\ worker[p].logid <= worker[p].max /\ worker[p].max <= lastid
    BY <1>1 DEF JobInv, WorkerRecords
<1>. DEFINE w == [worker[p] EXCEPT !.pc = "next", !.job = NoJob, !.part = {}]
<1>3. worker' = [worker EXCEPT ![p] = w]
    BY <1>1 DEF WorkerRecords
<1>4. /\ w \in WorkerRecords /\ w.pc = "next" /\ w.first = worker[p].first /\ w.logid = worker[p].logid
      /\ w.max = worker[p].max /\ w.part = {}
    BY <1>1 DEF WorkerRecords, PCs
<1>. HIDE DEF w
<1>5. \A q \in Procs : worker'[q] = IF q = p THEN w ELSE worker[q]
    BY <1>1, <1>3
<1>6. UNCHANGED <<lastid, dlog, importing>>
    BY DEF deliveries
<1>7. dlog_stats_up_to' \in 0..lastid \union {1} /\ dlog_stats_up_to' <= w.logid
    BY <1>1, <1>2, <1>4 DEF StatsInv, TypeInv
<1>8. TypeInv'
    <2>1. worker' \in [Procs -> WorkerRecords]
        BY <1>1, <1>3, <1>4
    <2>2. /\ lastid' \in 0..MaxLog
          /\ DOMAIN dlog' \subseteq 1..lastid' /\ \A l \in DOMAIN dlog' : dlog'[l] \in Tally!Deliveries
          /\ DOMAIN importing' \subseteq 1..lastid'
          /\ \A l \in DOMAIN importing' : importing'[l] \in Tally!Deliveries
        BY <1>6 DEF StatsInv, TypeInv
    <2>3. dlog_stats' \in [Cells -> Nat] /\ pid' \in Procs \union {None, Gone}
        BY DEF StatsInv, TypeInv
    <2>4. dlog_stats_up_to' \in 0..lastid' \union {1}
        BY <1>6, <1>7
    <2>. QED BY <2>1, <2>2, <2>3, <2>4 DEF TypeInv
<1>9. KeyInv'
    BY <1>1, <1>4, <1>5 DEF KeyInv
<1>10. \A q \in Procs : q # p => worker[q].pc \notin {"next", "count"}
    BY <1>1, KeyExcludes DEF OneWorker
<1>11. JobInv'
    BY <1>1, <1>2, <1>4, <1>5, <1>6, <1>7, <1>10 DEF JobInv
<1>12. SettledInv'
    <2>1. CASE UNCHANGED <<dlog_stats_up_to, settled>>
        BY <1>1, <2>1 DEF SettledInv
    <2>2. CASE /\ dlog_stats_up_to' = worker[p].logid
               /\ settled' = With(settled, worker[p].logid, worker[p].job)
        <3>1. DOMAIN settled' = DOMAIN settled \union {worker[p].logid}
            BY <2>2 DEF With
        <3>2. \A l \in DOMAIN settled' : settled'[l] \in Tally!Deliveries
            BY <1>1, <1>2, <2>2 DEF With, SettledInv
        <3>3. DOMAIN settled' \subseteq 1..dlog_stats_up_to'
            BY <1>1, <1>2, <2>2, <3>1 DEF SettledInv
        <3>. QED BY <3>2, <3>3 DEF SettledInv
    <2>. QED BY <2>1, <2>2
<1>. QED BY <1>8, <1>9, <1>11, <1>12 DEF StatsInv

\* A delivery is left behind, counted to the end or not.
LEMMA AdvanceKeeps ==
    ASSUME StatsInv, NEW p \in Procs, Advance(p) \/ Fail(p)
    PROVE  StatsInv'
<1>1. stops \in 0..MaxStops /\ MaxStops \in Nat
    BY DlogStatsConstants DEF StatsInv, TypeInv
<1>2. CASE Advance(p)
    BY <1>1, <1>2, LeaveKeeps DEF Advance
<1>3. CASE Fail(p)
    <2>1. stops' \in 0..MaxStops
        BY <1>1, <1>3 DEF Fail
    <2>. QED BY <1>3, <2>1, LeaveKeeps DEF Fail
<1>. QED BY <1>2, <1>3

\* Who dies counts no more, and the key that it held is nobody's.
LEMMA DieKeeps ==
    ASSUME StatsInv, NEW p \in Procs, Die(p)
    PROVE  StatsInv'
<1>1. /\ worker \in [Procs -> WorkerRecords] /\ pid \in Procs \union {None, Gone}
      /\ stops \in 0..MaxStops /\ MaxStops \in Nat /\ lastid \in Nat /\ KeyInv
    BY DlogStatsConstants DEF StatsInv, TypeInv
<1>2. None \notin Procs /\ Gone \notin Procs /\ None # Gone
    BY DlogStatsConstants DEF None, Gone
<1>3. /\ worker' = [worker EXCEPT ![p] = Fresh] /\ pid' = IF pid = p THEN Gone ELSE pid
      /\ stops' = stops + 1 /\ stops < MaxStops
      /\ UNCHANGED <<deliveries, dlog_stats, dlog_stats_up_to, settled>>
    BY DEF Die
<1>4. \A q \in Procs : worker'[q] = IF q = p THEN Fresh ELSE worker[q]
    BY <1>1, <1>3
<1>5. KeyInv'
    BY <1>1, <1>2, <1>3, <1>4, FreshTyped DEF KeyInv
<1>6. stops' \in 0..MaxStops /\ pid' \in Procs \union {None, Gone}
    BY <1>1, <1>3
<1>7. Fresh.logid <= Fresh.max /\ Fresh.max <= lastid /\ Fresh.part \subseteq Rows(Fresh.job)
    BY <1>1, FreshTyped
<1>. QED BY <1>3, <1>5, <1>6, <1>7, FreshTyped, OneWorkerMoves

\* A start, with or without a rebuild.
LEMMA StartKeeps ==
    ASSUME StatsInv, Restart \/ rebuild
    PROVE  StatsInv'
<1>1. /\ stops \in 0..MaxStops /\ MaxStops \in Nat /\ lastid \in Nat /\ TypeInv /\ SettledInv
    BY DlogStatsConstants DEF StatsInv, TypeInv
<1>2. /\ Start /\ stops' \in 0..MaxStops /\ worker' = [q \in Procs |-> Fresh] /\ pid' = None
      /\ importing' = NoDelivery /\ dlog' = dlog /\ lastid' = lastid
    BY <1>1 DEF Restart, rebuild, Start
<1>3. \A q \in Procs : worker'[q] = Fresh
    BY <1>2
<1>4. KeyInv'
    BY <1>2, <1>3, FreshTyped, DlogStatsConstants DEF KeyInv
<1>5. JobInv'
    BY <1>1, <1>2, <1>3, FreshTyped DEF JobInv
<1>6. /\ dlog_stats' \in [Cells -> Nat] /\ dlog_stats_up_to' \in 0..lastid \union {1} /\ SettledInv'
    <2>1. CASE Restart
        BY <1>1, <2>1 DEF Restart, TypeInv, SettledInv
    <2>2. CASE rebuild
        <3>1. /\ settled' = [l \in {i \in DOMAIN dlog : Readable(i)} |-> dlog[l]]
              /\ dlog_stats' = Tally!TallyOf(settled')
              /\ dlog_stats_up_to' = Max(DOMAIN dlog \union {0})
            BY <2>2 DEF rebuild
        <3>2. DOMAIN settled' \subseteq DOMAIN dlog /\ \A l \in DOMAIN settled' : settled'[l] \in Tally!Deliveries
            BY <1>1, <3>1 DEF TypeInv
        <3>3. dlog_stats_up_to' \in Nat /\ dlog_stats_up_to' <= lastid /\ \A l \in DOMAIN dlog : l <= dlog_stats_up_to'
            BY <1>1, <3>1, HighestLog
        <3>4. DOMAIN settled' \subseteq 1..dlog_stats_up_to'
            BY <1>1, <3>2, <3>3 DEF TypeInv
        <3>5. IsFiniteSet(DOMAIN settled')
            <4>1. IsFiniteSet(1..dlog_stats_up_to')
                BY <3>3, FS_Interval
            <4>. QED BY <3>4, <4>1, FS_Subset
        <3>6. dlog_stats' \in [Cells -> Nat]
            BY <3>1, <3>2, <3>5, TallyOfTyped
        <3>. QED BY <1>1, <3>2, <3>3, <3>4, <3>6 DEF SettledInv
    <2>. QED BY <2>1, <2>2
<1>7. TypeInv'
    BY <1>1, <1>2, <1>6, FreshTyped DEF TypeInv, NoDelivery
<1>. QED BY <1>4, <1>5, <1>6, <1>7 DEF StatsInv

\* Every step keeps the invariant.
LEMMA StatsInvNext == StatsInv /\ [Next]_vars => StatsInv'
<1>. SUFFICES ASSUME StatsInv, [Next]_vars PROVE StatsInv'
    OBVIOUS
<1>1. CASE Environment
    <2>1. ASSUME NEW u \in Drivers \union {Company}, NEW items \in Contents, Insert(u, items) PROVE StatsInv'
        BY <2>1, EnvironmentKeeps
    <2>2. ASSUME NEW l \in 1..MaxLog, Commit(l) \/ Rollback(l) \/ delete_dlog(l) PROVE StatsInv'
        BY <2>2, EnvironmentKeeps
    <2>3. ASSUME NEW l \in 1..MaxLog, NEW u \in Drivers, reconcile(l, u) PROVE StatsInv'
        BY <2>3, EnvironmentKeeps
    <2>4. ASSUME NEW p \in Procs, Fail(p) \/ Die(p) PROVE StatsInv'
        BY <2>4, AdvanceKeeps, DieKeeps
    <2>5. CASE Restart \/ rebuild
        BY <2>5, StartKeeps
    <2>. QED BY <1>1, <2>1, <2>2, <2>3, <2>4, <2>5 DEF Environment
<1>2. ASSUME NEW p \in Procs, UpdateDlogStats(p) PROVE StatsInv'
    <2>1. CASE Look(p) \/ Set(p) \/ Wait(p)
        BY <2>1, AgreeKeeps
    <2>2. CASE Begin(p) \/ NextLog(p)
        BY <2>2, BeginKeeps
    <2>3. CASE \E c \in Cells : Item(p, c)
        BY <2>3, ItemKeeps
    <2>4. CASE Advance(p)
        BY <2>4, AdvanceKeeps
    <2>. QED BY <1>2, <2>1, <2>2, <2>3, <2>4 DEF UpdateDlogStats
<1>3. CASE UNCHANGED vars
    BY <1>3 DEF vars, deliveries, StatsInv, TypeInv, KeyInv, JobInv, SettledInv
<1>. QED BY <1>1, <1>2, <1>3 DEF Next

\* What the invariant says of the types.
LEMMA StatsFollows == StatsInv => TypeOK
<1>. QED BY DEF StatsInv, TypeInv, JobInv, SettledInv, TypeOK, WorkerRecords, PCs

\* Every variable has its type in every state, for any number of processes and any
\* deliveries; the cursor is never ahead of the logids given out, and what was counted
\* to the end is not beyond it. (UpdateDlogStats in threads.py.)
THEOREM StatsTyped == Spec => []TypeOK
<1>. QED BY StatsFollows, StatsInvInit, StatsInvNext, PTL DEF Spec

\* At most one process counts, of any number of them, whenever they start or end: what
\* the wait between two looks at the key in Redis is for. (threads.py, multiprocess-pid.)
THEOREM OneCounts == Spec => []OneWorker
<1>1. StatsInv => OneWorker
    BY KeyExcludes DEF StatsInv
<1>. QED BY <1>1, StatsInvInit, StatsInvNext, PTL DEF Spec

-----------------------------------------------------------------------------
(* The statistics implement StatsTally.                                    *)

\* What the worker of p has written of the delivery it counts.
Written(p, c) == IF c \in worker[p].part THEN 0 ELSE Amount(worker[p].job, c)

\* Whole told without a sum: at most one worker counts.
WholeTold ==
    /\ Counting = {} => Whole = dlog_stats
    /\ \A p \in Counting : /\ p \in Procs /\ Counting = {p}
                           /\ worker[p].job \in Tally!Deliveries
                           /\ worker[p].part \in SUBSET Rows(worker[p].job)
                           /\ Whole = [c \in Cells |-> dlog_stats[c] - Written(p, c)]
    /\ Whole \in [Cells -> Int]

\* The mapping is the statistics without what the one worker that counts has
\* written.
LEMMA WholeIsTold == StatsInv => WholeTold
<1>. SUFFICES ASSUME StatsInv PROVE WholeTold
    OBVIOUS
<1>1. /\ worker \in [Procs -> WorkerRecords] /\ dlog_stats \in [Cells -> Nat] /\ KeyInv /\ JobInv
    BY DEF StatsInv, TypeInv
<1>2. Counting = {} => Whole = dlog_stats /\ Whole \in [Cells -> Int]
    BY <1>1 DEF Whole
<1>3. ASSUME NEW p \in Counting
      PROVE  /\ p \in Procs /\ Counting = {p}
             /\ worker[p].job \in Tally!Deliveries
             /\ worker[p].part \in SUBSET Rows(worker[p].job)
             /\ Whole = [c \in Cells |-> dlog_stats[c] - Written(p, c)]
             /\ Whole \in [Cells -> Int]
    <2>1. p \in Procs /\ worker[p].pc = "count"
        BY DEF Counting
    <2>2. Counting = {p}
        BY <1>1, <2>1, KeyExcludes DEF OneWorker, Counting
    <2>3. worker[p].job \in Tally!Deliveries /\ worker[p].part \subseteq Rows(worker[p].job)
        BY <1>1, <2>1 DEF JobInv
    <2>4. \A c \in Cells : Written(p, c) \in Nat
        BY <2>3, AmountIsNat DEF Written
    <2>5. \A c \in Cells : Added(c) = Written(p, c)
        BY <2>2, <2>4, AddedByOne DEF Written
    <2>6. Whole = [c \in Cells |-> dlog_stats[c] - Added(c)]
        BY <2>2 DEF Whole
    <2>7. Whole = [c \in Cells |-> dlog_stats[c] - Written(p, c)]
        BY <2>5, <2>6
    <2>8. \A c \in Cells : dlog_stats[c] - Written(p, c) \in Int
        BY <1>1, <2>4
    <2>. QED BY <2>1, <2>2, <2>3, <2>7, <2>8
<1>. QED BY <1>2, <1>3 DEF WholeTold

\* The same of the next state.
LEMMA WholeIsToldNext == StatsInv' => WholeTold'
BY WholeIsTold, PTL

\* The rows of a delivery and of the tally are the same.
LEMMA SameRows ==
    /\ Tally!Subjects \X Keys = Cells
    /\ \A d \in Tally!Deliveries : /\ Tally!Cells(d) = Rows(d)
                                   /\ \A c \in Cells : Tally!Amount(d, c) = Amount(d, c)
<1>1. Tally!Subjects \X Keys = Cells
    BY DEF Tally!Subjects, Tally!Company, Cells, Company
<1>2. \A d, c : Tally!Amount(d, c) = Amount(d, c)
    BY DEF Tally!Amount, Amount, Tally!Company, Company
<1>3. \A d : Tally!Cells(d) = Rows(d)
    BY <1>1, <1>2 DEF Tally!Cells, Rows
<1>. QED BY <1>1, <1>2, <1>3

\* While nothing is written and nobody begins or leaves a delivery, the tally is as it was.
LEMMA WholeStays ==
    ASSUME StatsInv, StatsInv', dlog_stats' = dlog_stats,
           Counting' = Counting, \A p \in Counting : worker'[p] = worker[p]
    PROVE  Whole' = Whole
<1>1. WholeTold /\ WholeTold'
    BY WholeIsTold, WholeIsToldNext
<1>2. CASE Counting = {}
    BY <1>1, <1>2 DEF WholeTold
<1>3. CASE Counting # {}
    <2>1. PICK p \in Counting : TRUE
        BY <1>3
    <2>2. \A c \in Cells : Written(p, c)' = Written(p, c)
        BY <2>1 DEF Written
    <2>3. Whole = [c \in Cells |-> dlog_stats[c] - Written(p, c)]
        BY <1>1, <2>1 DEF WholeTold
    <2>4. Whole' = [c \in Cells |-> dlog_stats'[c] - Written(p, c)']
        BY <1>1, <2>1 DEF WholeTold
    <2>. QED BY <2>2, <2>3, <2>4
<1>. QED BY <1>2, <1>3

\* A stop at which nobody was counting, or somebody else who goes on.
LEMMA StopBesides ==
    ASSUME StatsInv, StatsInv', Whole' = Whole, settled' = settled, stops' = stops + 1
    PROVE  Tally!Next
<1>1. Whole \in [Cells -> Int] /\ stops \in Nat
    BY WholeIsTold, DlogStatsConstants DEF WholeTold, StatsInv, TypeInv
<1>2. PICK items \in Contents : TRUE
    BY DlogStatsConstants
<1>. DEFINE d == [userid |-> Company, items |-> items]
<1>3. d \in Tally!Deliveries
    BY DEF Tally!Deliveries, Tally!Subjects, Tally!Company, Company
<1>. HIDE DEF d
<1>4. Tally!Plus(d, {}) = Whole
    BY <1>1, SameRows DEF Tally!Plus
<1>5. Tally!Stop(d, {})
    BY <1>4 DEF Tally!Stop
<1>6. <<Whole, settled, stops>>' # <<Whole, settled, stops>>
    BY <1>1
<1>. QED BY <1>3, <1>5, <1>6 DEF Tally!Next

\* A stop in the middle of a delivery: what was written of it stays.
LEMMA StopWithin ==
    ASSUME StatsInv, StatsInv', NEW p \in Counting, Counting' = {},
           dlog_stats' = dlog_stats, settled' = settled, stops' = stops + 1
    PROVE  Tally!Next
<1>1. WholeTold /\ WholeTold' /\ stops \in Nat /\ dlog_stats \in [Cells -> Nat]
    BY WholeIsTold, WholeIsToldNext, DlogStatsConstants DEF StatsInv, TypeInv
<1>. DEFINE d == worker[p].job
            S == Rows(d) \ worker[p].part
<1>2. /\ d \in Tally!Deliveries /\ worker[p].part \in SUBSET Rows(d)
      /\ Whole = [c \in Cells |-> dlog_stats[c] - Written(p, c)] /\ Whole' = dlog_stats
    BY <1>1 DEF WholeTold
<1>3. ASSUME NEW c \in Cells
      PROVE  dlog_stats[c] = IF c \in S THEN Whole[c] + Tally!Amount(d, c) ELSE Whole[c]
    <2>1. dlog_stats[c] \in Nat /\ Amount(d, c) \in Nat /\ (c \notin Rows(d) => Amount(d, c) = 0)
          /\ Tally!Amount(d, c) = Amount(d, c)
        BY <1>1, <1>2, AmountIsNat
    <2>2. Whole[c] = dlog_stats[c] - IF c \in worker[p].part THEN 0 ELSE Amount(d, c)
        BY <1>2 DEF Written
    <2>. QED BY <1>2, <2>1, <2>2
<1>4. Tally!Plus(d, S) = dlog_stats
    <2>1. Tally!Plus(d, S) = [c \in Cells |-> IF c \in S THEN Whole[c] + Tally!Amount(d, c) ELSE Whole[c]]
        BY SameRows DEF Tally!Plus
    <2>. HIDE DEF d, S
    <2>. QED BY <1>1, <1>3, <2>1
<1>5. Tally!Stop(d, S)
    BY <1>2, <1>4 DEF Tally!Stop
<1>6. S \in SUBSET Tally!Cells(d)
    BY <1>2, SameRows
<1>7. <<Whole, settled, stops>>' # <<Whole, settled, stops>>
    BY <1>1
<1>. HIDE DEF d, S
<1>. QED BY <1>2, <1>5, <1>6, <1>7 DEF Tally!Next

\* A row that is written belongs to what is being counted.
LEMMA ItemStays ==
    ASSUME StatsInv, StatsInv', NEW p \in Procs, NEW c \in Cells, Item(p, c)
    PROVE  UNCHANGED <<Whole, settled, stops>>
<1>1. /\ WholeTold /\ WholeTold' /\ worker \in [Procs -> WorkerRecords] /\ dlog_stats \in [Cells -> Nat]
      /\ worker[p] \in WorkerRecords
    BY WholeIsTold, WholeIsToldNext DEF StatsInv, TypeInv
<1>2. /\ worker[p].pc = "count" /\ c \in worker[p].part
      /\ dlog_stats' = [dlog_stats EXCEPT ![c] = dlog_stats[c] + Amount(worker[p].job, c)]
      /\ worker' = [worker EXCEPT ![p].part = worker[p].part \ {c}]
      /\ settled' = settled /\ stops' = stops
    BY DEF Item
<1>3. worker'[p].pc = "count" /\ worker'[p].job = worker[p].job /\ worker'[p].part = worker[p].part \ {c}
    BY <1>1, <1>2 DEF WorkerRecords
<1>4. p \in Counting /\ p \in Counting'
    BY <1>2, <1>3 DEF Counting
<1>5. /\ Whole = [b \in Cells |-> dlog_stats[b] - Written(p, b)]
      /\ Whole' = [b \in Cells |-> dlog_stats'[b] - Written(p, b)']
    BY <1>1, <1>4 DEF WholeTold
<1>6. ASSUME NEW b \in Cells PROVE dlog_stats'[b] - Written(p, b)' = dlog_stats[b] - Written(p, b)
    <2>1. Amount(worker[p].job, b) \in Nat /\ dlog_stats[b] \in Nat
        BY <1>1, AmountIsNat DEF WorkerRecords
    <2>2. b = c => /\ dlog_stats'[b] = dlog_stats[b] + Amount(worker[p].job, b)
                   /\ Written(p, b) = 0 /\ Written(p, b)' = Amount(worker[p].job, b)
        BY <1>1, <1>2, <1>3 DEF Written
    <2>3. b # c => dlog_stats'[b] = dlog_stats[b] /\ Written(p, b)' = Written(p, b)
        BY <1>1, <1>2, <1>3 DEF Written
    <2>4. Written(p, b) \in Nat
        BY <2>1 DEF Written
    <2>. QED BY <2>1, <2>2, <2>3, <2>4
<1>7. Whole' = Whole
    BY <1>5, <1>6
<1>. QED BY <1>2, <1>7

\* A delivery that was counted to the end is added as a whole, after all earlier ones.
LEMMA AdvanceCounts ==
    ASSUME StatsInv, StatsInv', NEW p \in Procs, Advance(p)
    PROVE  Tally!Next
<1>1. /\ WholeTold /\ WholeTold' /\ worker \in [Procs -> WorkerRecords] /\ dlog_stats \in [Cells -> Nat]
      /\ worker[p] \in WorkerRecords /\ JobInv /\ SettledInv /\ dlog_stats_up_to \in Nat
      /\ lastid \in Nat /\ lastid <= MaxLog /\ MaxLog \in Nat
    BY WholeIsTold, WholeIsToldNext, DlogStatsConstants DEF StatsInv, TypeInv
<1>2. /\ worker[p].pc = "count" /\ worker[p].part = {} /\ dlog_stats' = dlog_stats
      /\ worker' = [worker EXCEPT ![p].pc = "next", ![p].job = NoJob, ![p].part = {}]
      /\ settled' = With(settled, worker[p].logid, worker[p].job) /\ stops' = stops
    BY DEF Advance
<1>. DEFINE d == worker[p].job
            l == worker[p].logid
<1>3. /\ d \in Tally!Deliveries /\ l \in 1..MaxLog /\ \A i \in DOMAIN settled : i < l
    BY <1>1, <1>2 DEF JobInv, SettledInv, WorkerRecords
<1>4. Counting = {p}
    BY <1>1, <1>2 DEF WholeTold, Counting
<1>5. Counting' = {}
    <2>1. worker'[p].pc = "next" /\ \A q \in Procs : q # p => worker'[q] = worker[q]
        BY <1>1, <1>2
    <2>. QED BY <1>4, <2>1 DEF Counting
<1>6. Whole = [c \in Cells |-> dlog_stats[c] - Amount(d, c)] /\ Whole' = dlog_stats
    BY <1>1, <1>2, <1>4, <1>5 DEF WholeTold, Written
<1>7. ASSUME NEW c \in Cells
      PROVE  dlog_stats[c] = IF c \in Tally!Cells(d) THEN Whole[c] + Tally!Amount(d, c) ELSE Whole[c]
    <2>1. /\ dlog_stats[c] \in Nat /\ Amount(d, c) \in Nat /\ (c \notin Rows(d) => Amount(d, c) = 0)
          /\ Tally!Amount(d, c) = Amount(d, c) /\ Tally!Cells(d) = Rows(d)
        BY <1>1, <1>3, AmountIsNat, SameRows
    <2>2. Whole[c] = dlog_stats[c] - Amount(d, c)
        BY <1>6
    <2>. QED BY <2>1, <2>2
<1>8. Tally!Plus(d, Tally!Cells(d)) = dlog_stats
    <2>1. Tally!Plus(d, Tally!Cells(d)) =
              [c \in Cells |-> IF c \in Tally!Cells(d) THEN Whole[c] + Tally!Amount(d, c) ELSE Whole[c]]
        BY SameRows DEF Tally!Plus
    <2>. HIDE DEF d
    <2>. QED BY <1>1, <1>7, <2>1
<1>9. settled' = [i \in DOMAIN settled \union {l} |-> IF i = l THEN d ELSE settled[i]]
    BY <1>2 DEF With
<1>10. Tally!Count(l, d)
    BY <1>2, <1>3, <1>6, <1>8, <1>9 DEF Tally!Count
<1>11. settled' # settled
    <2>1. l \in DOMAIN settled'
        BY <1>9
    <2>2. l \notin DOMAIN settled
        BY <1>3
    <2>. QED BY <2>1, <2>2
<1>12. <<Whole, settled, stops>>' # <<Whole, settled, stops>>
    BY <1>11
<1>. HIDE DEF d, l
<1>. QED BY <1>3, <1>10, <1>12 DEF Tally!Next

\* Whoever begins a delivery has written nothing of it.
LEMMA BeginStays ==
    ASSUME StatsInv, StatsInv', NEW p \in Procs, Begin(p) \/ NextLog(p)
    PROVE  UNCHANGED <<Whole, settled, stops>>
<1>1. /\ WholeTold /\ WholeTold' /\ worker \in [Procs -> WorkerRecords] /\ dlog_stats \in [Cells -> Nat] /\ KeyInv
    BY WholeIsTold, WholeIsToldNext DEF StatsInv, TypeInv
<1>2. /\ worker[p].pc \in {"read", "next"} /\ dlog_stats' = dlog_stats /\ settled' = settled /\ stops' = stops
    BY DEF Begin, NextLog
<1>3. /\ worker'[p].pc = "count" => worker'[p].part = Rows(worker'[p].job)
      /\ \A q \in Procs : q # p => worker'[q] = worker[q]
    BY BeginKeeps
<1>4. Counting = {}
    <2>1. \A q \in Procs : worker[q].pc = "count" => q = p
        BY <1>1, <1>2, KeyExcludes DEF OneWorker
    <2>. QED BY <1>2, <2>1 DEF Counting
<1>5. CASE worker'[p].pc = "count"
    <2>1. p \in Counting'
        BY <1>5 DEF Counting
    <2>2. /\ worker'[p].job \in Tally!Deliveries
          /\ Whole' = [c \in Cells |-> dlog_stats'[c] - Written(p, c)']
        BY <1>1, <2>1 DEF WholeTold
    <2>3. \A c \in Cells : Written(p, c)' = 0
        BY <1>3, <1>5, <2>2, AmountIsNat DEF Written
    <2>4. \A c \in Cells : dlog_stats'[c] - Written(p, c)' = dlog_stats[c]
        BY <1>1, <1>2, <2>3
    <2>5. Whole' = dlog_stats
        BY <1>1, <2>2, <2>4
    <2>. QED BY <1>1, <1>2, <1>4, <2>5 DEF WholeTold
<1>6. CASE worker'[p].pc # "count"
    <2>1. Counting' = {}
        BY <1>3, <1>4, <1>6 DEF Counting
    <2>. QED BY <1>1, <1>2, <1>4, <2>1 DEF WholeTold
<1>. QED BY <1>5, <1>6

\* The steps that change no worker and no row.
LEMMA QuietStays ==
    ASSUME StatsInv, StatsInv', UNCHANGED <<dlog_stats, worker, settled, stops>>
    PROVE  UNCHANGED <<Whole, settled, stops>>
<1>1. Counting' = Counting /\ \A q \in Counting : worker'[q] = worker[q]
    BY DEF Counting
<1>. QED BY <1>1, WholeStays

\* A start counts from the deliveries there are, or leaves what was written.
LEMMA StartCounts ==
    ASSUME StatsInv, StatsInv', Restart \/ rebuild
    PROVE  Tally!Next
<1>1. /\ stops' = stops + 1 /\ stops \in Nat /\ worker' = [q \in Procs |-> Fresh]
      /\ TypeInv /\ WholeTold /\ WholeTold' /\ dlog_stats \in [Cells -> Nat]
    BY WholeIsTold, WholeIsToldNext, DlogStatsConstants DEF Restart, rebuild, Start, StatsInv, TypeInv
<1>2. Counting' = {}
    BY <1>1, FreshTyped DEF Counting
<1>3. Whole' = dlog_stats'
    BY <1>1, <1>2 DEF WholeTold
<1>4. CASE Restart
    <2>1. dlog_stats' = dlog_stats /\ settled' = settled
        BY <1>4 DEF Restart
    <2>2. CASE Counting = {}
        <3>1. Whole' = Whole
            BY <1>1, <1>3, <2>1, <2>2 DEF WholeTold
        <3>. QED BY <1>1, <2>1, <3>1, StopBesides
    <2>3. CASE Counting # {}
        <3>1. PICK p \in Counting : TRUE
            BY <2>3
        <3>. QED BY <1>1, <1>2, <2>1, <3>1, StopWithin
    <2>. QED BY <2>2, <2>3
<1>5. CASE rebuild
    <2>. DEFINE L == {i \in DOMAIN dlog : Readable(i)}
    <2>1. settled' = [l \in L |-> dlog[l]] /\ dlog_stats' = Tally!TallyOf(settled')
        BY <1>5 DEF rebuild
    <2>2. L \in SUBSET (1..MaxLog)
        <3>1. 1..lastid \subseteq 1..MaxLog
            BY <1>1, DlogStatsConstants DEF TypeInv
        <3>. QED BY <1>1, <3>1 DEF TypeInv
    <2>3. settled' \in [L -> Tally!Deliveries]
        BY <1>1, <2>1 DEF TypeInv
    <2>4. settled' \in UNION {[K -> Tally!Deliveries] : K \in SUBSET (1..MaxLog)}
        <3>. HIDE DEF L
        <3>. QED BY <2>2, <2>3
    <2>5. Tally!Rebuild
        BY <1>1, <1>3, <2>1, <2>4 DEF Tally!Rebuild
    <2>6. <<Whole, settled, stops>>' # <<Whole, settled, stops>>
        BY <1>1
    <2>. QED BY <2>5, <2>6 DEF Tally!Next
<1>. QED BY <1>4, <1>5

\* A process that ends, and a delivery that cannot be counted, stop at most one.
LEMMA StopCounts ==
    ASSUME StatsInv, StatsInv', NEW p \in Procs, Fail(p) \/ Die(p)
    PROVE  Tally!Next
<1>1. /\ stops' = stops + 1 /\ dlog_stats' = dlog_stats /\ settled' = settled
      /\ worker \in [Procs -> WorkerRecords] /\ WholeTold
    BY WholeIsTold DEF Fail, Die, StatsInv, TypeInv
<1>2. worker'[p].pc # "count" /\ \A q \in Procs : q # p => worker'[q] = worker[q]
    <2>1. CASE Fail(p)
        BY <1>1, <2>1 DEF Fail, WorkerRecords
    <2>2. CASE Die(p)
        BY <1>1, <2>2, FreshTyped DEF Die
    <2>. QED BY <2>1, <2>2
<1>3. CASE worker[p].pc = "count"
    <2>1. p \in Counting /\ Counting = {p}
        BY <1>1, <1>3 DEF Counting, WholeTold
    <2>2. Counting' = {}
        BY <1>2, <2>1 DEF Counting
    <2>. QED BY <1>1, <2>1, <2>2, StopWithin
<1>4. CASE worker[p].pc # "count"
    <2>1. Counting' = Counting /\ \A q \in Counting : worker'[q] = worker[q]
        BY <1>2, <1>4 DEF Counting
    <2>2. Whole' = Whole
        BY <1>1, <2>1, WholeStays
    <2>. QED BY <1>1, <2>2, StopBesides
<1>. QED BY <1>3, <1>4

\* Every step counts one delivery as a whole, adds a part of one for a stop, starts
\* anew, or counts nothing.
LEMMA TallyStep ==
    StatsInv /\ StatsInv' /\ [Next]_vars => [Tally!Next]_<<Whole, settled, stops>>
<1>. SUFFICES ASSUME StatsInv, StatsInv', [Next]_vars
              PROVE  Tally!Next \/ UNCHANGED <<Whole, settled, stops>>
    OBVIOUS
<1>1. worker \in [Procs -> WorkerRecords]
    BY DEF StatsInv, TypeInv
<1>2. CASE Environment
    <2>1. ASSUME UNCHANGED <<dlog_stats, worker, settled, stops>>
          PROVE  UNCHANGED <<Whole, settled, stops>>
        BY <2>1, QuietStays
    <2>2. ASSUME NEW u \in Drivers \union {Company}, NEW items \in Contents, Insert(u, items)
          PROVE  UNCHANGED <<dlog_stats, worker, settled, stops>>
        BY <2>2 DEF Insert
    <2>3. ASSUME NEW l \in 1..MaxLog, Commit(l) \/ Rollback(l) \/ delete_dlog(l)
          PROVE  UNCHANGED <<dlog_stats, worker, settled, stops>>
        BY <2>3 DEF Commit, Rollback, delete_dlog
    <2>4. ASSUME NEW l \in 1..MaxLog, NEW u \in Drivers, reconcile(l, u)
          PROVE  UNCHANGED <<dlog_stats, worker, settled, stops>>
        BY <2>4 DEF reconcile
    <2>5. ASSUME NEW p \in Procs, Fail(p) \/ Die(p) PROVE Tally!Next
        BY <2>5, StopCounts
    <2>6. CASE Restart \/ rebuild
        BY <2>6, StartCounts
    <2>. QED BY <1>2, <2>1, <2>2, <2>3, <2>4, <2>5, <2>6 DEF Environment
<1>3. ASSUME NEW p \in Procs, UpdateDlogStats(p)
      PROVE  Tally!Next \/ UNCHANGED <<Whole, settled, stops>>
    <2>1. CASE Look(p) \/ Set(p) \/ Wait(p)
        <3>1. dlog_stats' = dlog_stats /\ settled' = settled /\ stops' = stops
            BY <2>1 DEF Look, Set, Wait
        <3>2. /\ worker[p].pc # "count" /\ worker'[p].pc # "count"
              /\ \A q \in Procs : q # p => worker'[q] = worker[q]
            BY <1>1, <2>1 DEF Look, Set, Wait, WorkerRecords
        <3>3. Counting' = Counting /\ \A q \in Counting : worker'[q] = worker[q]
            BY <3>2 DEF Counting
        <3>. QED BY <3>1, <3>3, WholeStays
    <2>2. CASE Begin(p) \/ NextLog(p)
        BY <2>2, BeginStays
    <2>3. CASE \E c \in Cells : Item(p, c)
        BY <2>3, ItemStays
    <2>4. CASE Advance(p)
        BY <2>4, AdvanceCounts
    <2>. QED BY <1>3, <2>1, <2>2, <2>3, <2>4 DEF UpdateDlogStats
<1>4. CASE UNCHANGED vars
    BY <1>4, QuietStays DEF vars
<1>. QED BY <1>2, <1>3, <1>4 DEF Next

\* The statistics start as the tally does.
LEMMA TallyInit == Init => Tally!Init
<1>. SUFFICES ASSUME Init PROVE Tally!Init
    OBVIOUS
<1>1. Counting = {}
    BY FreshTyped DEF Init, Counting
<1>2. Whole = [c \in Tally!Subjects \X Keys |-> 0]
    BY <1>1, SameRows DEF Init, Whole
<1>. QED BY <1>2 DEF Init, Tally!Init, NoDelivery

\* The worker keeps what StatsTally promises, for any number of processes and drivers
\* and any deliveries: apart from what is being counted, the statistics grow by whole
\* deliveries, each at most once and in the order of the logids, but for one part of
\* one delivery at each stop, and a rebuild makes them the tally of what there is.
\* (UpdateDlogStats in threads.py, the loop over the logids; rebuild in dlog/statistics.py.)
THEOREM CountsAsPromised == Spec => CountedAsPromised
<1>1. Init => Tally!Init
    BY TallyInit
<1>2. StatsInv /\ StatsInv' /\ [Next]_vars => [Tally!Next]_<<Whole, settled, stops>>
    BY TallyStep
<1>. QED BY <1>1, <1>2, StatsInvInit, StatsInvNext, PTL DEF Spec, CountedAsPromised, Tally!Spec

-----------------------------------------------------------------------------
(* The pool (ConnPool).                                                    *)

\* The parts count with the operators that the theorems about finite sets are about.
LEMMA CardinalityIs == \A S : Pool!Cardinality(S) = Cardinality(S) /\ Active!Cardinality(S) = Cardinality(S)
<1>1. \A S : Pool!Cardinality(S) = Cardinality(S)
    BY Zenon DEF Pool!Cardinality, Cardinality, Pool!IsFiniteSet, IsFiniteSet
<1>2. \A S : Active!Cardinality(S) = Cardinality(S)
    BY Zenon DEF Active!Cardinality, Cardinality, Active!IsFiniteSet, IsFiniteSet
<1>. QED BY <1>1, <1>2

\* A connection of the present pool, noted down or being prepared.
InUse(x) == x.conn # 0 /\ ~x.old
Uses(r, c) ==
    \/ InUse(conns[r]) /\ conns[r].conn = c
    \/ InUse(request[r]) /\ request[r].conn = c

\* A connection is noted down while statements run, and is in a request's own
\* hand while it is prepared: never both.
Stages ==
    /\ \A r \in Reqs : conns[r].conn # 0 => request[r].pc = "run"
    /\ \A r \in Reqs : request[r].conn # 0 <=> request[r].pc = "prepare"

\* One user of a connection, which is out of the pool and not lost.
OneUser == \A r, q \in Reqs : \A c \in Conns : Uses(r, c) /\ Uses(q, c) => r = q
UsedIsOut == \A r \in Reqs : \A c \in Conns : Uses(r, c) => c \notin pool \union lost
LostIsOut == pool \intersect lost = {}

PoolInv == Pool!PoolTyped /\ Stages /\ OneUser /\ UsedIsOut /\ LostIsOut

-----------------------------------------------------------------------------
\* Using(r) of ConnectionsAreOfOne has less than two members.
LEMMA FewerThanTwo ==
    ASSUME NEW x, NEW y, NEW S, S \subseteq {x, y}, x \in S => y \notin S
    PROVE  Cardinality(S) < 2
<1>1. CASE x \in S
    <2>1. S = {x}
        BY <1>1
    <2>2. Cardinality({x}) = 1
        BY FS_Singleton
    <2>. QED BY <2>1, <2>2
<1>2. CASE x \notin S /\ y \in S
    <2>1. S = {y}
        BY <1>2
    <2>2. Cardinality({y}) = 1
        BY FS_Singleton
    <2>. QED BY <2>1, <2>2
<1>3. CASE x \notin S /\ y \notin S
    <2>1. S = {}
        BY <1>3
    <2>. QED BY <2>1, FS_EmptySet
<1>. QED BY <1>1, <1>2, <1>3

\* The property follows from the invariant.
LEMMA OfOneFollows ==
    PoolInv => Pool!ConnectionsAreOfOne
<1>. SUFFICES ASSUME PoolInv PROVE Pool!ConnectionsAreOfOne
    OBVIOUS
<1>. DEFINE Using(r) == {x \in {conns[r], request[r]} : x.conn # 0 /\ ~x.old}
            Of(r) == {x.conn : x \in Using(r)}
<1>1. ASSUME NEW r \in Reqs PROVE Cardinality(Using(r)) < 2
    <2>1. ~(conns[r].conn # 0 /\ request[r].conn # 0)
        BY DEF PoolInv, Stages
    <2>2. Using(r) \subseteq {conns[r], request[r]}
        OBVIOUS
    <2>3. conns[r] \in Using(r) => request[r] \notin Using(r)
        BY <2>1
    <2>. HIDE DEF Using
    <2>. QED BY <2>2, <2>3, FewerThanTwo
<1>2. \A r \in Reqs : \A c \in Of(r) : c \in Conns /\ Uses(r, c)
    BY PoolConstants DEF PoolInv, Pool!PoolTyped, Uses, InUse
<1>3. \A r, q \in Reqs : r # q => Of(r) \intersect Of(q) = {}
    BY <1>2 DEF PoolInv, OneUser
<1>4. \A r \in Reqs : Of(r) \intersect (pool \union lost) = {}
    BY <1>2 DEF PoolInv, UsedIsOut
<1>. QED BY <1>1, <1>3, <1>4, CardinalityIs DEF Pool!ConnectionsAreOfOne, PoolInv, LostIsOut

-----------------------------------------------------------------------------
\* At first all connections are in the pool and no request is served.
LEMMA PoolInvInit == Pool!Init => PoolInv
<1>. QED BY PoolConstants DEF Pool!Init, PoolInv, Pool!PoolTyped, Stages, OneUser, UsedIsOut, LostIsOut,
            Uses, InUse, Pool!NoConn, Pool!Away


\* When nobody comes to have a connection, and nobody has what is put into the pool
\* or lost, connections stay of one.
LEMMA UsesShrink ==
    ASSUME PoolInv,
           \A r \in Reqs, c \in Conns : Uses(r, c)' => Uses(r, c) /\ c \notin pool' \union lost',
           pool' \intersect lost' = {}
    PROVE  OneUser' /\ UsedIsOut' /\ LostIsOut'
<1>. USE DEF PoolInv
<1>1. OneUser'
    BY DEF OneUser
<1>2. UsedIsOut'
    BY DEF UsedIsOut
<1>. QED BY <1>1, <1>2 DEF LostIsOut

\* What release does, to the requests it is for and to the pool.
LEMMA ReleaseKeeps ==
    ASSUME PoolInv, NEW rs \in SUBSET Reqs, Pool!release(rs), lost' = lost,
           \A q \in Reqs : InUse(request'[q]) => request'[q] = request[q]
    PROVE  /\ pool' \subseteq Conns
           /\ conns' \in [Reqs -> [conn : Conns \union {0}, age : -Extra..Idle, extra : 0..Extra, old : BOOLEAN]]
           /\ \A q \in Reqs : conns'[q] = IF q \in rs THEN Pool!NoConn ELSE conns[q]
           /\ OneUser' /\ UsedIsOut' /\ LostIsOut'
<1>. DEFINE Entries == [conn : Conns \union {0}, age : -Extra..Idle, extra : 0..Extra, old : BOOLEAN]
<1>1. \A q \in Reqs : conns'[q] = IF q \in rs THEN Pool!NoConn ELSE conns[q]
    BY DEF Pool!release, Pool!Collect
<1>2. Pool!NoConn \in Entries
    BY PoolConstants DEF Pool!NoConn
<1>3. conns' \in [Reqs -> Entries]
    BY <1>2 DEF Pool!release, Pool!Collect, PoolInv, Pool!PoolTyped
<1>4. \A c \in Pool!GivenBack(rs) : c \in Conns /\ \E q \in rs : Uses(q, c) /\ InUse(conns[q])
    BY DEF Pool!GivenBack, Pool!Has, Uses, InUse, PoolInv, Pool!PoolTyped
<1>5. \A c \in Conns, q \in rs : Uses(q, c) /\ InUse(conns[q]) => request[q].conn = 0
    BY DEF PoolInv, Stages, InUse
<1>6. pool' = pool \union Pool!GivenBack(rs) /\ pool' \subseteq Conns
    BY <1>4 DEF Pool!release, PoolInv, Pool!PoolTyped
<1>7. pool' \intersect lost' = {}
    BY <1>4, <1>6 DEF PoolInv, LostIsOut, UsedIsOut
<1>8. ASSUME NEW q \in Reqs, NEW c \in Conns, Uses(q, c)'
      PROVE  Uses(q, c) /\ c \notin pool' \union lost'
    <2>1. Uses(q, c)
        BY <1>8, <1>1 DEF Uses, InUse, Pool!NoConn
    <2>2. c \notin pool \union lost
        BY <2>1 DEF PoolInv, UsedIsOut
    <2>3. ASSUME c \in Pool!GivenBack(rs) PROVE FALSE
        <3>1. PICK p \in rs : Uses(p, c) /\ InUse(conns[p])
            BY <2>3, <1>4
        <3>2. p = q
            BY <2>1, <3>1 DEF PoolInv, OneUser
        <3>. QED BY <3>1, <3>2, <1>1, <1>5, <1>8 DEF Uses, InUse, Pool!NoConn
    <2>. QED BY <2>1, <2>2, <2>3, <1>6
<1>. QED BY <1>1, <1>3, <1>6, <1>7, <1>8, UsesShrink

-----------------------------------------------------------------------------
\* An error: whoever met it has nothing any more, and what it took is lost. After a
\* restart, whatever anyone has is of the earlier pool.
LEMMA ErrorKeeps ==
    ASSUME PoolInv, NEW r \in Reqs, NEW taken \in SUBSET Conns,
           Pool!tracebackHandler(r, taken),
           Pool!GivenBack({r}) \intersect taken = {},
           \A c \in taken : c \notin pool => Uses(r, c),
           taken \intersect lost = {}
    PROVE  PoolInv'
<1>. DEFINE Entries == [conn : Conns \union {0}, age : -Extra..Idle, extra : 0..Extra, old : BOOLEAN]
            Hands == [pc : {"away", "acquire", "prepare", "run"}, conn : Conns \union {0}, old : BOOLEAN]
            restart == Pool!Counted /\ dberr + 1 = Errors
            Old(x) == [x EXCEPT !.old = x.conn # 0]
<1>1. /\ Pool!NoConn \in Entries /\ Pool!Away \in Hands
      /\ conns \in [Reqs -> Entries] /\ request \in [Reqs -> Hands]
    BY PoolConstants DEF Pool!NoConn, Pool!Away, PoolInv, Pool!PoolTyped
<1>2. Pool!GivenBack({r}) \subseteq Conns /\ \A c \in Pool!GivenBack({r}) : Uses(r, c)
    BY DEF Pool!GivenBack, Pool!Has, Uses, InUse, PoolInv, Pool!PoolTyped
<1>3. \A x \in Entries : Old(x) \in Entries /\ Old(x).conn = x.conn /\ ~InUse(Old(x))
    BY DEF InUse
<1>4. \A x \in Hands : Old(x) \in Hands /\ Old(x).conn = x.conn /\ Old(x).pc = x.pc /\ ~InUse(Old(x))
    BY DEF InUse
<1>5. /\ conns' = [q \in Reqs |-> IF q = r THEN Pool!NoConn ELSE IF restart THEN Old(conns[q]) ELSE conns[q]]
      /\ request' = [q \in Reqs |-> IF q = r THEN Pool!Away ELSE IF restart THEN Old(request[q]) ELSE request[q]]
      /\ pool' = IF restart THEN Conns ELSE (pool \ taken) \union Pool!GivenBack({r})
      /\ lost' = IF restart THEN {} ELSE lost \union taken
    BY DEF Pool!tracebackHandler
<1>6. conns' \in [Reqs -> Entries] /\ request' \in [Reqs -> Hands]
    <2>. HIDE DEF Entries, Hands, Old, restart
    <2>. QED BY <1>1, <1>3, <1>4, <1>5
<1>7. pool' \subseteq Conns /\ lost' \subseteq Conns
    BY <1>2, <1>5 DEF PoolInv, Pool!PoolTyped
<1>8. dberr' \in 0..Errors - 1 /\ young' \in BOOLEAN
    <2>1. dberr \in 0..Errors - 1 /\ young \in BOOLEAN /\ Errors \in Nat \ {0}
        BY PoolConstants DEF PoolInv, Pool!PoolTyped
    <2>2. (dberr + 1) % Errors \in 0..Errors - 1
        BY <2>1
    <2>. QED BY <2>1, <2>2 DEF Pool!tracebackHandler
<1>9. Pool!PoolTyped'
    BY <1>6, <1>7, <1>8 DEF Pool!PoolTyped
<1>10. ASSUME NEW q \in Reqs
       PROVE  /\ q = r => conns'[q] = Pool!NoConn /\ request'[q] = Pool!Away
              /\ q # r => /\ conns'[q].conn = conns[q].conn
                          /\ request'[q].conn = request[q].conn /\ request'[q].pc = request[q].pc
              /\ q # r /\ restart => ~InUse(conns'[q]) /\ ~InUse(request'[q])
              /\ q # r /\ ~restart => conns'[q] = conns[q] /\ request'[q] = request[q]
    <2>1. conns[q] \in Entries /\ request[q] \in Hands
        BY <1>1
    <2>. HIDE DEF Entries, Hands, Old, restart
    <2>. QED BY <2>1, <1>3, <1>4, <1>5
<1>11. Pool!NoConn.conn = 0 /\ ~InUse(Pool!NoConn) /\ Pool!Away.conn = 0 /\ Pool!Away.pc = "away" /\ ~InUse(Pool!Away)
    BY DEF Pool!NoConn, Pool!Away, InUse
<1>12. Stages'
    <2>. HIDE DEF restart
    <2>. QED BY <1>10, <1>11 DEF Stages, PoolInv
<1>13. ASSUME NEW q \in Reqs, NEW c \in Conns, Uses(q, c)'
       PROVE  Uses(q, c) /\ q # r /\ ~restart
    <2>. HIDE DEF restart
    <2>. QED BY <1>10, <1>11, <1>13 DEF Uses
<1>14. pool' \intersect lost' = {}
    BY <1>2, <1>5 DEF PoolInv, LostIsOut, UsedIsOut
<1>15. ASSUME NEW q \in Reqs, NEW c \in Conns, Uses(q, c)'
       PROVE  Uses(q, c) /\ c \notin pool' \union lost'
    <2>1. Uses(q, c) /\ q # r /\ ~restart
        BY <1>13, <1>15
    <2>2. ~Uses(r, c) /\ c \notin pool \union lost
        BY <2>1 DEF PoolInv, OneUser, UsedIsOut
    <2>3. pool' = (pool \ taken) \union Pool!GivenBack({r}) /\ lost' = lost \union taken
        BY <2>1, <1>5
    <2>. HIDE DEF restart
    <2>. QED BY <2>1, <2>2, <2>3, <1>2
<1>16. OneUser' /\ UsedIsOut' /\ LostIsOut'
    BY <1>14, <1>15, UsesShrink
<1>. QED BY <1>9, <1>12, <1>16 DEF PoolInv

-----------------------------------------------------------------------------
\* Every step keeps the invariant.
LEMMA PoolInvNext ==
    PoolInv /\ [Pool!Next]_poolVars => PoolInv'
<1>. SUFFICES ASSUME PoolInv, [Pool!Next]_poolVars PROVE PoolInv'
    OBVIOUS
<1>. DEFINE Entries == [conn : Conns \union {0}, age : -Extra..Idle, extra : 0..Extra, old : BOOLEAN]
            Hands == [pc : {"away", "acquire", "prepare", "run"}, conn : Conns \union {0}, old : BOOLEAN]
<1>1. /\ conns \in [Reqs -> Entries] /\ request \in [Reqs -> Hands]
      /\ pool \subseteq Conns /\ lost \subseteq Conns /\ dberr \in 0..Errors - 1 /\ young \in BOOLEAN
    BY DEF PoolInv, Pool!PoolTyped
<1>2. ASSUME NEW r \in Reqs, Pool!new_conn(r) PROVE PoolInv'
    <2>1. Pool!Garbage \in SUBSET Reqs /\ Pool!release(Pool!Garbage) /\ lost' = lost
        BY <1>2 DEF Pool!new_conn, Pool!Garbage
    <2>2. request' = [request EXCEPT ![r].pc = "acquire"] /\ request[r].pc = "away"
        BY <1>2 DEF Pool!new_conn
    <2>3. \A q \in Reqs : /\ request'[q].conn = request[q].conn /\ request'[q].old = request[q].old
                          /\ request'[q].pc = IF q = r THEN "acquire" ELSE request[q].pc
        BY <1>1, <2>2
    <2>4. request[r].conn = 0 /\ conns[r].conn = 0
        BY <2>2 DEF PoolInv, Stages
    <2>5. \A q \in Reqs : InUse(request'[q]) => request'[q] = request[q]
        BY <1>1, <2>2, <2>4 DEF InUse
    <2>6. /\ pool' \subseteq Conns /\ conns' \in [Reqs -> Entries]
          /\ \A q \in Reqs : conns'[q] = IF q \in Pool!Garbage THEN Pool!NoConn ELSE conns[q]
          /\ OneUser' /\ UsedIsOut' /\ LostIsOut'
        BY <2>1, <2>5, ReleaseKeeps
    <2>7. request' \in [Reqs -> Hands]
        BY <1>1, <2>2
    <2>8. Pool!PoolTyped'
        BY <1>1, <1>2, <2>6, <2>7 DEF Pool!new_conn, Pool!PoolTyped
    <2>9. Stages'
        BY <2>3, <2>4, <2>6 DEF Stages, PoolInv, Pool!NoConn
    <2>. QED BY <2>6, <2>8, <2>9 DEF PoolInv
<1>3. ASSUME NEW r \in Reqs, Pool!close_conn(r) PROVE PoolInv'
    <2>1. {r} \in SUBSET Reqs /\ Pool!release({r}) /\ lost' = lost
        BY <1>3 DEF Pool!close_conn
    <2>2. request' = [request EXCEPT ![r] = Pool!Away] /\ request[r].pc = "run"
        BY <1>3 DEF Pool!close_conn
    <2>3. Pool!Away \in Hands /\ Pool!Away.conn = 0 /\ Pool!Away.pc = "away" /\ Pool!NoConn.conn = 0
        BY DEF Pool!Away, Pool!NoConn
    <2>4. \A q \in Reqs : request'[q] = IF q = r THEN Pool!Away ELSE request[q]
        BY <1>1, <2>2
    <2>5. \A q \in Reqs : InUse(request'[q]) => request'[q] = request[q]
        BY <2>3, <2>4 DEF InUse
    <2>6. /\ pool' \subseteq Conns /\ conns' \in [Reqs -> Entries]
          /\ \A q \in Reqs : conns'[q] = IF q \in {r} THEN Pool!NoConn ELSE conns[q]
          /\ OneUser' /\ UsedIsOut' /\ LostIsOut'
        BY <2>1, <2>5, ReleaseKeeps
    <2>7. request' \in [Reqs -> Hands]
        BY <1>1, <2>2, <2>3
    <2>8. Pool!PoolTyped'
        BY <1>1, <1>3, <2>6, <2>7 DEF Pool!close_conn, Pool!PoolTyped
    <2>9. Stages'
        BY <2>3, <2>4, <2>6 DEF Stages, PoolInv
    <2>. QED BY <2>6, <2>8, <2>9 DEF PoolInv
<1>4. ASSUME NEW r \in Reqs, NEW c \in Conns, Pool!Acquire(r, c) PROVE PoolInv'
    <2>. DEFINE taken == [pc |-> "prepare", conn |-> c, old |-> FALSE]
    <2>1. /\ request[r].pc = "acquire" /\ c \in pool /\ pool' = pool \ {c}
          /\ request' = [request EXCEPT ![r] = taken]
          /\ conns' = conns /\ dberr' = dberr /\ young' = young /\ lost' = lost
        BY <1>4 DEF Pool!Acquire
    <2>2. taken \in Hands /\ taken.conn = c /\ taken.pc = "prepare"
        OBVIOUS
    <2>3. \A q \in Reqs : request'[q] = IF q = r THEN taken ELSE request[q]
        BY <1>1, <2>1
    <2>4. Pool!PoolTyped'
        BY <1>1, <2>1, <2>2 DEF Pool!PoolTyped
    <2>. HIDE DEF taken
    <2>5. Stages'
        BY <2>1, <2>2, <2>3, PoolConstants DEF Stages, PoolInv
    <2>6. \A q \in Reqs, d \in Conns : Uses(q, d)' => Uses(q, d) \/ (q = r /\ d = c)
        BY <2>1, <2>2, <2>3 DEF Uses, InUse
    <2>7. \A q \in Reqs, d \in Conns : Uses(q, d) => d # c
        BY <2>1 DEF PoolInv, UsedIsOut
    <2>8. OneUser'
        BY <2>6, <2>7 DEF PoolInv, OneUser
    <2>9. UsedIsOut' /\ LostIsOut'
        BY <2>1, <2>6, <2>7 DEF PoolInv, UsedIsOut, LostIsOut
    <2>. QED BY <2>4, <2>5, <2>8, <2>9 DEF PoolInv
<1>5. ASSUME NEW r \in Reqs, Pool!Prepared(r) PROVE PoolInv'
    <2>. DEFINE entry == [Pool!NoConn EXCEPT !.conn = request[r].conn]
                hand == [Pool!Away EXCEPT !.pc = "run"]
    <2>1. /\ request[r].pc = "prepare" /\ ~request[r].old
          /\ conns' = [conns EXCEPT ![r] = entry] /\ request' = [request EXCEPT ![r] = hand]
          /\ pool' = pool /\ dberr' = dberr /\ young' = young /\ lost' = lost
        BY <1>5 DEF Pool!Prepared
    <2>2. entry \in Entries /\ entry.conn = request[r].conn /\ ~entry.old
        <3>1. 0 \in -Extra..Idle /\ 0 \in 0..Extra
            BY PoolConstants
        <3>2. request[r].conn \in Conns \union {0}
            BY <1>1
        <3>. QED BY <3>1, <3>2 DEF Pool!NoConn
    <2>3. hand \in Hands /\ hand.conn = 0 /\ hand.pc = "run"
        BY DEF Pool!Away
    <2>4. \A q \in Reqs : /\ conns'[q] = IF q = r THEN entry ELSE conns[q]
                          /\ request'[q] = IF q = r THEN hand ELSE request[q]
        BY <1>1, <2>1
    <2>5. Pool!PoolTyped'
        BY <1>1, <2>1, <2>2, <2>3 DEF Pool!PoolTyped
    <2>. HIDE DEF entry, hand
    <2>6. Stages'
        BY <2>1, <2>3, <2>4 DEF Stages, PoolInv
    <2>7. \A q \in Reqs, d \in Conns : Uses(q, d)' => Uses(q, d)
        BY <2>1, <2>2, <2>3, <2>4 DEF Uses, InUse
    <2>8. OneUser' /\ UsedIsOut' /\ LostIsOut'
        BY <2>1, <2>7, UsesShrink DEF PoolInv, UsedIsOut, LostIsOut
    <2>. QED BY <2>5, <2>6, <2>8 DEF PoolInv
<1>6. ASSUME NEW r \in Reqs, NEW extra \in 0..Extra, Pool!refresh_conn(r, extra) PROVE PoolInv'
    <2>. DEFINE entry == [conns[r] EXCEPT !.age = -extra, !.extra = extra]
    <2>1. /\ conns' = [conns EXCEPT ![r] = entry]
          /\ pool' = pool /\ request' = request /\ dberr' = dberr /\ young' = young /\ lost' = lost
        BY <1>6, <1>1 DEF Pool!refresh_conn
    <2>2. conns[r] \in Entries /\ -extra \in -Extra..Idle
        BY <1>1, PoolConstants
    <2>3. entry \in Entries /\ entry.conn = conns[r].conn /\ entry.old = conns[r].old
        BY <2>2
    <2>4. \A q \in Reqs : conns'[q] = IF q = r THEN entry ELSE conns[q]
        BY <1>1, <2>1
    <2>5. Pool!PoolTyped'
        BY <1>1, <2>1, <2>3 DEF Pool!PoolTyped
    <2>. HIDE DEF entry
    <2>6. Stages'
        BY <2>1, <2>3, <2>4 DEF Stages, PoolInv
    <2>7. \A q \in Reqs, d \in Conns : Uses(q, d)' => Uses(q, d)
        BY <2>1, <2>3, <2>4 DEF Uses, InUse
    <2>8. OneUser' /\ UsedIsOut' /\ LostIsOut'
        BY <2>1, <2>7, UsesShrink DEF PoolInv, UsedIsOut, LostIsOut
    <2>. QED BY <2>5, <2>6, <2>8 DEF PoolInv
<1>7. ASSUME NEW r \in Reqs, Pool!execute(r) PROVE PoolInv'
    <2>1. conns[r].extra \in 0..Extra
        BY <1>1
    <2>. QED BY <1>6, <1>7, <2>1 DEF Pool!execute
<1>8. ASSUME NEW r \in Reqs, Pool!extend_conn(r) PROVE PoolInv'
    BY <1>6, <1>8 DEF Pool!extend_conn
<1>9. ASSUME NEW r \in Reqs, Pool!tracebackHandler(r, {}) PROVE PoolInv'
    <2>1. {} \in SUBSET Conns /\ Pool!GivenBack({r}) \intersect {} = {} /\ {} \intersect lost = {}
        OBVIOUS
    <2>2. \A c \in {} : c \notin pool => Uses(r, c)
        OBVIOUS
    <2>. QED BY ONLY <1>9, <2>1, <2>2, ErrorKeeps, PoolInv
<1>10. ASSUME NEW r \in Reqs, Pool!NotPrepared(r) PROVE PoolInv'
    <2>. DEFINE taken == IF request[r].old THEN {} ELSE {request[r].conn}
    <2>1. request[r].pc = "prepare" /\ Pool!tracebackHandler(r, taken)
        BY <1>10 DEF Pool!NotPrepared
    <2>2. request[r].conn \in Conns /\ conns[r].conn = 0
        BY <1>1, <2>1 DEF PoolInv, Stages
    <2>3. Pool!GivenBack({r}) = {}
        BY <2>2 DEF Pool!GivenBack, Pool!Has
    <2>4. taken \in SUBSET Conns /\ \A c \in taken : Uses(r, c)
        BY <2>2, PoolConstants DEF Uses, InUse
    <2>5. taken \intersect lost = {}
        BY <2>4 DEF PoolInv, UsedIsOut
    <2>. HIDE DEF taken
    <2>. QED BY <2>1, <2>3, <2>4, <2>5, ErrorKeeps
<1>11. ASSUME NEW r \in Reqs, Pool!Timeout(r) \/ Pool!Terminated(r) PROVE PoolInv'
    BY <1>9, <1>11 DEF Pool!Timeout, Pool!Terminated
<1>12. ASSUME NEW r \in Reqs, Pool!Late(r) PROVE PoolInv'
    <2>1. Pool!GivenBack({r}) = {}
        BY <1>12 DEF Pool!Late, Pool!GivenBack
    <2>2. ASSUME NEW c \in pool, Pool!tracebackHandler(r, {c}) PROVE PoolInv'
        <3>1. {c} \in SUBSET Conns /\ {c} \intersect lost = {} /\ c \in pool
            BY <1>1, <2>2 DEF PoolInv, LostIsOut
        <3>. QED BY <2>1, <2>2, <3>1, ErrorKeeps
    <2>. QED BY <1>9, <1>12, <2>2 DEF Pool!Late
<1>13. CASE Pool!Tick
    <2>1. /\ conns' = [q \in Reqs |-> IF Pool!Has(q) /\ conns[q].age < Idle
                                      THEN [conns[q] EXCEPT !.age = @ + 1] ELSE conns[q]]
          /\ pool' = pool /\ request' = request /\ dberr' = dberr /\ young' = young /\ lost' = lost
        BY <1>13 DEF Pool!Tick
    <2>2. ASSUME NEW q \in Reqs
          PROVE  conns'[q] \in Entries /\ conns'[q].conn = conns[q].conn /\ conns'[q].old = conns[q].old
        <3>1. conns[q] \in Entries
            BY <1>1
        <3>2. conns[q].age < Idle => conns[q].age + 1 \in -Extra..Idle
            BY <3>1, PoolConstants
        <3>. QED BY <2>1, <3>1, <3>2
    <2>3. Pool!PoolTyped'
        BY <1>1, <2>1, <2>2 DEF Pool!PoolTyped
    <2>4. Stages'
        BY <2>1, <2>2 DEF Stages, PoolInv
    <2>5. \A q \in Reqs, d \in Conns : Uses(q, d)' => Uses(q, d)
        BY <2>1, <2>2 DEF Uses, InUse
    <2>6. OneUser' /\ UsedIsOut' /\ LostIsOut'
        BY <2>1, <2>5, UsesShrink DEF PoolInv, UsedIsOut, LostIsOut
    <2>. QED BY <2>3, <2>4, <2>6 DEF PoolInv
<1>14. CASE Pool!Mature
    <2>1. /\ pool' = pool /\ conns' = conns /\ request' = request /\ dberr' = dberr /\ lost' = lost
          /\ young' \in BOOLEAN
        BY <1>14 DEF Pool!Mature
    <2>2. Pool!PoolTyped'
        BY <1>1, <2>1 DEF Pool!PoolTyped
    <2>3. Stages' /\ \A q \in Reqs, d \in Conns : Uses(q, d)' => Uses(q, d)
        BY <2>1 DEF PoolInv, Stages, Uses, InUse
    <2>4. OneUser' /\ UsedIsOut' /\ LostIsOut'
        BY <2>1, <2>3, UsesShrink DEF PoolInv, UsedIsOut, LostIsOut
    <2>. QED BY <2>2, <2>3, <2>4 DEF PoolInv
<1>15. CASE UNCHANGED poolVars
    BY <1>15 DEF poolVars, PoolInv, Pool!PoolTyped, Stages, OneUser, UsedIsOut, LostIsOut, Uses, InUse
<1>16. ASSUME NEW r \in Reqs, Pool!Work(r) PROVE PoolInv'
    <2>1. CASE Pool!new_conn(r)
        BY <1>2, <2>1
    <2>2. CASE Pool!Prepared(r)
        BY <1>5, <2>2
    <2>3. CASE Pool!NotPrepared(r)
        BY <1>10, <2>3
    <2>4. CASE Pool!Timeout(r) \/ Pool!Terminated(r)
        BY <1>11, <2>4
    <2>5. CASE Pool!Late(r)
        BY <1>12, <2>5
    <2>6. CASE \E c \in Conns : Pool!Acquire(r, c)
        BY <1>4, <2>6
    <2>. QED BY <1>16, <2>1, <2>2, <2>3, <2>4, <2>5, <2>6 DEF Pool!Work
<1>. QED BY <1>3, <1>7, <1>8, <1>13, <1>14, <1>15, <1>16 DEF Pool!Next

\* The types hold in every state, of any number of requests and connections. (db.py,
\* the pool and the table conns.)
THEOREM PoolIsTyped == Pool!Spec => []Pool!PoolTyped
<1>1. PoolInv => Pool!PoolTyped
    BY DEF PoolInv
<1>. QED BY <1>1, PoolInvInit, PoolInvNext, PTL DEF Pool!Spec, Pool!poolVars, poolVars

\* A connection is of one request, in every state, of any number of them: also when
\* it was collected from under a request that goes on, and when the pool was started
\* again under requests that go on. (db.py, release and refresh_conn.)
THEOREM OfOneRequest == Pool!Spec => []Pool!ConnectionsAreOfOne
<1>. QED BY OfOneFollows, PoolInvInit, PoolInvNext, PTL DEF Pool!Spec, Pool!poolVars, poolVars

-----------------------------------------------------------------------------
(* The transports under way (ActiveDeliveries).                            *)

\* A row, a pass that runs, and a delivery.
Jobs == {Active!NoRow} \union [status : Active!Statuses, first : 1..MaxTime, start : Nat]
Ending == {"completed", "duplicate", "aborted"}
Closings == UNION {[S -> Ending] : S \in SUBSET Ids}
Runs == [pc : {"idle", "update"}, upserts : Active!Listed, close : Closings, own : SUBSET (Ids \union {0})]
Logs == [own : Ids \union {0}, start : Nat, stop : 1..MaxTime]

Running(p) == run[p].pc = "update"
Seen(p) == Active!Upserted(rows, run[p].upserts)
Kept(p, k) == Seen(p)[k].status = "in_progress" /\ k \notin DOMAIN run[p].close

ActiveTypes ==
    /\ rows \in [Ids -> Jobs]
    /\ \A k \in Ids : rows[k].start \in Starts(k) \union {0} /\ rows[k].first <= now
    /\ now \in 1..MaxTime /\ holder \in Passers \union {0} /\ accident \in {"none", "failure", "expiry"}
    /\ run \in [Passers -> Runs]
    /\ \A p \in Passers : ~Running(p) => run[p] = Active!NoRun
    /\ \A p \in Passers : \A k \in DOMAIN run[p].close : rows[k].status # "absent" \/ k \in DOMAIN run[p].upserts

\* A delivery of a job is logged once, after it began.
LoggedOnce ==
    /\ logged \subseteq Logs
    /\ \A d \in logged : [own |-> d.own, start |-> d.start] \in Made /\ d.start <= d.stop
    /\ \A d, e \in logged : d.own = e.own /\ d.own # 0 => d = e

\* A pass holds the lease as long as none expired, and passes upsert different rows.
LeaseHeld == accident # "expiry" => \A p \in Passers : Running(p) => holder = p
OfOnePass == \A p, q \in Passers : p # q => DOMAIN run[p].upserts \intersect DOMAIN run[q].upserts = {}

\* What a pass is about to leave open is shown once.
KeptApart ==
    accident # "expiry" => \A p \in Passers : Running(p) =>
        \A j, k \in Ids : (j # k /\ Kept(p, k) /\ (Kept(p, j) \/ Seen(p)[j].status = "abandoned")) =>
            ~Active!same_trip(Seen(p)[j].start, Seen(p)[k].start)

\* A row whose start a pass brings along is completed by it, unless its delivery was
\* logged after the row was first seen.
BroughtIsCompleted ==
    \A p \in Passers : \A k \in DOMAIN run[p].upserts : \A d \in logged :
        (run[p].upserts[k] # 0 /\ Active!Open(k) /\ d.own = k) =>
            \/ k \in DOMAIN run[p].close /\ run[p].close[k] = "completed"
            \/ d.stop >= rows[k].first

\* A pass closes a row otherwise only if the tracker did not tell when it started, and
\* its delivery had been logged before it was first seen.
OtherwiseUnknown ==
    \A p \in Passers : \A k \in DOMAIN run[p].close : \A d \in logged :
        (Active!StillOpen(Seen(p), k) /\ k \in run[p].own /\ d.own = k) =>
            \/ run[p].close[k] = "completed"
            \/ Seen(p)[k].start = 0 /\ (k \notin DOMAIN run[p].upserts => d.stop < rows[k].first)
OwnIsLogged == \A p \in Passers : \A k \in run[p].own : \E d \in logged : d.own = k

ActiveInv ==
    /\ ActiveTypes /\ LoggedOnce /\ LeaseHeld /\ OfOnePass
    /\ Active!ShownOnce /\ KeptApart
    /\ BroughtIsCompleted /\ OtherwiseUnknown /\ OwnIsLogged

-----------------------------------------------------------------------------
(* The operators of the model.                                             *)

\* A snapshot tells of jobs and when they started.
LEMMA ListedTells ==
    ASSUME NEW l \in Active!Listed
    PROVE  DOMAIN l \subseteq Ids /\ \A k \in DOMAIN l : l[k] \in Starts(k) /\ l[k] \in Nat
<1>1. PICK S \in SUBSET Ids : l \in [S -> UNION {Starts(k) : k \in S}] /\ \A k \in S : l[k] \in Starts(k)
    BY DEF Active!Listed
<1>2. DOMAIN l = S
    BY <1>1
<1>. QED BY <1>1, <1>2, ActiveConstants

\* What a pass sees in a row: its own snapshot, or the row as it is.
LEMMA UpsertedIs ==
    ASSUME NEW f \in [Ids -> Jobs], NEW l \in Active!Listed, NEW k \in Ids
    PROVE  /\ k \notin DOMAIN l => Active!Upserted(f, l)[k] = f[k]
           /\ k \in DOMAIN l =>
                /\ Active!Upserted(f, l)[k].start = l[k]
                /\ Active!Upserted(f, l)[k].status = IF f[k].status = "absent" THEN "in_progress" ELSE f[k].status
                /\ Active!Upserted(f, l)[k].first = IF f[k].status = "absent" THEN now ELSE f[k].first
           /\ now \in 1..MaxTime => Active!Upserted(f, l)[k] \in Jobs
<1>. DEFINE anew == [status |-> "in_progress", first |-> now, start |-> l[k]]
            told == [f[k] EXCEPT !.start = l[k]]
<1>1. f[k] \in Jobs /\ (k \in DOMAIN l => l[k] \in Nat)
    BY ListedTells
<1>2. Active!Upserted(f, l)[k] = IF k \notin DOMAIN l THEN f[k] ELSE IF f[k].status = "absent" THEN anew ELSE told
    BY DEF Active!Upserted
<1>3. /\ k \notin DOMAIN l => Active!Upserted(f, l)[k] = f[k]
      /\ k \in DOMAIN l /\ f[k].status = "absent" => Active!Upserted(f, l)[k] = anew
      /\ k \in DOMAIN l /\ f[k].status # "absent" => Active!Upserted(f, l)[k] = told
    <2>. HIDE DEF anew, told
    <2>. QED BY <1>2
<1>4. now \in 1..MaxTime /\ k \in DOMAIN l => anew \in Jobs
    BY <1>1 DEF Jobs, Active!Statuses
<1>5. k \in DOMAIN l /\ f[k].status # "absent" =>
        told \in Jobs /\ told.start = l[k] /\ told.status = f[k].status /\ told.first = f[k].first
    <2>1. f[k].status # "absent" => f[k] \in [status : Active!Statuses, first : 1..MaxTime, start : Nat]
        BY <1>1 DEF Jobs, Active!NoRow
    <2>. QED BY <1>1, <2>1 DEF Jobs
<1>6. anew.start = l[k] /\ anew.status = "in_progress" /\ anew.first = now
    OBVIOUS
<1>. HIDE DEF anew, told, Jobs
<1>. QED BY <1>1, <1>3, <1>4, <1>5, <1>6

\* What a pass sees are rows.
LEMMA UpsertedTyped ==
    ASSUME NEW f \in [Ids -> Jobs], NEW l \in Active!Listed, now \in 1..MaxTime
    PROVE  Active!Upserted(f, l) \in [Ids -> Jobs]
<1>1. \A k \in Ids : Active!Upserted(f, l)[k] \in Jobs
    BY UpsertedIs
<1>. DEFINE row(k) ==
        IF k \notin DOMAIN l THEN f[k]
        ELSE IF f[k].status = "absent" THEN [status |-> "in_progress", first |-> now, start |-> l[k]]
        ELSE [f[k] EXCEPT !.start = l[k]]
<1>2. Active!Upserted(f, l) = [k \in Ids |-> row(k)]
    BY DEF Active!Upserted
<1>. HIDE DEF Jobs, row
<1>3. \A k \in Ids : Active!Upserted(f, l)[k] = row(k)
    BY <1>2
<1>. QED BY <1>1, <1>2, <1>3

-----------------------------------------------------------------------------
\* Decisions that each rest on those before them, in some order, can be taken for
\* finitely many.
InOrder(R, A) ==
    /\ \A j, k, m \in A : <<j, k>> \in R /\ <<k, m>> \in R => <<j, m>> \in R
    /\ \A k \in A : <<k, k>> \notin R
DecidedBy(v, A, R, g) == \A k \in A : v[k] = g[k][{j \in A : <<j, k>> \in R /\ v[j] = "keep"}]
LEMMA DecisionsExist ==
    ASSUME NEW A, IsFiniteSet(A), NEW D, NEW R, InOrder(R, A), NEW g \in [A -> [SUBSET A -> D]]
    PROVE  \E v \in [A -> D] : DecidedBy(v, A, R, g)
<1>. DEFINE Earlier(k) == {j \in A : <<j, k>> \in R}
            Rank(k) == Cardinality(Earlier(k))
            Decided(v, n) == \A k \in A : Rank(k) <= n => v[k] = g[k][{j \in A : <<j, k>> \in R /\ v[j] = "keep"}]
            Undecided == {n \in Nat : ~\E v \in [A -> D] : Decided(v, n)}
<1>1. \A k \in A : IsFiniteSet(Earlier(k)) /\ Rank(k) \in Nat /\ Rank(k) <= Cardinality(A)
    <2>1. \A k \in A : Earlier(k) \in SUBSET A
        OBVIOUS
    <2>. HIDE DEF Earlier
    <2>2. \A k \in A : IsFiniteSet(Earlier(k)) /\ Rank(k) <= Cardinality(A)
        BY <2>1, FS_Subset
    <2>. QED BY <2>2, FS_CardinalityType
<1>2. ASSUME NEW j \in A, NEW k \in A, <<j, k>> \in R PROVE Rank(j) < Rank(k)
    <2>1. Earlier(j) \subseteq Earlier(k) /\ j \in Earlier(k) /\ j \notin Earlier(j)
        BY <1>2 DEF InOrder
    <2>2. Rank(j) <= Rank(k) /\ (Rank(j) = Rank(k) => Earlier(j) = Earlier(k))
        BY <1>1, <2>1, FS_Subset
    <2>3. Rank(j) \in Nat /\ Rank(k) \in Nat
        BY <1>1
    <2>. HIDE DEF Earlier, Rank
    <2>4. Rank(j) # Rank(k)
        BY <2>1, <2>2
    <2>. QED BY <2>2, <2>3, <2>4
<1>. HIDE DEF Earlier, Rank
<1>3. Undecided = {}
    <2>1. SUFFICES ASSUME Undecided # {} PROVE FALSE
        OBVIOUS
    <2>2. PICK n \in Undecided : \A m \in Undecided : n <= m
        <3>1. Undecided \in SUBSET Nat
            OBVIOUS
        <3>. HIDE DEF Undecided
        <3>. QED BY <2>1, <3>1, LeastNatural
    <2>3. n \in Nat
        OBVIOUS
    <2>4. \E h \in [A -> D] : \A k \in A : Rank(k) < n => h[k] = g[k][{j \in A : <<j, k>> \in R /\ h[j] = "keep"}]
        <3>1. CASE n = 0
            <4>1. \A k \in A : ~(Rank(k) < 0)
                BY <1>1
            <4>2. [k \in A |-> g[k][{}]] \in [A -> D]
                OBVIOUS
            <4>. QED BY <3>1, <4>1, <4>2
        <3>2. CASE n # 0
            <4>1. n - 1 \in Nat /\ ~(n <= n - 1)
                BY <2>3, <3>2
            <4>2. n - 1 \notin Undecided
                <5>. HIDE DEF Undecided
                <5>. QED BY <2>2, <4>1
            <4>3. PICK h \in [A -> D] : Decided(h, n - 1)
                BY <4>1, <4>2
            <4>4. \A k \in A : Rank(k) < n => Rank(k) <= n - 1
                BY <1>1, <2>3
            <4>. QED BY <4>3, <4>4
        <3>. QED BY <3>1, <3>2
    <2>5. PICK h \in [A -> D] : \A k \in A : Rank(k) < n => h[k] = g[k][{j \in A : <<j, k>> \in R /\ h[j] = "keep"}]
        BY <2>4
    <2>. DEFINE v == [k \in A |-> IF Rank(k) < n THEN h[k] ELSE g[k][{j \in A : <<j, k>> \in R /\ h[j] = "keep"}]]
    <2>6. v \in [A -> D]
        <3>1. \A k \in A : {j \in A : <<j, k>> \in R /\ h[j] = "keep"} \in SUBSET A
            OBVIOUS
        <3>2. \A k \in A : \A K \in SUBSET A : g[k][K] \in D
            OBVIOUS
        <3>. QED BY <3>1, <3>2
    <2>7. ASSUME NEW k \in A, Rank(k) <= n PROVE v[k] = g[k][{j \in A : <<j, k>> \in R /\ v[j] = "keep"}]
        <3>1. \A j \in A : <<j, k>> \in R => Rank(j) < n
            BY <1>1, <1>2, <2>3, <2>7
        <3>2. \A j \in A : <<j, k>> \in R => v[j] = h[j]
            BY <3>1
        <3>3. {j \in A : <<j, k>> \in R /\ v[j] = "keep"} = {j \in A : <<j, k>> \in R /\ h[j] = "keep"}
            <4>. HIDE DEF v
            <4>. QED BY <3>2
        <3>4. v[k] = g[k][{j \in A : <<j, k>> \in R /\ h[j] = "keep"}]
            BY <2>5
        <3>. QED BY <3>3, <3>4
    <2>8. Decided(v, n)
        <3>. HIDE DEF v
        <3>. QED BY <2>7
    <2>9. n \notin Undecided
        <3>. HIDE DEF v, Decided
        <3>. QED BY <2>6, <2>8
    <2>. HIDE DEF Undecided
    <2>. QED BY <2>2, <2>9
<1>4. Cardinality(A) \in Nat
    BY FS_CardinalityType
<1>5. PICK v \in [A -> D] : Decided(v, Cardinality(A))
    BY <1>3, <1>4
<1>. QED BY <1>1, <1>5 DEF DecidedBy

-----------------------------------------------------------------------------
(* What a pass decides.                                                    *)

OpenOf(f) == {k \in Ids : f[k].status = "in_progress"}
LookedAt(f) == IF OpenOf(f) = {} THEN {} ELSE Active!Completed(f, OpenOf(f))
SeenBefore(f, j, k) == f[j].first < f[k].first \/ (f[j].first = f[k].first /\ j < k)
KeptBefore(f, v, k) == {j \in OpenOf(f) : SeenBefore(f, j, k) /\ v[j] = "keep"}

\* A verdict is one of four.
LEMMA VerdictIsOne ==
    \A f, k, done, keep : Active!Verdict(f, k, done, keep) \in Ending \union {"keep"}
<1>. QED BY DEF Active!Verdict, Ending

\* The verdicts are one for each row that is open, given those on the rows before it.
LEMMA VerdictsAre ==
    ASSUME NEW f \in [Ids -> Jobs]
    PROVE  /\ Active!Verdicts(f) \in [OpenOf(f) -> Ending \union {"keep"}]
           /\ \A k \in OpenOf(f) : Active!Verdicts(f)[k] = Active!Verdict(f, k, LookedAt(f), KeptBefore(f, Active!Verdicts(f), k))
<1>. DEFINE A == OpenOf(f)
            D == Ending \union {"keep"}
            done == LookedAt(f)
            R == {x \in A \X A : SeenBefore(f, x[1], x[2])}
            g == [k \in A |-> [K \in SUBSET A |-> Active!Verdict(f, k, done, K)]]
            Right(v) == v = [k \in A |-> Active!Verdict(f, k, done, {j \in A : SeenBefore(f, j, k) /\ v[j] = "keep"})]
<1>1. IsFiniteSet(A)
    BY ActiveConstants, FS_Subset DEF OpenOf
<1>2. \A k \in A : k \in Nat /\ f[k].first \in Nat
    <2>1. \A k \in A : k \in Ids /\ f[k] \in Jobs
        BY DEF OpenOf
    <2>2. Ids \subseteq Nat
        BY ActiveConstants
    <2>3. \A x \in Jobs : x.first \in Nat
        BY ActiveConstants DEF Jobs, Active!NoRow
    <2>. HIDE DEF A
    <2>. QED BY <2>1, <2>2, <2>3
<1>3. \A j, k \in A : <<j, k>> \in R <=> SeenBefore(f, j, k)
    OBVIOUS
<1>4. \A j, k, m \in A : SeenBefore(f, j, k) /\ SeenBefore(f, k, m) => SeenBefore(f, j, m)
    <2>. HIDE DEF A
    <2>. QED BY <1>2 DEF SeenBefore
<1>5. \A k \in A : ~SeenBefore(f, k, k)
    <2>. HIDE DEF A
    <2>. QED BY <1>2 DEF SeenBefore
<1>6. g \in [A -> [SUBSET A -> D]]
    BY VerdictIsOne
<1>7. \A k \in A : \A K \in SUBSET A : g[k][K] = Active!Verdict(f, k, done, K)
    OBVIOUS
<1>. HIDE DEF A, D, R, g, done
<1>8. PICK v \in [A -> D] : DecidedBy(v, A, R, g)
    <2>1. InOrder(R, A)
        BY <1>3, <1>4, <1>5 DEF InOrder
    <2>. QED BY <1>1, <1>6, <2>1, DecisionsExist
<1>9. ASSUME NEW k \in A PROVE v[k] = Active!Verdict(f, k, done, {j \in A : SeenBefore(f, j, k) /\ v[j] = "keep"})
    <2>1. {j \in A : <<j, k>> \in R /\ v[j] = "keep"} = {j \in A : SeenBefore(f, j, k) /\ v[j] = "keep"}
        BY <1>3
    <2>2. {j \in A : SeenBefore(f, j, k) /\ v[j] = "keep"} \in SUBSET A
        OBVIOUS
    <2>. QED BY <1>7, <1>8, <2>1, <2>2 DEF DecidedBy
<1>10. Right(v)
    BY <1>9
<1>11. Right(CHOOSE w : Right(w))
    BY <1>10
<1>12. Active!Verdicts(f) = CHOOSE w : Right(w)
    BY Zenon DEF Active!Verdicts, A, done, OpenOf, LookedAt, SeenBefore
<1>13. Right(Active!Verdicts(f))
    BY <1>11, <1>12
<1>14. \A k \in A : Active!Verdicts(f)[k] = Active!Verdict(f, k, done, KeptBefore(f, Active!Verdicts(f), k))
    BY <1>13 DEF KeptBefore, A
<1>15. \A k \in A : Active!Verdicts(f)[k] \in D
    BY <1>14, VerdictIsOne DEF D
<1>16. DOMAIN Active!Verdicts(f) = A /\ Active!Verdicts(f) = [k \in A |-> Active!Verdicts(f)[k]]
    BY <1>13
<1>. QED BY <1>14, <1>15, <1>16 DEF A, D, done

\* Two starts are of one trip whichever is named first.
LEMMA SameTripEitherWay == \A x, y \in Nat : Active!same_trip(x, y) <=> Active!same_trip(y, x)
<1>. QED BY ActiveConstants DEF Active!same_trip

\* Rows that are left open are of different trips, and of other ones than those that
\* were given up.
LEMMA KeptAreApart ==
    ASSUME NEW f \in [Ids -> Jobs], NEW k \in OpenOf(f), Active!Verdicts(f)[k] = "keep",
           NEW j \in Ids, j # k,
           \/ f[j].status = "abandoned"
           \/ j \in OpenOf(f) /\ Active!Verdicts(f)[j] = "keep"
    PROVE  ~Active!same_trip(f[j].start, f[k].start)
<1>1. /\ k \in Ids /\ j \in Nat /\ k \in Nat
      /\ f[j].start \in Nat /\ f[k].start \in Nat /\ f[j].first \in Nat /\ f[k].first \in Nat
    <2>1. k \in Ids /\ f[j] \in Jobs /\ f[k] \in Jobs
        BY DEF OpenOf
    <2>. QED BY <2>1, ActiveConstants DEF Jobs, Active!NoRow
<1>2. ASSUME NEW m \in OpenOf(f), Active!Verdicts(f)[m] = "keep"
      PROVE  /\ \A i \in Ids : f[i].status \in {"abandoned", "aborted"} => ~Active!same_trip(f[m].start, f[i].start)
             /\ \A i \in KeptBefore(f, Active!Verdicts(f), m) : ~Active!same_trip(f[m].start, f[i].start)
    <2>1. Active!Verdict(f, m, LookedAt(f), KeptBefore(f, Active!Verdicts(f), m)) = "keep"
        BY <1>2, VerdictsAre
    <2>. QED BY <2>1 DEF Active!Verdict
<1>3. CASE f[j].status = "abandoned"
    <2>1. ~Active!same_trip(f[k].start, f[j].start)
        BY <1>2, <1>3
    <2>. QED BY <1>1, <2>1, SameTripEitherWay
<1>4. CASE j \in OpenOf(f) /\ Active!Verdicts(f)[j] = "keep"
    <2>1. SeenBefore(f, j, k) \/ SeenBefore(f, k, j)
        BY <1>1 DEF SeenBefore
    <2>2. CASE SeenBefore(f, j, k)
        <3>1. j \in KeptBefore(f, Active!Verdicts(f), k)
            BY <1>4, <2>2 DEF KeptBefore
        <3>2. ~Active!same_trip(f[k].start, f[j].start)
            BY <1>2, <3>1
        <3>. QED BY <1>1, <3>2, SameTripEitherWay
    <2>3. CASE SeenBefore(f, k, j)
        <3>1. k \in KeptBefore(f, Active!Verdicts(f), j)
            BY <2>3 DEF KeptBefore
        <3>. QED BY <1>2, <1>4, <3>1
    <2>. QED BY <2>1, <2>2, <2>3
<1>. QED BY <1>3, <1>4

\* A row whose delivery was logged is completed, if the tracker tells when it started or
\* it was logged after the row was first seen.
LEMMA LoggedIsCompleted ==
    ASSUME NEW f \in [Ids -> Jobs], NEW k \in OpenOf(f), LoggedOnce,
           f[k].start \in Starts(k) \union {0},
           NEW d \in logged, d.own = k, f[k].start # 0 \/ d.stop >= f[k].first
    PROVE  Active!Verdicts(f)[k] = "completed"
<1>1. /\ k \in Ids /\ k # 0 /\ k \in Nat
      /\ \A i \in Ids : f[i].start \in Nat /\ f[i].first \in Nat
      /\ d.start \in Nat /\ d.stop \in Nat /\ d.start <= d.stop
      /\ [own |-> d.own, start |-> d.start] \in Made
    <2>1. k \in Ids
        BY DEF OpenOf
    <2>2. \A i \in Ids : f[i] \in Jobs
        OBVIOUS
    <2>3. d \in Logs
        BY DEF LoggedOnce
    <2>4. \A i \in Ids : f[i].start \in Nat /\ f[i].first \in Nat
        BY <2>2, ActiveConstants DEF Jobs, Active!NoRow
    <2>5. d.start \in Nat /\ d.stop \in Nat
        BY <2>3, ActiveConstants DEF Logs
    <2>. QED BY <2>1, <2>4, <2>5, ActiveConstants DEF LoggedOnce
<1>. DEFINE ages == {Active!Age(f, i) : i \in OpenOf(f)}
<1>2. Active!Age(f, k) <= d.stop + Near
    <2>1. CASE f[k].start # 0
        <3>. DEFINE m == [own |-> d.own, start |-> d.start]
        <3>1. m \in Made /\ m.own = k /\ m.start = d.start
            BY <1>1
        <3>2. f[k].start \in Starts(k)
            BY <2>1
        <3>. HIDE DEF m
        <3>3. f[k].start <= d.start + Near
            BY <1>1, <3>1, <3>2, ActiveConstants
        <3>. QED BY <1>1, <2>1, <3>3, ActiveConstants DEF Active!Age
    <2>2. CASE f[k].start = 0
        BY <1>1, <2>2, ActiveConstants DEF Active!Age
    <2>. QED BY <2>1, <2>2
<1>3. Active!Min(ages) \in Nat /\ Active!Min(ages) <= Active!Age(f, k)
    <2>1. ages \in SUBSET Nat /\ Active!Age(f, k) \in ages
        BY <1>1 DEF Active!Age, OpenOf
    <2>. HIDE DEF ages
    <2>2. \E m \in ages : \A n \in ages : m <= n
        BY <2>1, LeastNatural
    <2>3. Active!Min(ages) \in ages /\ \A n \in ages : Active!Min(ages) <= n
        BY <2>2 DEF Active!Min
    <2>. QED BY <2>1, <2>3
<1>4. d \in LookedAt(f)
    <2>1. OpenOf(f) # {}
        OBVIOUS
    <2>2. Active!Age(f, k) \in Nat
        BY <1>1 DEF Active!Age
    <2>3. d.stop >= Active!Min(ages) - Near
        <3>. HIDE DEF ages
        <3>. QED BY <1>1, <1>2, <1>3, <2>2, ActiveConstants
    <2>. QED BY <2>1, <2>3 DEF LookedAt, Active!Completed
<1>5. {e \in LookedAt(f) : e.own = k} = {d}
    <2>1. LookedAt(f) \subseteq logged
        BY DEF LookedAt, Active!Completed
    <2>. QED BY <1>1, <1>4, <2>1 DEF LoggedOnce
<1>6. Cardinality({e \in LookedAt(f) : e.own = k}) = 1
    BY <1>5, FS_Singleton
<1>7. Active!Cardinality({e \in LookedAt(f) : e.own = k}) = 1
    BY <1>6, CardinalityIs
<1>. QED BY <1>7, VerdictsAre DEF Active!Verdict

-----------------------------------------------------------------------------
(* The types.                                                              *)

\* What a running pass sees in each row.
SeenRight ==
    \A p \in Passers, k \in Ids :
        LET u == run[p].upserts IN
        /\ Seen(p)[k] \in Jobs /\ Seen(p)[k].start \in Starts(k) \union {0} /\ Seen(p)[k].first <= now
        /\ k \notin DOMAIN u => Seen(p)[k] = rows[k]
        /\ k \in DOMAIN u =>
            /\ Seen(p)[k].start = u[k]
            /\ Seen(p)[k].status = IF rows[k].status = "absent" THEN "in_progress" ELSE rows[k].status
            /\ Seen(p)[k].first = IF rows[k].status = "absent" THEN now ELSE rows[k].first

LEMMA SeenIsRight == ActiveTypes => SeenRight
<1>. SUFFICES ASSUME ActiveTypes, NEW p \in Passers, NEW k \in Ids
               PROVE  LET u == run[p].upserts IN
                      /\ Seen(p)[k] \in Jobs /\ Seen(p)[k].start \in Starts(k) \union {0} /\ Seen(p)[k].first <= now
                      /\ k \notin DOMAIN u => Seen(p)[k] = rows[k]
                      /\ k \in DOMAIN u =>
                          /\ Seen(p)[k].start = u[k]
                          /\ Seen(p)[k].status = IF rows[k].status = "absent" THEN "in_progress" ELSE rows[k].status
                          /\ Seen(p)[k].first = IF rows[k].status = "absent" THEN now ELSE rows[k].first
    BY DEF SeenRight
<1>. DEFINE u == run[p].upserts
<1>2. u \in Active!Listed
    BY DEF ActiveTypes, Runs
<1>3. rows \in [Ids -> Jobs] /\ now \in 1..MaxTime /\ rows[k].start \in Starts(k) \union {0} /\ rows[k].first <= now
    BY DEF ActiveTypes
<1>4. k \in DOMAIN u => u[k] \in Starts(k)
    BY <1>2, ListedTells
<1>5. now <= now
    BY <1>3, ActiveConstants
<1>. HIDE DEF u, Jobs
<1>. QED BY <1>2, <1>3, <1>4, <1>5, UpsertedIs DEF Seen, u

LEMMA SeenIsRightNext == ActiveTypes' => SeenRight'
<1>. QED BY SeenIsRight, PTL

\* A pass that does not run.
LEMMA NoRunTyped == Active!NoRun \in Runs /\ DOMAIN Active!NoRun.upserts = {} /\ DOMAIN Active!NoRun.close = {} /\ Active!NoRun.own = {} /\ Active!NoRun.pc = "idle"
<1>1. Active!NoneListed \in Active!Listed
    <2>1. Active!NoneListed \in [{} -> UNION {Starts(k) : k \in {}}]
        BY DEF Active!NoneListed
    <2>. QED BY <2>1 DEF Active!Listed
<1>2. [k \in {} |-> ""] \in Closings
    <2>1. [k \in {} |-> ""] \in [{} -> Ending]
        OBVIOUS
    <2>2. {} \in SUBSET Ids
        OBVIOUS
    <2>. QED BY <2>1, <2>2 DEF Closings
<1>. QED BY <1>1, <1>2 DEF Active!NoRun, Runs, Active!NoneListed

\* What a pass does that begins.
LEMMA PassDoes ==
    ASSUME ActiveTypes, LoggedOnce, NEW p \in Passers, NEW l \in Active!Listed, Active!reconcile(p, l)
    PROVE  /\ rows' = rows /\ logged' = logged /\ now' = now /\ accident' = accident
           /\ ~Running(p) /\ holder = 0 /\ holder' = p /\ Active!Untouched(p, DOMAIN l)
           /\ run' \in [Passers -> Runs]
           /\ \A q \in Passers : q # p => run'[q] = run[q] /\ Seen(q)' = Seen(q)
           /\ Seen(p)' = Active!Upserted(rows, l)
           /\ run'[p].pc = "update" /\ run'[p].upserts = l /\ run'[p].own = {d.own : d \in logged}
           /\ \A k \in Ids : k \in DOMAIN run'[p].close <=>
                    /\ k \in OpenOf(Active!Upserted(rows, l))
                    /\ Active!Verdicts(Active!Upserted(rows, l))[k] # "keep"
           /\ DOMAIN run'[p].close \subseteq Ids
           /\ \A k \in DOMAIN run'[p].close : run'[p].close[k] = Active!Verdicts(Active!Upserted(rows, l))[k]
<1>. DEFINE f == Active!Upserted(rows, l)
            v == Active!Verdicts(f)
            shut == [k \in {j \in DOMAIN v : v[j] # "keep"} |-> v[k]]
            own == {d.own : d \in logged}
            new == [pc |-> "update", upserts |-> l, own |-> own, close |-> shut]
<1>1. /\ rows' = rows /\ logged' = logged /\ now' = now /\ accident' = accident
      /\ run[p].pc = "idle" /\ holder = 0 /\ holder' = p /\ Active!Untouched(p, DOMAIN l)
      /\ run' = [run EXCEPT ![p] = new]
    BY DEF Active!reconcile
<1>2. f \in [Ids -> Jobs]
    BY UpsertedTyped DEF ActiveTypes
<1>3. v \in [OpenOf(f) -> Ending \union {"keep"}]
    BY <1>2, VerdictsAre
<1>4. OpenOf(f) \subseteq Ids
    BY DEF OpenOf
<1>5. shut \in Closings
    <2>. DEFINE S == {j \in DOMAIN v : v[j] # "keep"}
    <2>1. S \in SUBSET Ids
        BY <1>3, <1>4
    <2>2. shut \in [S -> Ending]
        <3>. HIDE DEF f, v
        <3>. QED BY <1>3
    <2>. HIDE DEF S, shut
    <2>. QED BY <2>1, <2>2 DEF Closings
<1>6. new \in Runs
    <2>1. own \in SUBSET (Ids \union {0})
        <3>1. \A d \in logged : d.own \in Ids \union {0}
            BY DEF LoggedOnce, Logs
        <3>. QED BY <3>1
    <2>. HIDE DEF own, shut
    <2>. QED BY <1>5, <2>1 DEF Runs
<1>7. \A q \in Passers : run'[q] = IF q = p THEN new ELSE run[q]
    <2>1. run \in [Passers -> Runs]
        BY DEF ActiveTypes
    <2>. HIDE DEF new
    <2>. QED BY <1>1, <2>1
<1>8. run' \in [Passers -> Runs]
    <2>1. run \in [Passers -> Runs]
        BY DEF ActiveTypes
    <2>. HIDE DEF new
    <2>. QED BY <1>1, <1>6, <2>1
<1>9. new.pc = "update" /\ new.upserts = l /\ new.own = own /\ new.close = shut
    <2>. HIDE DEF own, shut
    <2>. QED OBVIOUS
<1>. HIDE DEF new
<1>10. ASSUME NEW q \in Passers, q # p PROVE Seen(q)' = Seen(q)
    <2>1. run'[q] = run[q]
        BY <1>7, <1>10
    <2>. QED BY <1>1, <2>1 DEF Seen, Active!Upserted
<1>11. Seen(p)' = Active!Upserted(rows, l)
    <2>1. run'[p].upserts = l
        BY <1>7, <1>9
    <2>. QED BY <1>1, <2>1 DEF Seen, Active!Upserted
<1>12. DOMAIN shut = {k \in OpenOf(f) : v[k] # "keep"} /\ \A k \in DOMAIN shut : shut[k] = v[k]
    <2>. HIDE DEF f, v
    <2>. QED BY <1>3
<1>13. run'[p].close = shut /\ run'[p].pc = "update" /\ run'[p].upserts = l /\ run'[p].own = own
    BY <1>7, <1>9
<1>14. ~Running(p)
    BY <1>1 DEF Running
<1>. HIDE DEF shut
<1>. QED BY <1>1, <1>4, <1>7, <1>8, <1>10, <1>11, <1>12, <1>13, <1>14

\* What a pass does that ends with its changes.
LEMMA CloseDoes ==
    ASSUME ActiveTypes, NEW p \in Passers, Active!Close(p)
    PROVE  /\ logged' = logged /\ now' = now /\ accident' = accident
           /\ Running(p) /\ Active!Untouched(p, DOMAIN run[p].close)
           /\ holder' = IF holder = p THEN 0 ELSE holder
           /\ run' \in [Passers -> Runs] /\ run'[p] = Active!NoRun
           /\ \A q \in Passers : q # p => run'[q] = run[q]
           /\ rows' \in [Ids -> Jobs]
           /\ \A k \in Ids :
                /\ rows'[k].start = Seen(p)[k].start /\ rows'[k].first = Seen(p)[k].first
                /\ rows'[k].status = IF k \in DOMAIN run[p].close /\ Active!StillOpen(Seen(p), k)
                                     THEN run[p].close[k] ELSE Seen(p)[k].status
                /\ k \notin DOMAIN run[p].upserts /\ k \notin DOMAIN run[p].close => rows'[k] = rows[k]
<1>. DEFINE seen == Seen(p)
            shut == run[p].close
            closed(k) == [seen[k] EXCEPT !.status = shut[k]]
<1>1. /\ logged' = logged /\ now' = now /\ accident' = accident
      /\ run[p].pc = "update" /\ Active!Untouched(p, DOMAIN shut)
      /\ holder' = IF holder = p THEN 0 ELSE holder
      /\ run' = [run EXCEPT ![p] = Active!NoRun]
      /\ rows' = [k \in Ids |-> IF k \in DOMAIN shut /\ Active!StillOpen(seen, k) THEN closed(k) ELSE seen[k]]
    BY DEF Active!Close, Active!Free, Seen
<1>2. SeenRight
    BY SeenIsRight
<1>3. Active!NoRun \in Runs /\ run \in [Passers -> Runs]
    BY NoRunTyped DEF ActiveTypes
<1>4. run' \in [Passers -> Runs] /\ \A q \in Passers : run'[q] = IF q = p THEN Active!NoRun ELSE run[q]
    BY <1>1, <1>3
<1>5. ASSUME NEW k \in DOMAIN shut PROVE shut[k] \in Ending
    <2>1. run[p] \in Runs
        BY <1>3
    <2>2. shut \in Closings
        BY <2>1 DEF Runs
    <2>. QED BY <1>5, <2>2 DEF Closings
<1>6. ASSUME NEW k \in Ids, k \in DOMAIN shut, Active!StillOpen(seen, k)
      PROVE  closed(k) \in Jobs /\ closed(k).start = seen[k].start /\ closed(k).first = seen[k].first
             /\ closed(k).status = shut[k]
    <2>1. seen[k] \in [status : Active!Statuses, first : 1..MaxTime, start : Nat]
        BY <1>2, <1>6 DEF SeenRight, Active!StillOpen, Jobs, Active!NoRow
    <2>2. shut[k] \in Active!Statuses
        BY <1>5, <1>6 DEF Ending, Active!Statuses
    <2>. HIDE DEF shut, seen
    <2>. QED BY <2>1, <2>2 DEF Jobs
<1>7. \A k \in Ids : rows'[k] = IF k \in DOMAIN shut /\ Active!StillOpen(seen, k) THEN closed(k) ELSE seen[k]
    BY <1>1
<1>8. \A k \in Ids : seen[k] \in Jobs /\ (k \notin DOMAIN run[p].upserts => seen[k] = rows[k])
    BY <1>2 DEF SeenRight
<1>. HIDE DEF seen, closed, Jobs
<1>9. \A k \in Ids : rows'[k] \in Jobs
    BY <1>6, <1>7, <1>8
<1>10. rows' \in [Ids -> Jobs]
    BY <1>1, <1>7, <1>9
<1>11. Running(p)
    BY <1>1 DEF Running
<1>. QED BY <1>1, <1>4, <1>6, <1>7, <1>8, <1>10, <1>11 DEF seen

-----------------------------------------------------------------------------
(* The steps.                                                              *)

LEMMA ActiveInvInit == Active!Init => ActiveInv
<1>. SUFFICES ASSUME Active!Init PROVE ActiveInv
    OBVIOUS
<1>1. /\ rows = [k \in Ids |-> Active!NoRow] /\ logged = {} /\ now = 1
      /\ holder = 0 /\ run = [p \in Passers |-> Active!NoRun] /\ accident = "none"
    BY DEF Active!Init
<1>2. Active!NoRow \in Jobs /\ Active!NoRow.status = "absent" /\ Active!NoRow.start = 0 /\ Active!NoRow.first = 0
    BY DEF Active!NoRow, Jobs
<1>3. ActiveTypes
    <2>1. 1 \in 1..MaxTime
        BY ActiveConstants
    <2>2. rows \in [Ids -> Jobs] /\ \A k \in Ids : rows[k] = Active!NoRow
        BY <1>1, <1>2
    <2>3. run \in [Passers -> Runs] /\ \A p \in Passers : run[p] = Active!NoRun
        BY <1>1, NoRunTyped
    <2>. QED BY <1>1, <1>2, <2>1, <2>2, <2>3, NoRunTyped DEF ActiveTypes
<1>4. \A p \in Passers : run[p] = Active!NoRun /\ ~Running(p)
    BY <1>1, NoRunTyped DEF Running
<1>5. \A k \in Ids : ~Active!Open(k)
    BY <1>1, <1>2 DEF Active!Open
<1>6. LoggedOnce
    BY <1>1 DEF LoggedOnce
<1>7. LeaseHeld /\ KeptApart
    BY <1>4 DEF LeaseHeld, KeptApart
<1>8. OfOnePass /\ BroughtIsCompleted /\ OtherwiseUnknown /\ OwnIsLogged
    BY <1>4, NoRunTyped DEF OfOnePass, BroughtIsCompleted, OtherwiseUnknown, OwnIsLogged
<1>9. Active!ShownOnce
    BY <1>5 DEF Active!ShownOnce
<1>. QED BY <1>3, <1>6, <1>7, <1>8, <1>9 DEF ActiveInv

\* A pass that begins.
LEMMA PassKeeps ==
    ASSUME ActiveInv, NEW p \in Passers, NEW l \in Active!Listed, Active!reconcile(p, l)
    PROVE  ActiveInv'
<1>. DEFINE f == Active!Upserted(rows, l)
            v == Active!Verdicts(f)
<1>1. ActiveTypes /\ LoggedOnce
    BY DEF ActiveInv
<1>2. /\ rows' = rows /\ logged' = logged /\ now' = now /\ accident' = accident
      /\ ~Running(p) /\ holder = 0 /\ holder' = p /\ Active!Untouched(p, DOMAIN l)
      /\ run' \in [Passers -> Runs]
      /\ \A q \in Passers : q # p => run'[q] = run[q] /\ Seen(q)' = Seen(q)
      /\ Seen(p)' = f
      /\ run'[p].pc = "update" /\ run'[p].upserts = l /\ run'[p].own = {d.own : d \in logged}
      /\ \A k \in Ids : k \in DOMAIN run'[p].close <=> k \in OpenOf(f) /\ v[k] # "keep"
      /\ DOMAIN run'[p].close \subseteq Ids
      /\ \A k \in DOMAIN run'[p].close : run'[p].close[k] = v[k]
    BY <1>1, PassDoes
<1>3. rows \in [Ids -> Jobs] /\ now \in 1..MaxTime
    BY <1>1 DEF ActiveTypes
<1>4. f \in [Ids -> Jobs]
    BY <1>3, UpsertedTyped
<1>5. ASSUME NEW k \in Ids
      PROVE  /\ k \notin DOMAIN l => f[k] = rows[k]
             /\ k \in DOMAIN l => f[k].start = l[k]
                                  /\ f[k].status = IF rows[k].status = "absent" THEN "in_progress" ELSE rows[k].status
             /\ f[k].start \in Starts(k) \union {0}
    <2>1. k \in DOMAIN l => l[k] \in Starts(k)
        BY ListedTells
    <2>2. rows[k].start \in Starts(k) \union {0}
        BY <1>1 DEF ActiveTypes
    <2>. HIDE DEF f
    <2>3. /\ k \notin DOMAIN l => f[k] = rows[k]
          /\ k \in DOMAIN l => f[k].start = l[k]
                               /\ f[k].status = IF rows[k].status = "absent" THEN "in_progress" ELSE rows[k].status
        BY <1>3, UpsertedIs DEF f
    <2>. QED BY <2>1, <2>2, <2>3
<1>. HIDE DEF f, v
<1>6. \A k \in Ids : k \in OpenOf(f) <=> f[k].status = "in_progress"
    BY DEF OpenOf
<1>7. \A k \in Ids : f[k].status = "in_progress" /\ k \notin DOMAIN l => rows[k].status = "in_progress"
    BY <1>5
<1>8. ActiveTypes'
    <2>1. \A q \in Passers : ~Running(q)' => run'[q] = Active!NoRun
        BY <1>1, <1>2 DEF ActiveTypes, Running
    <2>2. \A q \in Passers : \A k \in DOMAIN run'[q].close : rows'[k].status # "absent" \/ k \in DOMAIN run'[q].upserts
        BY <1>1, <1>2, <1>6, <1>7 DEF ActiveTypes
    <2>3. /\ rows' \in [Ids -> Jobs] /\ \A k \in Ids : rows'[k].start \in Starts(k) \union {0} /\ rows'[k].first <= now'
          /\ now' \in 1..MaxTime /\ accident' \in {"none", "failure", "expiry"} /\ holder' \in Passers \union {0}
        BY <1>1, <1>2 DEF ActiveTypes
    <2>. QED BY <1>2, <2>1, <2>2, <2>3 DEF ActiveTypes
<1>9. LoggedOnce'
    BY <1>1, <1>2 DEF LoggedOnce
<1>10. accident # "expiry" => \A q \in Passers : ~Running(q)
    BY <1>2, ActiveConstants DEF ActiveInv, LeaseHeld
<1>11. \A q \in Passers : q # p => (Running(q)' <=> Running(q))
    BY <1>2 DEF Running
<1>12. LeaseHeld'
    BY <1>2, <1>10, <1>11 DEF LeaseHeld
<1>13. OfOnePass'
    BY <1>2 DEF ActiveInv, OfOnePass, Active!Untouched
<1>14. Active!ShownOnce'
    BY <1>2 DEF ActiveInv, Active!ShownOnce, Active!Open
<1>15. KeptApart'
    <2>1. ASSUME NEW j \in Ids, NEW k \in Ids, j # k, Kept(p, k)', Kept(p, j)' \/ Seen(p)'[j].status = "abandoned"
          PROVE  ~Active!same_trip(Seen(p)'[j].start, Seen(p)'[k].start)
        <3>1. k \in OpenOf(f) /\ v[k] = "keep"
            BY <1>2, <1>6, <2>1 DEF Kept
        <3>2. f[j].status = "abandoned" \/ (j \in OpenOf(f) /\ v[j] = "keep")
            BY <1>2, <1>6, <2>1 DEF Kept
        <3>3. ~Active!same_trip(f[j].start, f[k].start)
            BY <1>4, <2>1, <3>1, <3>2, KeptAreApart DEF v
        <3>. QED BY <1>2, <3>3
    <2>. QED BY <1>2, <1>10, <1>11, <2>1 DEF KeptApart
<1>16. ASSUME NEW k \in OpenOf(f), NEW d \in logged, d.own = k, f[k].start # 0 \/ d.stop >= f[k].first
       PROVE  v[k] = "completed" /\ k \in DOMAIN run'[p].close
    <2>1. k \in Ids
        BY DEF OpenOf
    <2>2. v[k] = "completed"
        BY <1>1, <1>4, <1>5, <1>16, <2>1, LoggedIsCompleted DEF v
    <2>. QED BY <1>2, <2>1, <2>2
<1>17. BroughtIsCompleted'
    <2>1. ASSUME NEW k \in DOMAIN l, NEW d \in logged, l[k] # 0, Active!Open(k), d.own = k
          PROVE  k \in DOMAIN run'[p].close /\ run'[p].close[k] = "completed"
        <3>1. k \in Ids
            BY ListedTells
        <3>2. k \in OpenOf(f) /\ f[k].start # 0
            BY <1>5, <1>6, <2>1, <3>1 DEF Active!Open
        <3>. QED BY <1>2, <1>16, <2>1, <3>2
    <2>2. \A k : Active!Open(k)' <=> Active!Open(k)
        BY <1>2 DEF Active!Open
    <2>. QED BY <1>2, <2>1, <2>2 DEF ActiveInv, BroughtIsCompleted
<1>18. OtherwiseUnknown'
    <2>1. ASSUME NEW k \in DOMAIN run'[p].close, NEW d \in logged, d.own = k
          PROVE  \/ run'[p].close[k] = "completed"
                 \/ Seen(p)'[k].start = 0 /\ (k \notin DOMAIN l => d.stop < rows[k].first)
        <3>1. k \in Ids /\ k \in OpenOf(f) /\ run'[p].close[k] = v[k]
            BY <1>2
        <3>2. CASE f[k].start # 0 \/ d.stop >= f[k].first
            BY <1>16, <2>1, <3>1, <3>2
        <3>3. CASE f[k].start = 0 /\ ~(d.stop >= f[k].first)
            <4>1. d.stop \in Nat /\ f[k].first \in Nat
                <5>1. d \in Logs /\ f[k] \in Jobs
                    BY <1>1, <1>4, <3>1 DEF LoggedOnce
                <5>. QED BY <5>1, ActiveConstants DEF Logs, Jobs, Active!NoRow
            <4>2. d.stop < f[k].first
                BY <3>3, <4>1
            <4>. QED BY <1>2, <1>5, <3>1, <3>3, <4>2
        <3>. QED BY <3>2, <3>3
    <2>. QED BY <1>2, <2>1 DEF ActiveInv, OtherwiseUnknown, Active!StillOpen
<1>19. OwnIsLogged'
    BY <1>2 DEF ActiveInv, OwnIsLogged
<1>. QED BY <1>8, <1>9, <1>12, <1>13, <1>14, <1>15, <1>17, <1>18, <1>19 DEF ActiveInv

\* A pass that ends with its changes.
LEMMA CloseKeeps ==
    ASSUME ActiveInv, NEW p \in Passers, Active!Close(p)
    PROVE  ActiveInv'
<1>. DEFINE shut == run[p].close
            brought == run[p].upserts
<1>1. ActiveTypes /\ LoggedOnce /\ SeenRight
    BY SeenIsRight DEF ActiveInv
<1>2. /\ logged' = logged /\ now' = now /\ accident' = accident
      /\ Running(p) /\ Active!Untouched(p, DOMAIN shut)
      /\ holder' = IF holder = p THEN 0 ELSE holder
      /\ run' \in [Passers -> Runs] /\ run'[p] = Active!NoRun
      /\ \A q \in Passers : q # p => run'[q] = run[q]
      /\ rows' \in [Ids -> Jobs]
      /\ \A k \in Ids :
           /\ rows'[k].start = Seen(p)[k].start /\ rows'[k].first = Seen(p)[k].first
           /\ rows'[k].status = IF k \in DOMAIN shut /\ Active!StillOpen(Seen(p), k) THEN shut[k] ELSE Seen(p)[k].status
           /\ k \notin DOMAIN brought /\ k \notin DOMAIN shut => rows'[k] = rows[k]
    BY <1>1, CloseDoes
<1>3. /\ ~Running(p)' /\ run'[p].upserts = Active!NoRun.upserts /\ run'[p].close = Active!NoRun.close /\ run'[p].own = Active!NoRun.own
      /\ \A q \in Passers : q # p => (Running(q)' <=> Running(q))
    BY <1>2, NoRunTyped DEF Running
<1>4. DOMAIN Active!NoRun.upserts = {} /\ DOMAIN Active!NoRun.close = {} /\ Active!NoRun.own = {}
    BY NoRunTyped
<1>5. \A q \in Passers : run[q] \in Runs
    BY <1>1 DEF ActiveTypes
<1>6. \A q \in Passers : DOMAIN run[q].upserts \subseteq Ids /\ DOMAIN run[q].close \subseteq Ids
    <2>1. \A q \in Passers : run[q].upserts \in Active!Listed /\ run[q].close \in Closings
        BY <1>5 DEF Runs
    <2>2. \A c \in Closings : DOMAIN c \subseteq Ids
        BY DEF Closings
    <2>. QED BY <2>1, <2>2, ListedTells
<1>7. \A k \in DOMAIN shut : shut[k] \in Ending
    <2>1. shut \in Closings
        BY <1>5 DEF Runs
    <2>. QED BY <2>1 DEF Closings
<1>8. \A k \in Ids :
        /\ Seen(p)[k].start \in Starts(k) \union {0} /\ Seen(p)[k].first <= now
        /\ k \notin DOMAIN brought => Seen(p)[k] = rows[k]
        /\ k \in DOMAIN brought =>
            /\ Seen(p)[k].start = brought[k]
            /\ Seen(p)[k].status = IF rows[k].status = "absent" THEN "in_progress" ELSE rows[k].status
            /\ Seen(p)[k].first = IF rows[k].status = "absent" THEN now ELSE rows[k].first
    BY <1>1 DEF SeenRight
<1>9. \A k \in Ids : Active!StillOpen(Seen(p), k) <=> Seen(p)[k].status = "in_progress"
    BY DEF Active!StillOpen
<1>. HIDE DEF shut, brought
\* A row that is open or there was so before, or is brought along.
<1>10. \A k \in Ids :
        /\ rows'[k].status = "in_progress" => Seen(p)[k].status = "in_progress" /\ k \notin DOMAIN shut
        /\ rows'[k].status = "abandoned" => Seen(p)[k].status = "abandoned"
        /\ rows[k].status # "absent" => rows'[k].status # "absent" /\ rows'[k].first = rows[k].first
    BY <1>2, <1>7, <1>8, <1>9 DEF Ending
<1>11. ActiveTypes'
    <2>1. \A q \in Passers : ~Running(q)' => run'[q] = Active!NoRun
        BY <1>1, <1>2, <1>3 DEF ActiveTypes
    <2>2. \A q \in Passers : \A k \in DOMAIN run'[q].close : rows'[k].status # "absent" \/ k \in DOMAIN run'[q].upserts
        BY <1>1, <1>2, <1>3, <1>4, <1>6, <1>10 DEF ActiveTypes
    <2>3. \A k \in Ids : rows'[k].start \in Starts(k) \union {0} /\ rows'[k].first <= now'
        BY <1>2, <1>8
    <2>4. now' \in 1..MaxTime /\ accident' \in {"none", "failure", "expiry"} /\ holder' \in Passers \union {0}
        BY <1>1, <1>2 DEF ActiveTypes
    <2>. QED BY <1>2, <2>1, <2>2, <2>3, <2>4 DEF ActiveTypes
<1>12. LoggedOnce'
    BY <1>1, <1>2 DEF LoggedOnce
<1>13. accident # "expiry" => \A q \in Passers : ~Running(q)'
    <2>1. accident # "expiry" => \A q \in Passers : Running(q) => q = p
        BY <1>2 DEF ActiveInv, LeaseHeld
    <2>. QED BY <1>3, <2>1
<1>14. LeaseHeld' /\ KeptApart'
    BY <1>2, <1>13 DEF LeaseHeld, KeptApart
<1>15. OfOnePass'
    BY <1>2, <1>3, <1>4 DEF ActiveInv, OfOnePass
<1>16. Active!ShownOnce'
    <2>1. ASSUME accident # "expiry", NEW j \in Ids, NEW k \in Ids, j # k, rows'[k].status = "in_progress",
                 rows'[j].status \in {"in_progress", "abandoned"}
          PROVE  ~Active!same_trip(rows'[j].start, rows'[k].start)
        <3>1. Kept(p, k) /\ (Kept(p, j) \/ Seen(p)[j].status = "abandoned")
            BY <1>10, <2>1 DEF Kept, shut
        <3>2. ~Active!same_trip(Seen(p)[j].start, Seen(p)[k].start)
            BY <1>2, <2>1, <3>1 DEF ActiveInv, KeptApart
        <3>. QED BY <1>2, <3>2
    <2>. QED BY <1>2, <2>1 DEF Active!ShownOnce, Active!Open
<1>17. ASSUME NEW q \in Passers, q # p, NEW k \in DOMAIN run[q].upserts PROVE rows'[k] = rows[k]
    <2>1. k \in Ids /\ k \notin DOMAIN brought
        BY <1>6, <1>17 DEF ActiveInv, OfOnePass, brought
    <2>2. k \notin DOMAIN shut
        BY <1>2, <1>17 DEF Active!Untouched
    <2>. QED BY <1>2, <2>1, <2>2
<1>18. BroughtIsCompleted'
    <2>1. ASSUME NEW q \in Passers, q # p, NEW k \in DOMAIN run[q].upserts, NEW d \in logged,
                 run[q].upserts[k] # 0, Active!Open(k)', d.own = k
          PROVE  \/ k \in DOMAIN run[q].close /\ run[q].close[k] = "completed"
                 \/ d.stop >= rows'[k].first
        BY <1>17, <2>1 DEF ActiveInv, BroughtIsCompleted, Active!Open
    <2>. QED BY <1>2, <1>3, <1>4, <2>1 DEF BroughtIsCompleted
<1>19. OwnIsLogged'
    BY <1>2, <1>3, <1>4 DEF ActiveInv, OwnIsLogged
<1>20. SeenRight'
    BY <1>11, SeenIsRightNext
<1>21. OtherwiseUnknown'
    <2>1. ASSUME NEW q \in Passers, q # p, NEW k \in DOMAIN run[q].close, NEW d \in logged,
                 Active!StillOpen(Seen(q)', k), k \in run[q].own, d.own = k
          PROVE  \/ run[q].close[k] = "completed"
                 \/ Seen(q)'[k].start = 0 /\ (k \notin DOMAIN run[q].upserts => d.stop < rows'[k].first)
        <3>. DEFINE mine == run[q].upserts
        <3>1. k \in Ids /\ run'[q] = run[q]
            BY <1>2, <1>6, <2>1
        <3>2. /\ k \notin DOMAIN mine => Seen(q)[k] = rows[k] /\ Seen(q)'[k] = rows'[k]
              /\ k \in DOMAIN mine =>
                  /\ Seen(q)[k].start = mine[k] /\ Seen(q)'[k].start = mine[k]
                  /\ Seen(q)[k].status = IF rows[k].status = "absent" THEN "in_progress" ELSE rows[k].status
                  /\ Seen(q)'[k].status = IF rows'[k].status = "absent" THEN "in_progress" ELSE rows'[k].status
            BY <1>1, <1>20, <3>1 DEF SeenRight
        <3>3. CASE k \in DOMAIN mine
            <4>1. rows'[k] = rows[k]
                BY <1>17, <2>1, <3>3
            <4>2. Active!StillOpen(Seen(q), k)
                BY <2>1, <3>2, <3>3, <4>1 DEF Active!StillOpen
            <4>. QED BY <2>1, <3>2, <3>3, <4>2 DEF ActiveInv, OtherwiseUnknown
        <3>4. CASE k \notin DOMAIN mine
            <4>1. rows'[k].status = "in_progress"
                BY <2>1, <3>2, <3>4 DEF Active!StillOpen
            <4>2. rows[k].status # "absent"
                BY <1>1, <3>4, <2>1 DEF ActiveTypes
            <4>3. rows[k].status = "in_progress" /\ rows'[k].first = rows[k].first /\ k \notin DOMAIN shut
                BY <1>8, <1>10, <3>1, <4>1, <4>2
            <4>4. Active!StillOpen(Seen(q), k)
                BY <3>2, <3>4, <4>3 DEF Active!StillOpen
            <4>5. \/ run[q].close[k] = "completed"
                  \/ rows[k].start = 0 /\ d.stop < rows[k].first
                BY <2>1, <3>2, <3>4, <4>4 DEF ActiveInv, OtherwiseUnknown
            <4>6. ASSUME rows[k].start = 0, d.stop < rows[k].first PROVE rows'[k].start = 0
                <5>1. d.stop \in Nat /\ rows[k].first \in Nat
                    <6>1. d \in Logs /\ rows[k] \in Jobs
                        BY <1>1, <3>1 DEF LoggedOnce, ActiveTypes
                    <6>. QED BY <6>1, ActiveConstants DEF Logs, Jobs, Active!NoRow
                <5>2. ~(d.stop >= rows[k].first)
                    BY <4>6, <5>1
                <5>3. k \in DOMAIN brought => brought[k] = 0
                    BY <2>1, <4>3, <5>2 DEF ActiveInv, BroughtIsCompleted, Active!Open, shut, brought
                <5>. QED BY <1>2, <1>8, <3>1, <4>6, <5>3
            <4>. QED BY <3>2, <3>4, <4>3, <4>5, <4>6
        <3>. QED BY <3>3, <3>4
    <2>. QED BY <1>2, <1>3, <1>4, <2>1 DEF OtherwiseUnknown
<1>. QED BY <1>11, <1>12, <1>14, <1>15, <1>16, <1>18, <1>19, <1>21 DEF ActiveInv

\* A pass that ends without its changes.
LEMMA EndKeeps ==
    ASSUME ActiveInv, NEW p \in Passers, Active!Ends(p),
           accident' = accident \/ (accident = "none" /\ accident' = "failure")
    PROVE  ActiveInv'
<1>1. ActiveTypes /\ LoggedOnce
    BY DEF ActiveInv
<1>2. /\ rows' = rows /\ logged' = logged /\ now' = now
      /\ Running(p) /\ run' = [run EXCEPT ![p] = Active!NoRun]
      /\ holder' \in {0, holder}
    BY DEF Active!Ends, Active!Free, Running
<1>3. run' \in [Passers -> Runs] /\ \A q \in Passers : run'[q] = IF q = p THEN Active!NoRun ELSE run[q]
    BY <1>1, <1>2, NoRunTyped DEF ActiveTypes
<1>4. DOMAIN Active!NoRun.upserts = {} /\ DOMAIN Active!NoRun.close = {} /\ Active!NoRun.own = {} /\ Active!NoRun.pc = "idle"
    BY NoRunTyped
<1>5. \A q \in Passers : Running(q)' => Running(q) /\ q # p
    BY <1>3, <1>4 DEF Running
<1>6. \A q \in Passers : q # p => Seen(q)' = Seen(q)
    <2>1. ASSUME NEW q \in Passers, q # p PROVE Seen(q)' = Seen(q)
        <3>1. run'[q] = run[q]
            BY <1>3, <2>1
        <3>. QED BY <1>2, <3>1 DEF Seen, Active!Upserted
    <2>. QED BY <2>1
<1>7. ActiveTypes'
    <2>1. \A q \in Passers : ~Running(q)' => run'[q] = Active!NoRun
        BY <1>1, <1>3 DEF ActiveTypes, Running
    <2>2. \A q \in Passers : \A k \in DOMAIN run'[q].close : rows'[k].status # "absent" \/ k \in DOMAIN run'[q].upserts
        BY <1>1, <1>2, <1>3, <1>4 DEF ActiveTypes
    <2>3. accident' \in {"none", "failure", "expiry"}
        BY <1>1 DEF ActiveTypes
    <2>. QED BY <1>1, <1>2, <1>3, <2>1, <2>2, <2>3 DEF ActiveTypes
<1>8. LoggedOnce'
    BY <1>1, <1>2 DEF LoggedOnce
<1>9. accident' # "expiry" => accident # "expiry"
    BY <1>2
<1>10. accident' # "expiry" => \A q \in Passers : ~Running(q)'
    BY <1>2, <1>5, <1>9 DEF ActiveInv, LeaseHeld
<1>11. LeaseHeld' /\ KeptApart'
    BY <1>10 DEF LeaseHeld, KeptApart
<1>12. OfOnePass'
    BY <1>3, <1>4 DEF ActiveInv, OfOnePass
<1>13. Active!ShownOnce'
    BY <1>2, <1>9 DEF ActiveInv, Active!ShownOnce, Active!Open
<1>14. BroughtIsCompleted'
    BY <1>2, <1>3, <1>4 DEF ActiveInv, BroughtIsCompleted, Active!Open
<1>15. OtherwiseUnknown'
    BY <1>2, <1>3, <1>4, <1>6 DEF ActiveInv, OtherwiseUnknown
<1>16. OwnIsLogged'
    BY <1>2, <1>3, <1>4 DEF ActiveInv, OwnIsLogged
<1>. QED BY <1>7, <1>8, <1>11, <1>12, <1>13, <1>14, <1>15, <1>16 DEF ActiveInv

\* What a pass sees in a row changes with the row and its snapshot only, but for the
\* time at which it is first seen.
LEMMA SeenStays ==
    ASSUME ActiveTypes, ActiveTypes', run' = run, NEW p \in Passers, NEW k \in Ids,
           rows'[k].start = rows[k].start
    PROVE  /\ Seen(p)'[k].start = Seen(p)[k].start
           /\ rows'[k].status = rows[k].status => Seen(p)'[k].status = Seen(p)[k].status
           /\ rows[k].status = "in_progress" /\ rows'[k].status = "abandoned" => Seen(p)'[k].status = "abandoned"
<1>1. SeenRight /\ SeenRight'
    BY SeenIsRight, SeenIsRightNext
<1>2. CASE k \in DOMAIN run[p].upserts
    BY <1>1, <1>2 DEF SeenRight
<1>3. CASE k \notin DOMAIN run[p].upserts
    <2>1. Seen(p)[k] = rows[k] /\ Seen(p)'[k] = rows'[k]
        BY <1>1, <1>3 DEF SeenRight
    <2>. QED BY <2>1
<1>. QED BY <1>2, <1>3

\* Someone gives a transport up.
LEMMA AbandonKeeps ==
    ASSUME ActiveInv, NEW k \in Ids, Active!abandon(k)
    PROVE  ActiveInv'
<1>1. ActiveTypes /\ LoggedOnce
    BY DEF ActiveInv
<1>2. /\ logged' = logged /\ now' = now /\ accident' = accident /\ run' = run /\ holder' = holder
      /\ holder = 0 /\ Active!Open(k)
      /\ rows' = [rows EXCEPT ![k].status = "abandoned"]
    BY DEF Active!abandon
<1>3. rows \in [Ids -> Jobs] /\ rows[k] \in [status : Active!Statuses, first : 1..MaxTime, start : Nat]
    BY <1>1, <1>2 DEF ActiveTypes, Active!Open, Jobs, Active!NoRow
<1>4. /\ rows' \in [Ids -> Jobs]
      /\ \A j \in Ids : /\ rows'[j].start = rows[j].start /\ rows'[j].first = rows[j].first
                        /\ rows'[j].status = IF j = k THEN "abandoned" ELSE rows[j].status
    <2>. DEFINE given == [rows[k] EXCEPT !.status = "abandoned"]
    <2>1. given \in Jobs /\ given.start = rows[k].start /\ given.first = rows[k].first /\ given.status = "abandoned"
        BY <1>3 DEF Jobs, Active!Statuses
    <2>2. rows' = [rows EXCEPT ![k] = given]
        BY <1>2
    <2>. HIDE DEF given, Jobs
    <2>. QED BY <1>3, <2>1, <2>2
<1>5. ActiveTypes'
    <2>1. \A p \in Passers : Running(p)' <=> Running(p)
        BY <1>2 DEF Running
    <2>2. \A p \in Passers : \A j \in DOMAIN run[p].close : rows'[j].status # "absent" \/ j \in DOMAIN run[p].upserts
        <3>1. \A p \in Passers : DOMAIN run[p].close \subseteq Ids
            <4>1. \A p \in Passers : run[p].close \in Closings
                BY <1>1 DEF ActiveTypes, Runs
            <4>. QED BY <4>1 DEF Closings
        <3>. QED BY <1>1, <1>4, <3>1 DEF ActiveTypes
    <2>3. rows' \in [Ids -> Jobs] /\ \A j \in Ids : rows'[j].start \in Starts(j) \union {0} /\ rows'[j].first <= now'
        BY <1>1, <1>2, <1>4 DEF ActiveTypes
    <2>. QED BY <1>1, <1>2, <2>1, <2>2, <2>3 DEF ActiveTypes
<1>6. LoggedOnce' /\ OfOnePass' /\ OwnIsLogged'
    BY <1>2 DEF ActiveInv, LoggedOnce, OfOnePass, OwnIsLogged
<1>7. accident # "expiry" => \A p \in Passers : ~Running(p)
    BY <1>2, ActiveConstants DEF ActiveInv, LeaseHeld
<1>8. LeaseHeld' /\ KeptApart'
    BY <1>2, <1>7 DEF LeaseHeld, KeptApart, Running
<1>9. Active!ShownOnce'
    <2>1. ASSUME accident # "expiry", NEW i \in Ids, NEW j \in Ids, i # j, rows'[j].status = "in_progress",
                 rows'[i].status \in {"in_progress", "abandoned"}
          PROVE  ~Active!same_trip(rows'[i].start, rows'[j].start)
        <3>1. Active!Open(j) /\ (i = k \/ rows[i].status \in {"in_progress", "abandoned"})
            BY <1>4, <2>1 DEF Active!Open
        <3>2. rows[i].status \in {"in_progress", "abandoned"}
            BY <1>2, <3>1 DEF Active!Open
        <3>. QED BY <1>4, <2>1, <3>1, <3>2 DEF ActiveInv, Active!ShownOnce
    <2>. QED BY <1>2, <2>1 DEF Active!ShownOnce, Active!Open
<1>10. \A p \in Passers : DOMAIN run[p].upserts \subseteq Ids /\ DOMAIN run[p].close \subseteq Ids
    <2>1. \A p \in Passers : run[p].upserts \in Active!Listed /\ run[p].close \in Closings
        BY <1>1 DEF ActiveTypes, Runs
    <2>2. \A c \in Closings : DOMAIN c \subseteq Ids
        BY DEF Closings
    <2>. QED BY <2>1, <2>2, ListedTells
<1>11. BroughtIsCompleted'
    <2>1. \A j \in Ids : Active!Open(j)' => Active!Open(j) /\ rows'[j].first = rows[j].first
        BY <1>4 DEF Active!Open
    <2>. QED BY <1>2, <1>10, <2>1 DEF ActiveInv, BroughtIsCompleted
<1>12. OtherwiseUnknown'
    <2>1. ASSUME NEW p \in Passers, NEW j \in DOMAIN run[p].close, Active!StillOpen(Seen(p)', j)
          PROVE  Active!StillOpen(Seen(p), j) /\ Seen(p)'[j].start = Seen(p)[j].start /\ rows'[j].first = rows[j].first
        <3>1. j \in Ids
            BY <1>10
        <3>2. Seen(p)'[j].start = Seen(p)[j].start /\ (j # k => Seen(p)'[j].status = Seen(p)[j].status)
              /\ (j = k => Seen(p)'[j].status = "abandoned")
            BY <1>1, <1>2, <1>4, <1>5, <3>1, SeenStays DEF Active!Open
        <3>. QED BY <1>4, <2>1, <3>1, <3>2 DEF Active!StillOpen
    <2>. QED BY <1>2, <2>1 DEF ActiveInv, OtherwiseUnknown
<1>. QED BY <1>5, <1>6, <1>8, <1>9, <1>11, <1>12 DEF ActiveInv

\* The lease expires, a delivery is logged, or time goes on.
LEMMA AroundKeeps ==
    ASSUME ActiveInv, rows' = rows, run' = run, ActiveTypes', LoggedOnce', LeaseHeld',
           logged \subseteq logged', accident' # "expiry" => accident # "expiry",
           \A d \in logged' \ logged : d.stop = now /\ \A e \in logged : e.own = d.own => d.own = 0
    PROVE  ActiveInv'
<1>1. ActiveTypes /\ LoggedOnce
    BY DEF ActiveInv
<1>2. \A p \in Passers, k \in Ids : Seen(p)'[k].start = Seen(p)[k].start /\ Seen(p)'[k].status = Seen(p)[k].status
    BY <1>1, SeenStays
<1>3. \A p \in Passers : run[p] \in Runs
    BY <1>1 DEF ActiveTypes
<1>4. \A p \in Passers : DOMAIN run[p].upserts \subseteq Ids /\ DOMAIN run[p].close \subseteq Ids
    <2>1. \A p \in Passers : run[p].upserts \in Active!Listed /\ run[p].close \in Closings
        BY <1>3 DEF Runs
    <2>2. \A c \in Closings : DOMAIN c \subseteq Ids
        BY DEF Closings
    <2>. QED BY <2>1, <2>2, ListedTells
<1>5. OfOnePass' /\ OwnIsLogged'
    BY DEF ActiveInv, OfOnePass, OwnIsLogged
<1>6. Active!ShownOnce'
    BY DEF ActiveInv, Active!ShownOnce, Active!Open
<1>7. KeptApart'
    <2>1. \A p \in Passers, k \in Ids : Kept(p, k)' <=> Kept(p, k)
        BY <1>2 DEF Kept
    <2>2. \A p \in Passers : Running(p)' <=> Running(p)
        BY DEF Running
    <2>. QED BY <1>2, <2>1, <2>2 DEF ActiveInv, KeptApart
<1>8. BroughtIsCompleted'
    <2>1. ASSUME NEW p \in Passers, NEW k \in DOMAIN run[p].upserts, NEW d \in logged' \ logged
          PROVE  d.stop >= rows[k].first
        <3>1. k \in Ids
            BY <1>4
        <3>2. rows[k].first <= now /\ rows[k] \in Jobs /\ now \in Nat
            BY <1>1, <3>1, ActiveConstants DEF ActiveTypes
        <3>3. rows[k].first \in Nat
            BY <3>2, ActiveConstants DEF Jobs, Active!NoRow
        <3>4. d.stop = now
            OBVIOUS
        <3>. QED BY <3>2, <3>3, <3>4
    <2>2. \A k : Active!Open(k)' <=> Active!Open(k)
        BY DEF Active!Open
    <2>. QED BY <2>1, <2>2 DEF ActiveInv, BroughtIsCompleted
<1>9. OtherwiseUnknown'
    <2>1. ASSUME NEW p \in Passers, NEW k \in run[p].own, NEW d \in logged', d.own = k, k # 0 PROVE d \in logged
        BY <2>1 DEF ActiveInv, OwnIsLogged
    <2>2. \A p \in Passers, k \in Ids : Active!StillOpen(Seen(p)', k) <=> Active!StillOpen(Seen(p), k)
        BY <1>2 DEF Active!StillOpen
    <2>3. \A k \in Ids : k # 0
        BY ActiveConstants
    <2>. QED BY <1>2, <1>4, <2>1, <2>2, <2>3 DEF ActiveInv, OtherwiseUnknown
<1>. QED BY <1>5, <1>6, <1>7, <1>8, <1>9 DEF ActiveInv

\* Every step keeps the invariant.
LEMMA ActiveInvNext == ActiveInv /\ [Active!Next]_activeVars => ActiveInv'
<1>. SUFFICES ASSUME ActiveInv, [Active!Next]_activeVars PROVE ActiveInv'
    OBVIOUS
<1>1. ActiveTypes /\ LoggedOnce /\ LeaseHeld
    BY DEF ActiveInv
<1>2. ASSUME NEW p \in Passers, Active!Pass(p) PROVE ActiveInv'
    BY <1>2, PassKeeps DEF Active!Pass
<1>3. ASSUME NEW p \in Passers, Active!Close(p) PROVE ActiveInv'
    BY <1>3, CloseKeeps
<1>4. ASSUME NEW p \in Passers, Active!Deadlock(p) \/ Active!Fail(p) PROVE ActiveInv'
    BY <1>4, EndKeeps DEF Active!Deadlock, Active!Fail
<1>5. ASSUME NEW k \in Ids, Active!abandon(k) PROVE ActiveInv'
    BY <1>5, AbandonKeeps
<1>6. ASSUME rows' = rows, run' = run, logged' = logged, now' \in 1..MaxTime, now <= now',
             holder' \in {0, holder}, accident' \in {accident, "expiry"}, LeaseHeld'
      PROVE  ActiveInv'
    <2>1. \A p \in Passers : Running(p)' <=> Running(p)
        BY <1>6 DEF Running
    <2>2. \A k \in Ids : rows[k].first <= now'
        <3>1. \A k \in Ids : rows[k] \in Jobs /\ rows[k].first <= now
            BY <1>1 DEF ActiveTypes
        <3>2. \A x \in Jobs : x.first \in Nat
            BY ActiveConstants DEF Jobs, Active!NoRow
        <3>3. now \in Nat /\ now' \in Nat
            BY <1>1, <1>6, ActiveConstants DEF ActiveTypes
        <3>. QED BY <1>6, <3>1, <3>2, <3>3
    <2>3. accident' \in {"none", "failure", "expiry"} /\ holder' \in Passers \union {0}
        BY <1>1, <1>6 DEF ActiveTypes
    <2>4. ActiveTypes'
        BY <1>1, <1>6, <2>1, <2>2, <2>3 DEF ActiveTypes
    <2>5. LoggedOnce'
        BY <1>1, <1>6 DEF LoggedOnce
    <2>. QED BY <1>6, <2>4, <2>5, AroundKeeps
<1>7. CASE Active!LeaseExpires
    <2>1. /\ rows' = rows /\ run' = run /\ logged' = logged /\ now' = now /\ holder' = 0 /\ holder # 0
          /\ accident' = "expiry" \/ (accident' = accident /\ run[holder].pc = "idle")
        BY <1>7 DEF Active!LeaseExpires
    <2>2. LeaseHeld'
        BY <1>1, <2>1 DEF LeaseHeld, Running
    <2>3. now \in 1..MaxTime /\ now <= now'
        BY <1>1, <2>1, ActiveConstants DEF ActiveTypes
    <2>. QED BY <1>6, <2>1, <2>2, <2>3
<1>8. CASE Active!Tick
    <2>1. /\ rows' = rows /\ run' = run /\ logged' = logged /\ holder' = holder /\ accident' = accident
          /\ now < MaxTime /\ now' = now + 1
        BY <1>8 DEF Active!Tick
    <2>2. LeaseHeld'
        BY <1>1, <2>1 DEF LeaseHeld, Running
    <2>3. now' \in 1..MaxTime /\ now <= now'
        BY <1>1, <2>1, ActiveConstants DEF ActiveTypes
    <2>. QED BY <1>6, <2>1, <2>2, <2>3
<1>9. ASSUME NEW d \in Made, Active!Deliver(d) PROVE ActiveInv'
    <2>. DEFINE new == [own |-> d.own, start |-> d.start, stop |-> now]
    <2>1. /\ rows' = rows /\ run' = run /\ now' = now /\ holder' = holder /\ accident' = accident
          /\ d.start <= now /\ \A e \in logged : [own |-> e.own, start |-> e.start] # d
          /\ logged' = logged \union {new}
        BY <1>9 DEF Active!Deliver
    <2>2. d \in [own : Ids \union {0}, start : Nat] /\ now \in 1..MaxTime
        BY <1>1, ActiveConstants DEF ActiveTypes
    <2>3. /\ new \in Logs /\ new.own = d.own /\ new.start = d.start /\ new.stop = now
          /\ [own |-> new.own, start |-> new.start] = d
        BY <2>2 DEF Logs
    <2>. HIDE DEF new
    <2>4. ASSUME NEW e \in logged, e.own = d.own PROVE d.own = 0
        <3>. DEFINE m == [own |-> e.own, start |-> e.start]
        <3>1. m \in Made /\ m # d /\ m.own = d.own
            BY <1>1, <2>1, <2>4 DEF LoggedOnce
        <3>. HIDE DEF m
        <3>. QED BY <3>1, ActiveConstants
    <2>5. LoggedOnce'
        <3>1. logged' \subseteq Logs
            BY <1>1, <2>1, <2>3 DEF LoggedOnce
        <3>2. \A e \in logged' : [own |-> e.own, start |-> e.start] \in Made /\ e.start <= e.stop
            BY <1>1, <2>1, <2>3 DEF LoggedOnce
        <3>3. \A e, g \in logged' : e.own = g.own /\ e.own # 0 => e = g
            BY <1>1, <2>1, <2>3, <2>4 DEF LoggedOnce
        <3>. QED BY <3>1, <3>2, <3>3 DEF LoggedOnce
    <2>6. \A p \in Passers : Running(p)' <=> Running(p)
        BY <2>1 DEF Running
    <2>7. ActiveTypes'
        BY <1>1, <2>1, <2>6 DEF ActiveTypes
    <2>8. LeaseHeld'
        BY <1>1, <2>1, <2>6 DEF LeaseHeld
    <2>. QED BY <2>1, <2>3, <2>4, <2>5, <2>7, <2>8, AroundKeeps
<1>10. CASE UNCHANGED activeVars
    <2>1. /\ rows' = rows /\ run' = run /\ logged' = logged /\ now' = now /\ holder' = holder /\ accident' = accident
        BY <1>10 DEF activeVars
    <2>2. LeaseHeld'
        BY <1>1, <2>1 DEF LeaseHeld, Running
    <2>3. now \in 1..MaxTime /\ now <= now'
        BY <1>1, <2>1, ActiveConstants DEF ActiveTypes
    <2>. QED BY <1>6, <2>1, <2>2, <2>3
<1>. QED BY <1>2, <1>3, <1>4, <1>5, <1>7, <1>8, <1>9, <1>10 DEF Active!Next

\* What the invariant means for the properties.
LEMMA ActiveFollows == ActiveInv => Active!ActiveTyped /\ Active!ShownOnce /\ Active!MadeIsCompleted
<1>. SUFFICES ASSUME ActiveInv PROVE Active!ActiveTyped /\ Active!ShownOnce /\ Active!MadeIsCompleted
    OBVIOUS
<1>1. ActiveTypes
    BY DEF ActiveInv
<1>2. \A p \in Passers : run[p].upserts \in Active!Listed /\ DOMAIN run[p].close \subseteq Ids
    <2>1. \A p \in Passers : run[p].upserts \in Active!Listed /\ run[p].close \in Closings
        BY <1>1 DEF ActiveTypes, Runs
    <2>. QED BY <2>1 DEF Closings
<1>3. Active!ActiveTyped
    BY <1>1, <1>2 DEF ActiveTypes, Active!ActiveTyped, Jobs
<1>4. ASSUME NEW p \in Passers, NEW k \in DOMAIN run[p].close,
             Active!StillOpen(Seen(p), k), Seen(p)[k].start # 0, k \in run[p].own
      PROVE  run[p].close[k] = "completed"
    <2>1. PICK d \in logged : d.own = k
        BY <1>4 DEF ActiveInv, OwnIsLogged
    <2>. QED BY <1>4, <2>1 DEF ActiveInv, OtherwiseUnknown
<1>5. Active!MadeIsCompleted
    BY <1>4 DEF Active!MadeIsCompleted, Seen
<1>. QED BY <1>3, <1>5 DEF ActiveInv

\* A row that is closed stays so in every step.
LEMMA ClosedStayClosed == ActiveTypes /\ [Active!Next]_activeVars => Active!ClosedStays
<1>. SUFFICES ASSUME ActiveTypes, [Active!Next]_activeVars,
                     NEW k \in Ids, rows[k].status \notin {"absent", "in_progress"}
              PROVE  rows'[k].status = rows[k].status
    BY DEF Active!ClosedStays
<1>1. ASSUME rows' = rows PROVE rows'[k].status = rows[k].status
    BY <1>1
<1>2. ASSUME NEW p \in Passers, Active!Close(p) PROVE rows'[k].status = rows[k].status
    <2>1. rows'[k].status = IF k \in DOMAIN run[p].close /\ Active!StillOpen(Seen(p), k)
                            THEN run[p].close[k] ELSE Seen(p)[k].status
        BY <1>2, CloseDoes
    <2>2. Seen(p)[k].status = rows[k].status
        BY SeenIsRight DEF SeenRight
    <2>. QED BY <2>1, <2>2 DEF Active!StillOpen
<1>3. ASSUME NEW j \in Ids, Active!abandon(j) PROVE rows'[k].status = rows[k].status
    <2>1. j # k /\ rows' = [rows EXCEPT ![j].status = "abandoned"]
        BY <1>3 DEF Active!abandon, Active!Open
    <2>. QED BY <2>1 DEF ActiveTypes
<1>4. ASSUME NEW p \in Passers, Active!Pass(p) PROVE rows' = rows
    BY <1>4 DEF Active!Pass, Active!reconcile
<1>5. ASSUME NEW p \in Passers, Active!Deadlock(p) \/ Active!Fail(p) PROVE rows' = rows
    BY <1>5 DEF Active!Deadlock, Active!Fail, Active!Ends
<1>6. ASSUME NEW d \in Made, Active!Deliver(d) PROVE rows' = rows
    BY <1>6 DEF Active!Deliver
<1>7. Active!LeaseExpires \/ Active!Tick \/ UNCHANGED activeVars => rows' = rows
    BY DEF Active!LeaseExpires, Active!Tick, activeVars
<1>. QED BY <1>1, <1>2, <1>3, <1>4, <1>5, <1>6, <1>7 DEF Active!Next

\* The types of the transports under way hold in every state, of any number of jobs and
\* of processes. (functions/active_deliveries.py.)
THEOREM ActiveIsTyped == Active!Spec => []Active!ActiveTyped
<1>. QED BY ActiveFollows, ActiveInvInit, ActiveInvNext, PTL DEF Active!Spec, Active!activeVars, activeVars

\* A trip is shown once, and not again when it was given up, for any number of jobs and
\* of processes, whatever the snapshots list and whenever passes fail, as long as no
\* lease expires under one. (functions/active_deliveries.py, reconcile and _update_rows.)
THEOREM TripsAreShownOnce == Active!Spec => []Active!ShownOnce
<1>. QED BY ActiveFollows, ActiveInvInit, ActiveInvNext, PTL DEF Active!Spec, Active!activeVars, activeVars

\* What was logged before a pass read it is not closed by it as given up or as a copy if
\* its start is known, also by passes that overlap. (functions/active_deliveries.py, reconcile.)
THEOREM MadeAreCompleted == Active!Spec => []Active!MadeIsCompleted
<1>. QED BY ActiveFollows, ActiveInvInit, ActiveInvNext, PTL DEF Active!Spec, Active!activeVars, activeVars

\* A row that is closed stays as it is, also under a pass that comes late.
\* (functions/active_deliveries.py, reconcile; abandon.)
THEOREM ClosedForGood == Active!Spec => Active!ClosedStaysClosed
<1>1. ActiveInv => ActiveTypes
    BY DEF ActiveInv
<1>. QED BY <1>1, ClosedStayClosed, ActiveInvInit, ActiveInvNext, PTL
         DEF Active!Spec, Active!activeVars, activeVars, Active!ClosedStaysClosed

-----------------------------------------------------------------------------
(* The parts together.                                                     *)

\* Each part keeps its invariant while a behaviour is of it.
AllInv ==
    /\ StatsInv
    /\ focus = "pool" => PoolInv
    /\ focus = "active" => ActiveInv

LEMMA AllInvInit == AllInit => AllInv
<1>. QED BY StatsInvInit, PoolInvInit, ActiveInvInit DEF AllInit, AllInv

LEMMA AllInvNext == AllInv /\ [AllNext]_all => AllInv'
<1>. SUFFICES ASSUME AllInv, [AllNext]_all PROVE AllInv'
    OBVIOUS
<1>1. /\ [Next]_vars
      /\ focus' = focus
      /\ focus = "pool" => [Pool!Next]_poolVars
      /\ focus = "active" => [Active!Next]_activeVars
    <2>1. CASE StatsOnly /\ Next
        BY <2>1 DEF StatsOnly
    <2>2. CASE PoolOnly /\ Pool!Next
        BY <2>2 DEF PoolOnly
    <2>3. CASE ActiveOnly /\ Active!Next
        BY <2>3 DEF ActiveOnly
    <2>4. CASE UNCHANGED all
        BY <2>4 DEF all
    <2>. QED BY <2>1, <2>2, <2>3, <2>4 DEF AllNext
<1>2. StatsInv'
    BY <1>1, StatsInvNext DEF AllInv
<1>3. focus = "pool" => PoolInv'
    BY <1>1, PoolInvNext DEF AllInv
<1>4. focus = "active" => ActiveInv'
    BY <1>1, ActiveInvNext DEF AllInv
<1>. QED BY <1>1, <1>2, <1>3, <1>4 DEF AllInv

\* The types of all parts hold in every state. (threads.py, db.py, functions/active_deliveries.py.)
THEOREM WorkersTyped == AllSpec => []AllTyped
<1>1. AllInv => AllTyped
    BY StatsFollows, ActiveFollows DEF AllInv, AllTyped, PoolInv
<1>. QED BY <1>1, AllInvInit, AllInvNext, PTL DEF AllSpec

\* What many could do is one's, in every state and for constants of any size: one process
\* counts, a connection is of one request, a trip is shown once, and one that was made is
\* not called given up. (threads.py, UpdateDlogStats; db.py, new_conn; functions/active_deliveries.py.)
THEOREM OneAlwaysDoes == AllSpec => []OnlyOnce
<1>1. AllInv => OnlyOnce
    BY KeyExcludes, OfOneFollows, ActiveFollows DEF AllInv, OnlyOnce, StatsInv
<1>. QED BY <1>1, AllInvInit, AllInvNext, PTL DEF AllSpec

\* The statistics are what the tally of whole deliveries allows, and a transport that is
\* closed stays as it is, in every behaviour. (threads.py, UpdateDlogStats;
\* functions/active_deliveries.py.)
THEOREM PromisesKept == AllSpec => PromisesAreKept
<1>1. AllInit => Init
    BY DEF AllInit
<1>2. [AllNext]_all => [Next]_vars
    BY DEF AllNext, all, StatsOnly, PoolOnly, ActiveOnly
<1>3. AllInv /\ [AllNext]_all => [focus = "active" => Active!ClosedStays]_all
    <2>. SUFFICES ASSUME AllInv, AllNext, focus = "active" PROVE Active!ClosedStays
        OBVIOUS
    <2>1. [Active!Next]_activeVars
        BY DEF AllNext, StatsOnly, PoolOnly
    <2>. QED BY <2>1, ClosedStayClosed DEF AllInv, ActiveInv
<1>. QED BY <1>1, <1>2, <1>3, AllInvInit, AllInvNext, TallyInit, TallyStep, StatsInvInit, StatsInvNext, PTL
         DEF AllSpec, PromisesAreKept, CountedAsPromised, Tally!Spec
=============================================================================
