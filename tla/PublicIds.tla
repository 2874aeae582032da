----------------------------- MODULE PublicIds ------------------------------
(***************************************************************************)
(* The public ids of deliveries: two symbols for the month, scrambled by a *)
(* keyed Feistel permutation, random symbols and a checksum. An id is      *)
(* reserved for ever when it is given out, in the transaction that logs    *)
(* the delivery; a collision draws another one. Deliveries from before get *)
(* theirs by a migration that may be interrupted, started again, or told   *)
(* to number everything anew; the server starts only after it is complete. *)
(*                                                                         *)
(* The migration runs while the server is stopped. Columns, indexes and    *)
(* the fingerprint of the key are left out.                                *)
(***************************************************************************)
EXTENDS Integers, FiniteSetsExt, SequencesExt, Bitwise

CONSTANTS
    Writers,
    Logs,        \* logids
    Old,         \* those of before the migration, by month, -1 if it cannot be read
    Base,        \* symbols: 32
    Width,       \* random symbols: 5
    Rounds,      \* of the permutation: 8
    Round(_, _), \* the keyed function of a half and the round
    Months,      \* months of new deliveries
    MaxStops     \* bound on stops and crashes

VARIABLES
    table,     \* dlog and dlog_deleted, by logid [in, month, id]; id << >> for NULL
    registry,  \* public_id_registry
    tx,        \* by writer, [log, month, id]; log 0 for none
    server,    \* it runs
    strict,    \* public_id is NOT NULL
    migration, \* [pc, force, todo, pending, bad]
    given,     \* history: who was given which id
    stopped

idVars == <<table, registry, tx, server, strict, migration, given, stopped>>

-----------------------------------------------------------------------------
Symbols == 0..Base - 1

\* The halves of a month's number, eight times exchanged and mixed.
Permute(m) ==
    FoldLeft(LAMBDA h, i : <<h[2], h[1] ^^ Round(h[2], i)>>, <<m \div Base, m % Base>>,
             [i \in 1..Rounds |-> i])
\* The mutant: the rounds are not taken backwards.
UnpermuteForwards(s) ==
    FoldLeft(LAMBDA h, i : <<h[2] ^^ Round(h[1], i), h[1]>>, s, [i \in 1..Rounds |-> i])
Unpermute(s) ==
    FoldLeft(LAMBDA h, i : <<h[2] ^^ Round(h[1], i), h[1]>>, s, [i \in 1..Rounds |-> Rounds + 1 - i])

\* The mutant: even weights.
WeightEven(i) == 2 * i
Weight(i) == 2 * i - 1
checksum(payload) ==
    FoldLeft(LAMBDA n, i : n + Weight(i) * payload[i], 0, [i \in DOMAIN payload |-> i]) % Base

generate_public_id(m, body) == LET p == Permute(m) \o body IN Append(p, checksum(p))
validate_public_id(id) == Len(id) = Width + 3 /\ checksum(Front(id)) = Last(id)
decode_time_bucket(id) == LET h == Unpermute(SubSeq(id, 1, 2)) IN h[1] * Base + h[2]

Bodies == [1..Width -> Symbols]
None == << >>

-----------------------------------------------------------------------------
NoTx == [log |-> 0, month |-> 0, id |-> None]
NoMigration == [pc |-> "idle", force |-> FALSE, todo |-> {}, pending |-> [l \in {} |-> None], bad |-> FALSE]

Init ==
    /\ table = [l \in Logs |-> IF l \in DOMAIN Old THEN [in |-> "dlog", month |-> Old[l], id |-> None]
                               ELSE [in |-> "none", month |-> -1, id |-> None]]
    /\ registry = {} /\ given = {}
    /\ tx = [p \in Writers |-> NoTx] /\ server = FALSE /\ strict = FALSE
    /\ migration = NoMigration /\ stopped = 0

Stored == {l \in Logs : table[l].in # "none"}
Pending == migration.pending

-----------------------------------------------------------------------------
(* The server.                                                             *)
startup ==
    /\ ~server /\ strict /\ migration.pc = "idle" /\ server' = TRUE
    /\ UNCHANGED <<table, registry, tx, strict, migration, given, stopped>>
Stop ==
    /\ server /\ stopped < MaxStops /\ stopped' = stopped + 1
    /\ server' = FALSE /\ tx' = [p \in Writers |-> NoTx]
    /\ UNCHANGED <<table, registry, strict, migration, given>>

Begin(p, l, m) ==
    /\ server /\ tx[p] = NoTx /\ table[l].in = "none" /\ \A q \in Writers : tx[q].log # l
    /\ m \in 0..Base * Base - 1
    /\ tx' = [tx EXCEPT ![p] = [log |-> l, month |-> m, id |-> None]]
    /\ UNCHANGED <<table, registry, server, strict, migration, given, stopped>>

\* An id that another transaction holds is waited for; the first one to take it has it.
insert_delivery(p, body) ==
    LET id == generate_public_id(tx[p].month, body) IN
    /\ tx[p].log # 0 /\ tx[p].id = None /\ \A q \in Writers : tx[q].id # id
    /\ id \notin registry
    /\ tx' = [tx EXCEPT ![p].id = id]
    /\ UNCHANGED <<table, registry, server, strict, migration, given, stopped>>

\* Sixteen collisions, or a later statement that fails.
Rollback(p) ==
    /\ tx[p].log # 0 /\ tx' = [tx EXCEPT ![p] = NoTx]
    /\ UNCHANGED <<table, registry, server, strict, migration, given, stopped>>

Commit(p) ==
    LET t == tx[p] IN
    /\ t.id # None
    /\ table' = [table EXCEPT ![t.log] = [in |-> "dlog", month |-> t.month, id |-> t.id]]
    /\ registry' = registry \union {t.id} /\ given' = given \union {<<t.id, t.log>>}
    /\ tx' = [tx EXCEPT ![p] = NoTx]
    /\ UNCHANGED <<server, strict, migration, stopped>>

\* The mutant: the id of a deleted delivery may be drawn again.
Released(l) == registry \ {table[l].id}
Kept(l) == registry

delete_dlog(l) ==
    /\ server /\ table[l].in = "dlog"
    /\ table' = [table EXCEPT ![l].in = "dlog_deleted"] /\ registry' = Kept(l)
    /\ UNCHANGED <<tx, server, strict, migration, given, stopped>>

-----------------------------------------------------------------------------
(* The migration.                                                          *)
prepare(force) ==
    /\ ~server /\ migration.pc = "idle" /\ (force \/ ~strict)
    /\ registry' = registry \union ({table[l].id : l \in Stored} \ {None})
    /\ migration' = [NoMigration EXCEPT !.pc = "rows", !.force = force, !.todo = Stored]
    /\ UNCHANGED <<table, tx, server, strict, given, stopped>>

Done(l) == migration.todo \ {l}

\* Rows one after the other; sixteen collisions and an unreadable month are errors.
backfill(l) ==
    LET Free(id) == id \notin registry \union {Pending[i] : i \in DOMAIN Pending}
        Candidates == {generate_public_id(table[l].month, b) : b \in Bodies}
    IN
    /\ migration.pc = "rows" /\ migration.todo # {} /\ l = Min(migration.todo)
    /\ \/ /\ table[l].id # None /\ ~migration.force
          /\ migration' = [migration EXCEPT !.todo = Done(l), !.bad = @ \/ ~validate_public_id(table[l].id)]
       \/ /\ table[l].id = None \/ migration.force
          /\ \/ /\ table[l].month = -1 \/ \E id \in Candidates : ~Free(id)
                /\ migration' = [migration EXCEPT !.todo = Done(l), !.bad = TRUE]
             \/ /\ table[l].month # -1
                /\ \E id \in Candidates :
                    /\ Free(id)
                    /\ migration' = [migration EXCEPT !.todo = Done(l), !.pending = (l :> id) @@ @]
    /\ UNCHANGED <<table, registry, tx, server, strict, given, stopped>>

\* The mutant: whatever could not be numbered.
CompleteAnyway == TRUE
Complete == ~migration.bad

\* A batch is committed; so is the rest, and then the column is made NOT NULL.
CommitBatch ==
    LET P == DOMAIN Pending IN
    /\ migration.pc = "rows" /\ (P # {} \/ migration.todo = {})
    /\ table' = [l \in Logs |-> IF l \in P THEN [table[l] EXCEPT !.id = Pending[l]] ELSE table[l]]
    /\ registry' = registry \union {Pending[l] : l \in P}
    /\ given' = given \union {<<Pending[l], l>> : l \in P}
    /\ strict' = (strict \/ (migration.todo = {} /\ Complete))
    /\ migration' = IF migration.todo = {} THEN NoMigration ELSE [migration EXCEPT !.pending = NoMigration.pending]
    /\ UNCHANGED <<tx, server, stopped>>

Crash ==
    /\ migration.pc = "rows" /\ stopped < MaxStops /\ stopped' = stopped + 1
    /\ migration' = NoMigration
    /\ UNCHANGED <<table, registry, tx, server, strict, given>>

\* A month that could not be read is put right from the source.
Repair(l, m) ==
    /\ l \in Stored /\ table[l].month = -1 /\ migration.pc = "idle"
    /\ table' = [table EXCEPT ![l].month = m]
    /\ UNCHANGED <<registry, tx, server, strict, migration, given, stopped>>

Next ==
    \/ startup \/ Stop \/ CommitBatch \/ Crash
    \/ \E force \in BOOLEAN : prepare(force)
    \/ \E l \in Logs : delete_dlog(l) \/ backfill(l) \/ \E m \in Months : Repair(l, m)
    \/ \E p \in Writers :
        \/ Rollback(p) \/ Commit(p)
        \/ \E l \in Logs, m \in Months : Begin(p, l, m)
        \/ \E b \in Bodies : insert_delivery(p, b)
Spec == Init /\ [][Next]_idVars

-----------------------------------------------------------------------------
\* Every variable has its type.
IdsTyped ==
    /\ table \in [Logs -> [in : {"none", "dlog", "dlog_deleted"}, month : Int, id : Seq(Symbols)]]
    /\ server \in BOOLEAN /\ strict \in BOOLEAN /\ stopped \in 0..MaxStops
    /\ migration.todo \subseteq Stored /\ DOMAIN Pending \subseteq Stored

\* An id is never of another delivery: not after its own was deleted or numbered anew,
\* not by two writers at a time, not after a migration was interrupted. What a running
\* server has logged has its id, and a migration leaves none out.
\* (public_id_store.py, insert_delivery; public_id_migration.py, backfill; api.py.)
IdsAreOfOne ==
    /\ \A g, h \in given : g[1] = h[1] => g[2] = h[2]
    /\ server => \A l \in Stored : <<table[l].id, l>> \in given

\* An id tells the month of its delivery to who has the key, and no other id that
\* differs from it in one symbol is valid. (public_ids.py: checksum "detects EVERY
\* single-symbol change", decode_time_bucket.)
IdsAreReadable ==
    \A l \in Stored : LET id == table[l].id IN id # None =>
        /\ validate_public_id(id) /\ decode_time_bucket(id) = table[l].month
        /\ \A i \in DOMAIN id, s \in Symbols : s # id[i] => ~validate_public_id([id EXCEPT ![i] = s])
=============================================================================
