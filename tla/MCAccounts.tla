----------------------------- MODULE MCAccounts -----------------------------
(***************************************************************************)
(* Small instances for TLC of UserAccounts. The constants are those of the *)
(* longest behaviours; how many requests begin and how long time goes on   *)
(* is bounded here, part by part.                                          *)
(***************************************************************************)
EXTENDS UserAccounts, TLC

VARIABLE long   \* more requests of users, with nobody on the staff, nor Discord

Symmetry == Permutations(Reqs)

\* The founder owns nothing.
OfOwners == 0 \notin economy'

\* The founder is left alone and does nothing, and members are drivers only.
OfUserTwo ==
    /\ \A r \in Reqs : req'[r].uid # Founder /\ req'[r].pc # "roles"
    /\ user'[2].roles \subseteq {driver}

\* What Trucky's roles stand for comes from Trucky only, but for the drivers' role.
OfStaff == \A r \in Reqs : req'[r].roles \intersect TruckyRoles \subseteq req'[r].old

\* Addresses come from confirmations only.
OfMails ==
    /\ \A r \in Reqs : req'[r].pc # "write"
    /\ \A u \in Uids : user'[u].email = Emails!none => user[u].email = Emails!none

AtMost(n) == IF reqs < n THEN TRUE ELSE UNCHANGED reqs

MCInit == Init /\ long \in BOOLEAN /\ (long => focus \in {"members", "emails"})
MCNext ==
    /\ UNCHANGED long
    /\ \/ focus = "members" /\ long
       \/ focus = "members" /\ ~long /\ AtMost(4) /\ UNCHANGED now
       \/ focus = "emails" /\ AtMost(IF long THEN 4 ELSE 3)
       \/ focus \in {"connections", "notifications"} /\ AtMost(3)
    /\ Next
    /\ focus = "members" => OfOwners /\ IF long THEN OfUserTwo ELSE OfStaff
    /\ long /\ focus = "emails" => OfMails
MCSpec == MCInit /\ [][MCNext]_<<vars, long>>
=============================================================================
