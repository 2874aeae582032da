-------------------------------- MODULE Posts --------------------------------
(***************************************************************************)
(* Announcements and downloads: staff post, edit and delete them; members  *)
(* list them page by page, ask for a link to a download and follow it.     *)
(*                                                                         *)
(* A row has an order and may be pinned; titles and contents are one value *)
(* with the type of an announcement, which says whose staff may touch it.  *)
(***************************************************************************)
EXTENDS Integers, Sequences, FiniteSetsExt, SequencesExt

CONSTANTS
    Reqs, Staff,
    TypesOf,     \* the types of announcements a member of the staff manages
    Orders,      \* the orders that may be given
    Fresh,       \* how long a link may be followed: 300 seconds
    MaxPosts, MaxReqs, MaxLinks, MaxTime    \* bounds

VARIABLES
    post,        \* the rows; a deleted one has the id negated
    downloads_templink,    \* [post, expire], by secret
    now,
    req, reqs,
    followed     \* history: by row, how often a link led to it

vars == <<post, downloads_templink, now, req, reqs, followed>>

Ids == 1..MaxPosts
Types == UNION {TypesOf[u] : u \in Staff}
NoPost == [live |-> FALSE, type |-> 0, orderid |-> 0, is_pinned |-> FALSE, click_count |-> 0]
Used == {p \in Ids : post[p].type # 0}
Live == {p \in Ids : post[p].live}
Secrets == 1..MaxLinks
NoLink == [post |-> 0, expire |-> 0]
Idle == [pc |-> "idle", id |-> 0, row |-> NoPost, secret |-> 0]

Init ==
    /\ post = [p \in Ids |-> NoPost]
    /\ downloads_templink = [s \in Secrets |-> NoLink]
    /\ now = 1
    /\ req = [r \in Reqs |-> Idle] /\ reqs = 0
    /\ followed = [p \in Ids |-> 0]

-----------------------------------------------------------------------------
Begin(r, job) ==
    /\ reqs < MaxReqs /\ req[r].pc = "idle"
    /\ reqs' = reqs + 1
    /\ req' = [req EXCEPT ![r] = job]
    /\ UNCHANGED <<post, downloads_templink, now, followed>>
End(r) == req' = [req EXCEPT ![r] = Idle]

post_post(u, type, orderid, is_pinned) ==
    /\ Used # Ids /\ type \in TypesOf[u]
    /\ post' = [post EXCEPT ![Min(Ids \ Used)] = [NoPost EXCEPT
                    !.live = TRUE, !.type = type, !.orderid = orderid, !.is_pinned = is_pinned]]
    /\ UNCHANGED <<downloads_templink, now, req, reqs, followed>>

\* The type it has and the one it is given must be of the staff's.
patch_post(r, u, p, type, orderid, is_pinned) ==
    /\ p \in Live /\ post[p].type \in TypesOf[u] /\ type \in TypesOf[u]
    /\ Begin(r, [Idle EXCEPT !.pc = "patch", !.id = p, !.row =
            [post[p] EXCEPT !.type = type, !.orderid = orderid, !.is_pinned = is_pinned]])

\* The mutant: all columns are written as they were read.
WholeRow(r) == req[r].row
\* All columns that may be given.
Edited(r) == [req[r].row EXCEPT !.click_count = post[req[r].id].click_count]

WritePost(r) ==
    /\ req[r].pc = "patch"
    /\ post' = IF req[r].id \in Live THEN [post EXCEPT ![req[r].id] = Edited(r)] ELSE post
    /\ End(r)
    /\ UNCHANGED <<downloads_templink, now, reqs, followed>>

delete_post(u, p) ==
    /\ p \in Live /\ post[p].type \in TypesOf[u]
    /\ post' = [post EXCEPT ![p].live = FALSE]
    /\ UNCHANGED <<downloads_templink, now, req, reqs, followed>>

-----------------------------------------------------------------------------
Purged == [s \in Secrets |-> IF downloads_templink[s].expire <= now THEN NoLink
                             ELSE downloads_templink[s]]

\* The link, whose secret is new, is committed with the end of the old ones.
get_downloads(s, p) ==
    /\ p \in Live /\ reqs < MaxReqs
    /\ s \in Secrets /\ downloads_templink[s] = NoLink
    /\ reqs' = reqs + 1
    /\ downloads_templink' = [Purged EXCEPT ![s] = [post |-> p, expire |-> now + Fresh]]
    /\ UNCHANGED <<post, now, req, followed>>

\* Old links end; the link and the download are read; the click is counted, of a
\* download that is deleted meanwhile no more.
get_redirect(r, s) ==
    /\ reqs < MaxReqs /\ req[r].pc = "idle"
    /\ reqs' = reqs + 1
    /\ downloads_templink' = Purged
    /\ req' = IF Purged[s].post \in Live
              THEN [req EXCEPT ![r] = [Idle EXCEPT !.pc = "click", !.id = Purged[s].post,
                                                   !.secret = s]]
              ELSE req
    /\ UNCHANGED <<post, now, followed>>

Click(r) ==
    /\ req[r].pc = "click"
    /\ LET p == req[r].id IN
        IF p \in Live
        THEN /\ post' = [post EXCEPT ![p].click_count = @ + 1]
             /\ followed' = [followed EXCEPT ![p] = @ + 1]
        ELSE UNCHANGED <<post, followed>>
    /\ End(r)
    /\ UNCHANGED <<downloads_templink, now, reqs>>

Tick == now < MaxTime /\ now' = now + 1
        /\ UNCHANGED <<post, downloads_templink, req, reqs, followed>>

Next ==
    \/ \E u \in Staff, type \in Types, orderid \in Orders, is_pinned \in BOOLEAN :
        \/ post_post(u, type, orderid, is_pinned)
        \/ \E r \in Reqs, p \in Ids : patch_post(r, u, p, type, orderid, is_pinned)
    \/ \E u \in Staff, p \in Ids : delete_post(u, p)
    \/ \E s \in Secrets : \/ \E p \in Ids : get_downloads(s, p)
                          \/ \E r \in Reqs : get_redirect(r, s)
    \/ \E r \in Reqs : WritePost(r) \/ Click(r)
    \/ Tick

Spec == Init /\ [][Next]_vars

-----------------------------------------------------------------------------
(* The list, page by page, from an item on.                                *)

\* Pinned ones first, then by order, and of the same order the newest first.
Before(p, q) ==
    LET x == post[p]  y == post[q] IN
    \/ x.is_pinned /\ ~ y.is_pinned
    \/ x.is_pinned = y.is_pinned /\ x.orderid < y.orderid
    \/ x.is_pinned = y.is_pinned /\ x.orderid = y.orderid /\ p > q
All == SetToSortSeq(Live, Before)

\* after: the item to begin with, or 0; if it is not there, nothing is left.
base_rows(after) ==
    IF after = 0 THEN 0
    ELSE Cardinality({i \in 1..Len(All) : after \notin {All[j] : j \in 1..i}})

get_list(page, page_size, after) ==
    LET from == base_rows(after) + (page - 1) * page_size
    IN SubSeq(All, from + 1, Min({from + page_size, Len(All)}))

total_pages(page_size, after) ==
    (Len(All) - base_rows(after) + page_size - 1) \div page_size

-----------------------------------------------------------------------------
\* Every variable has its type.
TypeOK ==
    /\ post \in [Ids -> [live : BOOLEAN, type : Types \union {0}, orderid : Orders \union {0},
                         is_pinned : BOOLEAN, click_count : 0..MaxReqs]]
    /\ downloads_templink \in [Secrets -> [post : Ids \union {0}, expire : 0..MaxTime + Fresh]]
    /\ now \in 1..MaxTime /\ reqs \in 0..MaxReqs

\* Every time a link led to a download it is counted, whatever staff edit while
\* members follow links.
ClicksAreCounted == \A p \in Ids : post[p].click_count = followed[p]

\* The pages of a list, up to the last that is announced, show every item from
\* the given one on, once and in order.
PagesCoverTheList ==
    \A page_size \in 1..2, after \in Live \union {0} :
        LET n == total_pages(page_size, after)
            pages == FlattenSeq([i \in 1..n |-> get_list(i, page_size, after)])
        IN /\ pages = SubSeq(All, base_rows(after) + 1, Len(All))
           /\ after # 0 => Head(pages) = after
           /\ get_list(n + 1, page_size, after) = <<>>
=============================================================================
