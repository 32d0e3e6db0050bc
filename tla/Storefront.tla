------------------------------ MODULE Storefront ------------------------------
(***************************************************************************)
(* The catalogue and its ratings as shoppers see them, through the cache   *)
(* (cache.py, services/product.py, services/review.py).  A writer flushes, *)
(* drops the cached copies and then commits; a reader that misses reads    *)
(* the database and stores what it has read.  Redis may be away: then      *)
(* reads miss, and stores and drops are lost.                              *)
(*                                                                         *)
(* The product page is not here: its copy holds a datetime, which          *)
(* cache_set cannot encode, so it is never stored.                         *)
(***************************************************************************)
EXTENDS Integers, FiniteSets

CONSTANTS
    Writers,        \* requests that change the catalogue or a review
    Readers,        \* requests and jobs that read through the cache
    Lines,          \* delivered order lines that may be reviewed, of one product
    Absent,         \* no entry in the cache
    MaxRevision,    \* bound: changes of the catalogue
    MaxAway         \* bound: accesses to Redis that fail

ASSUME StorefrontAssumption == MaxRevision \in Nat /\ MaxAway \in Nat

VARIABLES
    revision,       \* the committed catalogue, by the number of its changes
    review,         \* committed Review rows
    copy,           \* the cache
    writer,         \* uncommitted writes
    reader,         \* fills under way
    suspect,        \* history: keys whose copy was filled while a change was on its
                    \* way, or kept when Redis was away
    away

shopVars == << revision, review, copy, writer, reader, suspect, away >>

\* cache:categories and cache:ai:catalog are dropped and filled alike.
Keys == {"catalog", "rating"}

ReviewRow == [stars : {0, 1, 5}, flagged : BOOLEAN, deleted : BOOLEAN]
Unwritten == [stars |-> 0, flagged |-> FALSE, deleted |-> FALSE]
Idle == [pc |-> "idle"]
NoFill == [pc |-> "idle"]

-----------------------------------------------------------------------------

\* get_rating_summary counts the rows that are not deleted; a flag hides the
\* text of a review and not its stars.
Rated(rows) == {<< l, rows[l].stars >> : l \in {l \in Lines : rows[l].stars # 0 /\ ~ rows[l].deleted}}

\* What the loader of a key reads.
Current(key) == IF key = "catalog" THEN {<< "revision", revision >>} ELSE Rated(review)

\* Keys a pending write will change.
Pending(w) ==
    CASE writer[w].pc = "editing" -> {"catalog"}
      [] writer[w].pc = "reviewing" -> {"rating"}
      [] OTHER -> {}

Available == UNCHANGED away
Away == away < MaxAway /\ away' = away + 1

\* Mutant of Drop: the rating outlives the review it counts.
DropCatalogOnly(keys) ==
    /\ copy' = [k \in Keys |-> IF k \in keys \cap {"catalog"} THEN Absent ELSE copy[k]]
    /\ suspect' = suspect \ keys
    /\ Available

\* cache_delete.
Drop(keys) ==
    \/ /\ copy' = [k \in Keys |-> IF k \in keys THEN Absent ELSE copy[k]]
       /\ suspect' = suspect \ keys
       /\ Available
    \/ /\ Away
       /\ suspect' = suspect \cup keys
       /\ UNCHANGED copy

\* The bound, on edits that are under way too.
MayEdit == revision + Cardinality({w \in Writers : writer[w].pc = "editing"}) < MaxRevision

\* invalidate_catalog: the rating goes only where a product is named.
DropCatalog == Drop(Keys) \/ Drop({"catalog"})

\* create_product, update_product, soft_delete_product, the variants and
\* create_category, up to invalidate_catalog.
EditCatalog(w) ==
    /\ writer[w].pc = "idle"
    /\ MayEdit
    /\ writer' = [writer EXCEPT ![w] = [pc |-> "editing"]]
    /\ DropCatalog
    /\ UNCHANGED << revision, review, reader >>

\* bulk_import passes over a row that is refused.  A row whose flush fails takes
\* the transaction with it: every row after it fails too, and so does the commit.
ImportProducts(w) ==
    /\ writer[w].pc = "idle"
    /\ MayEdit
    /\ \E outcome \in {"editing", "doomed"} : writer' = [writer EXCEPT ![w] = [pc |-> outcome]]
    /\ DropCatalog
    /\ UNCHANGED << revision, review, reader >>

\* create_review, once for a line, be it deleted since; update_review and
\* delete_review.
ByShopper(r) ==
    IF r.stars = 0 THEN {[Unwritten EXCEPT !.stars = s] : s \in {1, 5}}
    ELSE IF r.deleted THEN {}
    ELSE {[r EXCEPT !.stars = s] : s \in {1, 5}} \cup {[r EXCEPT !.deleted = TRUE]}

\* set_flagged, admin_delete_review.
ByStaff(r) ==
    IF r.stars = 0 \/ r.deleted THEN {}
    ELSE {[r EXCEPT !.flagged = ~ r.flagged], [r EXCEPT !.deleted = TRUE]}

\* The flush takes the row, and a second insert of it waits; _invalidate_rating.
WriteReview(w, l) ==
    /\ writer[w].pc = "idle"
    /\ \A v \in Writers : writer[v].pc = "reviewing" => writer[v].line # l
    /\ \E r \in ByShopper(review[l]) \cup ByStaff(review[l]) :
        writer' = [writer EXCEPT ![w] = [pc |-> "reviewing", line |-> l, row |-> r]]
    /\ Drop({"rating"})
    /\ UNCHANGED << revision, review, reader >>

\* Fills under way have read what is now old.
Outdate(keys) ==
    reader' = [r \in Readers |->
                 IF reader[r].pc = "filling" /\ reader[r].key \in keys
                 THEN [reader[r] EXCEPT !.late = TRUE] ELSE reader[r]]

CommitWrite(w) ==
    /\ writer[w].pc \in {"editing", "reviewing"}
    /\ IF writer[w].pc = "editing"
       THEN revision' = revision + 1 /\ UNCHANGED review
       ELSE review' = [review EXCEPT ![writer[w].line] = writer[w].row] /\ UNCHANGED revision
    /\ Outdate(Pending(w))
    /\ writer' = [writer EXCEPT ![w] = Idle]
    /\ UNCHANGED << copy, suspect, away >>

RollBack(w) ==
    /\ writer[w].pc # "idle"
    /\ writer' = [writer EXCEPT ![w] = Idle]
    /\ UNCHANGED << revision, review, copy, reader, suspect, away >>

\* list_categories, get_rating_summary, build_ai_catalog_context: a miss.
Miss(r, k) ==
    /\ reader[r].pc = "idle"
    /\ \/ copy[k] = Absent /\ Available
       \/ copy[k] # Absent /\ Away
    /\ reader' = [reader EXCEPT ![r] = [pc |-> "filling", key |-> k, seen |-> Current(k), late |-> FALSE]]
    /\ UNCHANGED << revision, review, copy, writer, suspect >>

\* cache_set of what was read.
Fill(r) ==
    LET k == reader[r].key IN
    /\ reader[r].pc = "filling"
    /\ reader' = [reader EXCEPT ![r] = NoFill]
    /\ \/ /\ copy' = [copy EXCEPT ![k] = reader[r].seen]
          /\ suspect' = IF reader[r].late \/ \E w \in Writers : k \in Pending(w)
                        THEN suspect \cup {k} ELSE suspect \ {k}
          /\ Available
       \/ /\ Away
          /\ UNCHANGED << copy, suspect >>
    /\ UNCHANGED << revision, review, writer >>

\* The entry's time is over.
ExpireCopy(k) ==
    /\ copy[k] # Absent
    /\ copy' = [copy EXCEPT ![k] = Absent]
    /\ suspect' = suspect \ {k}
    /\ UNCHANGED << revision, review, writer, reader, away >>

StorefrontInit ==
    /\ revision = 0
    /\ review = [l \in Lines |-> Unwritten]
    /\ copy = [k \in Keys |-> Absent]
    /\ writer = [w \in Writers |-> Idle]
    /\ reader = [r \in Readers |-> NoFill]
    /\ suspect = {}
    /\ away = 0

StorefrontNext ==
    \/ \E w \in Writers :
        \/ EditCatalog(w)
        \/ ImportProducts(w)
        \/ \E l \in Lines : WriteReview(w, l)
        \/ CommitWrite(w)
        \/ RollBack(w)
    \/ \E r \in Readers : Fill(r) \/ \E k \in Keys : Miss(r, k)
    \/ \E k \in Keys : ExpireCopy(k)

StorefrontSpec == StorefrontInit /\ [][StorefrontNext]_shopVars

-----------------------------------------------------------------------------
(* Properties.                                                             *)

StorefrontTypeOK ==
    /\ revision \in 0 .. MaxRevision
    /\ review \in [Lines -> ReviewRow]
    /\ DOMAIN copy = Keys
    /\ \A w \in Writers : writer[w].pc \in {"idle", "editing", "doomed", "reviewing"}
    /\ \A r \in Readers : reader[r].pc \in {"idle", "filling"}
    /\ suspect \subseteq Keys
    /\ away \in 0 .. MaxAway

\* "Ratings are always derived": what the cache hands out is what the database
\* holds; it lags only when the copy was stored while a change was on its way,
\* between the drop and the commit or between the read and the store, or was
\* not dropped because Redis did not answer.
CopiesAreCurrent ==
    \A k \in Keys \ suspect : copy[k] # Absent => copy[k] = Current(k)
=============================================================================
