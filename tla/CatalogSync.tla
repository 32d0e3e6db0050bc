----------------------------- MODULE CatalogSync ------------------------------
(***************************************************************************)
(* The shop's products in Meta's commerce catalogue                        *)
(* (services/catalog_sync.py, workers/catalog_tasks.py).  A job loads a    *)
(* product, posts a batch of its items and writes down how that went; the  *)
(* product may be changed or deleted meanwhile, and another job may be at  *)
(* the same one.  A batch updates what the product offers at the moment;   *)
(* only a delete takes an item out of Meta's catalogue.                    *)
(***************************************************************************)
EXTENDS Integers, FiniteSets

CONSTANTS
    Products,
    Variants,       \* variants of a product
    Whole,          \* the item of a product that has no active variants
    Jobs,           \* sync and delete jobs under way
    MaxVersion      \* bound: changes of a product

ASSUME CatalogSyncAssumption == MaxVersion \in Nat \ {0} /\ Whole \notin Variants

VARIABLES
    product,        \* Product rows, with the variants that are active and not deleted
    shown,          \* Meta's catalogue: what it shows for each item of a product
    job,            \* what each job has loaded and how far it has come
    tasks,          \* products to be synced or deleted, by a task that is queued or a
                    \* sweep that has read their ids
    retired,        \* history: products a delete job has taken out
    outrun,         \* history: products changed while a job was at them, or deleted
                    \* while they were still to be synced
    unmarked,       \* history: products with a change that asks for no sync
    withdrawn       \* history: products that ceased to offer an item that had been
                    \* posted, or that a job was about to post

syncVars == << product, shown, job, tasks, retired, outrun, unmarked, withdrawn >>

SyncStatus == {"pending", "synced", "failed"}
ProductRow ==
    [version : 1 .. MaxVersion, status : SyncStatus, deleted : BOOLEAN, active : BOOLEAN,
     variants : SUBSET Variants]
Items == Variants \cup {Whole}
ItemData == [version : 0 .. MaxVersion, onSale : BOOLEAN]
NotListed == [version |-> 0, onSale |-> FALSE]
Free == [pc |-> "free"]
IsAt(j, p) == job[j].pc # "free" /\ job[j].item = p
Busy(p) == \E j \in Jobs : IsAt(j, p)

\* _build_requests: an UPDATE for each active variant, or for the product when it has
\* none.  Only the product's own item heeds product.active; a variant's availability is
\* its stock, which goes with the version.
Offered(row) == IF row.variants = {} THEN {Whole} ELSE row.variants
BatchOf(row) ==
    [i \in Offered(row) |-> [version |-> row.version, onSale |-> (i = Whole => row.active)]]

\* delete_from_catalog: a DELETE for the product's own item and every variant.
Removal == [i \in Items |-> NotListed]

\* Items of p that Meta shows, or will once the jobs at p have posted.
Reached(p) ==
    {i \in Items : shown[p][i] # NotListed}
        \cup UNION {DOMAIN job[j].batch : j \in {k \in Jobs : IsAt(k, p) /\ job[k].kind = "sync"}}

\* The jobs at p no longer have it to themselves.
Disturbed(p) == [j \in Jobs |-> IF IsAt(j, p) THEN [job[j] EXCEPT !.alone = FALSE] ELSE job[j]]

Changes(p) ==
    /\ job' = Disturbed(p)
    /\ outrun' = IF Busy(p) THEN outrun \cup {p} ELSE outrun
    /\ withdrawn' = IF Reached(p) \subseteq Offered(product'[p])
                      THEN withdrawn ELSE withdrawn \cup {p}

-----------------------------------------------------------------------------

\* Mutant of UpdateProduct: the change does not ask for a new sync.
UpdateProductQuietly(p) ==
    /\ ~ product[p].deleted /\ product[p].version < MaxVersion
    /\ product' = [product EXCEPT ![p].version = @ + 1]
    /\ Changes(p)
    /\ UNCHANGED << shown, tasks, retired, unmarked >>

\* update_product, and bulk_import of a product that exists.
UpdateProduct(p) ==
    /\ ~ product[p].deleted /\ product[p].version < MaxVersion
    /\ \E on \in BOOLEAN :
        product' = [product EXCEPT ![p].version = @ + 1, ![p].status = "pending", ![p].active = on]
    /\ Changes(p)
    /\ UNCHANGED << shown, tasks, retired, unmarked >>

\* add_variant and update_variant, which may take a variant out of the offer, and
\* stock that a sale takes, leave sync_status as it is.
UpdateVariant(p) ==
    /\ ~ product[p].deleted /\ product[p].version < MaxVersion
    /\ \E live \in SUBSET Variants :
        product' = [product EXCEPT ![p].version = @ + 1, ![p].variants = live]
    /\ Changes(p)
    /\ unmarked' = unmarked \cup {p}
    /\ UNCHANGED << shown, tasks, retired >>

\* The delete route: soft_delete_product, commit, enqueue, which may be lost.
DeleteProduct(p) ==
    /\ ~ product[p].deleted
    /\ product' = [product EXCEPT ![p].deleted = TRUE, ![p].active = FALSE]
    /\ tasks' \in {tasks, tasks \cup {<< "delete", p >>}}
    /\ job' = Disturbed(p)
    /\ outrun' = IF Busy(p) \/ << "sync", p >> \in tasks THEN outrun \cup {p} ELSE outrun
    /\ UNCHANGED << shown, retired, unmarked, withdrawn >>

\* The sweep passes deleted products over.
Sweepable(p) == product[p].status # "synced" /\ ~ product[p].deleted

\* sync_pending reads ids and comes to them one by one; sync_catalog_product
\* refuses a product that is deleted, and enqueues.
AskForSync(p) ==
    /\ Sweepable(p) \/ ~ product[p].deleted
    /\ tasks' = tasks \cup {<< "sync", p >>}
    /\ UNCHANGED << product, shown, job, retired, outrun, unmarked, withdrawn >>

\* sync_product loads the product, which may have been deleted since.
LoadForSync(j, p) ==
    /\ job[j].pc = "free"
    /\ << "sync", p >> \in tasks
    /\ tasks' = tasks \ {<< "sync", p >>}
    /\ job' = [Disturbed(p) EXCEPT ![j] = [pc |-> "loaded", item |-> p, kind |-> "sync",
                                          batch |-> BatchOf(product[p]), alone |-> ~ Busy(p)]]
    /\ UNCHANGED << product, shown, retired, outrun, unmarked, withdrawn >>

\* delete_from_catalog.
LoadForDelete(j, p) ==
    /\ job[j].pc = "free"
    /\ << "delete", p >> \in tasks
    /\ tasks' = tasks \ {<< "delete", p >>}
    /\ job' = [Disturbed(p) EXCEPT ![j] = [pc |-> "loaded", item |-> p, kind |-> "delete",
                                          batch |-> Removal, alone |-> FALSE]]
    /\ outrun' = IF Busy(p) THEN outrun \cup {p} ELSE outrun
    /\ UNCHANGED << product, shown, retired, unmarked, withdrawn >>

\* _post_batch: all done; or it raises, as the batch was refused, some of its items
\* were, or the answer was lost.
PostBatch(j) ==
    LET batch == job[j].batch IN
    /\ job[j].pc = "loaded"
    /\ \E took \in SUBSET DOMAIN batch, heard \in BOOLEAN :
        /\ heard => took = DOMAIN batch
        /\ shown' = [shown EXCEPT ![job[j].item] =
                        [i \in Items |-> IF i \in took THEN batch[i] ELSE @[i]]]
        /\ job' = [job EXCEPT ![j].pc = IF heard THEN "posted" ELSE "refused"]
    /\ UNCHANGED << product, tasks, retired, outrun, unmarked, withdrawn >>

\* Nothing to post, as no item has an image.
FindNothing(j) ==
    /\ job[j].pc = "loaded" /\ job[j].kind = "sync"
    /\ job' = [job EXCEPT ![j].pc = "refused"]
    /\ UNCHANGED << product, shown, tasks, retired, outrun, unmarked, withdrawn >>

\* The status is written, by primary key, and committed.  A job that had the
\* product to itself makes up for what others have overlooked.
RecordSync(j) ==
    LET made == IF job[j].alone /\ ~ product[job[j].item].deleted THEN {job[j].item} ELSE {} IN
    /\ job[j].pc = "posted" /\ job[j].kind = "sync"
    /\ product' = [product EXCEPT ![job[j].item].status = "synced"]
    /\ outrun' = outrun \ made
    /\ unmarked' = unmarked \ made
    /\ job' = [job EXCEPT ![j] = Free]
    /\ UNCHANGED << shown, tasks, retired, withdrawn >>

RecordDelete(j) ==
    /\ job[j].pc = "posted" /\ job[j].kind = "delete"
    /\ product' = [product EXCEPT ![job[j].item].status = "pending"]
    /\ retired' = retired \cup {job[j].item}
    /\ job' = [job EXCEPT ![j] = Free]
    /\ UNCHANGED << shown, tasks, outrun, unmarked, withdrawn >>

\* _mark_failed, which a failed delete does not do; only a sync is tried
\* again, by the nightly sweep.
RecordFailure(j) ==
    /\ job[j].pc = "refused"
    /\ product' = IF job[j].kind = "sync"
                  THEN [product EXCEPT ![job[j].item].status = "failed"] ELSE product
    /\ job' = [job EXCEPT ![j] = Free]
    /\ UNCHANGED << shown, tasks, retired, outrun, unmarked, withdrawn >>

\* The worker stops and nothing is committed; arq may run the task again.
LoseJob(j) ==
    /\ job[j].pc # "free"
    /\ job' = [job EXCEPT ![j] = Free]
    /\ tasks' \in {tasks, tasks \cup {<< job[j].kind, job[j].item >>}}
    /\ UNCHANGED << product, shown, retired, outrun, unmarked, withdrawn >>

\* create_product.
NewRow == {row \in ProductRow : row.version = 1 /\ row.status = "pending" /\ ~ row.deleted}

CatalogSyncInit ==
    /\ product \in [Products -> NewRow]
    /\ shown = [p \in Products |-> [i \in Items |-> NotListed]]
    /\ job = [j \in Jobs |-> Free]
    /\ tasks = {}
    /\ retired = {}
    /\ outrun = {}
    /\ unmarked = {}
    /\ withdrawn = {}

CatalogSyncNext ==
    \/ \E p \in Products :
        \/ UpdateProduct(p)
        \/ UpdateVariant(p)
        \/ DeleteProduct(p)
        \/ AskForSync(p)
        \/ \E j \in Jobs : LoadForSync(j, p) \/ LoadForDelete(j, p)
    \/ \E j \in Jobs :
        \/ PostBatch(j)
        \/ FindNothing(j)
        \/ RecordSync(j)
        \/ RecordDelete(j)
        \/ RecordFailure(j)
        \/ LoseJob(j)

CatalogSyncSpec == CatalogSyncInit /\ [][CatalogSyncNext]_syncVars

-----------------------------------------------------------------------------
(* Properties.                                                             *)

CatalogSyncTypeOK ==
    /\ product \in [Products -> ProductRow]
    /\ shown \in [Products -> [Items -> ItemData]]
    /\ \A j \in Jobs : job[j].pc \in {"free", "loaded", "posted", "refused"}
    /\ tasks \subseteq {"sync", "delete"} \X Products
    /\ retired \cup outrun \cup unmarked \cup withdrawn \subseteq Products

\* What sync_status says is so, as far as it goes: Meta shows what a synced product on
\* sale offers as it is now, and nothing of one that a delete job has taken out; through
\* failed, partial and repeated posts, answers that are lost, and jobs at the same
\* product; unless it was changed while a job was at it, deleted when a sync of it was
\* still to come, or only its variants and stock were changed.  It does not say that
\* Meta shows nothing else: a variant that was deactivated, and the product's own item
\* once it has variants, stay listed, and that is the only way to be listed without
\* being offered; nor that what is listed is for sale: a variant is, although
\* product.active is off.
UpToDate(p) ==
    \A i \in Offered(product[p]) :
        shown[p][i] = [version |-> product[p].version, onSale |-> (i = Whole => product[p].active)]
Gone(p) == \A i \in Items : shown[p][i] = NotListed
StatusIsSo ==
    \A p \in Products \ outrun :
        /\ product[p].status = "synced" /\ ~ product[p].deleted /\ p \notin unmarked => UpToDate(p)
        /\ p \in retired => Gone(p)
NothingElseListed ==
    \A p \in Products \ withdrawn :
        \A i \in Items \ Offered(product[p]) : shown[p][i] = NotListed
SyncStatusIsTrue == StatusIsSo /\ NothingElseListed
=============================================================================
