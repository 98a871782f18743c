------------------------------ MODULE Catalog ------------------------------
(***************************************************************************)
(* The rows behind the menu: CategoriesService, the writes of MenusService *)
(* and the seed script, which run at the same time against one database.   *)
(*                                                                         *)
(* Rows are removed softly: a category or an item stays in its table with  *)
(* a deletion date. A handler reads, decides and writes in statements of   *)
(* its own, and any number of other statements come in between.  What an   *)
(* item costs or looks like and where a category is sorted is left out.    *)
(***************************************************************************)
EXTENDS Naturals, Sequences, FiniteSets

CONSTANTS
    Requests,      \* slots for requests and seedings in flight
    Slugs,         \* what slugify makes of the names of categories
    SeedSlug,      \* the slug of a category of the seed script
    Keep,          \* an update that leaves the category out
    MaxCategories, \* bound on the categories ever made
    MaxItems,      \* bound on the items ever made
    MaxLists       \* bound on the lists of variant groups ever sent

ASSUME CatalogAssumption ==
    /\ SeedSlug \in Slugs
    /\ MaxCategories \in Nat
    /\ MaxItems \in Nat
    /\ MaxLists \in Nat
    /\ Keep \notin Nat

VARIABLES
    categories,    \* the rows of categories; a row's id is its place
    items,         \* the rows of menu_items
    lists,         \* the lists of variant groups sent so far
    job,           \* handlers in flight
    raced,         \* history: the items whose last move met the removal of
                   \* their category
    mixed          \* history: the items whose last replacement of variant
                   \* groups had company

vars == <<categories, items, lists, job, raced, mixed>>

Category == [slug: Slugs, live: BOOLEAN]
Groups == SUBSET (0..MaxLists)
\* The groups of an item are told apart by the list that brought them; 0 stands
\* for the seed script.
Item == [category: 1..MaxCategories, live: BOOLEAN, available: BOOLEAN, groups: Groups]

Idle == [at |-> "idle"]
Refs == 1..MaxCategories
Job == [at: {"insert"}, slug: Slugs]
         \cup [at: {"check", "rename"}, category: Refs, slug: Slugs]
         \cup [at: {"count", "delete"}, category: Refs]
         \cup [at: {"add"}, category: Refs, groups: Groups, seeding: BOOLEAN]
         \cup [at: {"category", "replace"}, item: 1..MaxItems,
               category: Refs \cup {Keep}, sends: BOOLEAN]
         \cup [at: {"commit"}, item: 1..MaxItems, category: Refs \cup {Keep},
               sends: BOOLEAN, drops: Groups, groups: Groups, alone: BOOLEAN]
         \cup [at: {"toggle"}, item: 1..MaxItems, available: BOOLEAN]
         \cup [at: {"retire"}, item: 1..MaxItems]
         \cup [at: {"find"}, category: Refs]
         \cup [at: {"adopt"}, category: Refs, item: 1..MaxItems]

TypeOK ==
    /\ categories \in Seq(Category) /\ Len(categories) <= MaxCategories
    /\ items \in Seq(Item) /\ Len(items) <= MaxItems
    /\ lists \in 0..MaxLists
    /\ job \in [Requests -> Job \cup {Idle}]
    /\ raced \subseteq DOMAIN items
    /\ mixed \subseteq DOMAIN items

-----------------------------------------------------------------------------

LiveCategory(c) == c \in DOMAIN categories /\ categories[c].live
LiveItem(i) == i \in DOMAIN items /\ items[i].live

Start(h, j) == job[h] = Idle /\ job' = [job EXCEPT ![h] = j]
Continue(h, j) == job' = [job EXCEPT ![h] = j]
Done(h) == Continue(h, Idle)

\* A handler that has counted the items of c is about to remove c.
Removing(c) == \E g \in Requests : job[g].at = "delete" /\ job[g].category = c

\* The history after item i has been put into category c.
Moved(i, c) ==
    raced' = IF LiveCategory(c) /\ ~ Removing(c) THEN raced \ {i} ELSE raced \cup {i}

-----------------------------------------------------------------------------
(* Categories.                                                             *)

\* category.findFirst({ slug, deletedAt: null })
SlugTaken(slug, but) ==
    \E c \in DOMAIN categories \ but : categories[c].live /\ categories[c].slug = slug

\* The UNIQUE index on slug, which removed rows stay in.
SlugIsFree(slug, but) == \A c \in DOMAIN categories \ but : categories[c].slug # slug

CreateCategory(h, slug) ==
    /\ ~ SlugTaken(slug, {})
    /\ Start(h, [at |-> "insert", slug |-> slug])
    /\ UNCHANGED <<categories, items, lists, raced, mixed>>

AddCategory(slug) ==
    /\ Len(categories) < MaxCategories
    /\ categories' = Append(categories, [slug |-> slug, live |-> TRUE])

\* category.create; a slug that is not free ends the request with 409.
InsertCategory(h) ==
    /\ job[h].at = "insert"
    /\ IF SlugIsFree(job[h].slug, {}) THEN AddCategory(job[h].slug) ELSE UNCHANGED categories
    /\ Done(h)
    /\ UNCHANGED <<items, lists, raced, mixed>>

UpdateCategory(h, c, slug) ==
    /\ LiveCategory(c)
    /\ Start(h, [at |-> "check", category |-> c, slug |-> slug])
    /\ UNCHANGED <<categories, items, lists, raced, mixed>>

CheckSlug(h) ==
    /\ job[h].at = "check"
    /\ IF SlugTaken(job[h].slug, {job[h].category})
       THEN Done(h)
       ELSE Continue(h, [job[h] EXCEPT !.at = "rename"])
    /\ UNCHANGED <<categories, items, lists, raced, mixed>>

RenameCategory(h) ==
    /\ job[h].at = "rename"
    /\ IF SlugIsFree(job[h].slug, {job[h].category})
       THEN categories' = [categories EXCEPT ![job[h].category].slug = job[h].slug]
       ELSE UNCHANGED categories
    /\ Done(h)
    /\ UNCHANGED <<items, lists, raced, mixed>>

RemoveCategory(h, c) ==
    /\ LiveCategory(c)
    /\ Start(h, [at |-> "count", category |-> c])
    /\ UNCHANGED <<categories, items, lists, raced, mixed>>

\* A count that leaves out the items which are sold out.
CountsAvailable(c) == {i \in DOMAIN items : LiveItem(i) /\ items[i].category = c
                                              /\ items[i].available}

\* menuItem.count({ categoryId, deletedAt: null })
ItemsOf(c) == {i \in DOMAIN items : LiveItem(i) /\ items[i].category = c}

CountItems(h) ==
    /\ job[h].at = "count"
    /\ IF ItemsOf(job[h].category) = {}
       THEN Continue(h, [job[h] EXCEPT !.at = "delete"])
       ELSE Done(h)
    /\ UNCHANGED <<categories, items, lists, raced, mixed>>

DeleteCategory(h) ==
    /\ job[h].at = "delete"
    /\ categories' = [categories EXCEPT ![job[h].category].live = FALSE]
    /\ Done(h)
    /\ UNCHANGED <<items, lists, raced, mixed>>

-----------------------------------------------------------------------------
(* Menu items.                                                             *)

\* The groups that a request brings: an empty list, or the next one.
Brings(groups) ==
    \/ groups = {} /\ UNCHANGED lists
    \/ groups = {lists + 1} /\ lists < MaxLists /\ lists' = lists + 1

CreateItem(h, c) ==
    /\ LiveCategory(c)
    /\ \E groups \in {{}, {lists + 1}} :
         /\ Brings(groups)
         /\ Start(h, [at |-> "add", category |-> c, groups |-> groups, seeding |-> FALSE])
    /\ UNCHANGED <<categories, items, raced, mixed>>

\* A seeding goes on to the next item of a category or ends.
NextSeed(h) ==
    \/ Continue(h, [at |-> "find", category |-> job[h].category])
    \/ Done(h)

\* menuItem.create, with the groups in the same statement.
AddItem(h) ==
    /\ job[h].at = "add"
    /\ Len(items) < MaxItems
    /\ items' = Append(items, [category |-> job[h].category, live |-> TRUE,
                               available |-> TRUE, groups |-> job[h].groups])
    /\ Moved(Len(items) + 1, job[h].category)
    /\ IF job[h].seeding THEN NextSeed(h) ELSE Done(h)
    /\ UNCHANGED <<categories, lists, mixed>>

UpdateItem(h, i, c, sends) ==
    /\ LiveItem(i)
    /\ Start(h, [at |-> IF c = Keep THEN "replace" ELSE "category",
                 item |-> i, category |-> c, sends |-> sends])
    /\ UNCHANGED <<categories, items, lists, raced, mixed>>

CheckCategory(h) ==
    /\ job[h].at = "category"
    /\ IF LiveCategory(job[h].category)
       THEN Continue(h, [job[h] EXCEPT !.at = "replace"])
       ELSE Done(h)
    /\ UNCHANGED <<categories, items, lists, raced, mixed>>

\* A replacement that deletes nothing.
DropsNothing(i) == {}

\* menuItemVariantGroup.deleteMany: the groups that are committed when it starts.
Drops(i) == items[i].groups

Replacing(g, i) == job[g].at = "commit" /\ job[g].sends /\ job[g].item = i

\* Two replacements of the groups of one item both have company.
Joined(h, i, begun) ==
    [g \in Requests |-> CASE g = h           -> begun
                          [] Replacing(g, i) -> [job[g] EXCEPT !.alone = FALSE]
                          [] OTHER           -> job[g]]

\* The transaction begins: it drops the groups it sees. Nobody sees the drop, or
\* the groups it makes, before it commits.
ReplaceGroups(h) ==
    /\ job[h].at = "replace" /\ job[h].sends
    /\ \E groups \in {{}, {lists + 1}} :
         /\ Brings(groups)
         /\ job' = Joined(h, job[h].item,
                          [at |-> "commit", item |-> job[h].item,
                           category |-> job[h].category, sends |-> TRUE,
                           drops |-> Drops(job[h].item), groups |-> groups,
                           alone |-> ~ \E g \in Requests : Replacing(g, job[h].item)])
    /\ UNCHANGED <<categories, items, raced, mixed>>

\* Without groups in the request the transaction is one statement.
LeaveGroups(h) ==
    /\ job[h].at = "replace" /\ ~ job[h].sends
    /\ Continue(h, [at |-> "commit", item |-> job[h].item, category |-> job[h].category,
                    sends |-> FALSE, drops |-> {}, groups |-> {}, alone |-> TRUE])
    /\ UNCHANGED <<categories, items, lists, raced, mixed>>

\* An update that writes what it was sent.
SentCategory(i, c) == c

\* An update that leaves the category out leaves the item where it is.
CategoryAfter(i, c) == IF c = Keep THEN items[i].category ELSE c

\* The transaction commits. The one that waits for a row lock of another one sees
\* neither its groups nor its own drops there, so both commit, in some order.
CommitItem(h) ==
    /\ job[h].at = "commit"
    /\ LET i == job[h].item
           c == CategoryAfter(i, job[h].category)
       IN /\ items' = [items EXCEPT ![i].category = c,
                                    ![i].groups = (@ \ job[h].drops) \cup job[h].groups]
          /\ IF job[h].category = Keep THEN UNCHANGED raced ELSE Moved(i, c)
          /\ mixed' = CASE ~ job[h].sends                  -> mixed
                        [] job[h].sends /\ job[h].alone   -> mixed \ {i}
                        [] job[h].sends /\ ~ job[h].alone -> mixed \cup {i}
    /\ Done(h)
    /\ UNCHANGED <<categories, lists>>

UpdateStatus(h, i, available) ==
    /\ LiveItem(i)
    /\ Start(h, [at |-> "toggle", item |-> i, available |-> available])
    /\ UNCHANGED <<categories, items, lists, raced, mixed>>

ToggleItem(h) ==
    /\ job[h].at = "toggle"
    /\ items' = [items EXCEPT ![job[h].item].available = job[h].available]
    /\ Done(h)
    /\ UNCHANGED <<categories, lists, raced, mixed>>

RemoveItem(h, i) ==
    /\ LiveItem(i)
    /\ Start(h, [at |-> "retire", item |-> i])
    /\ UNCHANGED <<categories, items, lists, raced, mixed>>

RetireItem(h) ==
    /\ job[h].at = "retire"
    /\ items' = [items EXCEPT ![job[h].item].live = FALSE]
    /\ Done(h)
    /\ UNCHANGED <<categories, lists, raced, mixed>>
-----------------------------------------------------------------------------
(* The seed script, from the category of its items on.                     *)

\* category.upsert by slug, which brings a removed category back.
SeedCategory(h) ==
    /\ \/ \E c \in DOMAIN categories :
            /\ categories[c].slug = SeedSlug
            /\ categories' = [categories EXCEPT ![c].live = TRUE]
            /\ Start(h, [at |-> "find", category |-> c])
       \/ /\ SlugIsFree(SeedSlug, {})
          /\ AddCategory(SeedSlug)
          /\ Start(h, [at |-> "find", category |-> Len(categories) + 1])
    /\ UNCHANGED <<items, lists, raced, mixed>>

\* menuItem.findFirst({ name, deletedAt: null })
FindSeeded(h) ==
    /\ job[h].at = "find"
    /\ \/ \E i \in DOMAIN items :
            /\ LiveItem(i)
            /\ Continue(h, [at |-> "adopt", category |-> job[h].category, item |-> i])
       \/ \E groups \in {{}, {0}} :
            Continue(h, [at |-> "add", category |-> job[h].category, groups |-> groups,
                         seeding |-> TRUE])
    /\ UNCHANGED <<categories, items, lists, raced, mixed>>

\* The item that is there is put into the category and on sale again; its groups stay.
AdoptItem(h) ==
    /\ job[h].at = "adopt"
    /\ items' = [items EXCEPT ![job[h].item].category = job[h].category,
                              ![job[h].item].available = TRUE]
    /\ Moved(job[h].item, job[h].category)
    /\ NextSeed(h)
    /\ UNCHANGED <<categories, lists, mixed>>

\* A handler ends where it is: a statement fails or the process is gone. A
\* transaction that has not committed leaves nothing.
CutOff(h) ==
    /\ job[h] # Idle
    /\ Done(h)
    /\ UNCHANGED <<categories, items, lists, raced, mixed>>

-----------------------------------------------------------------------------

Init ==
    /\ categories = <<>>
    /\ items = <<>>
    /\ lists = 0
    /\ job = [h \in Requests |-> Idle]
    /\ raced = {}
    /\ mixed = {}

CategoryNext(h) ==
    \/ \E slug \in Slugs : CreateCategory(h, slug)
    \/ \E c \in DOMAIN categories, slug \in Slugs : UpdateCategory(h, c, slug)
    \/ \E c \in DOMAIN categories : RemoveCategory(h, c)
    \/ InsertCategory(h) \/ CheckSlug(h) \/ RenameCategory(h)
    \/ CountItems(h) \/ DeleteCategory(h)

ItemNext(h) ==
    \/ \E c \in DOMAIN categories : CreateItem(h, c)
    \/ \E i \in DOMAIN items, c \in DOMAIN categories \cup {Keep}, sends \in BOOLEAN :
         UpdateItem(h, i, c, sends)
    \/ \E i \in DOMAIN items, available \in BOOLEAN : UpdateStatus(h, i, available)
    \/ \E i \in DOMAIN items : RemoveItem(h, i)
    \/ AddItem(h) \/ CheckCategory(h) \/ ReplaceGroups(h) \/ LeaveGroups(h)
    \/ CommitItem(h) \/ ToggleItem(h) \/ RetireItem(h)

SeedNext(h) == SeedCategory(h) \/ FindSeeded(h) \/ AdoptItem(h)

Next == \E h \in Requests : CategoryNext(h) \/ ItemNext(h) \/ SeedNext(h) \/ CutOff(h)

Spec == Init /\ [][Next]_vars

-----------------------------------------------------------------------------
(* Properties.                                                             *)

\* Removing a category refuses while it has items, so an item that can be ordered
\* is in a category that is shown, unless the last move of the item and a removal
\* of its category had both looked before either wrote.
LiveItemsAreListed ==
    \A i \in DOMAIN items :
        LiveItem(i) /\ i \notin raced => LiveCategory(items[i].category)

\* An update replaces the variant groups of an item: they come from one list, that
\* of the last replacement, unless that one ran at the same time as another.
GroupsOfOneList ==
    \A i \in DOMAIN items : i \notin mixed => Cardinality(items[i].groups) <= 1
=============================================================================
