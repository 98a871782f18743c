--------------------------- MODULE CatalogProofs ---------------------------
(***************************************************************************)
(* Proofs about Catalog, for any number of requests, seedings, categories  *)
(* and items.  The first part says what the steps write, the second is     *)
(* typing, the third the categories of items on sale and the fourth the    *)
(* variant groups.                                                         *)
(***************************************************************************)
EXTENDS Catalog, TLAPS, FiniteSetTheorems

-----------------------------------------------------------------------------
(* Handlers in flight.                                                     *)

CategoryJob == [at: {"check", "rename"}, category: Refs, slug: Slugs]
RemovalJob == [at: {"count", "delete"}, category: Refs]
AddJob == [at: {"add"}, category: Refs, groups: Groups, seeding: BOOLEAN]
EditJob == [at: {"category", "replace"}, item: 1..MaxItems, category: Refs \cup {Keep},
            sends: BOOLEAN]
CommitJob == [at: {"commit"}, item: 1..MaxItems, category: Refs \cup {Keep},
              sends: BOOLEAN, drops: Groups, groups: Groups, alone: BOOLEAN]
ToggleJob == [at: {"toggle"}, item: 1..MaxItems, available: BOOLEAN]
RetireJob == [at: {"retire"}, item: 1..MaxItems]
AdoptJob == [at: {"adopt"}, category: Refs, item: 1..MaxItems]

\* What the step of a handler says about its data.
LEMMA JobShapes ==
    ASSUME TypeOK, NEW h \in Requests
    PROVE  /\ job[h].at = "insert" => job[h].slug \in Slugs
           /\ job[h].at \in {"check", "rename"} => job[h] \in CategoryJob
           /\ job[h].at \in {"count", "delete"} => job[h] \in RemovalJob
           /\ job[h].at = "add" => job[h] \in AddJob
           /\ job[h].at \in {"category", "replace"} => job[h] \in EditJob
           /\ job[h].at = "commit" => job[h] \in CommitJob
           /\ job[h].at = "toggle" => job[h] \in ToggleJob
           /\ job[h].at = "retire" => job[h] \in RetireJob
           /\ job[h].at = "find" => job[h].category \in Refs
           /\ job[h].at = "adopt" => job[h] \in AdoptJob
<1>1. job[h] \in Job \cup {Idle}
  BY DEF TypeOK
<1>2. CASE job[h] \in [at: {"insert"}, slug: Slugs]
  BY <1>2
<1>3. CASE job[h] \in CategoryJob
  BY <1>3 DEF CategoryJob
<1>4. CASE job[h] \in RemovalJob
  BY <1>4 DEF RemovalJob
<1>5. CASE job[h] \in AddJob
  BY <1>5 DEF AddJob
<1>6. CASE job[h] \in EditJob
  BY <1>6 DEF EditJob
<1>7. CASE job[h] \in CommitJob
  BY <1>7 DEF CommitJob
<1>8. CASE job[h] \in ToggleJob
  BY <1>8 DEF ToggleJob
<1>9. CASE job[h] \in RetireJob
  BY <1>9 DEF RetireJob
<1>10. CASE job[h] \in [at: {"find"}, category: Refs]
  BY <1>10
<1>11. CASE job[h] \in AdoptJob
  BY <1>11 DEF AdoptJob
<1>12. CASE job[h] = Idle
  BY <1>12 DEF Idle
<1> QED
  BY <1>1, <1>2, <1>3, <1>4, <1>5, <1>6, <1>7, <1>8, <1>9, <1>10, <1>11, <1>12
     DEF Job, CategoryJob, RemovalJob, AddJob, EditJob, CommitJob, ToggleJob, RetireJob, AdoptJob

\* The rows that a handler has found are there; they are never deleted for good.
Fits(j) ==
    /\ j.at \in {"check", "rename", "count", "delete"} => j.category \in DOMAIN categories
    /\ j.at \in {"category", "replace", "commit", "toggle", "retire", "adopt"} =>
         j.item \in DOMAIN items

RowsFound == \A h \in Requests : Fits(job[h])

LEMMA TypedData ==
    ASSUME TypeOK
    PROVE  /\ DOMAIN categories = 1..Len(categories) /\ DOMAIN categories \subseteq Refs
           /\ DOMAIN items = 1..Len(items) /\ DOMAIN items \subseteq 1..MaxItems
           /\ \A c \in DOMAIN categories : categories[c] \in Category
           /\ \A i \in DOMAIN items : items[i] \in Item
<1>1. /\ categories \in Seq(Category) /\ Len(categories) <= MaxCategories
      /\ items \in Seq(Item) /\ Len(items) <= MaxItems
  BY DEF TypeOK
<1>2. DOMAIN categories = 1..Len(categories) /\ DOMAIN items = 1..Len(items)
  BY <1>1
<1>3. DOMAIN categories \subseteq Refs /\ DOMAIN items \subseteq 1..MaxItems
  BY <1>1, <1>2, CatalogAssumption DEF Refs
<1> QED
  BY <1>1, <1>2, <1>3

LEMMA BroughtGroups ==
    ASSUME TypeOK, NEW groups \in {{}, {lists + 1}}, Brings(groups)
    PROVE  groups \in Groups /\ lists' \in 0..MaxLists
BY CatalogAssumption DEF TypeOK, Brings, Groups

\* All handlers go on with typed records that fit the rows there are.
Go == \A g \in Requests : job'[g] \in Job \cup {Idle} /\ Fits(job'[g])

\* A set of at most one group.
AtMostOne(groups) == \A x, y \in groups : x = y

\* What a handler has found out before it writes: that there are no items in a category,
\* or that there is at most one group to make.
Sound(j) ==
    /\ j.at = "delete" => ItemsOf(j.category) = {} /\ UNCHANGED <<categories, items, raced>>
    /\ j.at = "commit" => ~ j.sends /\ j.drops = {} /\ j.groups = {}
    /\ j.at = "add" => AtMostOne(j.groups)

\* So they do when one of them moves.
Goes(h) == \E j \in Job \cup {Idle} : job' = [job EXCEPT ![h] = j] /\ Fits(j) /\ Sound(j)

LEMMA OneGoes ==
    ASSUME TypeOK, RowsFound, NEW h \in Requests, Goes(h)
    PROVE  Go /\ job' \in [Requests -> Job \cup {Idle}]
BY DEF TypeOK, RowsFound, Go, Goes

LEMMA Ends ==
    ASSUME NEW h \in Requests, Done(h)
    PROVE  Goes(h)
<1>1. Fits(Idle) /\ Sound(Idle)
  BY DEF Fits, Sound, Idle
<1> QED
  BY <1>1 DEF Done, Continue, Goes

LEMMA CategoryJobs ==
    ASSUME TypeOK, RowsFound, NEW h \in Requests, CategoryNext(h)
    PROVE  Goes(h)
<1>1. ASSUME NEW slug \in Slugs, CreateCategory(h, slug) PROVE Goes(h)
  <2>1. PICK j : j = [at |-> "insert", slug |-> slug]
    OBVIOUS
  <2>2. j \in Job /\ Fits(j) /\ Sound(j)
    BY <2>1 DEF Job, Fits, Sound
  <2> QED
    BY <1>1, <2>1, <2>2 DEF CreateCategory, Start, Goes
<1>2. ASSUME NEW c \in DOMAIN categories, NEW slug \in Slugs, UpdateCategory(h, c, slug)
      PROVE  Goes(h)
  <2>1. PICK j : j = [at |-> "check", category |-> c, slug |-> slug]
    OBVIOUS
  <2>2. j \in Job /\ Fits(j) /\ Sound(j)
    BY <2>1, TypedData DEF Job, Fits, Sound
  <2> QED
    BY <1>2, <2>1, <2>2 DEF UpdateCategory, Start, Goes
<1>3. ASSUME NEW c \in DOMAIN categories, RemoveCategory(h, c) PROVE Goes(h)
  <2>1. PICK j : j = [at |-> "count", category |-> c]
    OBVIOUS
  <2>2. j \in Job /\ Fits(j) /\ Sound(j)
    BY <2>1, TypedData DEF Job, Fits, Sound
  <2> QED
    BY <1>3, <2>1, <2>2 DEF RemoveCategory, Start, Goes
<1>4. CASE CheckSlug(h)
  <2>1. PICK j : j = [job[h] EXCEPT !.at = "rename"]
    OBVIOUS
  <2>2. job[h] \in CategoryJob /\ job[h].at = "check" /\ Fits(job[h])
    BY <1>4, JobShapes DEF CheckSlug, RowsFound
  <2>3. j \in Job /\ Fits(j) /\ Sound(j)
    BY <2>1, <2>2 DEF Job, Fits, Sound, CategoryJob
  <2>4. Done(h) \/ Continue(h, j)
    BY <1>4, <2>1 DEF CheckSlug
  <2> QED
    BY <2>3, <2>4, Ends DEF Continue, Goes
<1>5. CASE CountItems(h)
  <2>1. PICK j : j = [job[h] EXCEPT !.at = "delete"]
    OBVIOUS
  <2>2. job[h] \in RemovalJob /\ job[h].at = "count" /\ Fits(job[h])
    BY <1>5, JobShapes DEF CountItems, RowsFound
  <2>3. j \in Job /\ Fits(j)
    BY <2>1, <2>2 DEF Job, Fits, RemovalJob
  <2>4. CASE ItemsOf(job[h].category) = {}
    <3>1. j.at = "delete" /\ j.category = job[h].category
      BY <2>1, <2>2 DEF RemovalJob
    <3>2. Sound(j)
      BY <1>5, <2>4, <3>1 DEF Sound, CountItems
    <3> QED
      BY <1>5, <2>1, <2>3, <2>4, <3>2 DEF CountItems, Continue, Goes
  <2> QED
    BY <1>5, <2>4, Ends DEF CountItems
<1>6. CASE InsertCategory(h) \/ RenameCategory(h) \/ DeleteCategory(h)
  BY <1>6, Ends DEF InsertCategory, RenameCategory, DeleteCategory
<1> QED
  BY <1>1, <1>2, <1>3, <1>4, <1>5, <1>6 DEF CategoryNext

\* A seeding that has done an item.
LEMMA SeedsGoOn ==
    ASSUME NEW h \in Requests, job[h].category \in Refs, NextSeed(h)
    PROVE  Goes(h)
<1>1. PICK j : j = [at |-> "find", category |-> job[h].category]
  OBVIOUS
<1>2. j \in Job /\ Fits(j) /\ Sound(j)
  BY <1>1 DEF Job, Fits, Sound
<1>3. Done(h) \/ Continue(h, j)
  BY <1>1 DEF NextSeed
<1> QED
  BY <1>2, <1>3, Ends DEF Continue, Goes

LEMMA ItemJobs ==
    ASSUME TypeOK, RowsFound, NEW h \in Requests, ItemNext(h) \/ SeedNext(h) \/ CutOff(h),
           ~ ReplaceGroups(h)
    PROVE  Goes(h)
<1>1. ASSUME NEW c \in DOMAIN categories, CreateItem(h, c) PROVE Goes(h)
  <2>1. PICK groups \in {{}, {lists + 1}} :
          /\ Brings(groups)
          /\ Start(h, [at |-> "add", category |-> c, groups |-> groups, seeding |-> FALSE])
    BY <1>1 DEF CreateItem
  <2>2. PICK j : j = [at |-> "add", category |-> c, groups |-> groups, seeding |-> FALSE]
    OBVIOUS
  <2>3. j \in Job /\ Fits(j) /\ Sound(j)
    BY <2>1, <2>2, BroughtGroups, TypedData DEF Job, Fits, Sound, AtMostOne
  <2> QED
    BY <2>1, <2>2, <2>3 DEF Start, Goes
<1>2. ASSUME NEW i \in DOMAIN items, NEW c \in DOMAIN categories \cup {Keep}, NEW sends \in BOOLEAN,
             UpdateItem(h, i, c, sends)
      PROVE  Goes(h)
  <2>1. PICK at \in {"replace", "category"} : at = IF c = Keep THEN "replace" ELSE "category"
    OBVIOUS
  <2>2. PICK j : j = [at |-> at, item |-> i, category |-> c, sends |-> sends]
    OBVIOUS
  <2>3. c \in Refs \cup {Keep} /\ i \in 1..MaxItems
    BY TypedData
  <2>4. j \in Job /\ Fits(j) /\ Sound(j)
    BY <2>2, <2>3 DEF Job, Fits, Sound
  <2> QED
    BY <1>2, <2>1, <2>2, <2>4 DEF UpdateItem, Start, Goes
<1>3. ASSUME NEW i \in DOMAIN items, NEW available \in BOOLEAN, UpdateStatus(h, i, available)
      PROVE  Goes(h)
  <2>1. PICK j : j = [at |-> "toggle", item |-> i, available |-> available]
    OBVIOUS
  <2>2. j \in Job /\ Fits(j) /\ Sound(j)
    BY <2>1, TypedData DEF Job, Fits, Sound
  <2> QED
    BY <1>3, <2>1, <2>2 DEF UpdateStatus, Start, Goes
<1>4. ASSUME NEW i \in DOMAIN items, RemoveItem(h, i) PROVE Goes(h)
  <2>1. PICK j : j = [at |-> "retire", item |-> i]
    OBVIOUS
  <2>2. j \in Job /\ Fits(j) /\ Sound(j)
    BY <2>1, TypedData DEF Job, Fits, Sound
  <2> QED
    BY <1>4, <2>1, <2>2 DEF RemoveItem, Start, Goes
<1>5. CASE AddItem(h)
  <2>1. job[h].category \in Refs
    BY <1>5, JobShapes DEF AddItem, AddJob
  <2> QED
    BY <1>5, <2>1, SeedsGoOn, Ends DEF AddItem
<1>6. CASE CheckCategory(h)
  <2>1. PICK j : j = [job[h] EXCEPT !.at = "replace"]
    OBVIOUS
  <2>2. job[h] \in EditJob /\ job[h].at = "category" /\ Fits(job[h])
    BY <1>6, JobShapes DEF CheckCategory, RowsFound
  <2>3. j \in Job /\ Fits(j) /\ Sound(j)
    BY <2>1, <2>2 DEF Job, Fits, Sound, EditJob
  <2>4. Done(h) \/ Continue(h, j)
    BY <1>6, <2>1 DEF CheckCategory
  <2> QED
    BY <2>3, <2>4, Ends DEF Continue, Goes
<1>7. CASE LeaveGroups(h)
  <2>1. job[h] \in EditJob /\ job[h].at = "replace" /\ Fits(job[h])
    BY <1>7, JobShapes DEF LeaveGroups, RowsFound
  <2>2. PICK i \in DOMAIN items, c \in Refs \cup {Keep} : i = job[h].item /\ c = job[h].category
    BY <2>1 DEF Fits, EditJob
  <2>3. PICK j : j = [at |-> "commit", item |-> i, category |-> c, sends |-> FALSE,
                      drops |-> {}, groups |-> {}, alone |-> TRUE]
    OBVIOUS
  <2>4. j \in Job /\ Fits(j) /\ Sound(j)
    BY <2>3, TypedData DEF Job, Groups, Fits, Sound
  <2> QED
    BY <1>7, <2>2, <2>3, <2>4 DEF LeaveGroups, Continue, Goes
<1>8. CASE SeedCategory(h)
  <2>1. PICK c \in Refs : Start(h, [at |-> "find", category |-> c])
    <3>1. CASE AddCategory(SeedSlug) /\ Start(h, [at |-> "find", category |-> Len(categories) + 1])
      <4>1. Len(categories) + 1 \in Refs
        BY <3>1, CatalogAssumption DEF AddCategory, Refs, TypeOK
      <4> QED
        BY <3>1, <4>1
    <3> QED
      BY <1>8, <3>1, TypedData DEF SeedCategory
  <2>2. PICK j : j = [at |-> "find", category |-> c]
    OBVIOUS
  <2>3. j \in Job /\ Fits(j) /\ Sound(j)
    BY <2>2 DEF Job, Fits, Sound
  <2> QED
    BY <2>1, <2>2, <2>3 DEF Start, Goes
<1>9. CASE FindSeeded(h)
  <2>1. PICK c \in Refs : c = job[h].category
    BY <1>9, JobShapes DEF FindSeeded
  <2>2. ASSUME NEW i \in DOMAIN items, Continue(h, [at |-> "adopt", category |-> c, item |-> i])
        PROVE  Goes(h)
    <3>1. PICK j : j = [at |-> "adopt", category |-> c, item |-> i]
      OBVIOUS
    <3>2. j \in Job /\ Fits(j) /\ Sound(j)
      BY <3>1, TypedData DEF Job, Fits, Sound
    <3> QED
      BY <2>2, <3>1, <3>2 DEF Continue, Goes
  <2>3. ASSUME NEW groups \in {{}, {0}},
               Continue(h, [at |-> "add", category |-> c, groups |-> groups, seeding |-> TRUE])
        PROVE  Goes(h)
    <3>1. PICK j : j = [at |-> "add", category |-> c, groups |-> groups, seeding |-> TRUE]
      OBVIOUS
    <3>2. groups \in Groups
      BY CatalogAssumption DEF Groups
    <3>3. j \in Job /\ Fits(j) /\ Sound(j)
      BY <3>1, <3>2 DEF Job, Fits, Sound, AtMostOne
    <3> QED
      BY <2>3, <3>1, <3>3 DEF Continue, Goes
  <2> QED
    BY <1>9, <2>1, <2>2, <2>3 DEF FindSeeded
<1>10. CASE AdoptItem(h)
  <2>1. job[h].category \in Refs
    BY <1>10, JobShapes DEF AdoptItem, AdoptJob
  <2> QED
    BY <1>10, <2>1, SeedsGoOn DEF AdoptItem
<1>11. CASE CommitItem(h) \/ ToggleItem(h) \/ RetireItem(h) \/ CutOff(h)
  BY <1>11, Ends DEF CommitItem, ToggleItem, RetireItem, CutOff
<1> QED
  BY <1>1, <1>2, <1>3, <1>4, <1>5, <1>6, <1>7, <1>8, <1>9, <1>10, <1>11 DEF ItemNext, SeedNext

\* A transaction begins on item i; it and those that replace groups of i have company.
Begins(h, i, c, groups, alone) ==
    /\ job[h].at = "replace" /\ job[h].item = i
    /\ alone <=> ~ \E g \in Requests : Replacing(g, i)
    /\ job'[h] = [at |-> "commit", item |-> i, category |-> c, sends |-> TRUE,
                  drops |-> items[i].groups, groups |-> groups, alone |-> alone]
    /\ \A g \in Requests \ {h} :
         job'[g] = IF Replacing(g, i) THEN [job[g] EXCEPT !.alone = FALSE] ELSE job[g]

LEMMA ReplacingJobs ==
    ASSUME TypeOK, RowsFound, NEW h \in Requests, ReplaceGroups(h)
    PROVE  /\ Go /\ job' \in [Requests -> Job \cup {Idle}] /\ lists' \in 0..MaxLists
           /\ \E i \in DOMAIN items, c \in Refs \cup {Keep}, groups \in {{}, {lists + 1}},
                 alone \in BOOLEAN : Begins(h, i, c, groups, alone)
<1>1. job[h] \in EditJob /\ job[h].at = "replace" /\ Fits(job[h])
  BY JobShapes DEF ReplaceGroups, RowsFound
<1>2. PICK i \in DOMAIN items, c \in Refs \cup {Keep} : i = job[h].item /\ c = job[h].category
  BY <1>1 DEF Fits, EditJob
<1>3. PICK alone \in BOOLEAN : alone <=> ~ \E g \in Requests : Replacing(g, i)
  OBVIOUS
<1>4. PICK groups \in {{}, {lists + 1}} :
        /\ Brings(groups)
        /\ job' = Joined(h, i, [at |-> "commit", item |-> i, category |-> c, sends |-> TRUE,
                                drops |-> Drops(i), groups |-> groups,
                                alone |-> ~ \E g \in Requests : Replacing(g, i)])
  BY <1>2 DEF ReplaceGroups
<1>5. PICK j : j = [at |-> "commit", item |-> i, category |-> c, sends |-> TRUE,
                    drops |-> items[i].groups, groups |-> groups, alone |-> alone]
  OBVIOUS
<1>6. j = [at |-> "commit", item |-> i, category |-> c, sends |-> TRUE,
           drops |-> Drops(i), groups |-> groups,
           alone |-> ~ \E g \in Requests : Replacing(g, i)]
  BY <1>3, <1>5 DEF Drops
<1>7. job' = Joined(h, i, j)
  BY <1>4, <1>6
<1>8. /\ job' = [g \in Requests |-> job'[g]]
      /\ job'[h] = j
      /\ \A g \in Requests \ {h} :
           job'[g] = IF Replacing(g, i) THEN [job[g] EXCEPT !.alone = FALSE] ELSE job[g]
  <2>1. job' = [g \in Requests |-> job'[g]]
    BY <1>7 DEF Joined
  <2>2. job'[h] = j
    <3>1. ~ Replacing(h, i)
      BY <1>1 DEF Replacing
    <3> QED
      BY <1>7, <3>1 DEF Joined
  <2>3. ASSUME NEW g \in Requests \ {h}
        PROVE  job'[g] = IF Replacing(g, i) THEN [job[g] EXCEPT !.alone = FALSE] ELSE job[g]
    BY <1>7 DEF Joined
  <2> QED
    BY <2>1, <2>2, <2>3
<1>9. groups \in Groups /\ lists' \in 0..MaxLists
  BY <1>4, BroughtGroups
<1>10. items[i].groups \in Groups /\ i \in 1..MaxItems
  BY TypedData DEF Item
<1>11. j \in Job /\ Fits(j)
  BY <1>5, <1>9, <1>10 DEF Job, Fits
<1>12. ASSUME NEW g \in Requests \ {h}
       PROVE  job'[g] \in Job \cup {Idle} /\ Fits(job'[g])
  <2>1. CASE Replacing(g, i)
    <3>1. job[g] \in CommitJob /\ Fits(job[g])
      BY <2>1, JobShapes DEF Replacing, RowsFound
    <3>2. PICK k \in CommitJob : k = [job[g] EXCEPT !.alone = FALSE]
      BY <3>1 DEF CommitJob
    <3>3. k \in Job
      BY DEF CommitJob, Job
    <3>4. Fits(k)
      BY <3>1, <3>2 DEF CommitJob, Fits
    <3> QED
      BY <1>8, <2>1, <3>2, <3>3, <3>4
  <2>2. CASE ~ Replacing(g, i)
    BY <1>8, <2>2 DEF TypeOK, RowsFound
  <2> QED
    BY <2>1, <2>2
<1>13. Go /\ job' \in [Requests -> Job \cup {Idle}]
  BY <1>8, <1>11, <1>12 DEF Go
<1>14. Begins(h, i, c, groups, alone)
  BY <1>1, <1>2, <1>3, <1>5, <1>8 DEF Begins
<1> QED
  BY <1>9, <1>13, <1>14

LEMMA JobSteps ==
    ASSUME TypeOK, RowsFound, NEW h \in Requests,
           CategoryNext(h) \/ ItemNext(h) \/ SeedNext(h) \/ CutOff(h)
    PROVE  Go /\ job' \in [Requests -> Job \cup {Idle}]
BY CategoryJobs, ItemJobs, ReplacingJobs, OneGoes

-----------------------------------------------------------------------------
(* What the steps do to the rows.                                          *)

CategoryMade == \E slug \in Slugs : AddCategory(slug) /\ UNCHANGED <<items, raced, mixed>>

\* Row c becomes e; a category is hidden only by who has counted its items.
CategoryPut ==
    \E c \in DOMAIN categories, e \in Category :
       /\ categories' = [categories EXCEPT ![c] = e]
       /\ e.live \/ ~ categories[c].live \/ Removing(c)
       /\ UNCHANGED <<items, raced, mixed>>

ItemMade ==
    \E c \in Refs, groups \in Groups, h \in Requests :
       /\ job[h].at = "add" /\ groups = job[h].groups
       /\ Len(items) < MaxItems
       /\ items' = Append(items, [category |-> c, live |-> TRUE, available |-> TRUE,
                                  groups |-> groups])
       /\ Moved(Len(items) + 1, c)
       /\ UNCHANGED <<categories, mixed>>

\* Item i becomes e: hidden for ever, or on sale where it was, or moved.
ItemPut(i, e) ==
    /\ items' = [items EXCEPT ![i] = e]
    /\ e.live => items[i].live
    /\ (e.category = items[i].category /\ UNCHANGED raced) \/ Moved(i, e.category)
    /\ UNCHANGED categories

\* The groups of item i stay.
ItemEdited ==
    \E i \in DOMAIN items, e \in Item :
       ItemPut(i, e) /\ e.groups = items[i].groups /\ UNCHANGED mixed

\* A transaction commits.
ItemCommitted ==
    \E i \in DOMAIN items, e \in Item, h \in Requests, j \in CommitJob :
       /\ ItemPut(i, e)
       /\ j = job[h] /\ j.item = i
       /\ job' = [job EXCEPT ![h] = Idle]
       /\ e.groups = (items[i].groups \ j.drops) \cup j.groups
       /\ mixed' = CASE ~ j.sends              -> mixed
                     [] j.sends /\ j.alone   -> mixed \ {i}
                     [] j.sends /\ ~ j.alone -> mixed \cup {i}

NothingWritten == UNCHANGED <<categories, items, raced, mixed>>

RowStep == CategoryMade \/ CategoryPut \/ ItemMade \/ ItemEdited \/ ItemCommitted \/ NothingWritten

LEMMA RowSteps ==
    ASSUME TypeOK, RowsFound, NEW h \in Requests,
           CategoryNext(h) \/ ItemNext(h) \/ SeedNext(h) \/ CutOff(h)
    PROVE  RowStep
<1>1. CASE InsertCategory(h)
  <2>1. PICK slug \in Slugs : slug = job[h].slug
    BY <1>1, JobShapes DEF InsertCategory
  <2> QED
    BY <1>1, <2>1 DEF InsertCategory, RowStep, CategoryMade, NothingWritten
<1>2. CASE RenameCategory(h)
  <2>1. job[h] \in CategoryJob /\ Fits(job[h]) /\ job[h].at = "rename"
    BY <1>2, JobShapes DEF RenameCategory, RowsFound
  <2>2. PICK c \in DOMAIN categories, slug \in Slugs : c = job[h].category /\ slug = job[h].slug
    BY <2>1 DEF CategoryJob, Fits
  <2>3. categories[c] \in Category
    BY TypedData
  <2>4. PICK e \in Category : e = [categories[c] EXCEPT !.slug = slug]
    BY <2>3 DEF Category
  <2>5. e.live = categories[c].live
    BY <2>3, <2>4 DEF Category
  <2>6. CASE categories' = [categories EXCEPT ![c].slug = slug]
    <3>1. categories' = [categories EXCEPT ![c] = e]
      BY <2>4, <2>6
    <3>2. CategoryPut
      BY <1>2, <2>5, <3>1 DEF CategoryPut, RenameCategory
    <3> QED
      BY <3>2 DEF RowStep
  <2> QED
    BY <1>2, <2>2, <2>6 DEF RenameCategory, RowStep, NothingWritten
<1>3. CASE DeleteCategory(h)
  <2>1. job[h] \in RemovalJob /\ Fits(job[h]) /\ job[h].at = "delete"
    BY <1>3, JobShapes DEF DeleteCategory, RowsFound
  <2>2. PICK c \in DOMAIN categories : c = job[h].category
    BY <2>1 DEF Fits
  <2>3. categories[c] \in Category /\ Removing(c)
    BY <2>1, <2>2, TypedData DEF Removing
  <2>4. PICK e \in Category : e = [categories[c] EXCEPT !.live = FALSE]
    BY <2>3 DEF Category
  <2>5. categories' = [categories EXCEPT ![c] = e]
    BY <1>3, <2>2, <2>4 DEF DeleteCategory
  <2>6. CategoryPut
    BY <1>3, <2>3, <2>5 DEF CategoryPut, DeleteCategory
  <2> QED
    BY <2>6 DEF RowStep
<1>4. CASE AddItem(h)
  <2>1. job[h] \in AddJob /\ job[h].at = "add"
    BY <1>4, JobShapes DEF AddItem
  <2>2. PICK c \in Refs, groups \in Groups : c = job[h].category /\ groups = job[h].groups
    BY <2>1 DEF AddJob
  <2>3. ItemMade
    BY <1>4, <2>1, <2>2 DEF AddItem, ItemMade
  <2> QED
    BY <2>3 DEF RowStep
<1>5. CASE CommitItem(h)
  <2>1. PICK j \in CommitJob : j = job[h] /\ Fits(j)
    BY <1>5, JobShapes DEF CommitItem, RowsFound
  <2>2. j.at = "commit"
    BY DEF CommitJob
  <2>3. PICK i \in DOMAIN items : i = j.item
    BY <2>1, <2>2 DEF Fits
  <2>4. items[i] \in Item
    BY TypedData
  <2>5. PICK c \in Refs : c = CategoryAfter(i, j.category)
    BY <2>4 DEF CategoryAfter, CommitJob, Item, Refs
  <2>6. PICK groups \in Groups : groups = (items[i].groups \ j.drops) \cup j.groups
    BY <2>4 DEF CommitJob, Item, Groups
  <2>7. PICK e \in Item : e = [items[i] EXCEPT !.category = c, !.groups = groups]
    BY <2>4 DEF Item, Refs
  <2>8. e.category = c /\ e.groups = groups /\ e.live = items[i].live
    BY <2>4, <2>7 DEF Item
  <2>9. items' = [items EXCEPT ![i].category = c, ![i].groups = (@ \ j.drops) \cup j.groups]
    BY <1>5, <2>1, <2>3, <2>5 DEF CommitItem
  <2>10. items' = [items EXCEPT ![i] = e]
    BY <2>4, <2>6, <2>7, <2>9
  <2>11. (e.category = items[i].category /\ UNCHANGED raced) \/ Moved(i, e.category)
    BY <1>5, <2>1, <2>3, <2>5, <2>8 DEF CommitItem, CategoryAfter
  <2>12. ItemPut(i, e)
    BY <1>5, <2>8, <2>10, <2>11 DEF ItemPut, CommitItem
  <2>13. /\ job' = [job EXCEPT ![h] = Idle]
         /\ mixed' = CASE ~ j.sends              -> mixed
                       [] j.sends /\ j.alone   -> mixed \ {i}
                       [] j.sends /\ ~ j.alone -> mixed \cup {i}
    BY <1>5, <2>1, <2>3 DEF CommitItem, Done, Continue
  <2>14. ItemCommitted
    BY <2>1, <2>3, <2>6, <2>8, <2>12, <2>13 DEF ItemCommitted
  <2> QED
    BY <2>14 DEF RowStep
<1>6. CASE ToggleItem(h)
  <2>1. PICK j \in ToggleJob : j = job[h] /\ Fits(j)
    BY <1>6, JobShapes DEF ToggleItem, RowsFound
  <2>2. PICK i \in DOMAIN items : i = j.item
    BY <2>1 DEF Fits, ToggleJob
  <2>3. items[i] \in Item
    BY TypedData
  <2>4. PICK e \in Item : e = [items[i] EXCEPT !.available = j.available]
    BY <2>3 DEF Item, ToggleJob
  <2>5. e.category = items[i].category /\ e.live = items[i].live /\ e.groups = items[i].groups
    BY <2>3, <2>4 DEF Item
  <2>6. items' = [items EXCEPT ![i] = e]
    BY <1>6, <2>1, <2>2, <2>4 DEF ToggleItem
  <2>7. ItemPut(i, e)
    BY <1>6, <2>5, <2>6 DEF ItemPut, ToggleItem
  <2>8. ItemEdited
    BY <1>6, <2>5, <2>7 DEF ItemEdited, ToggleItem
  <2> QED
    BY <2>8 DEF RowStep
<1>7. CASE RetireItem(h)
  <2>1. PICK j \in RetireJob : j = job[h] /\ Fits(j)
    BY <1>7, JobShapes DEF RetireItem, RowsFound
  <2>2. PICK i \in DOMAIN items : i = j.item
    BY <2>1 DEF Fits, RetireJob
  <2>3. items[i] \in Item
    BY TypedData
  <2>4. PICK e \in Item : e = [items[i] EXCEPT !.live = FALSE]
    BY <2>3 DEF Item
  <2>5. e.category = items[i].category /\ ~ e.live /\ e.groups = items[i].groups
    BY <2>3, <2>4 DEF Item
  <2>6. items' = [items EXCEPT ![i] = e]
    BY <1>7, <2>1, <2>2, <2>4 DEF RetireItem
  <2>7. ItemPut(i, e)
    BY <1>7, <2>5, <2>6 DEF ItemPut, RetireItem
  <2>8. ItemEdited
    BY <1>7, <2>5, <2>7 DEF ItemEdited, RetireItem
  <2> QED
    BY <2>8 DEF RowStep
<1>8. CASE SeedCategory(h)
  <2>1. ASSUME NEW c \in DOMAIN categories, categories' = [categories EXCEPT ![c].live = TRUE],
               UNCHANGED <<items, raced, mixed>>
        PROVE  CategoryPut
    <3>1. categories[c] \in Category
      BY TypedData
    <3>2. PICK e \in Category : e = [categories[c] EXCEPT !.live = TRUE]
      BY <3>1 DEF Category
    <3>3. e.live
      BY <3>1, <3>2 DEF Category
    <3>4. categories' = [categories EXCEPT ![c] = e]
      BY <2>1, <3>2
    <3> QED
      BY <2>1, <3>3, <3>4 DEF CategoryPut
  <2> QED
    BY <1>8, <2>1, CatalogAssumption DEF SeedCategory, RowStep, CategoryMade
<1>9. CASE AdoptItem(h)
  <2>1. PICK j \in AdoptJob : j = job[h] /\ Fits(j)
    BY <1>9, JobShapes DEF AdoptItem, RowsFound
  <2>2. PICK i \in DOMAIN items, c \in Refs : i = j.item /\ c = j.category
    BY <2>1 DEF Fits, AdoptJob
  <2>3. items[i] \in Item
    BY TypedData
  <2>4. PICK e \in Item : e = [items[i] EXCEPT !.category = c, !.available = TRUE]
    BY <2>3 DEF Item, Refs
  <2>5. e.category = c /\ e.live = items[i].live /\ e.groups = items[i].groups
    BY <2>3, <2>4 DEF Item
  <2>6. items' = [items EXCEPT ![i].category = c, ![i].available = TRUE]
    BY <1>9, <2>1, <2>2 DEF AdoptItem
  <2>7. items' = [items EXCEPT ![i] = e]
    BY <2>4, <2>6
  <2>8. ItemPut(i, e)
    BY <1>9, <2>1, <2>2, <2>5, <2>7 DEF ItemPut, AdoptItem
  <2>9. ItemEdited
    BY <1>9, <2>5, <2>8 DEF ItemEdited, AdoptItem
  <2> QED
    BY <2>9 DEF RowStep
<1>10. CASE ~ (InsertCategory(h) \/ RenameCategory(h) \/ DeleteCategory(h) \/ AddItem(h)
               \/ CommitItem(h) \/ ToggleItem(h) \/ RetireItem(h) \/ SeedCategory(h) \/ AdoptItem(h))
  BY <1>10 DEF CategoryNext, ItemNext, SeedNext, CreateCategory, UpdateCategory, RemoveCategory,
               CheckSlug, CountItems, CreateItem, UpdateItem, UpdateStatus, RemoveItem, CheckCategory,
               ReplaceGroups, LeaveGroups, FindSeeded, CutOff, RowStep, NothingWritten
<1> QED
  BY <1>1, <1>2, <1>3, <1>4, <1>5, <1>6, <1>7, <1>8, <1>9, <1>10

-----------------------------------------------------------------------------
(* Typing.                                                                 *)

\* A sequence whose elements are replaced in place.
LEMMA ReplacedSeq ==
    ASSUME NEW S, NEW s \in Seq(S), NEW r \in [1..Len(s) -> S]
    PROVE  r \in Seq(S) /\ Len(r) = Len(s) /\ DOMAIN r = DOMAIN s
OBVIOUS

LEMMA AppendedSeq ==
    ASSUME NEW S, NEW s \in Seq(S), NEW e \in S, NEW r, r = Append(s, e)
    PROVE  /\ r \in Seq(S) /\ Len(r) = Len(s) + 1 /\ Len(s) \in Nat
           /\ DOMAIN r = DOMAIN s \cup {Len(s) + 1} /\ Len(s) + 1 \notin DOMAIN s
           /\ \A i \in DOMAIN s : r[i] = s[i]
           /\ r[Len(s) + 1] = e
OBVIOUS

\* Categories are made, hidden by who counted their items, and shown.
LEMMA CategoriesAfter ==
    ASSUME TypeOK, CategoryMade \/ CategoryPut
    PROVE  /\ categories' \in Seq(Category) /\ Len(categories') <= MaxCategories
           /\ \A c : LiveCategory(c) /\ ~ Removing(c) => LiveCategory(c)'
<1>1. categories \in Seq(Category) /\ Len(categories) <= MaxCategories
  BY DEF TypeOK
<1>2. CASE CategoryMade
  <2>1. PICK slug \in Slugs : AddCategory(slug)
    BY <1>2 DEF CategoryMade
  <2>2. PICK e \in Category : e = [slug |-> slug, live |-> TRUE]
    BY DEF Category
  <2>3. categories' = Append(categories, e) /\ Len(categories) < MaxCategories
    BY <2>1, <2>2 DEF AddCategory
  <2>4. /\ categories' \in Seq(Category) /\ Len(categories') = Len(categories) + 1
        /\ Len(categories) \in Nat
        /\ DOMAIN categories \subseteq DOMAIN categories'
        /\ \A c \in DOMAIN categories : categories'[c] = categories[c]
    BY <1>1, <2>3, AppendedSeq
  <2>5. Len(categories') <= MaxCategories
    BY <2>3, <2>4, CatalogAssumption
  <2> QED
    BY <2>4, <2>5 DEF LiveCategory
<1>3. CASE CategoryPut
  <2>1. PICK c \in DOMAIN categories, e \in Category :
          /\ categories' = [categories EXCEPT ![c] = e]
          /\ e.live \/ ~ categories[c].live \/ Removing(c)
    BY <1>3 DEF CategoryPut
  <2>2. categories \in [1..Len(categories) -> Category]
    BY <1>1
  <2>3. categories' \in [1..Len(categories) -> Category]
    BY <2>1, <2>2
  <2>4. /\ categories' \in Seq(Category) /\ Len(categories') = Len(categories)
        /\ DOMAIN categories' = DOMAIN categories
    BY <1>1, <2>3, ReplacedSeq
  <2>5. \A x \in DOMAIN categories : categories'[x] = IF x = c THEN e ELSE categories[x]
    BY <2>1, <2>2
  <2> QED
    BY <1>1, <2>1, <2>4, <2>5 DEF LiveCategory
<1> QED
  BY <1>2, <1>3

\* An item is made.
LEMMA ItemsAfterAdding ==
    ASSUME TypeOK, NEW c \in Refs, NEW groups \in Groups, Len(items) < MaxItems,
           items' = Append(items, [category |-> c, live |-> TRUE, available |-> TRUE,
                                   groups |-> groups])
    PROVE  /\ items' \in Seq(Item) /\ Len(items') <= MaxItems
           /\ DOMAIN items' = DOMAIN items \cup {Len(items) + 1}
           /\ Len(items) + 1 \notin DOMAIN items
           /\ \A i \in DOMAIN items : items'[i] = items[i]
           /\ items'[Len(items) + 1].category = c /\ items'[Len(items) + 1].groups = groups
<1>1. items \in Seq(Item)
  BY DEF TypeOK
<1>2. PICK e \in Item : e = [category |-> c, live |-> TRUE, available |-> TRUE, groups |-> groups]
  BY DEF Item, Refs
<1>3. items' = Append(items, e)
  BY <1>2
<1>4. /\ items' \in Seq(Item) /\ Len(items') = Len(items) + 1 /\ Len(items) \in Nat
      /\ DOMAIN items' = DOMAIN items \cup {Len(items) + 1}
      /\ Len(items) + 1 \notin DOMAIN items
      /\ \A i \in DOMAIN items : items'[i] = items[i]
      /\ items'[Len(items) + 1] = e
  BY <1>1, <1>3, AppendedSeq
<1>5. Len(items') <= MaxItems
  BY <1>4, CatalogAssumption
<1> QED
  BY <1>2, <1>4, <1>5

\* An item gets another row.
LEMMA ItemsAfterPut ==
    ASSUME TypeOK, NEW i \in DOMAIN items, NEW e \in Item, items' = [items EXCEPT ![i] = e]
    PROVE  /\ items' \in Seq(Item) /\ Len(items') <= MaxItems
           /\ DOMAIN items' = DOMAIN items
           /\ \A x \in DOMAIN items : items'[x] = IF x = i THEN e ELSE items[x]
<1>1. items \in Seq(Item) /\ Len(items) <= MaxItems
  BY DEF TypeOK
<1>2. items \in [1..Len(items) -> Item]
  BY <1>1
<1>3. items' \in [1..Len(items) -> Item]
  BY <1>2
<1>4. items' \in Seq(Item) /\ Len(items') = Len(items) /\ DOMAIN items' = DOMAIN items
  BY <1>1, <1>3, ReplacedSeq
<1>5. \A x \in DOMAIN items : items'[x] = IF x = i THEN e ELSE items[x]
  BY <1>2
<1> QED
  BY <1>1, <1>4, <1>5

LEMMA RowsTyped ==
    ASSUME TypeOK, RowStep
    PROVE  /\ categories' \in Seq(Category) /\ Len(categories') <= MaxCategories
           /\ items' \in Seq(Item) /\ Len(items') <= MaxItems
           /\ DOMAIN categories \subseteq DOMAIN categories' /\ DOMAIN items \subseteq DOMAIN items'
           /\ raced' \subseteq DOMAIN items' /\ mixed' \subseteq DOMAIN items'
<1>1. /\ categories \in Seq(Category) /\ Len(categories) <= MaxCategories
      /\ items \in Seq(Item) /\ Len(items) <= MaxItems
      /\ raced \subseteq DOMAIN items /\ mixed \subseteq DOMAIN items
  BY DEF TypeOK
<1>2. CASE CategoryMade \/ CategoryPut
  <2>1. UNCHANGED <<items, raced, mixed>>
    BY <1>2 DEF CategoryMade, CategoryPut
  <2>2. DOMAIN categories \subseteq DOMAIN categories'
    <3>1. CASE CategoryMade
      <4>1. PICK e : categories' = Append(categories, e)
        BY <3>1 DEF CategoryMade, AddCategory
      <4> QED
        BY <1>1, <4>1
    <3> QED
      BY <1>2, <3>1 DEF CategoryPut
  <2> QED
    BY <1>1, <1>2, <2>1, <2>2, CategoriesAfter
<1>3. CASE ItemMade
  <2>1. PICK c \in Refs, groups \in Groups :
          /\ Len(items) < MaxItems
          /\ items' = Append(items, [category |-> c, live |-> TRUE, available |-> TRUE,
                                     groups |-> groups])
          /\ Moved(Len(items) + 1, c)
          /\ UNCHANGED <<categories, mixed>>
    BY <1>3 DEF ItemMade
  <2>2. raced' \subseteq raced \cup {Len(items) + 1}
    BY <2>1 DEF Moved
  <2> QED
    BY <1>1, <2>1, <2>2, ItemsAfterAdding
<1>4. ASSUME NEW i \in DOMAIN items, NEW e \in Item, ItemPut(i, e)
      PROVE  /\ items' \in Seq(Item) /\ Len(items') <= MaxItems /\ DOMAIN items' = DOMAIN items
             /\ raced' \subseteq DOMAIN items' /\ UNCHANGED categories
  <2>1. raced' \subseteq raced \cup {i} /\ UNCHANGED categories
    BY <1>4 DEF ItemPut, Moved
  <2> QED
    BY <1>1, <1>4, <2>1, ItemsAfterPut DEF ItemPut
<1>5. CASE ItemEdited
  <2>1. UNCHANGED mixed
    BY <1>5 DEF ItemEdited
  <2> QED
    BY <1>1, <1>4, <1>5, <2>1 DEF ItemEdited
<1>6. CASE ItemCommitted
  <2>1. PICK i \in DOMAIN items, e \in Item, j \in CommitJob :
          /\ ItemPut(i, e)
          /\ mixed' = CASE ~ j.sends              -> mixed
                        [] j.sends /\ j.alone   -> mixed \ {i}
                        [] j.sends /\ ~ j.alone -> mixed \cup {i}
    BY <1>6 DEF ItemCommitted
  <2>2. mixed' \subseteq mixed \cup {i}
    <3>1. CASE ~ j.sends
      BY <2>1, <3>1
    <3>2. CASE j.sends /\ j.alone
      BY <2>1, <3>2
    <3>3. CASE j.sends /\ ~ j.alone
      BY <2>1, <3>3
    <3> QED
      BY <3>1, <3>2, <3>3
  <2> QED
    BY <1>1, <1>4, <2>1, <2>2
<1>7. CASE NothingWritten
  BY <1>1, <1>7 DEF NothingWritten
<1> QED
  BY <1>2, <1>3, <1>5, <1>6, <1>7 DEF RowStep

LEMMA ListsTyped ==
    ASSUME TypeOK, RowsFound, NEW h \in Requests,
           CategoryNext(h) \/ ItemNext(h) \/ SeedNext(h) \/ CutOff(h)
    PROVE  lists' \in 0..MaxLists
<1>1. lists \in 0..MaxLists
  BY DEF TypeOK
<1>2. CASE ReplaceGroups(h)
  BY <1>2, ReplacingJobs
<1>3. ASSUME NEW c \in DOMAIN categories, CreateItem(h, c) PROVE lists' \in 0..MaxLists
  <2>1. PICK groups \in {{}, {lists + 1}} : Brings(groups)
    BY <1>3 DEF CreateItem
  <2> QED
    BY <2>1, BroughtGroups
<1>4. CASE UNCHANGED lists
  BY <1>1, <1>4
<1> QED
  BY <1>2, <1>3, <1>4 DEF CategoryNext, ItemNext, SeedNext, CreateCategory, UpdateCategory,
     RemoveCategory, InsertCategory, CheckSlug, RenameCategory, CountItems, DeleteCategory,
     UpdateItem, UpdateStatus, RemoveItem, AddItem, CheckCategory, LeaveGroups, CommitItem,
     ToggleItem, RetireItem, SeedCategory, FindSeeded, AdoptItem, CutOff

TypeInv == TypeOK /\ RowsFound

LEMMA TypeSteps == TypeInv /\ [Next]_vars => TypeInv'
<1> SUFFICES ASSUME TypeInv, [Next]_vars PROVE TypeInv'
  OBVIOUS
<1>1. CASE UNCHANGED vars
  BY <1>1 DEF TypeInv, TypeOK, RowsFound, Fits, vars
<1>2. ASSUME NEW h \in Requests, CategoryNext(h) \/ ItemNext(h) \/ SeedNext(h) \/ CutOff(h)
      PROVE  TypeInv'
  <2>1. Go /\ job' \in [Requests -> Job \cup {Idle}]
    BY <1>2, JobSteps DEF TypeInv
  <2>2. RowStep
    BY <1>2, RowSteps DEF TypeInv
  <2>3. /\ categories' \in Seq(Category) /\ Len(categories') <= MaxCategories
        /\ items' \in Seq(Item) /\ Len(items') <= MaxItems
        /\ DOMAIN categories \subseteq DOMAIN categories' /\ DOMAIN items \subseteq DOMAIN items'
        /\ raced' \subseteq DOMAIN items' /\ mixed' \subseteq DOMAIN items'
    BY <2>2, RowsTyped DEF TypeInv
  <2>4. lists' \in 0..MaxLists
    BY <1>2, ListsTyped DEF TypeInv
  <2>5. TypeOK'
    BY <2>1, <2>3, <2>4 DEF TypeOK
  <2>6. RowsFound'
    BY <2>1, <2>3 DEF Go, RowsFound, Fits
  <2> QED
    BY <2>5, <2>6 DEF TypeInv
<1> QED
  BY <1>1, <1>2 DEF Next

LEMMA TypeStarts == Init => TypeInv
<1> SUFFICES ASSUME Init PROVE TypeInv
  OBVIOUS
<1>1. TypeOK
  BY CatalogAssumption DEF Init, TypeOK
<1>2. RowsFound
  BY DEF Init, RowsFound, Fits, Idle
<1> QED
  BY <1>1, <1>2 DEF TypeInv

THEOREM Typed == Spec => []TypeInv
BY TypeStarts, TypeSteps, PTL DEF Spec

\* Every reachable state has typed rows and handlers, and the histories are about
\* items that were made.
THEOREM Typing == Spec => []TypeOK
BY Typed, PTL DEF TypeInv

-----------------------------------------------------------------------------
(* Items on sale are in a category that is shown.                          *)

\* Nor has anybody counted the items of their category and found none.
Listed(i) ==
    LiveItem(i) /\ i \notin raced =>
        LiveCategory(items[i].category) /\ ~ Removing(items[i].category)

ListedInv == TypeInv /\ \A i \in DOMAIN items : Listed(i)

\* Who comes to remove a category has counted its items, and writes nothing yet.
LEMMA RemovalsCount ==
    ASSUME TypeInv, NEW h \in Requests,
           CategoryNext(h) \/ ItemNext(h) \/ SeedNext(h) \/ CutOff(h),
           NEW c, Removing(c)'
    PROVE  \/ Removing(c)
           \/ ItemsOf(c) = {} /\ UNCHANGED <<categories, items, raced>>
<1>1. TypeOK /\ RowsFound
  BY DEF TypeInv
<1>2. PICK g \in Requests : job'[g].at = "delete" /\ job'[g].category = c
  BY DEF Removing
<1>3. CASE ReplaceGroups(h)
  <2>1. PICK i \in DOMAIN items, d \in Refs \cup {Keep}, groups \in {{}, {lists + 1}},
             alone \in BOOLEAN : Begins(h, i, d, groups, alone)
    BY <1>1, <1>3, ReplacingJobs
  <2>2. g # h
    BY <1>2, <2>1 DEF Begins
  <2>3. ~ Replacing(g, i)
    <3>1. SUFFICES ASSUME Replacing(g, i) PROVE FALSE
      OBVIOUS
    <3>2. job[g] \in CommitJob
      BY <1>1, <3>1, JobShapes DEF Replacing
    <3>3. job'[g] = [job[g] EXCEPT !.alone = FALSE]
      BY <2>1, <2>2, <3>1 DEF Begins
    <3>4. job'[g].at = "commit"
      BY <3>2, <3>3 DEF CommitJob
    <3> QED
      BY <1>2, <3>4
  <2> QED
    BY <1>2, <2>1, <2>2, <2>3 DEF Begins, Removing
<1>4. CASE ~ ReplaceGroups(h)
  <2>1. Goes(h)
    BY <1>1, <1>4, CategoryJobs, ItemJobs
  <2>2. PICK j : job' = [job EXCEPT ![h] = j] /\ Sound(j)
    BY <2>1 DEF Goes
  <2>3. CASE g = h
    <3>1. job'[g] = j
      BY <1>1, <2>2, <2>3 DEF TypeOK
    <3> QED
      BY <1>2, <2>2, <3>1 DEF Sound
  <2>4. CASE g # h
    BY <1>1, <1>2, <2>2, <2>4 DEF TypeOK, Removing
  <2> QED
    BY <2>3, <2>4
<1> QED
  BY <1>3, <1>4

LEMMA ListedSteps == ListedInv /\ [Next]_vars => ListedInv'
<1> SUFFICES ASSUME ListedInv, [Next]_vars PROVE ListedInv'
  OBVIOUS
<1>1. TypeInv /\ TypeOK /\ RowsFound /\ TypeInv'
  BY TypeSteps DEF ListedInv, TypeInv
<1>2. \A i \in DOMAIN items : Listed(i)
  BY DEF ListedInv
<1>3. CASE UNCHANGED vars
  BY <1>1, <1>2, <1>3 DEF ListedInv, Listed, LiveItem, LiveCategory, Removing, vars
<1>4. ASSUME NEW h \in Requests, CategoryNext(h) \/ ItemNext(h) \/ SeedNext(h) \/ CutOff(h),
             NEW i \in DOMAIN items', items'[i].live, i \notin raced'
      PROVE  \E c : /\ c = items'[i].category
                    /\ LiveCategory(c)' /\ ~ Removing(c)'
  <2>1. PICK c : c = items'[i].category
    OBVIOUS
  <2>2. RowStep
    BY <1>1, <1>4, RowSteps
  <2>3. ASSUME LiveCategory(c), ~ Removing(c), UNCHANGED categories,
               ~ UNCHANGED items
        PROVE  LiveCategory(c)' /\ ~ Removing(c)'
    BY <1>1, <1>4, <2>3, RemovalsCount DEF LiveCategory
  \* Whoever is there already and stays where it is.
  <2>4. ASSUME i \in DOMAIN items, items[i].live, items[i].category = c, i \notin raced
        PROVE  LiveCategory(c) /\ ~ Removing(c) /\ ItemsOf(c) # {}
    BY <1>2, <2>4 DEF Listed, LiveItem, ItemsOf
  <2>5. CASE CategoryMade \/ CategoryPut
    <3>1. UNCHANGED <<items, raced>>
      BY <2>5 DEF CategoryMade, CategoryPut
    <3>2. LiveCategory(c) /\ ~ Removing(c) /\ ItemsOf(c) # {}
      BY <1>4, <2>1, <2>4, <3>1
    <3> QED
      BY <1>1, <1>4, <2>1, <2>5, <3>2, CategoriesAfter, RemovalsCount
  <2>6. CASE NothingWritten
    <3>1. UNCHANGED <<categories, items, raced>>
      BY <2>6 DEF NothingWritten
    <3>2. LiveCategory(c) /\ ~ Removing(c) /\ ItemsOf(c) # {}
      BY <1>4, <2>1, <2>4, <3>1
    <3> QED
      BY <1>1, <1>4, <2>1, <3>1, <3>2, RemovalsCount DEF LiveCategory
  <2>7. CASE ItemMade
    <3>1. PICK c2 \in Refs, groups \in Groups :
            /\ Len(items) < MaxItems
            /\ items' = Append(items, [category |-> c2, live |-> TRUE, available |-> TRUE,
                                       groups |-> groups])
            /\ Moved(Len(items) + 1, c2)
            /\ UNCHANGED categories
      BY <2>7 DEF ItemMade
    <3>2. /\ DOMAIN items' = DOMAIN items \cup {Len(items) + 1}
          /\ Len(items) + 1 \notin DOMAIN items
          /\ \A x \in DOMAIN items : items'[x] = items[x]
          /\ items'[Len(items) + 1].category = c2
      BY <1>1, <3>1, ItemsAfterAdding
    <3>3. ~ UNCHANGED items
      BY <3>2
    <3>4. CASE i = Len(items) + 1
      <4>1. LiveCategory(c) /\ ~ Removing(c)
        BY <1>4, <2>1, <3>1, <3>2, <3>4 DEF Moved
      <4> QED
        BY <2>1, <2>3, <3>1, <3>3, <4>1
    <3>5. CASE i # Len(items) + 1
      <4>1. i \in DOMAIN items /\ items[i].live /\ items[i].category = c /\ i \notin raced
        BY <1>4, <2>1, <3>1, <3>2, <3>5 DEF Moved
      <4> QED
        BY <2>1, <2>3, <2>4, <3>1, <3>3, <4>1
    <3> QED
      BY <3>4, <3>5
  <2>8. ASSUME NEW x \in DOMAIN items, NEW e \in Item, ItemPut(x, e)
        PROVE  LiveCategory(c)' /\ ~ Removing(c)'
    <3>1. /\ DOMAIN items' = DOMAIN items
          /\ \A y \in DOMAIN items : items'[y] = IF y = x THEN e ELSE items[y]
      BY <1>1, <2>8, ItemsAfterPut DEF ItemPut
    <3>2. LiveCategory(c) /\ ~ Removing(c)
      <4>1. CASE i = x /\ Moved(x, e.category)
        BY <1>4, <2>1, <3>1, <4>1 DEF Moved
      <4>2. CASE i # x \/ ~ Moved(x, e.category)
        <5>1. i \in DOMAIN items /\ items[i].live /\ items[i].category = c /\ i \notin raced
          BY <1>4, <2>1, <2>8, <3>1, <4>2 DEF ItemPut, Moved
        <5> QED
          BY <2>4, <5>1
      <4> QED
        BY <4>1, <4>2
    <3>3. UNCHANGED categories
      BY <2>8 DEF ItemPut
    <3>4. ~ Removing(c)'
      <4>1. UNCHANGED items => i \in ItemsOf(c)
        BY <1>4, <2>1 DEF ItemsOf, LiveItem
      <4> QED
        BY <1>1, <1>4, <3>2, <4>1, RemovalsCount
    <3> QED
      BY <3>2, <3>3, <3>4 DEF LiveCategory
  <2> QED
    BY <2>1, <2>2, <2>5, <2>6, <2>7, <2>8 DEF RowStep, ItemEdited, ItemCommitted
<1>5. ASSUME NEW h \in Requests, CategoryNext(h) \/ ItemNext(h) \/ SeedNext(h) \/ CutOff(h)
      PROVE  ListedInv'
  <2>1. ASSUME NEW i \in DOMAIN items' PROVE Listed(i)'
    BY <1>4, <1>5, <2>1 DEF Listed, LiveItem, LiveCategory, Removing
  <2> QED
    BY <1>1, <2>1 DEF ListedInv
<1> QED
  BY <1>3, <1>5 DEF Next

\* For any number of requests and seedings, an item on sale is in a category that is
\* shown, or its last move met the removal of that category.
THEOREM ItemsListed == Spec => []LiveItemsAreListed
<1>1. Init => ListedInv
  BY TypeStarts DEF ListedInv, Init
<1>2. ListedInv => LiveItemsAreListed
  BY DEF ListedInv, Listed, LiveItemsAreListed
<1> QED
  BY <1>1, <1>2, ListedSteps, PTL DEF Spec

-----------------------------------------------------------------------------
(* The variant groups of an item come from one list.                       *)

\* What a handler has in hand: groups of one list, and, when no other replacement
\* runs, the groups that the item has.
Holds(j) ==
    /\ j.at = "add" => AtMostOne(j.groups)
    /\ j.at = "commit" =>
         /\ AtMostOne(j.groups)
         /\ (j.sends /\ j.alone) => items[j.item].groups = j.drops
         /\ ~ j.sends => (j.drops = {} /\ j.groups = {})

\* Two replacements of the groups of one item both know of company.
Company ==
    \A g, h \in Requests, i \in DOMAIN items :
        g # h /\ Replacing(g, i) /\ Replacing(h, i) => ~ job[g].alone

OneList == \A i \in DOMAIN items : i \notin mixed => AtMostOne(items[i].groups)

GroupsInv == TypeInv /\ OneList /\ Company /\ \A h \in Requests : Holds(job[h])

\* Every other step leaves the groups of all items alone.
LEMMA GroupsStay ==
    ASSUME GroupsInv, CategoryMade \/ CategoryPut \/ ItemMade \/ ItemEdited \/ NothingWritten
    PROVE  /\ OneList'
           /\ \A i \in DOMAIN items : i \in DOMAIN items' /\ items'[i].groups = items[i].groups
<1>1. TypeOK /\ OneList
  BY DEF GroupsInv, TypeInv
<1>2. CASE CategoryMade \/ CategoryPut \/ NothingWritten
  BY <1>1, <1>2 DEF CategoryMade, CategoryPut, NothingWritten, OneList
<1>3. CASE ItemMade
  <2>1. PICK c \in Refs, groups \in Groups, h \in Requests :
          /\ job[h].at = "add" /\ groups = job[h].groups
          /\ Len(items) < MaxItems
          /\ items' = Append(items, [category |-> c, live |-> TRUE, available |-> TRUE,
                                     groups |-> groups])
          /\ UNCHANGED mixed
    BY <1>3 DEF ItemMade
  <2>2. AtMostOne(groups)
    BY <2>1 DEF GroupsInv, Holds
  <2>3. /\ DOMAIN items' = DOMAIN items \cup {Len(items) + 1}
        /\ \A x \in DOMAIN items : items'[x] = items[x]
        /\ items'[Len(items) + 1].groups = groups
    BY <1>1, <2>1, ItemsAfterAdding
  <2> QED
    BY <1>1, <2>1, <2>2, <2>3 DEF OneList
<1>4. CASE ItemEdited
  <2>1. PICK i \in DOMAIN items, e \in Item :
          ItemPut(i, e) /\ e.groups = items[i].groups /\ UNCHANGED mixed
    BY <1>4 DEF ItemEdited
  <2>2. /\ DOMAIN items' = DOMAIN items
        /\ \A y \in DOMAIN items : items'[y] = IF y = i THEN e ELSE items[y]
    BY <1>1, <2>1, ItemsAfterPut DEF ItemPut
  <2> QED
    BY <1>1, <2>1, <2>2 DEF OneList
<1> QED
  BY <1>2, <1>3, <1>4

\* A step of one handler that is not a commit and begins no replacement.
LEMMA OthersHold ==
    ASSUME GroupsInv, NEW h \in Requests, Goes(h),
           \A i \in DOMAIN items : i \in DOMAIN items' /\ items'[i].groups = items[i].groups
    PROVE  (\A g \in Requests : Holds(job[g]))' /\ Company'
<1>1. TypeOK /\ RowsFound /\ Company /\ \A g \in Requests : Holds(job[g])
  BY DEF GroupsInv, TypeInv
<1>2. PICK j \in Job \cup {Idle} : job' = [job EXCEPT ![h] = j] /\ Fits(j) /\ Sound(j)
  BY DEF Goes
<1>3. job'[h] = j /\ \A g \in Requests \ {h} : job'[g] = job[g]
  BY <1>1, <1>2 DEF TypeOK
<1>4. ASSUME NEW g \in Requests
      PROVE  /\ job'[g].at = "add" => AtMostOne(job'[g].groups)
             /\ job'[g].at = "commit" =>
                  /\ AtMostOne(job'[g].groups)
                  /\ (job'[g].sends /\ job'[g].alone) => items'[job'[g].item].groups = job'[g].drops
                  /\ ~ job'[g].sends => (job'[g].drops = {} /\ job'[g].groups = {})
  <2>1. CASE g = h
    BY <1>2, <1>3, <2>1 DEF Sound, AtMostOne
  <2>2. CASE g # h
    <3>1. job'[g] = job[g] /\ Holds(job[g]) /\ Fits(job[g])
      BY <1>1, <1>3, <2>2 DEF RowsFound
    <3>2. job[g].at = "commit" => items'[job[g].item].groups = items[job[g].item].groups
      BY <3>1 DEF Fits
    <3> QED
      BY <3>1, <3>2 DEF Holds
  <2> QED
    BY <2>1, <2>2
<1>5. ASSUME NEW f \in Requests, NEW g \in Requests, NEW i, f # g,
             job'[f].at = "commit", job'[f].sends, job'[f].item = i,
             job'[g].at = "commit", job'[g].sends, job'[g].item = i
      PROVE  ~ job'[f].alone
  <2>1. f # h /\ g # h
    BY <1>2, <1>3, <1>5 DEF Sound
  <2>2. i \in DOMAIN items
    BY <1>1, <1>3, <1>5, <2>1 DEF RowsFound, Fits
  <2> QED
    BY <1>1, <1>3, <1>5, <2>1, <2>2 DEF Company, Replacing
<1>6. Company'
  BY <1>5 DEF Company, Replacing
<1> QED
  BY <1>4, <1>6 DEF Holds

\* A replacement begins: it drops the groups there are, and has company or none.
LEMMA BeginsHold ==
    ASSUME GroupsInv, NEW h \in Requests, ReplaceGroups(h)
    PROVE  (\A g \in Requests : Holds(job[g]))' /\ Company'
<1>1. TypeOK /\ RowsFound /\ Company /\ \A g \in Requests : Holds(job[g])
  BY DEF GroupsInv, TypeInv
<1>2. UNCHANGED items
  BY DEF ReplaceGroups
<1>3. PICK i \in DOMAIN items, c \in Refs \cup {Keep}, groups \in {{}, {lists + 1}},
           alone \in BOOLEAN : Begins(h, i, c, groups, alone)
  BY <1>1, ReplacingJobs
<1>4. AtMostOne(groups)
  BY DEF AtMostOne
\* Of a handler that is joined only the company changes.
<1>5. ASSUME NEW g \in Requests \ {h}
      PROVE  /\ job'[g].at = job[g].at
             /\ job[g].at = "add" => job'[g].groups = job[g].groups
             /\ job[g].at = "commit" =>
                  /\ job'[g].groups = job[g].groups /\ job'[g].drops = job[g].drops
                  /\ job'[g].sends = job[g].sends /\ job'[g].item = job[g].item
                  /\ job'[g].alone => job[g].alone
             /\ Replacing(g, i) => ~ job'[g].alone
  <2>1. CASE Replacing(g, i)
    <3>1. job[g] \in CommitJob
      BY <1>1, <2>1, JobShapes DEF Replacing
    <3>2. PICK k \in CommitJob : k = [job[g] EXCEPT !.alone = FALSE]
      BY <3>1 DEF CommitJob
    <3>3. job'[g] = k
      BY <1>3, <2>1, <3>2 DEF Begins
    <3>4. /\ k.at = job[g].at /\ k.groups = job[g].groups /\ k.drops = job[g].drops
          /\ k.sends = job[g].sends /\ k.item = job[g].item /\ ~ k.alone
          /\ job[g].at = "commit"
      BY <3>1, <3>2 DEF CommitJob
    <3> QED
      BY <3>3, <3>4
  <2>2. CASE ~ Replacing(g, i)
    BY <1>3, <2>2 DEF Begins
  <2> QED
    BY <2>1, <2>2
<1>6. /\ job'[h].at = "commit" /\ job'[h].item = i /\ job'[h].sends
      /\ job'[h].drops = items[i].groups /\ job'[h].groups = groups
      /\ job'[h].alone <=> ~ \E g \in Requests : Replacing(g, i)
  BY <1>3 DEF Begins
<1>7. ASSUME NEW g \in Requests
      PROVE  /\ job'[g].at = "add" => AtMostOne(job'[g].groups)
             /\ job'[g].at = "commit" =>
                  /\ AtMostOne(job'[g].groups)
                  /\ (job'[g].sends /\ job'[g].alone) => items'[job'[g].item].groups = job'[g].drops
                  /\ ~ job'[g].sends => (job'[g].drops = {} /\ job'[g].groups = {})
  <2>1. CASE g = h
    BY <1>2, <1>4, <1>6, <2>1
  <2>2. CASE g # h
    <3>1. Holds(job[g])
      BY <1>1
    <3> QED
      BY <1>2, <1>5, <2>2, <3>1 DEF Holds
  <2> QED
    BY <2>1, <2>2
<1>8. ASSUME NEW f \in Requests, NEW g \in Requests, NEW x \in DOMAIN items, f # g,
             job'[f].at = "commit", job'[f].sends, job'[f].item = x,
             job'[g].at = "commit", job'[g].sends, job'[g].item = x
      PROVE  ~ job'[f].alone
  <2>1. CASE f = h
    <3>1. g # h /\ x = i
      BY <1>6, <1>8, <2>1
    <3>2. Replacing(g, i)
      BY <1>5, <1>8, <3>1 DEF Replacing
    <3> QED
      BY <1>6, <2>1, <3>2
  <2>2. CASE g = h
    <3>1. f # h /\ x = i
      BY <1>6, <1>8, <2>2
    <3>2. Replacing(f, i)
      BY <1>5, <1>8, <3>1 DEF Replacing
    <3> QED
      BY <1>5, <3>1, <3>2
  <2>3. CASE f # h /\ g # h
    <3>1. Replacing(f, x) /\ Replacing(g, x)
      BY <1>5, <1>8, <2>3 DEF Replacing
    <3>2. ~ job[f].alone
      BY <1>1, <1>8, <3>1 DEF Company
    <3> QED
      BY <1>5, <1>8, <2>3, <3>2
  <2> QED
    BY <2>1, <2>2, <2>3
<1>9. Company'
  BY <1>2, <1>8 DEF Company, Replacing
<1> QED
  BY <1>7, <1>9 DEF Holds

\* A transaction commits: alone it leaves its own groups, else it has company.
LEMMA CommitsHold ==
    ASSUME GroupsInv, ItemCommitted
    PROVE  OneList' /\ (\A g \in Requests : Holds(job[g]))' /\ Company'
<1>1. TypeOK /\ RowsFound /\ Company /\ OneList /\ \A g \in Requests : Holds(job[g])
  BY DEF GroupsInv, TypeInv
<1>2. PICK i \in DOMAIN items, e \in Item, h \in Requests, j \in CommitJob :
        /\ ItemPut(i, e)
        /\ j = job[h] /\ j.item = i
        /\ job' = [job EXCEPT ![h] = Idle]
        /\ e.groups = (items[i].groups \ j.drops) \cup j.groups
        /\ mixed' = CASE ~ j.sends              -> mixed
                      [] j.sends /\ j.alone   -> mixed \ {i}
                      [] j.sends /\ ~ j.alone -> mixed \cup {i}
  BY DEF ItemCommitted
<1>3. /\ DOMAIN items' = DOMAIN items
      /\ \A y \in DOMAIN items : items'[y] = IF y = i THEN e ELSE items[y]
  BY <1>1, <1>2, ItemsAfterPut DEF ItemPut
<1>4. job'[h] = Idle /\ \A g \in Requests \ {h} : job'[g] = job[g]
  BY <1>1, <1>2 DEF TypeOK
<1>5. j.at = "commit" /\ Holds(j)
  BY <1>1, <1>2 DEF CommitJob
<1>6. OneList'
  <2>1. CASE ~ j.sends
    <3>1. j.drops = {} /\ j.groups = {}
      BY <1>5, <2>1 DEF Holds
    <3>2. e.groups = items[i].groups
      BY <1>2, <3>1
    <3>3. mixed' = mixed
      BY <1>2, <2>1
    <3> QED
      BY <1>1, <1>3, <3>2, <3>3 DEF OneList
  <2>2. CASE j.sends /\ j.alone
    <3>1. items[i].groups = j.drops /\ AtMostOne(j.groups)
      BY <1>2, <1>5, <2>2 DEF Holds
    <3>2. e.groups = j.groups /\ mixed' = mixed \ {i}
      BY <1>2, <2>2, <3>1
    <3> QED
      BY <1>1, <1>3, <3>1, <3>2 DEF OneList
  <2>3. CASE j.sends /\ ~ j.alone
    <3>1. mixed' = mixed \cup {i}
      BY <1>2, <2>3
    <3> QED
      BY <1>1, <1>3, <3>1 DEF OneList
  <2> QED
    BY <2>1, <2>2, <2>3
<1>7. ASSUME NEW g \in Requests
      PROVE  /\ job'[g].at = "add" => AtMostOne(job'[g].groups)
             /\ job'[g].at = "commit" =>
                  /\ AtMostOne(job'[g].groups)
                  /\ (job'[g].sends /\ job'[g].alone) => items'[job'[g].item].groups = job'[g].drops
                  /\ ~ job'[g].sends => (job'[g].drops = {} /\ job'[g].groups = {})
  <2>1. CASE g = h
    BY <1>4, <2>1 DEF Idle
  <2>2. CASE g # h
    <3>1. job'[g] = job[g] /\ Holds(job[g]) /\ Fits(job[g])
      BY <1>1, <1>4, <2>2 DEF RowsFound
    <3>2. job[g].at = "commit" /\ job[g].sends /\ job[g].alone =>
            items'[job[g].item].groups = items[job[g].item].groups
      <4>1. SUFFICES ASSUME job[g].at = "commit", job[g].sends, job[g].alone
                     PROVE  items'[job[g].item].groups = items[job[g].item].groups
        OBVIOUS
      <4>2. job[g].item \in DOMAIN items
        BY <3>1, <4>1 DEF Fits
      <4>3. CASE job[g].item # i
        BY <1>3, <4>2, <4>3
      <4>4. CASE job[g].item = i
        <5>1. ~ j.sends
          BY <1>1, <1>2, <1>5, <2>2, <4>1, <4>4 DEF Company, Replacing
        <5>2. j.drops = {} /\ j.groups = {}
          BY <1>5, <5>1 DEF Holds
        <5> QED
          BY <1>2, <1>3, <4>2, <4>4, <5>2
      <4> QED
        BY <4>3, <4>4
    <3> QED
      BY <3>1, <3>2 DEF Holds
  <2> QED
    BY <2>1, <2>2
<1>8. ASSUME NEW f \in Requests, NEW g \in Requests, NEW x \in DOMAIN items, f # g,
             job'[f].at = "commit", job'[f].sends, job'[f].item = x,
             job'[g].at = "commit", job'[g].sends, job'[g].item = x
      PROVE  ~ job'[f].alone
  <2>1. f # h /\ g # h
    BY <1>4, <1>8 DEF Idle
  <2> QED
    BY <1>1, <1>4, <1>8, <2>1 DEF Company, Replacing
<1>9. Company'
  BY <1>3, <1>8 DEF Company, Replacing
<1> QED
  BY <1>6, <1>7, <1>9 DEF Holds

LEMMA GroupsSteps == GroupsInv /\ [Next]_vars => GroupsInv'
<1> SUFFICES ASSUME GroupsInv, [Next]_vars PROVE GroupsInv'
  OBVIOUS
<1>1. TypeInv /\ TypeOK /\ RowsFound /\ TypeInv'
  BY TypeSteps DEF GroupsInv, TypeInv
<1>2. CASE UNCHANGED vars
  BY <1>1, <1>2 DEF GroupsInv, OneList, Company, Replacing, Holds, vars
<1>3. ASSUME NEW h \in Requests, CategoryNext(h) \/ ItemNext(h) \/ SeedNext(h) \/ CutOff(h)
      PROVE  GroupsInv'
  <2>1. RowStep
    BY <1>1, <1>3, RowSteps
  <2>2. CASE ItemCommitted
    BY <1>1, <2>2, CommitsHold DEF GroupsInv
  <2>3. CASE CategoryMade \/ CategoryPut \/ ItemMade \/ ItemEdited \/ NothingWritten
    <3>1. /\ OneList'
          /\ \A i \in DOMAIN items : i \in DOMAIN items' /\ items'[i].groups = items[i].groups
      BY <2>3, GroupsStay
    <3>2. CASE ReplaceGroups(h)
      BY <1>1, <3>1, <3>2, BeginsHold DEF GroupsInv
    <3>3. CASE ~ ReplaceGroups(h)
      <4>1. Goes(h)
        BY <1>1, <1>3, <3>3, CategoryJobs, ItemJobs
      <4> QED
        BY <1>1, <3>1, <4>1, OthersHold DEF GroupsInv
    <3> QED
      BY <3>2, <3>3
  <2> QED
    BY <2>1, <2>2, <2>3 DEF RowStep
<1> QED
  BY <1>2, <1>3 DEF Next

LEMMA SmallSets ==
    ASSUME NEW groups, AtMostOne(groups)
    PROVE  Cardinality(groups) <= 1
<1>1. CASE groups = {}
  BY <1>1, FS_EmptySet
<1>2. CASE groups # {}
  <2>1. PICK x \in groups : TRUE
    BY <1>2
  <2>2. groups = {x}
    BY <2>1 DEF AtMostOne
  <2> QED
    BY <2>2, FS_Singleton
<1> QED
  BY <1>1, <1>2

\* For any number of overlapping updates, the groups of an item come from one list
\* unless its last replacement ran at the same time as another.
THEOREM GroupsAgree == Spec => []GroupsOfOneList
<1>1. Init => GroupsInv
  <2>1. Init => OneList /\ Company /\ \A h \in Requests : Holds(job[h])
    BY DEF Init, OneList, Company, Holds, Idle
  <2> QED
    BY <2>1, TypeStarts DEF GroupsInv
<1>2. GroupsInv => GroupsOfOneList
  BY SmallSets DEF GroupsInv, OneList, GroupsOfOneList
<1> QED
  BY <1>1, <1>2, GroupsSteps, PTL DEF Spec
=============================================================================
