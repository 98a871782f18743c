----------------------------- MODULE MenuCache ------------------------------
(***************************************************************************)
(* The public menu behind its Redis cache: MenusService.findAllPublic and  *)
(* findOnePublic fill the cache aside, every write of a menu item or a     *)
(* category starts an invalidation that nobody awaits, and RedisService    *)
(* turns into a silent no-op while the connection is down.                 *)
(*                                                                         *)
(* Each command to Redis and each query is a step.  Redis and its entries  *)
(* survive the server; an entry ends by DEL or by its time to live.        *)
(***************************************************************************)
EXTENDS Naturals, FiniteSets

CONSTANTS
    Items,        \* ids of menu items; also the keys menus:item:<id>
    Lists,        \* the keys menus:query:<query>
    ListShows,    \* the availability that each list query selects
    Texts,        \* what a guest reads of an item: name, price, category name
    Groups,       \* the items of a category that one category write affects
    Readers,      \* public requests in flight
    Writers,      \* staff requests whose invalidation may still be running
    NoEntry,      \* the key is not in Redis
    MaxOutages,   \* bound on lost Redis connections
    MaxCrashes    \* bound on server crashes

VARIABLES
    menu,         \* rows of menu_items, each with its category
    cache,        \* entries in Redis
    connected,    \* RedisService.isConnected
    reader,       \* findAllPublic and findOnePublic in flight
    writer,       \* invalidateCache in flight
    excused,      \* history: keys stored too late, or whose invalidation was lost
    outages, crashes

faults == <<outages, crashes>>
vars == <<menu, cache, connected, reader, writer, excused, faults>>

Keys == Items \cup Lists
Idle == [at |-> "idle"]

OnMenu == {"on_sale", "sold_out"}
Row == [state: OnMenu \cup {"absent", "deleted"}, text: Texts]

ASSUME CacheAssumption ==
    /\ Items \cap Lists = {}
    /\ ListShows \in [Lists -> OnMenu]
    /\ Groups \subseteq SUBSET Items
    /\ MaxOutages \in Nat
    /\ MaxCrashes \in Nat

\* The rows a key stands for: one item that is not deleted, or all the items
\* with the availability of the list query.
Shown(k) ==
    {i \in Items : IF k \in Items THEN i = k /\ menu[i].state \in OnMenu
                                  ELSE menu[i].state = ListShows[k]}

View(k) == [i \in Shown(k) |-> menu[i]]

Views == UNION {[S -> Row] : S \in SUBSET Items}
ASSUME NoEntryAssumption == NoEntry \notin Views

Read == [at: {"query"}, key: Keys] \cup [at: {"store"}, key: Keys, view: Views]
Purge == [at: {"keys"}] \cup [at: {"del"}, keys: SUBSET Keys]

TypeOK ==
    /\ menu \in [Items -> Row]
    /\ cache \in [Keys -> Views \cup {NoEntry}]
    /\ connected \in BOOLEAN
    /\ reader \in [Readers -> Read \cup {Idle}]
    /\ writer \in [Writers -> Purge \cup {Idle}]
    /\ excused \subseteq Keys
    /\ outages \in 0..MaxOutages
    /\ crashes \in 0..MaxCrashes

Stored == {k \in Keys : cache[k] # NoEntry}

-----------------------------------------------------------------------------
(* Readers: look up, query, store with a time to live.                     *)

\* A hit ends the request.
Lookup(r, k) ==
    /\ reader[r] = Idle
    /\ ~ connected \/ k \notin Stored
    /\ reader' = [reader EXCEPT ![r] = [at |-> "query", key |-> k]]
    /\ UNCHANGED <<menu, cache, connected, writer, excused, faults>>

\* A missing item answers 404 and is not cached; an empty list is.
Query(r) ==
    /\ reader[r].at = "query"
    /\ LET k == reader[r].key IN
         reader' = [reader EXCEPT ![r] =
                      IF k \in Items /\ Shown(k) = {}
                      THEN Idle
                      ELSE [at |-> "store", key |-> k, view |-> View(k)]]
    /\ UNCHANGED <<menu, cache, connected, writer, excused, faults>>

\* RedisService.set: skipped without a connection.
Store(r) ==
    /\ reader[r].at = "store"
    /\ IF connected
       THEN LET k == reader[r].key IN
              /\ cache' = [cache EXCEPT ![k] = reader[r].view]
              /\ excused' = IF reader[r].view = View(k) THEN excused \ {k}
                                                       ELSE excused \cup {k}
       ELSE UNCHANGED <<cache, excused>>
    /\ reader' = [reader EXCEPT ![r] = Idle]
    /\ UNCHANGED <<menu, connected, writer, faults>>

-----------------------------------------------------------------------------
(* Writers.  The handler answers right after the write; what remains of it *)
(* is delByPattern, which lists the keys and then deletes them.  (The key  *)
(* categories:public, which it deletes too, is stored by nobody.)          *)

\* MenusService.create, update and updateStatus, remove.  An item removed after
\* the handler looked it up can still be edited.
EditedTo(m, n) ==
    \/ m.state \in OnMenu \cup {"absent"} /\ n.state \in OnMenu
    \/ m.state = "deleted" /\ n.state = "deleted"
    \/ m.state # "absent" /\ n = [m EXCEPT !.state = "deleted"]

\* A write that forgets invalidateCache.
WriteOnly(w, rows) ==
    /\ writer[w] = Idle
    /\ menu' = rows
    /\ UNCHANGED <<cache, connected, reader, writer, excused, faults>>

Write(w, rows) ==
    /\ writer[w] = Idle
    /\ menu' = rows
    /\ writer' = [writer EXCEPT ![w] = [at |-> "keys"]]
    /\ UNCHANGED <<cache, connected, reader, excused, faults>>

EditItem(w, i, row) ==
    /\ EditedTo(menu[i], row)
    /\ Write(w, [menu EXCEPT ![i] = row])

\* CategoriesService.update changes the category of its items; create, reorder
\* and remove change no item and invalidate all the same (the empty group).
EditCategory(w, S, text) ==
    Write(w, [i \in Items |-> IF i \in S THEN [menu[i] EXCEPT !.text = text]
                                         ELSE menu[i]])

\* A pattern so wide that it catches the handshake sessions, too.
MatchedWidely == Stored \cup {"menuscan:ecdh"}

\* KEYS menuscan:cache:menus:*
Matched == Stored

ListKeys(w) ==
    /\ writer[w].at = "keys"
    /\ IF connected
       THEN /\ writer' = [writer EXCEPT ![w] =
                            IF Matched = {} THEN Idle
                                            ELSE [at |-> "del", keys |-> Matched]]
            /\ excused' = excused
       ELSE /\ writer' = [writer EXCEPT ![w] = Idle]
            /\ excused' = excused \cup Stored
    /\ UNCHANGED <<menu, cache, connected, reader, faults>>

\* DEL of the keys listed.  An error is logged and forgotten.
DeleteKeys(w) ==
    /\ writer[w].at = "del"
    /\ IF connected
       THEN /\ cache' = [k \in Keys |-> IF k \in writer[w].keys THEN NoEntry
                                                               ELSE cache[k]]
            /\ excused' = excused \ writer[w].keys
       ELSE /\ cache' = cache
            /\ excused' = excused \cup (Stored \cap writer[w].keys)
    /\ writer' = [writer EXCEPT ![w] = Idle]
    /\ UNCHANGED <<menu, connected, reader, faults>>

-----------------------------------------------------------------------------
(* Redis and the server process.                                           *)

\* Entries that were stored without EX and stay.
ExpireNever(k) == FALSE

\* The 300 seconds given with every set are over.
Expire(k) ==
    /\ k \in Stored
    /\ cache' = [cache EXCEPT ![k] = NoEntry]
    /\ excused' = excused \ {k}
    /\ UNCHANGED <<menu, connected, reader, writer, faults>>

Disconnect ==
    /\ connected
    /\ outages < MaxOutages
    /\ connected' = FALSE
    /\ outages' = outages + 1
    /\ UNCHANGED <<menu, cache, reader, writer, excused, crashes>>

\* Within the five retries of retryStrategy; after them the connection stays
\* closed, which is a behaviour that never takes this step.
Reconnect ==
    /\ ~ connected
    /\ connected' = TRUE
    /\ UNCHANGED <<menu, cache, reader, writer, excused, faults>>

Crash ==
    /\ crashes < MaxCrashes
    /\ crashes' = crashes + 1
    /\ reader' = [r \in Readers |-> Idle]
    /\ writer' = [w \in Writers |-> Idle]
    /\ excused' = IF \A w \in Writers : writer[w] = Idle
                  THEN excused ELSE excused \cup Stored
    /\ UNCHANGED <<menu, cache, connected, outages>>

Init ==
    /\ menu \in [Items -> {r \in Row : r.state # "deleted"}]
    /\ cache = [k \in Keys |-> NoEntry]
    /\ connected = TRUE
    /\ reader = [r \in Readers |-> Idle]
    /\ writer = [w \in Writers |-> Idle]
    /\ excused = {}
    /\ outages = 0
    /\ crashes = 0

Next ==
    \/ \E r \in Readers, k \in Keys : Lookup(r, k)
    \/ \E r \in Readers : Query(r) \/ Store(r)
    \/ \E w \in Writers, i \in Items, row \in Row : EditItem(w, i, row)
    \/ \E w \in Writers, S \in Groups, text \in Texts : EditCategory(w, S, text)
    \/ \E w \in Writers : ListKeys(w) \/ DeleteKeys(w)
    \/ \E k \in Keys : Expire(k)
    \/ Disconnect
    \/ Reconnect
    \/ Crash

Spec == Init /\ [][Next]_vars

\* The clock of Redis runs on; nothing else is owed.
FairSpec == Spec /\ \A k \in Keys : WF_vars(Expire(k))

-----------------------------------------------------------------------------
(* Properties.                                                             *)

Stale(k) == k \in Stored /\ cache[k] # View(k)

\* invalidateCache of w has still to delete k.
WillDelete(w, k) ==
    \/ writer[w].at = "keys"
    \/ writer[w].at = "del" /\ k \in writer[w].keys

\* An entry that was current when it was stored is never served once the
\* invalidation after an edit has run, although listing and deleting the keys
\* are apart: a stale entry was stored late by a reader that an edit overtook,
\* or its invalidation was lost to an outage or a crash, or it is about to go.
StaleEntriesAreExcused ==
    \A k \in Keys : Stale(k) =>
        k \in excused \/ \E w \in Writers : WillDelete(w, k)

\* Whatever went wrong, no stale entry is served for good: only the time to
\* live repairs a late fill or a lost invalidation.
StaleEntriesGo == \A k \in Keys : Stale(k) ~> ~ Stale(k)
=============================================================================
