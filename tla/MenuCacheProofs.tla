-------------------------- MODULE MenuCacheProofs ---------------------------
(***************************************************************************)
(* Theorems about MenuCache for any number of items, list queries, readers *)
(* and writers.  StaleEntriesAreExcused is inductive once the types are    *)
(* known: an edit puts its own writer at "keys" and so covers every entry, *)
(* the listing covers every entry there is at that moment, and an entry    *)
(* stored after it is either current or excused.                           *)
(***************************************************************************)
EXTENDS MenuCache, TLAPS

LEMMA InitTyped == Init => TypeOK
  BY CacheAssumption DEF Init, TypeOK, Row, OnMenu, Keys, Idle

\* A view of the present menu is a view.
LEMMA ViewIsTyped ==
    ASSUME menu \in [Items -> Row], NEW k
    PROVE  View(k) \in Views
  <1>1. Shown(k) \in SUBSET Items  BY DEF Shown
  <1>2. View(k) \in [Shown(k) -> Row]  BY <1>1 DEF View
  <1> QED  BY <1>1, <1>2 DEF Views

LEMMA WriteTyped ==
    ASSUME TypeOK, NEW w \in Writers, NEW rows \in [Items -> Row], Write(w, rows)
    PROVE  TypeOK'
  BY DEF TypeOK, Write, faults, Purge

LEMMA StepTyped == TypeOK /\ [Next]_vars => TypeOK'
  <1> SUFFICES ASSUME TypeOK, [Next]_vars PROVE TypeOK'
    OBVIOUS
  <1>1. ASSUME NEW r \in Readers, NEW k \in Keys, Lookup(r, k) PROVE TypeOK'
    BY <1>1 DEF TypeOK, Lookup, faults, Read
  <1>2. ASSUME NEW r \in Readers, Query(r) PROVE TypeOK'
    <2> DEFINE k == reader[r].key
    <2>1. k \in Keys  BY <1>2 DEF TypeOK, Query, Read, Idle
    <2>2. View(k) \in Views  BY ViewIsTyped DEF TypeOK
    <2>3. [at |-> "store", key |-> k, view |-> View(k)] \in Read
      BY <2>1, <2>2 DEF Read
    <2> QED  BY <1>2, <2>3 DEF TypeOK, Query, faults
  <1>3. ASSUME NEW r \in Readers, Store(r) PROVE TypeOK'
    <2>1. reader[r].key \in Keys /\ reader[r].view \in Views
      BY <1>3 DEF TypeOK, Store, Read, Idle
    <2> QED  BY <1>3, <2>1 DEF TypeOK, Store, faults
  <1>4. ASSUME NEW w \in Writers, NEW i \in Items, NEW row \in Row,
               EditItem(w, i, row)
        PROVE  TypeOK'
    <2>1. [menu EXCEPT ![i] = row] \in [Items -> Row]  BY DEF TypeOK
    <2> QED  BY <1>4, <2>1, WriteTyped DEF EditItem
  <1>5. ASSUME NEW w \in Writers, NEW S \in Groups, NEW text \in Texts,
               EditCategory(w, S, text)
        PROVE  TypeOK'
    <2>1. [i \in Items |-> IF i \in S THEN [menu[i] EXCEPT !.text = text]
                                     ELSE menu[i]] \in [Items -> Row]
      BY DEF TypeOK, Row
    <2> QED  BY <1>5, <2>1, WriteTyped DEF EditCategory
  <1>6. ASSUME NEW w \in Writers, ListKeys(w) PROVE TypeOK'
    BY <1>6 DEF TypeOK, ListKeys, faults, Purge, Matched, Stored
  <1>7. ASSUME NEW w \in Writers, DeleteKeys(w) PROVE TypeOK'
    BY <1>7 DEF TypeOK, DeleteKeys, faults, Stored
  <1>8. ASSUME NEW k \in Keys, Expire(k) PROVE TypeOK'
    BY <1>8 DEF TypeOK, Expire, faults
  <1>9. CASE Disconnect
    <2>1. connected' \in BOOLEAN  BY <1>9 DEF Disconnect
    <2>2. outages' \in 0..MaxOutages
      BY <1>9, CacheAssumption DEF TypeOK, Disconnect
    <2> QED  BY <1>9, <2>1, <2>2 DEF TypeOK, Disconnect
  <1>10. CASE Reconnect
    BY <1>10 DEF TypeOK, Reconnect, faults
  <1>11. CASE Crash
    BY <1>11, CacheAssumption DEF TypeOK, Crash, Stored
  <1>12. CASE UNCHANGED vars
    BY <1>12 DEF TypeOK, vars, faults
  <1> QED  BY <1>1, <1>2, <1>3, <1>4, <1>5, <1>6, <1>7, <1>8, <1>9, <1>10,
              <1>11, <1>12 DEF Next

\* Types of the menu, the cache, the requests and the invalidations in flight.
THEOREM Typing == Spec => []TypeOK
  BY InitTyped, StepTyped, PTL DEF Spec

-----------------------------------------------------------------------------

\* The menu decides what is stale: with the same menu and the same entry the
\* answer is the same.
LEMMA SameEntry ==
    ASSUME UNCHANGED menu, NEW k \in Keys, cache'[k] = cache[k]
    PROVE  Stale(k)' => Stale(k)
  BY DEF Stale, View, Shown, Stored

\* A removed entry is not stale.
LEMMA GoneIsNotStale ==
    ASSUME NEW k \in Keys, cache'[k] = NoEntry
    PROVE  ~ Stale(k)'
  BY DEF Stale, Stored

\* A step that leaves menu, cache and invalidations alone and excuses no less
\* keeps the property.
LEMMA QuietStep ==
    ASSUME StaleEntriesAreExcused,
           UNCHANGED <<menu, cache, writer, excused>>
    PROVE  StaleEntriesAreExcused'
  BY DEF StaleEntriesAreExcused, Stale, View, Shown, Stored, WillDelete

\* An edit is followed by its own invalidation, which covers every key.
LEMMA WriteExcuses ==
    ASSUME TypeOK, NEW w \in Writers, NEW rows, Write(w, rows)
    PROVE  StaleEntriesAreExcused'
  <1>1. writer'[w].at = "keys"  BY DEF Write, TypeOK
  <1> QED  BY <1>1 DEF StaleEntriesAreExcused, WillDelete

LEMMA StepExcuses ==
    TypeOK /\ StaleEntriesAreExcused /\ [Next]_vars => StaleEntriesAreExcused'
  <1> SUFFICES ASSUME TypeOK, StaleEntriesAreExcused, [Next]_vars
               PROVE  StaleEntriesAreExcused'
    OBVIOUS
  <1>1. ASSUME NEW r \in Readers, NEW k \in Keys, Lookup(r, k)
        PROVE  StaleEntriesAreExcused'
    BY <1>1, QuietStep DEF Lookup
  <1>2. ASSUME NEW r \in Readers, Query(r) PROVE StaleEntriesAreExcused'
    BY <1>2, QuietStep DEF Query
  <1>3. ASSUME NEW r \in Readers, Store(r) PROVE StaleEntriesAreExcused'
    <2>1. PICK k \in Keys : k = reader[r].key
      BY <1>3 DEF TypeOK, Store, Read, Idle
    <2>2. CASE ~ connected  BY <1>3, <2>2, QuietStep DEF Store
    <2>3. CASE connected
      <3>0. cache' = [cache EXCEPT ![k] = reader[r].view]
        BY <1>3, <2>1, <2>3 DEF Store
      <3>1. ASSUME NEW j \in Keys, Stale(j)', j # k
            PROVE  j \in excused' \/ \E w \in Writers : WillDelete(w, j)'
        <4>1. Stale(j)
          BY <1>3, <3>0, <3>1, SameEntry DEF TypeOK, Store
        <4>2. excused \ {k} \subseteq excused'  BY <1>3, <2>1, <2>3 DEF Store
        <4> QED  BY <1>3, <3>1, <4>1, <4>2
                 DEF StaleEntriesAreExcused, WillDelete, Store
      <3>2. Stale(k)' => k \in excused'
        <4>1. View(k)' = View(k)  BY <1>3 DEF Store, View, Shown
        <4>2. cache'[k] = reader[r].view  BY <2>1, <3>0 DEF TypeOK
        <4>3. Stale(k)' => cache'[k] # View(k)'  BY DEF Stale
        <4> QED  BY <1>3, <2>1, <2>3, <4>1, <4>2, <4>3 DEF Store
      <3> QED  BY <3>1, <3>2 DEF StaleEntriesAreExcused
    <2> QED  BY <2>2, <2>3
  <1>4. ASSUME NEW w \in Writers, NEW i \in Items, NEW row \in Row,
               EditItem(w, i, row)
        PROVE  StaleEntriesAreExcused'
    BY <1>4, WriteExcuses DEF EditItem
  <1>5. ASSUME NEW w \in Writers, NEW S \in Groups, NEW text \in Texts,
               EditCategory(w, S, text)
        PROVE  StaleEntriesAreExcused'
    BY <1>5, WriteExcuses DEF EditCategory
  <1>6. ASSUME NEW w \in Writers, ListKeys(w) PROVE StaleEntriesAreExcused'
    <2> SUFFICES ASSUME NEW k \in Keys, Stale(k)'
                 PROVE  k \in excused' \/ \E x \in Writers : WillDelete(x, k)'
      BY DEF StaleEntriesAreExcused
    <2>1. Stale(k)  BY <1>6, SameEntry DEF ListKeys
    <2>2. k \in Stored  BY <2>1 DEF Stale
    <2>3. CASE connected
      <3>1. writer'[w] = [at |-> "del", keys |-> Stored]
        BY <1>6, <2>2, <2>3 DEF ListKeys, Matched, TypeOK
      <3> QED  BY <2>2, <3>1 DEF WillDelete
    <2>4. CASE ~ connected
      BY <1>6, <2>2, <2>4 DEF ListKeys
    <2> QED  BY <2>3, <2>4
  <1>7. ASSUME NEW w \in Writers, DeleteKeys(w) PROVE StaleEntriesAreExcused'
    <2> SUFFICES ASSUME NEW k \in Keys, Stale(k)'
                 PROVE  k \in excused' \/ \E x \in Writers : WillDelete(x, k)'
      BY DEF StaleEntriesAreExcused
    <2>1. cache'[k] # NoEntry  BY GoneIsNotStale
    <2>2. cache'[k] = cache[k]  BY <1>7, <2>1 DEF DeleteKeys
    <2>3. Stale(k)  BY <1>7, <2>2, SameEntry DEF DeleteKeys
    <2>4. k \in Stored  BY <2>3 DEF Stale
    <2>5. CASE k \in writer[w].keys
      BY <1>7, <2>1, <2>4, <2>5 DEF DeleteKeys
    <2>6. CASE k \notin writer[w].keys
      <3>1. excused \ writer[w].keys \subseteq excused'
        BY <1>7 DEF DeleteKeys
      <3>2. \A x \in Writers : WillDelete(x, k) => WillDelete(x, k)'
        BY <1>7, <2>6 DEF DeleteKeys, WillDelete, TypeOK
      <3> QED  BY <2>3, <2>6, <3>1, <3>2 DEF StaleEntriesAreExcused
    <2> QED  BY <2>5, <2>6
  <1>8. ASSUME NEW k \in Keys, Expire(k) PROVE StaleEntriesAreExcused'
    <2> SUFFICES ASSUME NEW j \in Keys, Stale(j)'
                 PROVE  j \in excused' \/ \E x \in Writers : WillDelete(x, j)'
      BY DEF StaleEntriesAreExcused
    <2>1. j # k  BY <1>8, GoneIsNotStale DEF Expire, TypeOK
    <2>2. Stale(j)  BY <1>8, <2>1, SameEntry DEF Expire, TypeOK
    <2> QED  BY <1>8, <2>1, <2>2 DEF StaleEntriesAreExcused, WillDelete, Expire
  <1>9. CASE Disconnect  BY <1>9, QuietStep DEF Disconnect
  <1>10. CASE Reconnect  BY <1>10, QuietStep DEF Reconnect
  <1>11. CASE Crash
    <2> SUFFICES ASSUME NEW k \in Keys, Stale(k)' PROVE k \in excused'
      BY DEF StaleEntriesAreExcused
    <2>1. Stale(k)  BY <1>11, SameEntry DEF Crash
    <2>2. k \in Stored  BY <2>1 DEF Stale
    <2>3. CASE \A w \in Writers : writer[w] = Idle
      <3>1. \A w \in Writers : ~ WillDelete(w, k)
        BY <2>3 DEF WillDelete, Idle
      <3> QED  BY <1>11, <2>1, <2>3, <3>1 DEF StaleEntriesAreExcused, Crash
    <2>4. CASE ~ \A w \in Writers : writer[w] = Idle
      BY <1>11, <2>2, <2>4 DEF Crash
    <2> QED  BY <2>3, <2>4
  <1>12. CASE UNCHANGED vars  BY <1>12, QuietStep DEF vars
  <1> QED  BY <1>1, <1>2, <1>3, <1>4, <1>5, <1>6, <1>7, <1>8, <1>9, <1>10,
              <1>11, <1>12 DEF Next

\* A stale entry of the public menu was stored late, or lost its invalidation
\* to an outage or a crash, or is about to be deleted.
THEOREM StaleOnlyByAccident == Spec => []StaleEntriesAreExcused
  <1>1. Init => StaleEntriesAreExcused
    BY DEF Init, StaleEntriesAreExcused, Stale, Stored
  <1> QED  BY <1>1, InitTyped, StepTyped, StepExcuses, PTL DEF Spec
=============================================================================
