------------------------- MODULE ResponseCacheProofs -------------------------
(***************************************************************************)
(* Proofs about ResponseCache, for every set of keys, any lifetimes and    *)
(* any number of reads and writes that overlap.                            *)
(***************************************************************************)
EXTENDS ResponseCache, TLAPS

-----------------------------------------------------------------------------
\* The steps of a handler, in their order.
LEMMA Steps ==
    /\ StepAfter("begin") = "write" /\ StepAfter("write") = "delete"
    /\ StepAfter("delete") = "done"
BY DEF StepAfter

\* The type invariant.
THEOREM TypeCorrect == Spec => []TypeOK
<1> USE CacheAssumption, NothingAssumption
<1>1. Init => TypeOK
  BY DEF Init, TypeOK
<1>2. TypeOK /\ [Next]_vars => TypeOK'
  <2> SUFFICES ASSUME TypeOK, [Next]_vars
               PROVE  TypeOK'
    OBVIOUS
  <2> USE DEF TypeOK
  <2>1. ASSUME NEW r \in Readers, NEW k \in Keys, BeginRead(r, k)
        PROVE  TypeOK'
    BY <2>1 DEF BeginRead, Read, Fault
  <2>2. ASSUME NEW r \in Readers, Query(r)
        PROVE  TypeOK'
    BY <2>2 DEF Query, Read
  <2>3. ASSUME NEW r \in Readers, Store(r)
        PROVE  TypeOK'
    <3>1. reader[r] \in Read
      BY <2>3 DEF Store
    <3>2. [expires |-> Expiry(reader[r].key), stale |-> reader[r].stale, by |-> Nothing] \in Entry
      BY <3>1 DEF Entry, Read, Expiry
    <3>3. QED
      BY <2>3, <3>1, <3>2 DEF Store, Read
  <2>4. ASSUME NEW r \in Readers, FailRead(r)
        PROVE  TypeOK'
    BY <2>4 DEF FailRead, Fault
  <2>5. ASSUME NEW w \in Writers, NEW kind \in Kinds, BeginWrite(w, kind)
        PROVE  TypeOK'
    BY <2>5, Steps DEF BeginWrite, Write, KeysOf
  <2>6. ASSUME NEW w \in Writers, NEW changed, NEW deleted, Outdate(w, changed, deleted)
        PROVE  entry' \in [Keys -> Entry \cup {Nothing}] /\ reader' \in [Readers -> Read \cup {Nothing}]
    <3>1. now \in Nat
      OBVIOUS
    <3>2. \A e \in Entry, b \in Writers \cup {Nothing} : [e EXCEPT !.stale = now, !.by = b] \in Entry
      BY ONLY <3>1 DEF Entry
    <3>3. \A x \in Read : [x EXCEPT !.stale = now] \in Read
      BY ONLY <3>1 DEF Read
    <3>4. entry' \in [Keys -> Entry \cup {Nothing}]
      <4> SUFFICES ASSUME NEW k \in Keys
                   PROVE  entry'[k] \in Entry \cup {Nothing}
        BY <2>6 DEF Outdate
      <4>1. entry[k] # Nothing => entry[k] \in Entry
        OBVIOUS
      <4>2. PICK b \in Writers \cup {Nothing} : b = IF k \in deleted THEN w ELSE Nothing
        OBVIOUS
      <4>3. QED
        BY <2>6, <3>2, <4>1, <4>2 DEF Outdate
    <3>5. reader' \in [Readers -> Read \cup {Nothing}]
      BY <2>6, <3>3 DEF Outdate
    <3>6. QED
      BY <3>4, <3>5
  <2>7. ASSUME NEW w \in Writers, WriteRows(w)
        PROVE  TypeOK'
    <3>1. writer' \in [Writers -> Write \cup {Nothing}]
      BY <2>7, Steps DEF WriteRows, Advance, Write
    <3>2. QED
      BY <2>6, <2>7, <3>1 DEF WriteRows
  <2>8. ASSUME NEW w \in Writers, NEW k \in Keys, DeleteKey(w, k)
        PROVE  TypeOK'
    BY <2>8 DEF DeleteKey, Write
  <2>9. ASSUME NEW w \in Writers, EndDeletions(w)
        PROVE  TypeOK'
    BY <2>9, Steps DEF EndDeletions, Advance
  <2>10. ASSUME NEW w \in Writers, FailDelete(w)
         PROVE  TypeOK'
    <3>1. PICK keys \in SUBSET writer[w].todo :
            GiveUp(w, keys) /\ writer' = [writer EXCEPT ![w].todo = @ \ keys]
      BY <2>10 DEF FailDelete
    <3>2. entry' \in [Keys -> Entry \cup {Nothing}]
      BY <3>1 DEF GiveUp, Entry
    <3>3. writer' \in [Writers -> Write \cup {Nothing}]
      BY <2>10, <3>1 DEF FailDelete, Write
    <3>4. QED
      BY <2>10, <3>2, <3>3 DEF FailDelete, Fault
  <2>11. ASSUME NEW w \in Writers, FailWrite(w)
         PROVE  TypeOK'
    BY <2>6, <2>11 DEF FailWrite, Fault
  <2>12. CASE Tick
    BY <2>12 DEF Tick
  <2>13. CASE UNCHANGED vars
    BY <2>13 DEF vars
  <2>14. QED
    BY <2>1, <2>2, <2>3, <2>4, <2>5, <2>7, <2>8, <2>9, <2>10, <2>11, <2>12, <2>13 DEF Next
<1>3. QED
  BY <1>1, <1>2, PTL DEF Spec

-----------------------------------------------------------------------------
\* The invariant speaks of an entry or a read and the clock n, now and after a
\* step.

\* An answer in the cache has not expired.  While it is up to date, its end is
\* near enough to the present for it to go out of date now.
EntryTimed(e, k, n) ==
    /\ n < e.expires
    /\ e.stale = 0 => e.expires <= n + TTL[k]
    /\ e.stale # 0 => e.expires <= e.stale + TTL[k] + Grace

\* A read is young, and its answer went out of date after it began.
ReadTimed(x, n) ==
    /\ x.began <= n /\ n <= x.began + Grace
    /\ x.stale # 0 => x.began <= x.stale

TimedInv ==
    /\ \A k \in Keys : entry[k] # Nothing => EntryTimed(entry[k], k, now)
    /\ \A r \in Readers : reader[r] # Nothing => ReadTimed(reader[r], now)

-----------------------------------------------------------------------------
\* An answer that has timed so far still does when it goes out of date now.
LEMMA OutdatedStaysTimed ==
    ASSUME TypeOK, TimedInv, NEW w \in Writers, NEW changed, NEW deleted,
           Outdate(w, changed, deleted), now' = now
    PROVE  TimedInv'
<1> USE CacheAssumption, NothingAssumption
<1>1. now \in Nat /\ now >= 1
  BY DEF TypeOK
<1>2. ASSUME NEW k \in Keys, entry'[k] # Nothing
      PROVE  EntryTimed(entry'[k], k, now)
  <2>1. entry[k] \in Entry /\ EntryTimed(entry[k], k, now) /\ TTL[k] \in Nat
    BY <1>2 DEF Outdate, TypeOK, TimedInv
  <2>2. CASE k \in changed /\ entry[k].stale = 0
    <3>1. entry'[k].expires = entry[k].expires /\ entry'[k].stale = now
      BY <1>2, <2>1, <2>2 DEF Outdate, Entry
    <3>2. entry[k].expires \in Nat
      BY <2>1 DEF Entry
    <3>3. QED
      BY <1>1, <2>1, <2>2, <3>1, <3>2 DEF EntryTimed
  <2>3. CASE ~(k \in changed /\ entry[k].stale = 0)
    BY <2>1, <2>3 DEF Outdate
  <2>4. QED
    BY <2>2, <2>3
<1>3. ASSUME NEW r \in Readers, reader'[r] # Nothing
      PROVE  ReadTimed(reader'[r], now)
  <2>1. reader[r] \in Read /\ ReadTimed(reader[r], now)
    BY <1>3 DEF Outdate, TypeOK, TimedInv
  <2>2. CASE reader'[r] = reader[r]
    BY <2>1, <2>2
  <2>3. CASE reader'[r] = [reader[r] EXCEPT !.stale = now]
    <3>1. reader'[r].began = reader[r].began /\ reader'[r].stale = now
      BY <2>1, <2>3 DEF Read
    <3>2. QED
      BY <2>1, <3>1 DEF ReadTimed
  <2>4. QED
    BY <2>2, <2>3 DEF Outdate
<1>4. QED
  BY <1>2, <1>3 DEF TimedInv

\* Whoever leaves the clock alone and adds no answer and no read, or less than
\* there was, keeps the times.
LEMMA LessStaysTimed ==
    ASSUME TimedInv, now' = now,
           \A k \in Keys : entry'[k] # Nothing =>
             /\ entry[k] # Nothing
             /\ entry'[k].expires = entry[k].expires /\ entry'[k].stale = entry[k].stale,
           \A r \in Readers : reader'[r] # Nothing =>
             /\ reader[r] # Nothing
             /\ reader'[r].began = reader[r].began /\ reader'[r].stale = reader[r].stale
    PROVE  TimedInv'
BY DEF TimedInv, EntryTimed, ReadTimed

LEMMA TimedStep ==
    ASSUME TypeOK, TimedInv, [Next]_vars
    PROVE  TimedInv'
<1> USE CacheAssumption, NothingAssumption
<1>1. now \in Nat /\ now >= 1 /\ Grace \in Nat
  BY DEF TypeOK
<1>2. \A k \in Keys : TTL[k] \in Nat /\ TTL[k] >= 1
  OBVIOUS
<1>3. \A r \in Readers : reader[r] # Nothing =>
        reader[r] \in Read /\ reader[r].began \in Nat /\ ReadTimed(reader[r], now)
  BY DEF TypeOK, TimedInv, Read
<1>4. ASSUME NEW r \in Readers, NEW k \in Keys, BeginRead(r, k)
      PROVE  TimedInv'
  <2>1. UNCHANGED <<now, entry>>
    BY <1>4 DEF BeginRead
  <2>2. reader' = [reader EXCEPT ![r] = [key |-> k, began |-> now, step |-> "query", stale |-> 0]]
    BY <1>4 DEF BeginRead
  <2>3. ReadTimed(reader'[r], now)
    BY <1>1, <2>2 DEF ReadTimed, TypeOK
  <2>4. \A x \in Readers \ {r} : reader'[x] = reader[x]
    BY <2>2 DEF TypeOK
  <2>5. QED
    BY <2>1, <2>3, <2>4 DEF TimedInv
<1>5. ASSUME NEW r \in Readers, Query(r)
      PROVE  TimedInv'
  <2>1. UNCHANGED <<now, entry>>
    BY <1>5 DEF Query
  <2>2. \A x \in Readers : reader'[x] # Nothing =>
          /\ reader[x] # Nothing
          /\ reader'[x].began = reader[x].began /\ reader'[x].stale = reader[x].stale
    BY <1>3, <1>5 DEF Query, TypeOK, Read
  <2>3. QED
    BY <2>1, <2>2, LessStaysTimed
<1>6. ASSUME NEW r \in Readers, Store(r)
      PROVE  TimedInv'
  <2> DEFINE k == reader[r].key
             e == [expires |-> Expiry(k), stale |-> reader[r].stale, by |-> Nothing]
  <2>1. /\ UNCHANGED now /\ entry' = [entry EXCEPT ![k] = e]
        /\ reader' = [reader EXCEPT ![r] = Nothing] /\ reader[r] # Nothing
    BY <1>6 DEF Store
  <2>2. k \in Keys /\ reader[r].stale \in Nat
    BY <1>3, <2>1 DEF Read
  <2>3. EntryTimed(e, k, now)
    BY <1>1, <1>2, <1>3, <2>1, <2>2 DEF EntryTimed, ReadTimed, Expiry
  <2> HIDE DEF e
  <2>4. \A x \in Keys : entry'[x] = IF x = k THEN e ELSE entry[x]
    BY <2>1 DEF TypeOK
  <2>5. \A x \in Readers : reader'[x] # Nothing => reader'[x] = reader[x]
    BY <2>1 DEF TypeOK
  <2>6. QED
    BY <2>1, <2>2, <2>3, <2>4, <2>5 DEF TimedInv
<1>7. ASSUME NEW r \in Readers, FailRead(r)
      PROVE  TimedInv'
  BY <1>7, LessStaysTimed DEF FailRead, TypeOK
<1>8. ASSUME NEW w \in Writers, NEW kind \in Kinds, BeginWrite(w, kind)
      PROVE  TimedInv'
  BY <1>8, LessStaysTimed DEF BeginWrite
<1>9. ASSUME NEW w \in Writers, WriteRows(w)
      PROVE  TimedInv'
  BY <1>9, OutdatedStaysTimed DEF WriteRows
<1>10. ASSUME NEW w \in Writers, NEW k \in Keys, DeleteKey(w, k)
       PROVE  TimedInv'
  BY <1>10, LessStaysTimed DEF DeleteKey, TypeOK
<1>11. ASSUME NEW w \in Writers, EndDeletions(w)
       PROVE  TimedInv'
  BY <1>11, LessStaysTimed DEF EndDeletions
<1>12. ASSUME NEW w \in Writers, FailDelete(w)
       PROVE  TimedInv'
  <2>1. PICK keys \in SUBSET writer[w].todo : GiveUp(w, keys)
    BY <1>12 DEF FailDelete
  <2>2. \A k \in Keys : entry'[k] # Nothing =>
          /\ entry[k] # Nothing
          /\ entry'[k].expires = entry[k].expires /\ entry'[k].stale = entry[k].stale
    BY <2>1 DEF GiveUp, TypeOK, Entry
  <2>3. QED
    BY <1>12, <2>2, LessStaysTimed DEF FailDelete
<1>13. ASSUME NEW w \in Writers, FailWrite(w)
       PROVE  TimedInv'
  BY <1>13, OutdatedStaysTimed DEF FailWrite
<1>14. ASSUME Tick
       PROVE  TimedInv'
  <2>1. now' = now + 1 /\ UNCHANGED reader
    BY <1>14 DEF Tick
  <2>2. ASSUME NEW k \in Keys, entry'[k] # Nothing
        PROVE  EntryTimed(entry'[k], k, now')
    <3>1. entry'[k] = entry[k] /\ entry[k] # Nothing /\ ~(entry[k].expires <= now')
      BY <1>14, <2>2 DEF Tick
    <3>2. entry[k].expires \in Nat /\ entry[k].stale \in Nat
      BY <3>1 DEF TypeOK, Entry
    <3>3. QED
      BY <1>1, <1>2, <2>1, <3>1, <3>2 DEF TimedInv, EntryTimed
  <2>3. ASSUME NEW r \in Readers, reader'[r] # Nothing
        PROVE  ReadTimed(reader'[r], now')
    <3>1. now < reader[r].began + Grace
      BY <1>14, <2>1, <2>3 DEF Tick
    <3>2. QED
      BY <1>1, <1>3, <2>1, <2>3, <3>1 DEF ReadTimed
  <2>4. QED
    BY <2>2, <2>3 DEF TimedInv
<1>15. ASSUME UNCHANGED vars
       PROVE  TimedInv'
  BY <1>15 DEF vars, TimedInv
<1>16. QED
  BY <1>4, <1>5, <1>6, <1>7, <1>8, <1>9, <1>10, <1>11, <1>12, <1>13, <1>14, <1>15 DEF Next

\* Nothing that the cache serves has been out of date for longer than its
\* lifetime and one request.
THEOREM StalenessIsBounded == Spec => []StalenessBounded
<1> USE CacheAssumption, NothingAssumption
<1>1. Init => TimedInv
  BY DEF Init, TimedInv
<1>2. TypeOK /\ TimedInv /\ [Next]_vars => TimedInv'
  BY TimedStep
<1>3. TypeOK /\ TimedInv => StalenessBounded
  <2> SUFFICES ASSUME TypeOK, TimedInv, NEW k \in Keys, entry[k] # Nothing, entry[k].stale # 0
               PROVE  now < entry[k].stale + TTL[k] + Grace
    BY DEF StalenessBounded
  <2>1. now \in Nat /\ entry[k].expires \in Nat /\ entry[k].stale \in Nat /\ TTL[k] \in Nat
    BY DEF TypeOK, Entry
  <2>2. QED
    BY <2>1 DEF TimedInv, EntryTimed
<1>4. QED
  BY <1>1, <1>2, <1>3, TypeCorrect, PTL DEF Spec

-----------------------------------------------------------------------------
\* An answer that a write in flight will delete is among the keys it has left,
\* which are all it has to delete until it has written.
PendingInv ==
    /\ \A w \in Writers : writer[w] # Nothing /\ writer[w].step = "write" =>
         writer[w].todo = KeysOf(Deletes(writer[w].kind))
    /\ \A k \in Keys : entry[k] # Nothing /\ entry[k].by # Nothing =>
         /\ writer[entry[k].by] # Nothing /\ writer[entry[k].by].step = "delete"
         /\ k \in writer[entry[k].by].todo

LEMMA PendingStep ==
    ASSUME TypeOK, PendingInv, [Next]_vars
    PROVE  PendingInv'
<1> USE CacheAssumption, NothingAssumption, Steps DEF TypeOK
<1>1. ASSUME NEW r \in Readers, NEW k \in Keys, BeginRead(r, k)
      PROVE  PendingInv'
  BY <1>1 DEF BeginRead, PendingInv
<1>2. ASSUME NEW r \in Readers, Query(r)
      PROVE  PendingInv'
  BY <1>2 DEF Query, PendingInv
<1>3. ASSUME NEW r \in Readers, Store(r)
      PROVE  PendingInv'
  BY <1>3 DEF Store, PendingInv
<1>4. ASSUME NEW r \in Readers, FailRead(r)
      PROVE  PendingInv'
  BY <1>4 DEF FailRead, PendingInv
<1>5. ASSUME NEW w \in Writers, NEW kind \in Kinds, BeginWrite(w, kind)
      PROVE  PendingInv'
  <2>1. /\ writer[w] = Nothing /\ UNCHANGED entry
        /\ writer' = [writer EXCEPT ![w] =
                        [kind |-> kind, began |-> now, step |-> "write",
                         todo |-> KeysOf(Deletes(kind))]]
    BY <1>5 DEF BeginWrite
  <2>2. \A v \in Writers \ {w} : writer'[v] = writer[v]
    BY <2>1
  <2>3. /\ writer'[w].step = "write" /\ writer'[w].kind = kind
        /\ writer'[w].todo = KeysOf(Deletes(kind))
    BY <2>1
  <2>4. ASSUME NEW k \in Keys, entry'[k] # Nothing, entry'[k].by # Nothing
        PROVE  entry'[k] = entry[k] /\ entry[k].by \in Writers \ {w}
    <3>1. entry'[k] = entry[k] /\ entry[k] \in Entry
      BY <2>1, <2>4
    <3>2. entry[k].by # w
      BY <2>1, <2>4, <3>1 DEF PendingInv
    <3>3. QED
      BY <2>4, <3>1, <3>2 DEF Entry
  <2>5. QED
    BY <2>2, <2>3, <2>4 DEF PendingInv
<1>6. ASSUME NEW w \in Writers, WriteRows(w)
      PROVE  PendingInv'
  <2>1. writer[w] # Nothing /\ writer[w] \in Write /\ writer[w].step = "write"
        /\ writer[w].todo = KeysOf(Deletes(writer[w].kind))
    BY <1>6 DEF WriteRows, PendingInv
  <2>2. PICK changed \in Changes(writer[w].kind) :
          Outdate(w, changed, KeysOf(Deletes(writer[w].kind)))
    BY <1>6 DEF WriteRows
  <2>3. writer' = [writer EXCEPT ![w] = [writer[w] EXCEPT !.step = "delete"]]
    BY <1>6, <2>1 DEF WriteRows, Advance
  <2>4. writer'[w] # Nothing /\ writer'[w].step = "delete" /\ writer'[w].todo = writer[w].todo
    <3>1. writer'[w] = [writer[w] EXCEPT !.step = "delete"]
      BY <2>3
    <3>2. writer'[w] \in Write
      BY <2>1, <3>1 DEF Write
    <3>3. QED
      BY <2>1, <3>1, <3>2 DEF Write
  <2>5. \A x \in Writers \ {w} : writer'[x] = writer[x]
    BY <2>3
  <2>6. ASSUME NEW k \in Keys, entry'[k] # Nothing, entry'[k].by # Nothing
        PROVE  /\ writer'[entry'[k].by] # Nothing /\ writer'[entry'[k].by].step = "delete"
               /\ k \in writer'[entry'[k].by].todo
    <3>1. entry[k] # Nothing /\ entry[k] \in Entry
      BY <2>2, <2>6 DEF Outdate
    <3>2. CASE entry'[k] = entry[k]
      <4>1. /\ entry[k].by \in Writers
            /\ writer[entry[k].by] # Nothing /\ writer[entry[k].by].step = "delete"
            /\ k \in writer[entry[k].by].todo
        BY <2>6, <3>1, <3>2 DEF PendingInv, Entry
      <4>2. entry[k].by # w
        BY <2>1, <4>1
      <4>3. writer'[entry[k].by] = writer[entry[k].by]
        BY <2>5, <4>1, <4>2
      <4>4. QED
        BY <3>2, <4>1, <4>3
    <3>3. CASE entry'[k] # entry[k]
      <4>1. entry'[k].by = w /\ k \in KeysOf(Deletes(writer[w].kind))
        BY <2>2, <2>6, <3>1, <3>3 DEF Outdate, Entry
      <4>2. QED
        BY <2>1, <2>4, <4>1
    <3>4. QED
      BY <3>2, <3>3
  <2>7. QED
    BY <2>4, <2>5, <2>6 DEF PendingInv
<1>7. ASSUME NEW w \in Writers, NEW x \in Keys, DeleteKey(w, x)
      PROVE  PendingInv'
  <2>1. writer[w] # Nothing /\ writer[w] \in Write /\ writer[w].step = "delete"
    BY <1>7 DEF DeleteKey
  <2>2. /\ writer'[w] # Nothing /\ writer'[w].step = "delete"
        /\ writer'[w].todo = writer[w].todo \ {x}
        /\ \A y \in Writers \ {w} : writer'[y] = writer[y]
    <3>1. writer'[w] = [writer[w] EXCEPT !.todo = @ \ {x}]
      BY <1>7 DEF DeleteKey
    <3>2. writer'[w] \in Write
      BY <2>1, <3>1 DEF Write
    <3>3. \A y \in Writers \ {w} : writer'[y] = writer[y]
      BY <1>7 DEF DeleteKey
    <3>4. QED
      BY <2>1, <3>1, <3>2, <3>3 DEF Write
  <2>3. \A k \in Keys : entry'[k] = IF k = x THEN Nothing ELSE entry[k]
    BY <1>7 DEF DeleteKey
  <2>4. ASSUME NEW k \in Keys, entry'[k] # Nothing, entry'[k].by # Nothing
        PROVE  /\ writer'[entry'[k].by] # Nothing /\ writer'[entry'[k].by].step = "delete"
               /\ k \in writer'[entry'[k].by].todo
    <3>1. k # x /\ entry'[k] = entry[k]
      BY <2>3, <2>4
    <3>2. /\ entry[k].by \in Writers
          /\ writer[entry[k].by] # Nothing /\ writer[entry[k].by].step = "delete"
          /\ k \in writer[entry[k].by].todo
      BY <2>4, <3>1 DEF PendingInv, Entry
    <3>3. CASE entry[k].by = w
      BY <2>2, <3>1, <3>2, <3>3
    <3>4. CASE entry[k].by # w
      BY <2>2, <3>1, <3>2, <3>4
    <3>5. QED
      BY <3>3, <3>4
  <2>5. \A v \in Writers : writer'[v] # Nothing /\ writer'[v].step = "write" =>
          writer'[v].todo = KeysOf(Deletes(writer'[v].kind))
    BY <2>2 DEF PendingInv
  <2>6. QED
    BY <2>4, <2>5 DEF PendingInv
<1>8. ASSUME NEW w \in Writers, EndDeletions(w)
      PROVE  PendingInv'
  <2>1. /\ writer[w] # Nothing /\ writer[w].step = "delete" /\ writer[w].todo = {}
        /\ writer' = [writer EXCEPT ![w] = Nothing] /\ UNCHANGED entry
    BY <1>8 DEF EndDeletions, Advance
  <2>2. QED
    BY <2>1 DEF PendingInv, Entry
<1>9. ASSUME NEW w \in Writers, FailDelete(w)
      PROVE  PendingInv'
  <2>1. writer[w] # Nothing /\ writer[w] \in Write /\ writer[w].step = "delete"
    BY <1>9 DEF FailDelete
  <2>2. PICK keys \in SUBSET writer[w].todo :
          GiveUp(w, keys) /\ writer' = [writer EXCEPT ![w].todo = @ \ keys]
    BY <1>9 DEF FailDelete
  <2>3. /\ writer'[w] # Nothing /\ writer'[w].step = "delete"
        /\ writer'[w].todo = writer[w].todo \ keys
        /\ \A y \in Writers \ {w} : writer'[y] = writer[y]
    <3>1. writer'[w] = [writer[w] EXCEPT !.todo = @ \ keys]
      BY <2>2
    <3>2. writer'[w] \in Write
      BY <2>1, <3>1 DEF Write
    <3>3. \A y \in Writers \ {w} : writer'[y] = writer[y]
      BY <2>2
    <3>4. QED
      BY <2>1, <3>1, <3>2, <3>3 DEF Write
  <2>4. ASSUME NEW k \in Keys, entry'[k] # Nothing, entry'[k].by # Nothing
        PROVE  entry'[k] = entry[k] /\ (entry[k].by = w => k \notin keys)
    BY <2>2, <2>4 DEF GiveUp, Entry
  <2>5. QED
    BY <2>1, <2>3, <2>4 DEF PendingInv, Entry
<1>10. ASSUME NEW w \in Writers, FailWrite(w)
       PROVE  PendingInv'
  <2>1. /\ writer[w] # Nothing /\ writer[w].step = "write"
        /\ writer' = [writer EXCEPT ![w] = Nothing]
    BY <1>10 DEF FailWrite
  <2>2. PICK changed \in Changes(writer[w].kind) : Outdate(w, changed, {})
    BY <1>10 DEF FailWrite
  <2>3. ASSUME NEW k \in Keys, entry'[k] # Nothing, entry'[k].by # Nothing
        PROVE  entry'[k] = entry[k]
    BY <2>2, <2>3 DEF Outdate, Entry
  <2>4. QED
    BY <2>1, <2>3 DEF PendingInv, Entry
<1>11. ASSUME Tick
       PROVE  PendingInv'
  <2>1. UNCHANGED writer /\ \A k \in Keys : entry'[k] # Nothing => entry'[k] = entry[k]
    BY <1>11 DEF Tick
  <2>2. QED
    BY <2>1 DEF PendingInv
<1>12. ASSUME UNCHANGED vars
       PROVE  PendingInv'
  BY <1>12 DEF vars, PendingInv
<1>13. QED
  BY <1>1, <1>2, <1>3, <1>4, <1>5, <1>6, <1>7, <1>8, <1>9, <1>10, <1>11, <1>12 DEF Next

\* A handler that has written and answered has deleted what its write outdated
\* in the cache, unless it failed to.
THEOREM DeletionsAreComplete == Spec => []OutdatedIsDeleted
<1>1. Init => PendingInv
  BY DEF Init, PendingInv
<1>2. TypeOK /\ PendingInv /\ [Next]_vars => PendingInv'
  BY PendingStep
<1>3. PendingInv => OutdatedIsDeleted
  BY DEF PendingInv, OutdatedIsDeleted
<1>4. QED
  BY <1>1, <1>2, <1>3, TypeCorrect, PTL DEF Spec

=============================================================================
