---------------------------- MODULE ResponseCache ----------------------------
(***************************************************************************)
(* The answers that the API keeps in Redis.  A reader looks its key up,    *)
(* queries the database on a miss and stores the answer with a lifetime; a *)
(* handler that writes the database deletes, afterwards, keys whose answer *)
(* it has changed.  None of this is one step: a reader may store what it   *)
(* queried before a write, after the writer has deleted the key.           *)
(*                                                                         *)
(* An answer is modelled by the time since when it has been out of date, 0 *)
(* while it is what a query would give.  Time passes in ticks; a handler   *)
(* is done, or cut off by its timeout, within Grace ticks.                 *)
(***************************************************************************)
EXTENDS Naturals

CONSTANTS
    Keys,       \* the Redis keys of answers
    Family,     \* Family[k]: what key k caches; the list has a key per zone
    TTL,        \* TTL[k]: the lifetime of an answer under key k
    Kinds,      \* the kinds of write that happen
    Readers,    \* request goroutines that read
    Writers,    \* request goroutines that write
    Nothing,    \* no answer, no request
    Grace,      \* how long a handler may take
    MaxTime,    \* bound on the clock
    MaxFaults   \* bound on failed deletions and cancelled requests

Families == {"issues:list", "heatmap:geojson", "analytics:overview", "ml", "zones:list",
             "briefings:list", "mp:public-profile"}
AllKinds == {"create", "upvote", "status", "manage", "enrich", "brief", "account"}

ASSUME CacheAssumption ==
    /\ Family \in [Keys -> Families] /\ TTL \in [Keys -> Nat \ {0}]
    /\ Kinds \subseteq AllKinds
    /\ Grace \in Nat /\ MaxTime \in Nat \ {0} /\ MaxFaults \in Nat

VARIABLES
    now,     \* the time, from 1 on
    entry,   \* entry[k]: what Redis holds under key k
    reader,  \* reader[r]: a read in flight
    writer,  \* writer[w]: a write in flight
    faults   \* failed deletions and cancelled requests

vars == <<now, entry, reader, writer, faults>>

-----------------------------------------------------------------------------
\* stale is the time since when the answer is out of date, 0 while it is not;
\* by is what the properties remember: the slot of the write that outdated it
\* in the cache, if that write's handler deletes the key and has not failed to.
Entry == [expires : Nat, stale : Nat, by : Writers \cup {Nothing}]
Read == [key : Keys, began : Nat, step : {"query", "store"}, stale : Nat]
Write == [kind : AllKinds, began : Nat, step : {"write", "delete"}, todo : SUBSET Keys]

ASSUME NothingAssumption == Nothing \notin Writers /\ Nothing \notin Write

\* What the tables that a write changes are shown in, by the queries.
Shows(kind) ==
    CASE kind = "create" -> {"issues:list", "heatmap:geojson", "analytics:overview", "ml", "zones:list"}
      [] kind = "upvote" -> {"issues:list", "heatmap:geojson"}
      [] kind = "status" -> {"issues:list", "analytics:overview", "ml", "zones:list"}
      [] kind = "manage" -> {"issues:list"}
      [] kind = "enrich" -> {"issues:list", "analytics:overview", "ml"}
      [] kind = "brief" -> {"briefings:list"}
      [] kind = "account" -> {"analytics:overview", "mp:public-profile"}

\* What the handlers delete.  The worker, registrations and role changes leave
\* the cache alone.
Deletes(kind) ==
    CASE kind = "create" -> {"issues:list"}
      [] kind = "upvote" -> {"issues:list", "heatmap:geojson"}
      [] kind = "status" -> {"issues:list", "analytics:overview", "ml"}
      [] kind = "manage" -> {"issues:list", "analytics:overview"}
      [] kind = "brief" -> {"briefings:list"}
      [] OTHER -> {}

KeysOf(families) == {k \in Keys : Family[k] \in families}

\* The expiry of an answer that is stored now under key k.
Expiry_Never(k) == MaxTime + 1 + TTL[k]
Expiry(k) == now + TTL[k]

\* The order of a writing handler: the deletions come after the write.
StepAfter_DeletesFirst(step) ==
    CASE step = "begin" -> "delete" [] step = "delete" -> "write" [] OTHER -> "done"
StepAfter(step) ==
    CASE step = "begin" -> "write" [] step = "write" -> "delete" [] OTHER -> "done"

Init ==
    /\ now = 1
    /\ entry = [k \in Keys |-> Nothing]
    /\ reader = [r \in Readers |-> Nothing]
    /\ writer = [w \in Writers |-> Nothing]
    /\ faults = 0

Fault == faults < MaxFaults /\ faults' = faults + 1

-----------------------------------------------------------------------------
\* GET: the key is not in Redis, or Redis fails and the handler goes on.  (A
\* hit is answered from the entry and changes nothing.)
BeginRead(r, k) ==
    /\ reader[r] = Nothing
    /\ IF entry[k] = Nothing THEN UNCHANGED faults ELSE Fault
    /\ reader' = [reader EXCEPT ![r] = [key |-> k, began |-> now, step |-> "query", stale |-> 0]]
    /\ UNCHANGED <<now, entry, writer>>

\* The handler queries the database, itself or through the sidecar.  Of
\* several queries the first counts.
Query(r) ==
    /\ reader[r] # Nothing /\ reader[r].step = "query"
    /\ reader' = [reader EXCEPT ![r].step = "store"]
    /\ UNCHANGED <<now, entry, writer, faults>>

\* It stores the answer with its lifetime, over whatever is there.
Store(r) ==
    LET k == reader[r].key IN
    /\ reader[r] # Nothing /\ reader[r].step = "store"
    /\ entry' = [entry EXCEPT ![k] =
                   [expires |-> Expiry(k), stale |-> reader[r].stale, by |-> Nothing]]
    /\ reader' = [reader EXCEPT ![r] = Nothing]
    /\ UNCHANGED <<now, writer, faults>>

\* The query or Redis fails, or the request is cancelled.
FailRead(r) ==
    /\ reader[r] # Nothing
    /\ Fault
    /\ reader' = [reader EXCEPT ![r] = Nothing]
    /\ UNCHANGED <<now, entry, writer>>

-----------------------------------------------------------------------------
\* A writing handler, or the worker, has passed its checks.
BeginWrite(w, kind) ==
    /\ writer[w] = Nothing
    /\ writer' = [writer EXCEPT ![w] =
                    [kind |-> kind, began |-> now, step |-> StepAfter("begin"),
                     todo |-> KeysOf(Deletes(kind))]]
    /\ UNCHANGED <<now, entry, reader, faults>>

\* The statement after which the answers under the keys in changed are out of
\* date; those that Redis holds and those that readers have queried.  Slot w
\* will delete the keys in deleted.
Outdate(w, changed, deleted) ==
    /\ entry' = [k \in Keys |->
                  IF k \in changed /\ entry[k] # Nothing /\ entry[k].stale = 0
                  THEN [entry[k] EXCEPT !.stale = now,
                                        !.by = IF k \in deleted THEN w ELSE Nothing]
                  ELSE entry[k]]
    /\ reader' = [r \in Readers |->
                   IF /\ reader[r] # Nothing /\ reader[r].step = "store"
                      /\ reader[r].key \in changed /\ reader[r].stale = 0
                   THEN [reader[r] EXCEPT !.stale = now] ELSE reader[r]]

\* Slot w goes on with its next step, or is free.
Advance(w) ==
    LET next == StepAfter(writer[w].step) IN
    writer' = [writer EXCEPT ![w] =
                 IF next = "done" THEN Nothing ELSE [writer[w] EXCEPT !.step = next]]

\* It concerns one zone or several; answers about others stay up to date.
Changes(kind) == SUBSET KeysOf(Shows(kind))

WriteRows(w) ==
    /\ writer[w] # Nothing /\ writer[w].step = "write"
    /\ \E changed \in Changes(writer[w].kind) :
         Outdate(w, changed, KeysOf(Deletes(writer[w].kind)))
    /\ Advance(w)
    /\ UNCHANGED <<now, faults>>

\* Delete, or DeletePattern, whose SCAN finds keys in any order.
DeleteKey(w, k) ==
    /\ writer[w] # Nothing /\ writer[w].step = "delete"
    /\ k \in writer[w].todo
    /\ entry' = [entry EXCEPT ![k] = Nothing]
    /\ writer' = [writer EXCEPT ![w].todo = @ \ {k}]
    /\ UNCHANGED <<now, reader, faults>>

\* Every deletion is done, and the handler answers.
EndDeletions(w) ==
    /\ writer[w] # Nothing /\ writer[w].step = "delete"
    /\ writer[w].todo = {}
    /\ Advance(w)
    /\ UNCHANGED <<now, entry, reader, faults>>

\* Slot w gives up the deletion of some keys; nobody will delete them for it.
GiveUp(w, keys) ==
    entry' = [k \in Keys |->
               IF k \in keys /\ entry[k] # Nothing /\ entry[k].by = w
               THEN [entry[k] EXCEPT !.by = Nothing] ELSE entry[k]]

\* Redis fails or the request is cancelled: keys stay, the rest of a pattern or
\* all of them; the error is ignored.
FailDelete(w) ==
    /\ writer[w] # Nothing /\ writer[w].step = "delete"
    /\ Fault
    /\ \E keys \in SUBSET writer[w].todo :
         /\ keys # {}
         /\ GiveUp(w, keys)
         /\ writer' = [writer EXCEPT ![w].todo = @ \ keys]
    /\ UNCHANGED <<now, reader>>

\* The write reports an error, although it may be committed when the answer was
\* lost: the handler answers 500 and deletes nothing.
FailWrite(w) ==
    /\ writer[w] # Nothing /\ writer[w].step = "write"
    /\ Fault
    /\ \E changed \in Changes(writer[w].kind) : Outdate(w, changed, {})
    /\ writer' = [writer EXCEPT ![w] = Nothing]
    /\ UNCHANGED now

-----------------------------------------------------------------------------
\* Time passes, no handler gets older than Grace, and Redis drops the keys
\* whose lifetime is over.
Tick ==
    /\ now < MaxTime
    /\ \A r \in Readers : reader[r] # Nothing => now < reader[r].began + Grace
    /\ \A w \in Writers : writer[w] # Nothing => now < writer[w].began + Grace
    /\ now' = now + 1
    /\ entry' = [k \in Keys |-> IF entry[k] # Nothing /\ entry[k].expires <= now' THEN Nothing
                                ELSE entry[k]]
    /\ UNCHANGED <<reader, writer, faults>>

Next ==
    \/ \E r \in Readers : \/ \E k \in Keys : BeginRead(r, k)
                          \/ Query(r) \/ Store(r) \/ FailRead(r)
    \/ \E w \in Writers : \/ \E kind \in Kinds : BeginWrite(w, kind)
                          \/ \E k \in Keys : DeleteKey(w, k)
                          \/ WriteRows(w) \/ EndDeletions(w) \/ FailDelete(w) \/ FailWrite(w)
    \/ Tick

Spec == Init /\ [][Next]_vars

-----------------------------------------------------------------------------
\* Every variable keeps its shape.
TypeOK ==
    /\ now \in 1..MaxTime
    /\ entry \in [Keys -> Entry \cup {Nothing}]
    /\ reader \in [Readers -> Read \cup {Nothing}]
    /\ writer \in [Writers -> Write \cup {Nothing}]
    /\ faults \in 0..MaxFaults

\* What the cache serves was true at most a lifetime and one request ago,
\* although a reader may store it long after its query, over newer answers,
\* and although writes outdate keys that their handlers never delete.
StalenessBounded ==
    \A k \in Keys : entry[k] # Nothing /\ entry[k].stale # 0 =>
      now < entry[k].stale + TTL[k] + Grace

\* After a handler has written and answered, no answer that its write outdated
\* is served from a key it deletes: only a reader that had queried before the
\* write, or a deletion that failed, leaves one.
OutdatedIsDeleted ==
    \A k \in Keys : entry[k] # Nothing /\ entry[k].by # Nothing =>
      LET w == entry[k].by IN writer[w] # Nothing /\ k \in writer[w].todo

=============================================================================
