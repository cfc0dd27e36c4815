----------------------------- MODULE EtcdWatch -----------------------------
(***************************************************************************)
(* The etcd key-value wrappers of src/zetcd (put.go, delete.go, tx.go,     *)
(* lease.go) as the writers of an etcd keyspace, and the watch loops of    *)
(* watch.go (Watch, WatchPrefix, WatchRange) as goroutines that turn the   *)
(* responses of client.Watch into WatchData sent on an unbuffered data     *)
(* channel to a consumer, until stopCh is closed.                          *)
(*                                                                         *)
(* etcd is modelled by what its API promises: every write that changes     *)
(* keys commits at the next revision, its events go, in one response with  *)
(* that revision as header, to every watch whose key range they touch (a   *)
(* watch created at the current revision is synced and notified at each    *)
(* commit); the client buffers responses without bound and, when the       *)
(* watch's ctx is cancelled, drops them and closes the channel.  A key is  *)
(* a sequence of small numbers standing for its bytes, so that prefix and  *)
(* byte-order ranges are what they are in etcd.  Every wrapper returns     *)
(* the error of a nil client or of the call without changing anything;     *)
(* those paths are stuttering steps and are left out.                      *)
(***************************************************************************)
EXTENDS Naturals, Sequences, SequencesExt, FiniteSets

CONSTANTS
    Keys,           \* the keys, as sequences of byte values
    Vals,           \* the values written
    Leases,         \* the lease IDs Grant may return
    Watchers,       \* the watch goroutines
    WatchSetups,    \* the sets of watch calls a program makes, each a function
                    \* [Watchers -> [kind, key, end]]
    MaxRev,         \* the highest revision a write may create
    ReadAfterStop,  \* whether a consumer keeps reading data after closing stopCh
    CompactRevs,    \* the revisions a program passes to Compact
    NoKV, NoLease, NoVal

ASSUME CompactRevs \subseteq 1..MaxRev

ASSUME WatchSetups \subseteq [Watchers -> [kind : {"key", "prefix", "range"},
                                            key : Keys, end : Seq(Nat)]]

\* WatchData.Operate
MethodCreate == "create"
MethodModify == "modify"
MethodDelete == "delete"

\* Byte-wise order of keys.
RECURSIVE KeyLess(_, _)
KeyLess(a, b) ==
    \/ a = <<>> /\ b # <<>>
    \/ /\ a # <<>> /\ b # <<>>
       /\ \/ Head(a) < Head(b)
          \/ Head(a) = Head(b) /\ KeyLess(Tail(a), Tail(b))

\* clientv3.WithPrefix(): the range [key, prefix end).
InPrefix(k, key) == IsPrefix(key, k)

\* clientv3.WithRange(end): the range [key, end).
InRange(k, key, end) == ~KeyLess(k, key) /\ KeyLess(k, end)

\* clientv3.WithFromKey(): every key >= key.
FromKey(k, key) == ~KeyLess(k, key)

SortKeys(S) == SetToSortSeq(S, KeyLess)

VARIABLES
    watchOf,   \* [Watchers -> [kind, key, end]]: the call that started each
    kv,        \* [Keys -> record or NoKV]: the keyspace
    rev,       \* the store revision
    hist,      \* every event committed, in order (the reference for watches)
    leases,    \* the live leases
    granted,   \* every lease ID Grant has returned
    compacted, \* the revision of the last Compact (0: none)
    rch,       \* [Watchers -> Seq(response)]: responses buffered by the client
    rclosed,   \* [Watchers -> BOOLEAN]: rch is closed (the watch's ctx is done)
    pc,        \* [Watchers -> "select" | "send" | "done"]
    cur,       \* [Watchers -> Seq(event)]: the events of wr still to send
    vision,    \* [Watchers -> Nat]: wr.Header.Revision of the current wr
    got,       \* [Watchers -> Seq(WatchData)]: what the consumer received
    stopped,   \* [Watchers -> BOOLEAN]: stopCh is closed
    reading    \* [Watchers -> BOOLEAN]: the consumer still receives from data

\* The keys a watch goroutine's client.Watch call covers.
Watches(w, k) ==
    CASE watchOf[w].kind = "key"    -> k = watchOf[w].key
      [] watchOf[w].kind = "prefix" -> InPrefix(k, watchOf[w].key)
      [] watchOf[w].kind = "range"  -> InRange(k, watchOf[w].key, watchOf[w].end)

store == <<kv, rev, hist, leases, granted, compacted>>
watch == <<rch, rclosed, pc, cur, vision, got, stopped, reading>>
vars  == <<watchOf, store, watch>>

-----------------------------------------------------------------------------
Init ==
    /\ watchOf \in WatchSetups
    /\ kv = [k \in Keys |-> NoKV]
    /\ rev = 1
    /\ hist = <<>>
    /\ leases = {}
    /\ granted = {}
    /\ compacted = 0
    /\ rch = [w \in Watchers |-> <<>>]
    /\ rclosed = [w \in Watchers |-> FALSE]
    /\ pc = [w \in Watchers |-> "select"]
    /\ cur = [w \in Watchers |-> <<>>]
    /\ vision = [w \in Watchers |-> 0]
    /\ got = [w \in Watchers |-> <<>>]
    /\ stopped = [w \in Watchers |-> FALSE]
    /\ reading = [w \in Watchers |-> TRUE]

CanWrite == rev < MaxRev

\* The events of one revision: the puts of the pairs in kvs under lease l.
PutEvents(kvs, l) ==
    [i \in 1..Len(kvs) |->
        LET k == kvs[i][1]
        IN  [type |-> "PUT", key |-> k, val |-> kvs[i][2],
             crt |-> IF kv[k] = NoKV THEN rev + 1 ELSE kv[k].crt,
             mod |-> rev + 1, lease |-> l, created |-> kv[k] = NoKV]]

\* The events of one revision deleting the keys of ks (a delete event
\* carries the key and the revision only).
DelEvents(ks) ==
    [i \in 1..Len(ks) |->
        [type |-> "DELETE", key |-> ks[i], val |-> NoVal, crt |-> 0,
         mod |-> rev + 1, lease |-> NoLease, created |-> FALSE]]

Apply(e) ==
    IF e.type = "PUT"
    THEN [val |-> e.val, crt |-> e.crt, mod |-> e.mod, lease |-> e.lease]
    ELSE NoKV

\* Commit the events evs at revision rev + 1 and notify every watch whose
\* channel is open with the events on its keys.
Commit(evs) ==
    LET touched == {evs[i].key : i \in DOMAIN evs}
        last(k) == CHOOSE i \in DOMAIN evs :
                        evs[i].key = k /\ \A j \in DOMAIN evs : evs[j].key = k => j <= i
        mine(w) == SelectSeq(evs, LAMBDA e : Watches(w, e.key))
    IN  /\ kv' = [k \in Keys |-> IF k \in touched THEN Apply(evs[last(k)]) ELSE kv[k]]
        /\ rev' = rev + 1
        /\ hist' = hist \o evs
        /\ rch' = [w \in Watchers |->
                     IF rclosed[w] \/ mine(w) = <<>> THEN rch[w]
                     ELSE Append(rch[w], [events |-> mine(w), hdr |-> rev + 1])]

-----------------------------------------------------------------------------
(* The writers: each action is one wrapper call that etcd carried out.    *)

Put(k, v) ==
    /\ CanWrite
    /\ Commit(PutEvents(<<<<k, v>>>>, NoLease))
    /\ UNCHANGED <<watchOf, leases, granted, compacted, rclosed, pc, cur, vision,
                   got, stopped, reading>>

\* A put under a lease that is not live fails with ErrLeaseNotFound.
PutWithLease(k, v, l) ==
    /\ CanWrite /\ l \in leases
    /\ Commit(PutEvents(<<<<k, v>>>>, l))
    /\ UNCHANGED <<watchOf, leases, granted, compacted, rclosed, pc, cur, vision,
                   got, stopped, reading>>

\* Delete, DeletePrefix, DeleteRange, DeleteFromKey: the keys of the range
\* that exist are deleted in key order at one revision; a range with no
\* key changes nothing.
DeleteKeys(ks) ==
    LET present == {k \in ks : kv[k] # NoKV}
    IN  /\ CanWrite /\ present # {}
        /\ Commit(DelEvents(SortKeys(present)))
        /\ UNCHANGED <<watchOf, leases, granted, compacted, rclosed, pc, cur, vision,
                   got, stopped, reading>>

Delete(key) == DeleteKeys({key})
DeletePrefix(key) == DeleteKeys({k \in Keys : InPrefix(k, key)})
DeleteRange(startKey, endKey) == DeleteKeys({k \in Keys : InRange(k, startKey, endKey)})
DeleteFromKey(key) == DeleteKeys({k \in Keys : FromKey(k, key)})

\* TxnPut builds its Then ops by ranging over a Go map, so the puts, and
\* their events, come in any order.
TxnPutWithLease(KVList, l) ==
    /\ CanWrite /\ DOMAIN KVList # {}
    /\ l = NoLease \/ l \in leases
    /\ \E order \in SetToSeqs(DOMAIN KVList) :
          Commit(PutEvents([i \in DOMAIN order |-> <<order[i], KVList[order[i]]>>], l))
    /\ UNCHANGED <<watchOf, leases, granted, compacted, rclosed, pc, cur, vision,
                   got, stopped, reading>>

TxnPut(KVList) == TxnPutWithLease(KVList, NoLease)

TxnDelete(KVList) ==
    LET present == {k \in DOMAIN KVList : kv[k] # NoKV}
    IN  /\ CanWrite /\ present # {}
        /\ \E order \in SetToSeqs(present) : Commit(DelEvents(order))
        /\ UNCHANGED <<watchOf, leases, granted, compacted, rclosed, pc, cur, vision,
                   got, stopped, reading>>

CreateLease(l) ==
    /\ l \notin granted
    /\ leases' = leases \cup {l}
    /\ granted' = granted \cup {l}
    /\ UNCHANGED <<watchOf, kv, rev, hist, compacted, watch>>

\* The keys attached to lease l.
AttachedKeys(l) == {k \in Keys : kv[k] # NoKV /\ kv[k].lease = l}

\* RevokeLease, and the expiry of a lease nobody keeps alive: the lease
\* ends and its keys are deleted at one revision.
EndLease(l) ==
    LET attached == AttachedKeys(l)
    IN  /\ l \in leases
        /\ leases' = leases \ {l}
        /\ IF attached = {} THEN UNCHANGED <<kv, rev, hist, rch>>
           ELSE CanWrite /\ Commit(DelEvents(SortKeys(attached)))
        /\ UNCHANGED <<watchOf, granted, compacted, rclosed, pc, cur, vision, got,
                       stopped, reading>>

RevokeLease(l) == EndLease(l)
LeaseExpire(l) == EndLease(l)

\* Compact(version): etcd refuses a revision at or below the last
\* compaction (ErrCompacted) or above the store's (ErrFutureRev), and then
\* nothing changes; otherwise the history before version becomes
\* unreadable.  Compaction makes no revision and, watches being synced,
\* cancels none.
Compact(version) ==
    /\ compacted < version /\ version <= rev
    /\ compacted' = version
    /\ UNCHANGED <<watchOf, kv, rev, hist, leases, granted, watch>>

-----------------------------------------------------------------------------
(* The watch goroutine: for { select { case wr := <-rch: ... case         *)
(* <-stopCh: return } }.                                                   *)

\* WatchData of an event, classified with ev.IsCreate / ev.IsModify, the
\* Vision taken from wr.Header.Revision.
ToWatchData(ev, hdr) ==
    [operate |-> CASE ev.type = "PUT" /\ ev.crt = ev.mod -> MethodCreate
                   [] ev.type = "PUT"                    -> MethodModify
                   [] ev.type = "DELETE"                 -> MethodDelete,
     vision |-> hdr, key |-> ev.key, value |-> ev.val]

\* Mutant: the loop handles only the first event of a response.
WatchRecvFirstOnly(w) ==
    /\ pc[w] = "select" /\ rch[w] # <<>>
    /\ cur' = [cur EXCEPT ![w] = <<Head(Head(rch[w]).events)>>]
    /\ vision' = [vision EXCEPT ![w] = Head(rch[w]).hdr]
    /\ rch' = [rch EXCEPT ![w] = Tail(@)]
    /\ pc' = [pc EXCEPT ![w] = "send"]
    /\ UNCHANGED <<watchOf, store, rclosed, got, stopped, reading>>

\* case wr := <-rch, a response is buffered: range over wr.Events.
WatchRecv(w) ==
    /\ pc[w] = "select" /\ rch[w] # <<>>
    /\ cur' = [cur EXCEPT ![w] = Head(rch[w]).events]
    /\ vision' = [vision EXCEPT ![w] = Head(rch[w]).hdr]
    /\ rch' = [rch EXCEPT ![w] = Tail(@)]
    /\ pc' = [pc EXCEPT ![w] = "send"]
    /\ UNCHANGED <<watchOf, store, rclosed, got, stopped, reading>>

\* case wr := <-rch on a closed channel: a zero WatchResponse without
\* events, and the loop selects again at once.
WatchRecvClosed(w) ==
    /\ pc[w] = "select" /\ rclosed[w] /\ rch[w] = <<>>
    /\ UNCHANGED vars

\* Mutant: a return where the loop should go on after a response.
WatchSendReturn(w) ==
    /\ pc[w] = "send" /\ reading[w]
    /\ got' = [got EXCEPT ![w] = Append(@, ToWatchData(Head(cur[w]), vision[w]))]
    /\ cur' = [cur EXCEPT ![w] = Tail(@)]
    /\ pc' = [pc EXCEPT ![w] = IF Tail(cur[w]) = <<>> THEN "done" ELSE "send"]
    /\ UNCHANGED <<watchOf, store, rch, rclosed, vision, stopped, reading>>

\* data <- watchData: blocks until the consumer receives; stopCh is not
\* looked at while blocked.
WatchSend(w) ==
    /\ pc[w] = "send" /\ reading[w]
    /\ got' = [got EXCEPT ![w] = Append(@, ToWatchData(Head(cur[w]), vision[w]))]
    /\ cur' = [cur EXCEPT ![w] = Tail(@)]
    /\ pc' = [pc EXCEPT ![w] = IF Tail(cur[w]) = <<>> THEN "select" ELSE "send"]
    /\ UNCHANGED <<watchOf, store, rch, rclosed, vision, stopped, reading>>

\* case <-stopCh: return.
WatchReturn(w) ==
    /\ pc[w] = "select" /\ stopped[w]
    /\ pc' = [pc EXCEPT ![w] = "done"]
    /\ UNCHANGED <<watchOf, store, rch, rclosed, cur, vision, got, stopped, reading>>

WatchLoop(w) == WatchRecv(w) \/ WatchRecvClosed(w) \/ WatchSend(w) \/ WatchReturn(w)

Watch(w) == watchOf[w].kind = "key" /\ WatchLoop(w)
WatchPrefix(w) == watchOf[w].kind = "prefix" /\ WatchLoop(w)
WatchRange(w) == watchOf[w].kind = "range" /\ WatchLoop(w)

\* The caller closes stopCh; a consumer may stop reading data with it.
CloseStop(w) ==
    /\ ~stopped[w]
    /\ stopped' = [stopped EXCEPT ![w] = TRUE]
    /\ reading' = [reading EXCEPT ![w] = ReadAfterStop]
    /\ UNCHANGED <<watchOf, store, rch, rclosed, pc, cur, vision, got>>

\* The caller cancels the watch's ctx: the client drops what it buffered
\* and closes rch.
CancelCtx(w) ==
    /\ ~rclosed[w]
    /\ rclosed' = [rclosed EXCEPT ![w] = TRUE]
    /\ rch' = [rch EXCEPT ![w] = <<>>]
    /\ UNCHANGED <<watchOf, store, pc, cur, vision, got, stopped, reading>>

-----------------------------------------------------------------------------
(* The readers of get.go.  Each calls client.Get with its options and     *)
(* copies response.Kvs into data, a map[string]string from key to value;  *)
(* a failed call returns an empty data map (not modelled: the calls here  *)
(* succeed).  A reader changes nothing, so each is an operator of the     *)
(* state it reads.                                                        *)

\* The keys of S that exist.
Present(S) == {k \in S : kv[k] # NoKV}

\* for _, ev := range response.Kvs { data[string(ev.Key)] = string(ev.Value) }
DataOf(S) == [k \in S |-> kv[k].val]

NoData == [k \in {} |-> NoVal]

PrefixKeys(key) == Present({k \in Keys : InPrefix(k, key)})

\* The value of key k at revision r, rebuilt from the committed events:
\* the last event on k at or before r, absent if it is a delete or none.
KVAt(k, r) ==
    LET onK == SelectSeq(hist, LAMBDA e : e.key = k /\ e.mod <= r)
    IN  IF onK = <<>> \/ onK[Len(onK)].type = "DELETE" THEN NoKV
        ELSE Apply(onK[Len(onK)])

LeaseTimeToLive(l) ==
    IF l \in leases THEN [ok |-> TRUE, data |-> [k \in AttachedKeys(l) |-> NoVal]]
    ELSE [ok |-> TRUE, data |-> NoData]

Get(key) == DataOf(Present({key}))

\* WithPrefix, WithLimit(num): the first num keys in key order; etcd
\* reads a limit <= 0 as no limit.
GetWithLimit(key, num) ==
    LET P == PrefixKeys(key)
    IN  IF num <= 0 THEN DataOf(P)
        ELSE DataOf({k \in P : Cardinality({j \in P : KeyLess(j, k)}) < num})

\* WithRev(revision): the key as it was at that revision; 0 is the current
\* revision, a future one fails with ErrFutureRev.
GetWithRevision(key, revision) ==
    LET r == IF revision <= 0 THEN rev ELSE revision
    IN  IF r > rev \/ r < compacted \/ KVAt(key, r) = NoKV THEN NoData
        ELSE [k \in {key} |-> KVAt(key, r).val]

\* WithPrefix and WithSort(SortByKey, SortDescend): the order of the reply
\* does not survive the copy into the map.
GetWithSorted(key) == DataOf(PrefixKeys(key))

\* Mutant: the WithPrefix option is left out, so only the key itself is read.
GetWithPrefixExact(key) == DataOf(Present({key}))

GetWithPrefix(key) == DataOf(PrefixKeys(key))

GetWithRange(startKey, endKey) ==
    DataOf(Present({k \in Keys : InRange(k, startKey, endKey)}))

GetFromKey(key) == DataOf(Present({k \in Keys : FromKey(k, key)}))

\* WithKeysOnly: the values are empty.
GetKeysOnly(key) == [k \in PrefixKeys(key) |-> NoVal]

\* WithCountOnly: the reply carries the count and no kvs, so data is empty.
GetCountOnly(key) == [count |-> Cardinality(PrefixKeys(key)), data |-> NoData]

\* WithMinModRev, WithMaxModRev, WithMinCreateRev, WithMaxCreateRev: a
\* filter on the revisions of the keys under the prefix; 0 filters nothing.
GetMinModRevision(key, revision) ==
    DataOf({k \in PrefixKeys(key) : revision = 0 \/ kv[k].mod >= revision})
GetMaxModRevision(key, revision) ==
    DataOf({k \in PrefixKeys(key) : revision = 0 \/ kv[k].mod <= revision})
GetMinCrtRevision(key, revision) ==
    DataOf({k \in PrefixKeys(key) : revision = 0 \/ kv[k].crt >= revision})
GetMaxCrtRevision(key, revision) ==
    DataOf({k \in PrefixKeys(key) : revision = 0 \/ kv[k].crt <= revision})

\* SortTarget and SortOrder of clientv3: whether, in records r of keys, a
\* sorts before b by key ("key"), create ("crt") or mod ("mod") revision.
SortsBefore(r, target, order, a, b) ==
    LET asc == IF target = "key" THEN KeyLess(a, b) ELSE r[a][target] < r[b][target]
        dsc == IF target = "key" THEN KeyLess(b, a) ELSE r[a][target] > r[b][target]
    IN  IF order = "ascend" THEN asc ELSE dsc

\* withTop(target, order) of clientv3 (WithFirstCreate, WithLastKey, ...):
\* WithPrefix, WithSort(target, order), WithLimit(1); of keys that tie,
\* etcd may return any.
Top(key, target, order) ==
    LET P == PrefixKeys(key)
    IN  IF P = {} THEN NoData
        ELSE DataOf({CHOOSE k \in P : \A j \in P : ~SortsBefore(kv, target, order, j, k)})

GetFirstCrt(key) == Top(key, "crt", "ascend")
GetLastCrt(key) == Top(key, "crt", "descend")
GetFirst(key) == Top(key, "key", "ascend")
GetLast(key) == Top(key, "key", "descend")
GetFirstRevision(key) == Top(key, "mod", "ascend")

\* Mutant: the last revision read with the ascending order of the first.
GetLastRevisionAscend(key) == Top(key, "mod", "ascend")

GetLastRevision(key) == Top(key, "mod", "descend")

-----------------------------------------------------------------------------
KVLists == UNION {[S -> Vals] : S \in SUBSET Keys}

Next ==
    \/ \E k \in Keys, v \in Vals : Put(k, v)
    \/ \E k \in Keys, v \in Vals, l \in Leases : PutWithLease(k, v, l)
    \/ \E k \in Keys : Delete(k) \/ DeletePrefix(k) \/ DeleteFromKey(k)
    \/ \E a, b \in Keys : DeleteRange(a, b)
    \/ \E m \in KVLists : TxnPut(m) \/ TxnDelete(m)
    \/ \E m \in KVLists, l \in Leases : TxnPutWithLease(m, l)
    \/ \E l \in Leases : CreateLease(l) \/ RevokeLease(l) \/ LeaseExpire(l)
    \/ \E version \in CompactRevs : Compact(version)
    \/ \E w \in Watchers :
          Watch(w) \/ WatchPrefix(w) \/ WatchRange(w) \/ CloseStop(w) \/ CancelCtx(w)

\* The watch goroutine and the consumer are scheduled fairly by Go; a
\* select with both cases ready picks one at random, so the stop case is
\* taken once it stays ready.
Fairness ==
    \A w \in Watchers :
        /\ WF_vars(WatchRecv(w)) /\ WF_vars(WatchSend(w)) /\ WF_vars(WatchReturn(w))

Spec == Init /\ [][Next]_vars
FairSpec == Spec /\ Fairness

-----------------------------------------------------------------------------
\* The WatchData a consumer should see: every committed event on the
\* watch's keys, in commit order, classified by what the write did.
Expected(w) ==
    LET evs == SelectSeq(hist, LAMBDA e : Watches(w, e.key))
    IN  [i \in DOMAIN evs |->
            [operate |-> IF evs[i].type = "DELETE" THEN MethodDelete
                         ELSE IF evs[i].created THEN MethodCreate ELSE MethodModify,
             vision |-> evs[i].mod, key |-> evs[i].key, value |-> evs[i].val]]

(* What a consumer has received from a watch goroutine is, in order, the  *)
(* changes committed on the watched keys since the watch started: none    *)
(* lost, repeated or reordered, each with the Operate the write made (a   *)
(* put of an absent key is a create), its key and value, and as Vision    *)
(* the revision of the change.                                            *)
WatchDeliversHistory ==
    \A w \in Watchers : IsPrefix(got[w], Expected(w))

(* The consumer always catches up again: whatever changes are committed on *)
(* the watched keys are all received, unless the caller closed stopCh or  *)
(* cancelled the watch's ctx.                                             *)
WatchDeliversAll ==
    \A w \in Watchers :
        []<>(Len(got[w]) = Len(Expected(w)) \/ stopped[w] \/ rclosed[w])


\* A consumer that keeps a copy of the watched keys from the WatchData it
\* received up to revision r: a create or modify sets the key's value and
\* its mod revision to Vision (a create also its create revision), a
\* delete removes the key.
MirrorAt(w, r) ==
    LET step(m, d) ==
          IF d.vision > r THEN m
          ELSE IF d.operate = MethodDelete
          THEN [k \in DOMAIN m \ {d.key} |-> m[k]]
          ELSE (d.key :> [val |-> d.value, mod |-> d.vision,
                          crt |-> IF d.operate = MethodCreate \/ d.key \notin DOMAIN m
                                  THEN d.vision ELSE m[d.key].crt]) @@ m
    IN  FoldLeft(step, [k \in {} |-> NoVal], got[w])

Mirror(w) == MirrorAt(w, rev)

ValuesOf(m) == [k \in DOMAIN m |-> m[k].val]

\* The consumer has received every change committed on its keys.
CaughtUp(w) == Len(got[w]) = Len(Expected(w))

(* A consumer that has received everything its watch goroutine delivered  *)
(* holds exactly what the get.go readers return for the same keys: Get of *)
(* a watched key, and of every earlier revision (GetWithRevision);        *)
(* GetWithRange of a watched range; GetWithPrefix, GetWithSorted,         *)
(* GetKeysOnly, GetWithLimit and the revision filters of a watched        *)
(* prefix.  So the watch loop's create/modify/delete classification and   *)
(* Vision, and the options each reader passes, agree.                     *)
WatchMirrorsGet ==
    \A w \in Watchers : CaughtUp(w) =>
      LET m == Mirror(w)
          key == watchOf[w].key
          filtered(keep(_)) == ValuesOf([k \in {j \in DOMAIN m : keep(m[j])} |-> m[k]])
      IN  CASE watchOf[w].kind = "key" ->
                 \A r \in 0..rev :
                    GetWithRevision(key, r) =
                       IF 0 < r /\ r < compacted THEN NoData
                       ELSE ValuesOf(MirrorAt(w, IF r = 0 THEN rev ELSE r))
            [] watchOf[w].kind = "range" ->
                 GetWithRange(key, watchOf[w].end) = ValuesOf(m)
            [] watchOf[w].kind = "prefix" ->
                 /\ GetWithPrefix(key) = ValuesOf(m)
                 /\ GetWithSorted(key) = ValuesOf(m)
                 /\ DOMAIN GetKeysOnly(key) = DOMAIN m
                 /\ GetCountOnly(key).count = Cardinality(DOMAIN m)
                 /\ \A n \in 1..Cardinality(DOMAIN m) :
                       DOMAIN GetWithLimit(key, n) =
                          {k \in DOMAIN m : Cardinality({j \in DOMAIN m : KeyLess(j, k)}) < n}
                 /\ \A r \in 1..rev :
                       /\ GetMinModRevision(key, r) = filtered(LAMBDA e : e.mod >= r)
                       /\ GetMaxModRevision(key, r) = filtered(LAMBDA e : e.mod <= r)
                       /\ GetMinCrtRevision(key, r) = filtered(LAMBDA e : e.crt >= r)
                       /\ GetMaxCrtRevision(key, r) = filtered(LAMBDA e : e.crt <= r)

\* The keys of a consumer's copy m that come first in the given order.
Firsts(m, target, order) ==
    {k \in DOMAIN m : \A j \in DOMAIN m : ~SortsBefore(m, target, order, j, k)}

(* The top-one readers of a watched prefix (GetFirst, GetLast,            *)
(* GetFirstCrt, GetLastCrt, GetFirstRevision, GetLastRevision) each name  *)
(* one key, a key a caught-up consumer would pick itself from its copy,   *)
(* ordering by key, by the Vision of the key's create, or by the Vision   *)
(* of its last change: Vision, the response header, stands for the        *)
(* event's revision.                                                      *)
TopQueriesAgree ==
    \A w \in Watchers : (CaughtUp(w) /\ watchOf[w].kind = "prefix") =>
      LET m == Mirror(w)
          key == watchOf[w].key
          names(d, target, order) ==
             IF DOMAIN m = {} THEN d = NoData
             ELSE /\ Cardinality(DOMAIN d) = 1
                  /\ DOMAIN d \subseteq Firsts(m, target, order)
                  /\ \A k \in DOMAIN d : d[k] = m[k].val
      IN  /\ names(GetFirst(key), "key", "ascend")
          /\ names(GetLast(key), "key", "descend")
          /\ names(GetFirstCrt(key), "crt", "ascend")
          /\ names(GetLastCrt(key), "crt", "descend")
          /\ names(GetFirstRevision(key), "mod", "ascend")
          /\ names(GetLastRevision(key), "mod", "descend")

\* The keys whose last committed change is a put under lease l.
LastPutUnder(l) ==
    {k \in Keys : LET onK == SelectSeq(hist, LAMBDA e : e.key = k)
                  IN  onK # <<>> /\ onK[Len(onK)].type = "PUT"
                                 /\ onK[Len(onK)].lease = l}

=============================================================================
