------------------------------ MODULE EtcdLock ------------------------------
(***************************************************************************)
(* The distributed lock lock.Locker of src/zetcd/lock, several Lockers on  *)
(* one lock name, against an abstract etcd server.                         *)
(*                                                                         *)
(* Actors: the caller of each Locker (Lock, Unlock, Close, one call at a   *)
(* time: runningMutex serialises them), the listenLockQuit goroutine of    *)
(* each Locker, one session-watcher goroutine per lock taken (impl.go      *)
(* 104-110), and the etcd server, whose leases may expire.  Every call     *)
(* into etcd is one atomic step that may fail; a failed call changes       *)
(* nothing on the server.                                                  *)
(*                                                                         *)
(* etcd is abstracted to what the lock reads: the store revision, the      *)
(* mutex keys under the lock prefix (one per lease, with its create        *)
(* revision), the owner keys (only their existence, for the revisions      *)
(* their writes and deletes consume) and the live leases.  The client's   *)
(* concurrency.Session is its lease plus a keep-alive ("kept"), and       *)
(* concurrency.Mutex.Lock is the etcd v3.5 algorithm: create the key,     *)
(* return at once with the create header if it is first, otherwise wait   *)
(* until every earlier key is deleted and return the header of a Get.      *)
(***************************************************************************)
EXTENDS Naturals, Sequences, FiniteSets

CONSTANTS
    Lockers,      \* the Locker instances (one process each) on the lock name
    MaxLease,     \* leases granted in a behaviour, lease IDs 1..MaxLease
    LeaseLoss,    \* whether a kept-alive lease can be lost (network fault)
    HasOwner,     \* ownerID != "": impl writes the owner key
    MaxClose,     \* Close calls per Locker
    NoLocker      \* the owner of a lease not yet granted

ASSUME /\ MaxLease \in Nat /\ MaxClose \in Nat
       /\ LeaseLoss \in BOOLEAN /\ HasOwner \in BOOLEAN
       /\ NoLocker \notin Lockers

Leases == 1..MaxLease
NoLease == 0                    \* clientv3.NoLease, and a nil session

\* The signals of impl.go and the capacity of quitCh (api.go:56).
SigOfCloseLocker == 1
SigOfSessionDone == 2
QuitCap == 1

-----------------------------------------------------------------------------
(* etcd as a record: rev, keys (mutex keys [lease, crt]), owners (leases   *)
(* with an owner key), live (leases on the server).                        *)

\* Deleting keys takes one revision when it deletes anything.
RemoveKeys(e, ks, os) ==
    IF ks = {} /\ os = {} THEN e
    ELSE [e EXCEPT !.rev = @ + 1, !.keys = @ \ ks, !.owners = @ \ os]

KeysOf(e, s) == {k \in e.keys : k.lease = s}

\* mutex.Unlock: delete the session's mutex key.
DeleteKey(e, s) == RemoveKeys(e, KeysOf(e, s), {})

\* Lease revoke or expiry: the lease and every key attached to it go.
Revoke(e, s) ==
    IF s \in e.live
    THEN [RemoveKeys(e, KeysOf(e, s), e.owners \cap {s})
             EXCEPT !.live = @ \ {s}]
    ELSE e

\* The tryAcquire transaction: create the mutex key of lease s.
PutKey(e, s) ==
    [e EXCEPT !.rev = @ + 1, !.keys = @ \cup {[lease |-> s, crt |-> e.rev + 1]}]

\* PutWithLease of the owner key.
PutOwner(e, s) == [e EXCEPT !.rev = @ + 1, !.owners = @ \cup {s}]

\* GetFirstCrt on the lock prefix: the key created first, if any.
FirstKeys(e) == {k \in e.keys : \A j \in e.keys : k.crt <= j.crt}

\* GetRemoteLockState: isLocked and the create revision of the first key.
IsLocked(e) == e.keys # {}
FirstRev(e) == (CHOOSE k \in FirstKeys(e) : TRUE).crt
FirstLease(e) == IF IsLocked(e) THEN (CHOOSE k \in FirstKeys(e) : TRUE).lease
                 ELSE NoLease

-----------------------------------------------------------------------------
VARIABLES
    kv,           \* the etcd server
    kept,         \* leases whose session keep-alive runs (Done() not closed)
    leaseOf,      \* leaseOf[n]: the Locker that was granted lease n
    nextLease,    \* the next lease ID the server grants
    session,      \* session[l]: l.leaseID / l.session / l.mutexLock, or nil
    myRev,        \* l.myRev
    isClosed,     \* l.isClosed
    quitCh,       \* the contents of l.quitCh
    listening,    \* l's listenLockQuit goroutine has not returned
    pc,           \* where l's caller is
    cur,          \* the lease of the session impl is building
    mrev,         \* the create revision of the Mutex's own key (m.myRev)
    hdr,          \* the revision of the Mutex's response header (m.hdr)
    held,         \* the caller's last Lock returned nil, with no Unlock since
    closes,       \* Close calls made on l
    wpc,          \* wpc[n]: the watcher spawned for lease n
    wses,         \* wses[n]: the session that watcher reads from l.session
    panicked      \* a goroutine dereferenced a nil session

vars == <<kv, kept, leaseOf, nextLease, session, myRev, isClosed, quitCh,
          listening, pc, cur, mrev, hdr, held, closes, wpc, wses, panicked>>
etcdVars == <<kv, kept, leaseOf, nextLease>>
callVars == <<pc, cur, mrev, hdr>>
watchVars == <<wpc, wses>>

Init ==
    /\ kv = [rev |-> 1, keys |-> {}, owners |-> {}, live |-> {}]
    /\ kept = {}
    /\ leaseOf = [n \in Leases |-> NoLocker]
    /\ nextLease = 1
    /\ session = [l \in Lockers |-> NoLease]
    /\ myRev = [l \in Lockers |-> 0]
    /\ isClosed = [l \in Lockers |-> FALSE]
    /\ quitCh = [l \in Lockers |-> <<>>]
    /\ listening = [l \in Lockers |-> TRUE]
    /\ pc = [l \in Lockers |-> "idle"]
    /\ cur = [l \in Lockers |-> NoLease]
    /\ mrev = [l \in Lockers |-> 0]
    /\ hdr = [l \in Lockers |-> 0]
    /\ held = [l \in Lockers |-> FALSE]
    /\ closes = [l \in Lockers |-> 0]
    /\ wpc = [n \in Leases |-> "none"]
    /\ wses = [n \in Leases |-> NoLease]
    /\ panicked = FALSE

-----------------------------------------------------------------------------
(* session.Close(): cancel the keep-alive, then revoke the lease, which    *)
(* may fail (the lease then lives until its TTL runs out).                 *)
SessionClose(e, s, revokeOk) == IF revokeOk THEN Revoke(e, s) ELSE e

(* clear(): under setMutex, mutex.Unlock and session.Close (both may fail, *)
(* errors are ignored), cancel, and reset the fields.  kv' and kept' are   *)
(* the only server and session effects; the caller adds the rest.          *)
Clear(l) ==
    LET s == session[l] IN
    /\ \E unlockOk, revokeOk \in BOOLEAN :
          kv' = IF s = NoLease THEN kv
                ELSE SessionClose(IF unlockOk THEN DeleteKey(kv, s) ELSE kv,
                                  s, revokeOk)
    /\ kept' = kept \ {s}
    /\ session' = [session EXCEPT ![l] = NoLease]
    /\ myRev' = [myRev EXCEPT ![l] = 0]

\* A Lock call returns an error: the caller holds nothing.
Fail(l) ==
    /\ pc' = [pc EXCEPT ![l] = "idle"]
    /\ held' = [held EXCEPT ![l] = FALSE]
    /\ cur' = [cur EXCEPT ![l] = NoLease]

\* The Mutex of a finished impl is dropped: its myRev and header go with it.
DropMutex(l) ==
    /\ mrev' = [mrev EXCEPT ![l] = 0]
    /\ hdr' = [hdr EXCEPT ![l] = 0]

\* impl returns an error after the session exists: mutex.Unlock where the
\* code calls it, then session.Close() and cancel().
AbortImpl(l, unlock) ==
    LET n == cur[l] IN
    /\ \E unlockOk, revokeOk \in BOOLEAN :
          kv' = SessionClose(IF unlock /\ unlockOk THEN DeleteKey(kv, n) ELSE kv,
                             n, revokeOk)
    /\ kept' = kept \ {n}
    /\ Fail(l)
    /\ DropMutex(l)

\* checkLockState's reading of GetRemoteLockState: the lock is this
\* Locker's when the first key's create revision is l.myRev.
CheckLockState(l) ==
    IF ~IsLocked(kv) THEN "none"
    ELSE IF FirstRev(kv) = myRev[l] THEN "held" ELSE "locked"

-----------------------------------------------------------------------------
(* Lock: the isClosed checks, checkLockState and, when the lock is free,  *)
(* clear and the start of lock().  A second clear in the ErrLocked branch *)
(* finds the fields nil and does nothing.                                  *)
LockCheck(l) ==
    /\ ~panicked
    /\ pc[l] = "idle" /\ ~isClosed[l]
    /\ \/ /\ Fail(l)                                     \* read error
          /\ UNCHANGED <<kv, kept, session, myRev>>
       \/ /\ CheckLockState(l) = "held"                   \* nil
          /\ held' = [held EXCEPT ![l] = TRUE]
          /\ UNCHANGED <<kv, kept, session, myRev, pc, cur>>
       \/ /\ CheckLockState(l) = "locked"                 \* ErrLocked
          /\ Clear(l) /\ Fail(l)
       \/ /\ CheckLockState(l) = "none"                   \* lock(ctx)
          /\ Clear(l)
          /\ pc' = [pc EXCEPT ![l] = "impl"]
          /\ UNCHANGED <<held, cur>>
    /\ UNCHANGED <<leaseOf, nextLease, isClosed, quitCh, listening, mrev, hdr,
                   closes, watchVars, panicked>>

\* impl: CreateLease, then NewSession with that lease (keep-alive starts).
ImplSession(l) ==
    /\ ~panicked
    /\ pc[l] = "impl"
    /\ \/ /\ Fail(l)                                     \* Grant fails
          /\ UNCHANGED <<kv, kept, leaseOf, nextLease>>
       \/ /\ nextLease \in Leases
          /\ LET n == nextLease IN
             /\ nextLease' = n + 1
             /\ leaseOf' = [leaseOf EXCEPT ![n] = l]
             /\ kv' = [kv EXCEPT !.live = @ \cup {n}]
             /\ \/ /\ Fail(l) /\ UNCHANGED kept          \* NewSession fails
                \/ /\ kept' = kept \cup {n}
                   /\ cur' = [cur EXCEPT ![l] = n]
                   /\ pc' = [pc EXCEPT ![l] = "try"]
                   /\ UNCHANGED held
    /\ UNCHANGED <<session, myRev, isClosed, quitCh, listening, mrev, hdr,
                   closes, watchVars, panicked>>

\* Mutant: Lock returns from tryAcquire as if the new key were first.
MutexTryNoWait(l) ==
    /\ ~panicked
    /\ pc[l] = "try"
    /\ \/ /\ cur[l] \in kv.live
          /\ kv' = PutKey(kv, cur[l])
          /\ mrev' = [mrev EXCEPT ![l] = kv.rev + 1]
          /\ hdr' = [hdr EXCEPT ![l] = kv.rev + 1]
          /\ pc' = [pc EXCEPT ![l] = "owner"]
          /\ UNCHANGED <<kept, held, cur>>
       \/ AbortImpl(l, FALSE)
    /\ UNCHANGED <<leaseOf, nextLease, session, myRev, isClosed, quitCh,
                   listening, closes, watchVars, panicked>>

\* mutex.Lock, tryAcquire: create the key; with the lock free the header of
\* that transaction is kept and Lock returns.
MutexTry(l) ==
    /\ ~panicked
    /\ pc[l] = "try"
    /\ \/ /\ cur[l] \in kv.live
          /\ kv' = PutKey(kv, cur[l])
          /\ mrev' = [mrev EXCEPT ![l] = kv.rev + 1]
          /\ IF FirstRev(kv') = kv.rev + 1
             THEN /\ hdr' = [hdr EXCEPT ![l] = kv.rev + 1]
                  /\ pc' = [pc EXCEPT ![l] = "owner"]
             ELSE /\ pc' = [pc EXCEPT ![l] = "wait"]
                  /\ UNCHANGED hdr
          /\ UNCHANGED <<kept, held, cur>>
       \/ AbortImpl(l, FALSE)                            \* Txn error
    /\ UNCHANGED <<leaseOf, nextLease, session, myRev, isClosed, quitCh,
                   listening, closes, watchVars, panicked>>

\* mutex.Lock after waitDeletes returned: Get the own key; the header of
\* that Get becomes m.hdr.  A missing key is ErrSessionExpired.
MutexAcquire(l) ==
    /\ ~panicked
    /\ pc[l] = "wait"
    /\ \A k \in kv.keys : k.crt >= mrev[l]
    /\ IF KeysOf(kv, cur[l]) # {}
       THEN /\ hdr' = [hdr EXCEPT ![l] = kv.rev]
            /\ pc' = [pc EXCEPT ![l] = "owner"]
            /\ UNCHANGED <<kv, kept, held, cur, mrev>>
       ELSE AbortImpl(l, FALSE)
    /\ UNCHANGED <<leaseOf, nextLease, session, myRev, isClosed, quitCh,
                   listening, closes, watchVars, panicked>>

\* waitDeletes or the Get fails (ctx done, network): m.Unlock, then impl
\* closes the session.
MutexWaitFail(l) ==
    /\ ~panicked
    /\ pc[l] = "wait"
    /\ AbortImpl(l, TRUE)
    /\ UNCHANGED <<leaseOf, nextLease, session, myRev, isClosed, quitCh,
                   listening, closes, watchVars, panicked>>

\* impl: the owner key, written with the session's lease.
OwnerPut(l) ==
    /\ ~panicked
    /\ pc[l] = "owner"
    /\ \/ /\ ~HasOwner \/ cur[l] \in kv.live
          /\ kv' = IF HasOwner THEN PutOwner(kv, cur[l]) ELSE kv
          /\ pc' = [pc EXCEPT ![l] = "set"]
          /\ UNCHANGED <<kept, held, cur, mrev, hdr>>
       \/ /\ HasOwner /\ AbortImpl(l, TRUE)
    /\ UNCHANGED <<leaseOf, nextLease, session, myRev, isClosed, quitCh,
                   listening, closes, watchVars, panicked>>

\* impl, under setMutex: the fields, myRev from the Mutex header, and the
\* session watcher goroutine.
ImplSet(l) ==
    /\ ~panicked
    /\ pc[l] = "set"
    /\ session' = [session EXCEPT ![l] = cur[l]]
    /\ myRev' = [myRev EXCEPT ![l] = hdr[l]]
    /\ wpc' = [wpc EXCEPT ![cur[l]] = "start"]
    /\ pc' = [pc EXCEPT ![l] = "verify"]
    /\ cur' = [cur EXCEPT ![l] = NoLease]
    /\ DropMutex(l)
    /\ UNCHANGED <<etcdVars, isClosed, quitCh, listening, held, closes, wses,
                   panicked>>

\* lock(): GetRemoteLockState after impl; nil only if the first key has
\* the create revision l.myRev, otherwise clear and ErrLocked/ErrLockFailed.
LockVerify(l) ==
    /\ ~panicked
    /\ pc[l] = "verify"
    /\ \/ /\ Fail(l)                                     \* read error
          /\ UNCHANGED <<kv, kept, session, myRev>>
       \/ /\ CheckLockState(l) = "held"
          /\ held' = [held EXCEPT ![l] = TRUE]
          /\ pc' = [pc EXCEPT ![l] = "idle"]
          /\ UNCHANGED <<kv, kept, session, myRev, cur>>
       \/ /\ CheckLockState(l) # "held"
          /\ Clear(l) /\ Fail(l)
    /\ UNCHANGED <<leaseOf, nextLease, isClosed, quitCh, listening, mrev, hdr,
                   closes, watchVars, panicked>>

\* Unlock: the isClosed checks, then clear.
Unlock(l) ==
    /\ ~panicked
    /\ pc[l] = "idle" /\ ~isClosed[l]
    /\ Clear(l)
    /\ held' = [held EXCEPT ![l] = FALSE]
    /\ UNCHANGED <<leaseOf, nextLease, isClosed, quitCh, listening, callVars,
                   closes, watchVars, panicked>>

\* Close: isClosed = true under runningMutex, then the send on quitCh,
\* which blocks while quitCh is full (CloseSend).
Close(l) ==
    /\ ~panicked
    /\ pc[l] = "idle" /\ closes[l] < MaxClose
    /\ isClosed' = [isClosed EXCEPT ![l] = TRUE]
    /\ held' = [held EXCEPT ![l] = FALSE]
    /\ closes' = [closes EXCEPT ![l] = @ + 1]
    /\ pc' = [pc EXCEPT ![l] = "closing"]
    /\ UNCHANGED <<etcdVars, session, myRev, quitCh, listening, cur, mrev, hdr,
                   watchVars, panicked>>

CloseSend(l) ==
    /\ ~panicked
    /\ pc[l] = "closing" /\ Len(quitCh[l]) < QuitCap
    /\ quitCh' = [quitCh EXCEPT ![l] = Append(@, SigOfCloseLocker)]
    /\ pc' = [pc EXCEPT ![l] = "idle"]
    /\ UNCHANGED <<etcdVars, session, myRev, isClosed, listening, cur, mrev,
                   hdr, held, closes, watchVars, panicked>>

\* Mutant: on sigOfCloseLocker the listener returns before clear.
ListenLockQuitNoClear(l) ==
    /\ ~panicked
    /\ listening[l] /\ quitCh[l] # <<>>
    /\ quitCh' = [quitCh EXCEPT ![l] = Tail(@)]
    /\ IF Head(quitCh[l]) = SigOfCloseLocker
       THEN UNCHANGED <<kv, kept, session, myRev>>
       ELSE Clear(l)
    /\ listening' = [listening EXCEPT ![l] = Head(quitCh[l]) # SigOfCloseLocker]
    /\ UNCHANGED <<leaseOf, nextLease, isClosed, callVars, held, closes,
                   watchVars, panicked>>

\* listenLockQuit: one signal, clear, and return on sigOfCloseLocker.
ListenLockQuit(l) ==
    /\ ~panicked
    /\ listening[l] /\ quitCh[l] # <<>>
    /\ quitCh' = [quitCh EXCEPT ![l] = Tail(@)]
    /\ Clear(l)
    /\ listening' = [listening EXCEPT ![l] = Head(quitCh[l]) # SigOfCloseLocker]
    /\ UNCHANGED <<leaseOf, nextLease, isClosed, callVars, held, closes,
                   watchVars, panicked>>

\* The watcher goroutine of lease n starts and reads l.session (racing the
\* writes of clear); Done() on a nil session is a nil dereference.
WatchStart(n) ==
    /\ ~panicked
    /\ wpc[n] = "start"
    /\ LET s == session[leaseOf[n]] IN
       IF s = NoLease
       THEN /\ panicked' = TRUE
            /\ UNCHANGED watchVars
       ELSE /\ wses' = [wses EXCEPT ![n] = s]
            /\ wpc' = [wpc EXCEPT ![n] = "wait"]
            /\ UNCHANGED panicked
    /\ UNCHANGED <<etcdVars, session, myRev, isClosed, quitCh, listening,
                   callVars, held, closes>>

\* Done() of the watched session closed: send sigOfSessionDone (blocking
\* while quitCh is full) and return.
WatchSignal(n) ==
    /\ ~panicked
    /\ wpc[n] = "wait" /\ wses[n] \notin kept
    /\ Len(quitCh[leaseOf[n]]) < QuitCap
    /\ quitCh' = [quitCh EXCEPT ![leaseOf[n]] = Append(@, SigOfSessionDone)]
    /\ wpc' = [wpc EXCEPT ![n] = "exit"]
    /\ wses' = [wses EXCEPT ![n] = NoLease]
    /\ UNCHANGED <<etcdVars, session, myRev, isClosed, listening, callVars,
                   held, closes, panicked>>

\* The server: a lease nobody keeps alive runs out its TTL.
LeaseExpire(n) ==
    /\ ~panicked
    /\ n \in kv.live \ kept
    /\ kv' = Revoke(kv, n)
    /\ UNCHANGED <<kept, leaseOf, nextLease, session, myRev, isClosed, quitCh,
                   listening, callVars, held, closes, watchVars, panicked>>

\* The server: a kept-alive lease is lost (keep-alives do not arrive); the
\* keep-alive ends and Done() closes.
LeaseLost(n) ==
    /\ ~panicked
    /\ LeaseLoss /\ n \in kept
    /\ kv' = Revoke(kv, n)
    /\ kept' = kept \ {n}
    /\ UNCHANGED <<leaseOf, nextLease, session, myRev, isClosed, quitCh,
                   listening, callVars, held, closes, watchVars, panicked>>

LockStep(l) ==
    \/ ImplSession(l) \/ MutexTry(l) \/ MutexAcquire(l) \/ OwnerPut(l)
    \/ ImplSet(l) \/ LockVerify(l)

Next ==
    \/ \E l \in Lockers :
          \/ LockCheck(l) \/ ImplSession(l) \/ MutexTry(l) \/ MutexAcquire(l)
          \/ MutexWaitFail(l) \/ OwnerPut(l) \/ ImplSet(l) \/ LockVerify(l)
          \/ Unlock(l) \/ Close(l) \/ CloseSend(l) \/ ListenLockQuit(l)
    \/ \E n \in Leases :
          \/ WatchStart(n) \/ WatchSignal(n) \/ LeaseExpire(n) \/ LeaseLost(n)

(* The program stops when every Locker is closed and its goroutines have   *)
(* returned, or when a goroutine panicked: such states have no successor.  *)
(* Calls on a closed Locker return ErrLockerClosed and change nothing.     *)

Spec == Init /\ [][Next]_vars

(* A goroutine that is running keeps running: the steps inside a Lock     *)
(* call, the listener, the watchers, and a lease's TTL.  The sends on the *)
(* one-slot quitCh compete and are strongly fair (Go serves blocked       *)
(* senders in order).  Callers starting a call, a caller's ctx running    *)
(* out and lost leases are not fair.                                      *)
FairSpec ==
    /\ Spec
    /\ \A l \in Lockers : /\ WF_vars(LockStep(l))
                          /\ WF_vars(ListenLockQuit(l))
                          /\ SF_vars(CloseSend(l))
    /\ \A n \in Leases : /\ WF_vars(WatchStart(n))
                         /\ SF_vars(WatchSignal(n))
                         /\ WF_vars(LeaseExpire(n))

-----------------------------------------------------------------------------
(* A Locker owns the lock when its fields record a session (l.mutexLock,   *)
(* l.lockID set by impl) whose mutex key is still in etcd.                 *)
Owns(l) == session[l] # NoLease /\ KeysOf(kv, session[l]) # {}

AbsHolders == {l \in Lockers : Owns(l)}

Abs == INSTANCE DistLockAbstract WITH holders <- AbsHolders

(* Refinement: the Lockers that own the lock behave as the holders of an   *)
(* abstract lock: a Locker comes to own it (impl's field writes after      *)
(* mutex.Lock) only while no other Locker owns it, whatever the failed     *)
(* etcd calls, lost leases and stale clears in between.                    *)
AbsSpec == Abs!Spec

(* Close releases everything: once a Locker is closed, every lease it was  *)
(* granted is eventually gone from etcd (the listener's clear on           *)
(* sigOfCloseLocker, or the TTL of a lease whose revoke failed), unless    *)
(* the process crashed.                                                    *)
CloseReleasesLock ==
    \A l \in Lockers :
        isClosed[l] ~> (panicked \/ \A n \in Leases : leaseOf[n] = l => n \notin kv.live)

(* Mutual exclusion as callers see it: two callers are never both inside   *)
(* the critical section, i.e. both with a Lock that returned nil and no    *)
(* Unlock or Close since.  Lease loss is not in this check: no lease-based *)
(* lock can promise it across lost keep-alives.                            *)
CallerMutualExclusion ==
    \A l1, l2 \in Lockers : held[l1] /\ held[l2] => l1 = l2

\* The create revision of the mutex key of session s.
CrtOf(s) == (CHOOSE k \in KeysOf(kv, s) : TRUE).crt

(* The revision a Locker records is its own key's create revision: while   *)
(* a Locker owns the lock, l.myRev equals the create revision of its key,  *)
(* which is what checkLockState and lock() read "l.myRev == revision" as   *)
(* ("自己持有锁", the lock is held by this Locker, impl.go:169).            *)
RecordedRevIsOwnKey ==
    \A l \in Lockers : Owns(l) => myRev[l] = CrtOf(session[l])

====
