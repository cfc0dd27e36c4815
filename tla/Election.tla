------------------------------ MODULE Election ------------------------------
(***************************************************************************)
(* Leader election of src/zetcd/elect: Candidates and an Observer on one   *)
(* election position, against an abstract etcd server.                     *)
(*                                                                         *)
(* Actors: the caller of each Candidate (Campaign, Proclaim, Resign,       *)
(* Close, one call at a time), the caller of the Observer (Start, Stop),   *)
(* the Observer's goroutine (observer.go:52-76), the goroutine of          *)
(* concurrency.Election.Observe that feeds it, the cancellation of the     *)
(* context given to Start, the keep-alive of a session failing, and etcd   *)
(* expiring the lease of a session closed or no longer kept alive.  A call *)
(* into etcd is one atomic step; a failed one changes nothing on the       *)
(* server.                                                                 *)
(*                                                                         *)
(* Each Candidate has one session, created by Init before the model        *)
(* starts; its election key is the election prefix plus its lease ID, so a *)
(* key is named by its Candidate.  concurrency.Election is the etcd v3.5   *)
(* client algorithm: Campaign creates the key (or adopts it, proclaiming   *)
(* its value if it differs) and waits until every key created before it   *)
(* is deleted; Proclaim and Resign are transactions guarded by the key's   *)
(* create revision; Observe reads the first-created key and then follows  *)
(* the prefix with watches.                                                *)
(***************************************************************************)
EXTENDS Naturals, FiniteSets, Sequences

CONSTANTS
    Candidates,   \* the Candidate instances on the position
    Names,        \* the names (key values) they campaign and proclaim with
    MaxRev,       \* no write makes the store revision pass MaxRev
    TxnFail,      \* a Campaign, Proclaim or Resign transaction may fail
    WaitErr,      \* waitDeletes may fail for a reason other than ctx
    ObserveErr,   \* the Get or a watch of Observe may fail
    LeaseLoss,    \* the Candidates whose session keep-alive may fail
    NoCand,       \* no Candidate: an empty CurTerm
    NoName        \* an empty curLeader

ASSUME /\ MaxRev \in Nat
       /\ TxnFail \in BOOLEAN /\ WaitErr \in BOOLEAN /\ ObserveErr \in BOOLEAN
       /\ LeaseLoss \subseteq Candidates
       /\ NoCand \notin Candidates /\ NoName \notin Names

-----------------------------------------------------------------------------
(* etcd as a record: rev (the store revision), keys (the election keys,    *)
(* [owner, crt, val]) and live (the leases on the server).                 *)

KeyOf(e, c) == {k \in e.keys : k.owner = c}
HasKey(e, c) == KeyOf(e, c) # {}
KeyCrt(e, c) == (CHOOSE k \in KeyOf(e, c) : TRUE).crt
KeyVal(e, c) == (CHOOSE k \in KeyOf(e, c) : TRUE).val

\* The key Election.Leader and Observe read: WithFirstCreate on the prefix.
FirstKey(e) == CHOOSE k \in e.keys : \A j \in e.keys : k.crt <= j.crt
FirstOwner(e) == IF e.keys = {} THEN NoCand ELSE FirstKey(e).owner

\* The event of a write, as a watch delivers it.
Ev(type, c, v) == [type |-> type, owner |-> c, val |-> v]

VARIABLES
    kv,           \* the etcd server
    wq,           \* the events Observe's open watch has still to deliver
    kept,         \* leases whose session keep-alive runs
    pc,           \* where c's caller is: idle, cproclaim, wait, closed
    myName,       \* c.myName
    lkey,         \* e.leaderKey is c's key (FALSE: "")
    lrev,         \* e.leaderRev
    lses,         \* e.leaderSession is not nil
    believes,     \* c's last Campaign returned nil, and no Resign or Close since
    resignedOk,   \* c's last Resign returned nil, and no Campaign since
    ostate,       \* the Observer's caller: new, running, stopped
    ogo,          \* the Observer's goroutine: none, start, run, exited
    closeCh,      \* the number of values in o.closeCh (cap 1)
    octx,         \* ctxAlways is done
    obs,          \* the Observe goroutine: none, get, waitput, send, watch, closed
    okey, oval,   \* the key and value Observe has read and sends or watches
    CurTerm,      \* o.CurTerm (by its Candidate)
    curLeader     \* o.curLeader

vars == <<kv, wq, kept, pc, myName, lkey, lrev, lses, believes,
          resignedOk, ostate, ogo, closeCh, octx, obs, okey, oval,
          CurTerm, curLeader>>
candVars == <<pc, myName, lkey, lrev, lses, believes, resignedOk>>
obsVars == <<ostate, ogo, closeCh, octx, obs, okey, oval, CurTerm,
             curLeader>>

\* NewCandidate and Init have run: each Candidate has a live, kept-alive
\* session and the name it was created with; the Observer is new.
Init ==
    /\ kv = [rev |-> 1, keys |-> {}, live |-> Candidates]
    /\ wq = <<>>
    /\ kept = Candidates
    /\ pc = [c \in Candidates |-> "idle"]
    /\ myName \in [Candidates -> Names]
    /\ lkey = [c \in Candidates |-> FALSE]
    /\ lrev = [c \in Candidates |-> 0]
    /\ lses = [c \in Candidates |-> FALSE]
    /\ believes = [c \in Candidates |-> FALSE]
    /\ resignedOk = [c \in Candidates |-> FALSE]
    /\ ostate = "new"
    /\ ogo = "none"
    /\ closeCh = 0
    /\ octx = FALSE
    /\ obs = "none"
    /\ okey = NoCand
    /\ oval = NoName
    /\ CurTerm = NoCand
    /\ curLeader = NoName

-----------------------------------------------------------------------------
(* Writes.  Each takes one revision.                                       *)

PutNew(e, c, v) ==
    [e EXCEPT !.rev = @ + 1,
              !.keys = @ \cup {[owner |-> c, crt |-> e.rev + 1, val |-> v]}]
PutVal(e, c, v) ==
    [e EXCEPT !.rev = @ + 1,
              !.keys = {IF k.owner = c THEN [k EXCEPT !.val = v] ELSE k
                        : k \in @}]
Del(e, c) == [e EXCEPT !.rev = @ + 1, !.keys = @ \ KeyOf(e, c)]

\* Revoking a lease deletes its key, if any, and the lease.
RevokeLease(e, c) ==
    [(IF HasKey(e, c) THEN Del(e, c) ELSE e) EXCEPT !.live = @ \ {c}]

(* The watch Observe has open receives the write: in waitput the watch of  *)
(* the whole prefix, in send and watch the watch of okey (opened after the *)
(* send, from the revision after the one sent, so it replays this write).  *)
Watched(ev) == \/ obs = "waitput"
               \/ obs \in {"send", "watch"} /\ ev.owner = okey
Write(e, ev) == /\ kv' = e
                /\ wq' = IF Watched(ev) THEN Append(wq, ev) ELSE wq
NoWrite == UNCHANGED <<kv, wq>>

RevokeWrite(c) ==
    IF HasKey(kv, c) THEN Write(RevokeLease(kv, c), Ev("del", c, NoName))
    ELSE kv' = RevokeLease(kv, c) /\ UNCHANGED wq

\* The compare of Proclaim and Resign: CreateRevision(leaderKey) = leaderRev.
CmpOk(c) == lkey[c] /\ HasKey(kv, c) /\ KeyCrt(kv, c) = lrev[c]

\* Writes that keep the store revision within MaxRev.
CanWrite == kv.rev < MaxRev

(* Election.Resign: nothing when leaderSession is nil; otherwise delete    *)
(* the key if the compare holds (the transaction may fail), then reset     *)
(* leaderKey and leaderSession whatever happened.  (leaderRev is reset     *)
(* too: it is read only with a leaderKey.)                                 *)
ResignEffect(c, ok) ==
    IF ~lses[c] THEN UNCHANGED <<kv, wq, lkey, lrev, lses>>
    ELSE /\ IF ok /\ CmpOk(c) THEN Write(Del(kv, c), Ev("del", c, NoName))
            ELSE NoWrite
         /\ lkey' = [lkey EXCEPT ![c] = FALSE]
         /\ lrev' = [lrev EXCEPT ![c] = 0]
         /\ lses' = [lses EXCEPT ![c] = FALSE]

TxnOutcomes == IF TxnFail THEN BOOLEAN ELSE {TRUE}

-----------------------------------------------------------------------------
(* Candidate.Campaign (api.go:46-54), the transaction of                   *)
(* Election.Campaign: put the key if it does not exist (leaderRev is then  *)
(* the header revision, the key's create revision), else adopt it with its *)
(* create revision and proclaim myName if the value differs.  A failed     *)
(* transaction, or a put under a lease etcd no longer has, returns its     *)
(* error.                                                                  *)
CampaignTxn(c) ==
    /\ pc[c] = "idle"
    /\ CanWrite
    /\ believes' = [believes EXCEPT ![c] = FALSE]
    /\ resignedOk' = [resignedOk EXCEPT ![c] = FALSE]
    /\ \/ /\ TxnFail
          /\ UNCHANGED <<kv, wq, pc, lkey, lrev, lses>>
       \/ /\ ~HasKey(kv, c) /\ c \notin kv.live
          /\ UNCHANGED <<kv, wq, pc, lkey, lrev, lses>>
       \/ /\ ~HasKey(kv, c) /\ c \in kv.live
          /\ Write(PutNew(kv, c, myName[c]), Ev("put", c, myName[c]))
          /\ lkey' = [lkey EXCEPT ![c] = TRUE]
          /\ lrev' = [lrev EXCEPT ![c] = kv.rev + 1]
          /\ lses' = [lses EXCEPT ![c] = TRUE]
          /\ pc' = [pc EXCEPT ![c] = "wait"]
       \/ /\ HasKey(kv, c)
          /\ lkey' = [lkey EXCEPT ![c] = TRUE]
          /\ lrev' = [lrev EXCEPT ![c] = KeyCrt(kv, c)]
          /\ lses' = [lses EXCEPT ![c] = TRUE]
          /\ pc' = [pc EXCEPT ![c] = IF KeyVal(kv, c) = myName[c]
                                     THEN "wait" ELSE "cproclaim"]
          /\ NoWrite
    /\ UNCHANGED <<kept, myName>>
    /\ UNCHANGED obsVars

(* The Proclaim inside Election.Campaign; if it fails (its transaction,   *)
(* or its compare once the lease is lost and the key gone), Campaign calls *)
(* Resign(ctx) and returns the error.                                      *)
CampaignProclaim(c) ==
    /\ pc[c] = "cproclaim"
    /\ \/ /\ CmpOk(c) /\ CanWrite
          /\ Write(PutVal(kv, c, myName[c]), Ev("put", c, myName[c]))
          /\ pc' = [pc EXCEPT ![c] = "wait"]
          /\ UNCHANGED <<lkey, lrev, lses>>
       \/ /\ TxnFail \/ ~CmpOk(c)
          /\ \E ok \in TxnOutcomes : ResignEffect(c, ok)
          /\ pc' = [pc EXCEPT ![c] = "idle"]
    /\ UNCHANGED <<kept, myName, believes, resignedOk>>
    /\ UNCHANGED obsVars

(* waitDeletes(ctx, client, prefix, leaderRev - 1) returns once no key of  *)
(* the prefix has a create revision below leaderRev; Campaign returns nil  *)
(* and the caller leads.                                                   *)
CampaignWait(c) ==
    /\ pc[c] = "wait"
    /\ \A k \in kv.keys : k.crt > lrev[c] - 1
    /\ pc' = [pc EXCEPT ![c] = "idle"]
    /\ believes' = [believes EXCEPT ![c] = TRUE]
    /\ UNCHANGED <<kv, wq, kept, myName, lkey, lrev, lses, resignedOk>>
    /\ UNCHANGED obsVars

\* Mutant: Candidate.Campaign drops Election.Campaign's error and returns nil.
CampaignCancelNoErr(c) ==
    /\ pc[c] = "wait"
    /\ \E ok \in TxnOutcomes : ResignEffect(c, ok)
    /\ pc' = [pc EXCEPT ![c] = "idle"]
    /\ believes' = [believes EXCEPT ![c] = TRUE]
    /\ UNCHANGED <<kept, myName, resignedOk>>
    /\ UNCHANGED obsVars

(* The caller's ctx is done while waiting: Campaign calls                  *)
(* Resign(client.Ctx()) and returns ctx's error.                           *)
CampaignCancel(c) ==
    /\ pc[c] = "wait"
    /\ \E ok \in TxnOutcomes : ResignEffect(c, ok)
    /\ pc' = [pc EXCEPT ![c] = "idle"]
    /\ UNCHANGED <<kept, myName, believes, resignedOk>>
    /\ UNCHANGED obsVars

(* waitDeletes fails otherwise (a Get or a watch error): Campaign sets     *)
(* leaderSession to nil and returns the error; the key and leaderKey stay. *)
CampaignWaitErr(c) ==
    /\ WaitErr
    /\ pc[c] = "wait"
    /\ lses' = [lses EXCEPT ![c] = FALSE]
    /\ pc' = [pc EXCEPT ![c] = "idle"]
    /\ UNCHANGED <<kv, wq, kept, myName, lkey, lrev, believes, resignedOk>>
    /\ UNCHANGED obsVars

(* Candidate.Proclaim (api.go:58-67): c.myName is set first, then          *)
(* Election.Proclaim returns ErrElectionNotLeader without leaderSession,   *)
(* puts the new value if the compare holds (the transaction may fail), or, *)
(* when it does not (the key is gone with a lost lease), clears leaderKey  *)
(* and returns ErrElectionNotLeader.                                       *)
Proclaim(c) ==
    /\ pc[c] = "idle"
    /\ \E v \in Names :
          /\ myName' = [myName EXCEPT ![c] = v]
          /\ \/ /\ ~lses[c] \/ TxnFail
                /\ NoWrite /\ UNCHANGED lkey
             \/ /\ lses[c] /\ CmpOk(c) /\ CanWrite
                /\ Write(PutVal(kv, c, v), Ev("put", c, v))
                /\ UNCHANGED lkey
             \/ /\ lses[c] /\ ~CmpOk(c)
                /\ NoWrite
                /\ lkey' = [lkey EXCEPT ![c] = FALSE]
    /\ UNCHANGED <<kept, pc, lrev, lses, believes, resignedOk>>
    /\ UNCHANGED obsVars

(* Candidate.Resign (api.go:72-79): Election.Resign returns nil at once    *)
(* when leaderSession is nil; otherwise its transaction deletes the key    *)
(* (or fails) and the fields are reset.  The caller stops leading either   *)
(* way.                                                                    *)
Resign(c) ==
    /\ pc[c] = "idle"
    /\ \E ok \in TxnOutcomes :
          /\ ResignEffect(c, ok)
          /\ resignedOk' = [resignedOk EXCEPT ![c] = ~lses[c] \/ ok]
    /\ believes' = [believes EXCEPT ![c] = FALSE]
    /\ UNCHANGED <<kept, pc, myName>>
    /\ UNCHANGED obsVars

(* Candidate.Close (api.go:128-130): session.Close stops the keep-alive    *)
(* and revokes the lease, which may fail; the instance is not used again. *)
Close(c) ==
    /\ pc[c] = "idle"
    /\ kept' = kept \ {c}
    /\ \E ok \in TxnOutcomes :
          IF ok /\ c \in kv.live THEN RevokeWrite(c) ELSE NoWrite
    /\ pc' = [pc EXCEPT ![c] = "closed"]
    /\ believes' = [believes EXCEPT ![c] = FALSE]
    /\ UNCHANGED <<myName, lkey, lrev, lses, resignedOk>>
    /\ UNCHANGED obsVars

(* The keep-alive of c's session (started by concurrency.NewSession in    *)
(* Init) fails, and etcd expires the lease unrenewed, deleting c's key.    *)
(* Nothing in Candidate notices.  Failure and expiry are one step: until   *)
(* the expiry every action behaves as with a kept-alive session.           *)
LeaseLost(c) ==
    /\ c \in LeaseLoss
    /\ c \in kept
    /\ kept' = kept \ {c}
    /\ RevokeWrite(c)
    /\ UNCHANGED candVars
    /\ UNCHANGED obsVars

\* etcd expires a lease whose keep-alive stopped; its key is deleted.
LeaseExpire(c) ==
    /\ c \in kv.live \ kept
    /\ RevokeWrite(c)
    /\ UNCHANGED <<kept>>
    /\ UNCHANGED candVars
    /\ UNCHANGED obsVars

-----------------------------------------------------------------------------
(* The Observer.                                                           *)

(* Observer.Start (observer.go:48-77): derive ctxAlways, keep its          *)
(* cancel, and spawn the goroutine.                                        *)
Start ==
    /\ ostate = "new"
    /\ ostate' = "running"
    /\ ogo' = "start"
    /\ UNCHANGED <<kv, wq, kept, closeCh, octx, obs, okey, oval, CurTerm,
                   curLeader>>
    /\ UNCHANGED candVars

(* The goroutine's first statement: Election.Observe(ctxAlways) spawns the *)
(* Observe goroutine and returns its unbuffered channel respCh.            *)
ObserveCall ==
    /\ ogo = "start"
    /\ ogo' = "run"
    /\ obs' = "get"
    /\ UNCHANGED <<kv, wq, kept, ostate, closeCh, octx, okey, oval, CurTerm,
                   curLeader>>
    /\ UNCHANGED candVars

\* Observe's steps leave everything but its own state alone.
ObsUnchanged == UNCHANGED <<kv, kept, ostate, ogo, closeCh, octx, CurTerm,
                            curLeader>> /\ UNCHANGED candVars

\* Observe returns and closes respCh; its watch is gone.
ObsClose == obs' = "closed" /\ wq' = <<>> /\ okey' = NoCand /\ oval' = NoName

(* observe: Get the first-created key of the prefix.  An error returns     *)
(* (closing respCh); no key: watch the prefix from the Get's revision for  *)
(* the first put; a key: send it, then watch it from the revision after    *)
(* the Get's.                                                              *)
ObsGet ==
    /\ obs = "get"
    /\ ~octx
    /\ \/ /\ ObserveErr
          /\ ObsClose
       \/ /\ kv.keys = {}
          /\ obs' = "waitput"
          /\ wq' = <<>>
          /\ UNCHANGED <<okey, oval>>
       \/ /\ kv.keys # {}
          /\ obs' = "send"
          /\ okey' = FirstKey(kv).owner
          /\ oval' = FirstKey(kv).val
          /\ wq' = <<>>
    /\ ObsUnchanged

\* The index of the first put in a sequence of events.
FirstPut(q) == CHOOSE i \in 1..Len(q) :
                   q[i].type = "put" /\ \A j \in 1..(i - 1) : q[j].type # "put"

(* observe, no leader: the prefix watch delivers events in order and the   *)
(* first put is taken; its key is then watched from the revision after the *)
(* put.  A watch error returns.                                            *)
ObsWaitPut ==
    /\ obs = "waitput"
    /\ ~octx
    /\ \/ /\ ObserveErr
          /\ ObsClose
       \/ /\ \E i \in 1..Len(wq) : wq[i].type = "put"
          /\ LET i == FirstPut(wq)
                 ev == wq[i]
             IN /\ obs' = "send"
                /\ okey' = ev.owner
                /\ oval' = ev.val
                /\ wq' = SelectSeq(SubSeq(wq, i + 1, Len(wq)),
                                   LAMBDA f : f.owner = ev.owner)
    /\ ObsUnchanged

\* Mutant: on the leader key's delete the watch loop goes on waiting.
ObsWatchNoRestart ==
    /\ obs = "watch"
    /\ ~octx
    /\ wq # <<>>
    /\ Head(wq).type = "put"
    /\ obs' = "send"
    /\ oval' = Head(wq).val
    /\ wq' = Tail(wq)
    /\ UNCHANGED okey
    /\ ObsUnchanged

(* observe, a leader sent: the watch of its key delivers its events in     *)
(* order.  A put is sent on (a name proclaimed); the delete ends the       *)
(* leader and observe starts over with a Get; the watch channel closing    *)
(* returns.                                                                *)
ObsWatch ==
    /\ obs = "watch"
    /\ ~octx
    /\ \/ /\ ObserveErr
          /\ ObsClose
       \/ /\ wq # <<>>
          /\ Head(wq).type = "del"
          /\ obs' = "get"
          /\ wq' = <<>>
          /\ okey' = NoCand
          /\ oval' = NoName
       \/ /\ wq # <<>>
          /\ Head(wq).type = "put"
          /\ obs' = "send"
          /\ oval' = Head(wq).val
          /\ wq' = Tail(wq)
          /\ UNCHANGED okey
    /\ ObsUnchanged

(* ctxAlways is done: the send's select, the Get and the watches of        *)
(* observe all return, and respCh is closed.                               *)
ObsCtxDone ==
    /\ octx
    /\ obs \in {"get", "waitput", "send", "watch"}
    /\ ObsClose
    /\ ObsUnchanged

(* The goroutine's select takes info from respCh (the rendezvous with      *)
(* observe's send) and stores its key and value in CurTerm and curLeader.  *)
ObserverRecv ==
    /\ ogo = "run"
    /\ obs = "send"
    /\ obs' = "watch"
    /\ CurTerm' = okey
    /\ curLeader' = oval
    /\ UNCHANGED <<kv, wq, kept, ostate, ogo, closeCh, octx, okey, oval>>
    /\ UNCHANGED candVars

(* The goroutine's select takes ctxAlways.Done() or a value of closeCh and *)
(* returns.  (Its third case, a receive from a closed respCh, yields an    *)
(* empty response and changes nothing: the goroutine then spins.)         *)
ObserverExit ==
    /\ ogo = "run"
    /\ \/ /\ octx
          /\ UNCHANGED closeCh
       \/ /\ closeCh > 0
          /\ closeCh' = closeCh - 1
    /\ ogo' = "exited"
    /\ UNCHANGED <<kv, wq, kept, ostate, octx, obs, okey, oval, CurTerm,
                   curLeader>>
    /\ UNCHANGED candVars

(* Observer.Stop (observer.go:79-83): send on closeCh, cancel ctxAlways,   *)
(* close the Observer's session (which holds no election key).  Called     *)
(* once, after Start, so the send does not block.                          *)
Stop ==
    /\ ostate = "running"
    /\ ostate' = "stopped"
    /\ closeCh' = closeCh + 1
    /\ octx' = TRUE
    /\ UNCHANGED <<kv, wq, kept, ogo, obs, okey, oval, CurTerm, curLeader>>
    /\ UNCHANGED candVars

\* The context given to Start is cancelled by its owner.
ParentCancel ==
    /\ ostate = "running"
    /\ ~octx
    /\ octx' = TRUE
    /\ UNCHANGED <<kv, wq, kept, ostate, ogo, closeCh, obs, okey, oval,
                   CurTerm, curLeader>>
    /\ UNCHANGED candVars

-----------------------------------------------------------------------------
Next ==
    \/ \E c \in Candidates :
          \/ CampaignTxn(c) \/ CampaignProclaim(c) \/ CampaignWait(c)
          \/ CampaignCancel(c) \/ CampaignWaitErr(c)
          \/ Proclaim(c) \/ Resign(c) \/ Close(c) \/ LeaseLost(c)
          \/ LeaseExpire(c)
    \/ Start \/ ObserveCall \/ ObsGet \/ ObsWaitPut \/ ObsWatch
    \/ ObsCtxDone \/ ObserverRecv \/ ObserverExit \/ Stop \/ ParentCancel

Spec == Init /\ [][Next]_vars

(* Fairness: the Observer's goroutine and the Observe goroutine run while  *)
(* runnable (Go's scheduler), a Campaign whose keys are gone returns, and  *)
(* etcd expires a lease without keep-alive.  Callers, their contexts and   *)
(* the faults are not fair.                                                *)
FairSpec ==
    /\ Spec
    /\ WF_vars(ObserveCall) /\ WF_vars(ObsGet) /\ WF_vars(ObsWaitPut)
    /\ WF_vars(ObsWatch) /\ WF_vars(ObsCtxDone) /\ WF_vars(ObserverRecv)
    /\ WF_vars(ObserverExit)
    /\ \A c \in Candidates : WF_vars(CampaignWait(c)) /\ WF_vars(LeaseExpire(c))

-----------------------------------------------------------------------------
\* Candidate c with name v is the leader etcd reports.
LeaderIs(c, v) ==
    kv.keys # {} /\ FirstKey(kv).owner = c /\ FirstKey(kv).val = v

(* A Candidate whose Campaign returned nil, which has neither resigned    *)
(* nor closed since, and whose lease etcd still holds, owns the            *)
(* first-created key: it is the leader Election.Leader and                 *)
(* IsCurLeaderAtMe report.  About Candidate.Campaign returning nil only    *)
(* when Election.Campaign did (api.go:48-51), and the wait of Campaign     *)
(* (waitDeletes up to leaderRev - 1) against every other key, under failed *)
(* transactions, waits and keep-alives.  Once the lease is lost the key   *)
(* goes and the Candidate, told nothing, still believes it leads: the      *)
(* api.go:44-45 comment's "always maintained" does not hold then.          *)
BelievedLeaderHoldsKey ==
    \A c \in Candidates : (believes[c] /\ c \in kv.live) => FirstOwner(kv) = c

(* While the Observer runs, it catches up with a stable leader: whenever   *)
(* Candidate c with name v leads, eventually o.CurTerm and o.curLeader are *)
(* c and v, or c (with v) no longer leads, or the Observer is stopped.     *)
(* About observe's Get/watch loop feeding the goroutine of Start.          *)
ObserverConverges ==
    \A c \in Candidates, v \in Names :
        (LeaderIs(c, v) /\ ostate = "running" /\ ~octx)
            ~> \/ (CurTerm = c /\ curLeader = v)
               \/ ~LeaderIs(c, v)
               \/ octx

(* A Candidate whose Resign returned nil holds no key until it campaigns   *)
(* again: the api.go:69-71 comment says Resign gives up leadership.       *)
ResignReleases ==
    \A c \in Candidates : resignedOk[c] => ~HasKey(kv, c)

====
