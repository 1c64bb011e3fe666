------------------------------- MODULE Connector ------------------------------
(***************************************************************************)
(* The transaction-crafting engine of the bitcoind connector               *)
(* (src/bitcoind/tx.go): craftTransaction run by concurrent callers, the   *)
(* syncUnspent cache refresh, the two mutexes that guard them, and the     *)
(* bitcoind node they drive through RPC (listunspent, lockunspent,         *)
(* getnewaddress, createrawtransaction, sendrawtransaction).               *)
(*                                                                         *)
(* Go mutexes are modelled as a bit: Lock waits for it to be clear,        *)
(* Unlock clears it whoever set it, and Unlock of a clear mutex is the Go  *)
(* runtime's fatal error, which kills the process.  A killed process       *)
(* restarts with an empty (nil) cache and free mutexes; the node keeps its *)
(* locks and its unspent outputs.  Every node RPC may fail.                *)
(***************************************************************************)
EXTENDS CoinSelect

CONSTANTS
  TxOf,            \* TxOf[o]: id of the transaction that created output o
  InitialUnspent,  \* outputs confirmed and unspent at the node at start
  Callers,         \* goroutines calling craftTransaction
  Syncers,         \* goroutines calling syncUnspent outside craftTransaction
  Payments,        \* amounts a caller may request
  FeeRates,        \* fee rates (per weight unit) a caller may pass
  MaxCrafts,       \* bound on the number of craftTransaction calls
  MaxKills,        \* bound on the number of external process kills
  Nil              \* the nil map

ASSUME DOMAIN TxOf = Outputs /\ InitialUnspent \subseteq Outputs
ASSUME Callers \cap Syncers = {}
ASSUME MaxCrafts \in Nat /\ MaxKills \in Nat

VARIABLES
  nodeUnspent,    \* outputs of the wallet with enough confirmations, unspent
  nodeSpent,      \* outputs spent by a transaction the node accepted
  nodeLocked,     \* outputs locked with lockunspent
  unspent,        \* c.unspent: map TxID -> output, or Nil
  unspentSyncMtx, \* c.unspentSyncMtx is locked
  coinSelectMtx,  \* c.coinSelectMtx is locked
  pc,             \* program point of every goroutine
  req,            \* per caller: amount and fee rate of the current call
  sel,            \* per caller: the coinSelect result of the current call
  toLock,         \* per caller: selected outputs not locked yet
  txs,            \* transactions craftTransaction returned, in order
  proc,           \* "running", or why the process is down: "fatal", "killed"
  crafts,         \* craftTransaction calls made so far
  kills           \* external kills so far

node   == <<nodeUnspent, nodeSpent, nodeLocked>>
locals == <<req, sel, toLock>>
vars   == <<node, unspent, unspentSyncMtx, coinSelectMtx, pc, locals, txs,
            proc, crafts, kills>>

TxIds == {TxOf[o] : o \in Outputs}

NoReq == [amt |-> 0, rate |-> 0]
NoSel == [status |-> "none", inputs |-> {}, change |-> 0, fee |-> 0,
          rounds |-> 0, needed |-> 0, available |-> 0]

\* The outputs the cached map holds; ranging over a nil map sees nothing.
Cached == IF unspent = Nil THEN {} ELSE Range(unspent)

(***************************************************************************)
(* syncUnspent: listunspent(MinConfirmations, MaxInt32) returns the        *)
(* confirmed, unspent, unlocked outputs in an order the code does not      *)
(* control, and c.unspent[u.TxID] = u keeps, for each transaction id, the  *)
(* last of its outputs in that order.                                      *)
(***************************************************************************)
ListUnspent == nodeUnspent \ nodeLocked

SyncedMaps ==
  LET L == ListUnspent
  IN  {f \in [{TxOf[o] : o \in L} -> L] : \A t \in DOMAIN f : TxOf[f[t]] = t}

Goto(self, label) == pc' = [pc EXCEPT ![self] = label]

\* Mutant: an error path returns without c.coinSelectMtx.Unlock().
ReturnKeepingMutex(self) ==
  /\ Goto(self, "idle")
  /\ UNCHANGED coinSelectMtx
  /\ req'    = [req    EXCEPT ![self] = NoReq]
  /\ sel'    = [sel    EXCEPT ![self] = NoSel]
  /\ toLock' = [toLock EXCEPT ![self] = {}]

\* Return from craftTransaction: the deferred c.coinSelectMtx.Unlock()
\* runs and the call's locals die.
Return(self) ==
  /\ Goto(self, "idle")
  /\ coinSelectMtx' = FALSE
  /\ req'    = [req    EXCEPT ![self] = NoReq]
  /\ sel'    = [sel    EXCEPT ![self] = NoSel]
  /\ toLock' = [toLock EXCEPT ![self] = {}]

\* "fatal error: sync: unlock of unlocked mutex": the process dies.
Fatal == proc' = "fatal"

Running == proc = "running"

\* The GeneratedTransaction a call returns: the inputs and the amounts of the
\* raw transaction it wraps; its ID is its index in txs.  state follows the
\* caller's broadcast.
GeneratedTransaction(inputs, amt, fee, change) ==
  [inputs |-> inputs, amt |-> amt, fee |-> fee, change |-> change,
   state |-> "pending"]

\* delete(c.unspent, input.TxID) for every selected input; deleting from a
\* nil map does nothing.
DeleteSpent(self) ==
  unspent' = IF unspent = Nil THEN Nil
             ELSE Restrict(unspent, DOMAIN unspent \ {TxOf[o] : o \in sel[self].inputs})

(***************************************************************************)
(* craftTransaction, one action per step between which another goroutine  *)
(* or the node can act.                                                    *)
(***************************************************************************)
GenerateTransaction(self) ==
  /\ Running
  /\ pc[self] = "idle"
  /\ crafts < MaxCrafts
  /\ \E a \in Payments, f \in FeeRates :
       req' = [req EXCEPT ![self] = [amt |-> a, rate |-> f]]
  /\ crafts' = crafts + 1
  /\ Goto(self, "acquire")
  /\ UNCHANGED <<node, unspent, unspentSyncMtx, coinSelectMtx, sel, toLock,
                 txs, proc, kills>>

\* Mutant: the call does not wait for c.coinSelectMtx.
AcquireCoinSelectUnguarded(self) ==
  /\ Running
  /\ pc[self] = "acquire"
  /\ coinSelectMtx' = TRUE
  /\ Goto(self, "unlockAll")
  /\ UNCHANGED <<node, unspent, unspentSyncMtx, locals, txs, proc, crafts, kills>>

\* Mutant: LockUnspent(false, nil), the unlock flag inverted: no lock is
\* released.
UnlockAllInverted(self) ==
  /\ Running
  /\ pc[self] = "unlockAll"
  /\ \/ /\ Goto(self, "checkCache")
        /\ UNCHANGED <<coinSelectMtx, locals>>
     \/ Return(self)
  /\ UNCHANGED <<nodeUnspent, nodeSpent, nodeLocked, unspent, unspentSyncMtx,
                 txs, proc, crafts, kills>>

\* c.coinSelectMtx.Lock()
AcquireCoinSelect(self) ==
  /\ Running
  /\ pc[self] = "acquire"
  /\ ~ coinSelectMtx
  /\ coinSelectMtx' = TRUE
  /\ Goto(self, "unlockAll")
  /\ UNCHANGED <<node, unspent, unspentSyncMtx, locals, txs, proc, crafts, kills>>

\* c.client.LockUnspent(true, nil): release every lock the node holds.  On
\* an error the call returns, whether or not the node released them.
UnlockAll(self) ==
  /\ Running
  /\ pc[self] = "unlockAll"
  /\ \/ /\ nodeLocked' = {}
        /\ Goto(self, "checkCache")
        /\ UNCHANGED <<coinSelectMtx, locals>>
     \/ /\ Return(self)
        /\ nodeLocked' \in {nodeLocked, {}}
  /\ UNCHANGED <<nodeUnspent, nodeSpent, unspent, unspentSyncMtx, txs, proc,
                 crafts, kills>>

\* Lock the cache mutex and test c.unspent == nil.  Both branches unlock
\* it again before the next step (line 129, or line 135 when not nil).
CheckCache(self) ==
  /\ Running
  /\ pc[self] = "checkCache"
  /\ ~ unspentSyncMtx
  /\ Goto(self, IF unspent = Nil THEN "sync" ELSE "select")
  /\ UNCHANGED <<node, unspent, unspentSyncMtx, coinSelectMtx, locals, txs,
                 proc, crafts, kills>>

\* c.syncUnspent() called by craftTransaction: it locks and unlocks the
\* cache mutex itself, around the listunspent RPC.
SyncInCraft(self) ==
  /\ Running
  /\ pc[self] = "sync"
  /\ ~ unspentSyncMtx
  /\ \/ /\ unspent' \in SyncedMaps
        /\ Goto(self, "unlockCache")
        /\ UNCHANGED <<coinSelectMtx, locals>>
     \/ /\ Return(self)
        /\ UNCHANGED unspent
  /\ UNCHANGED <<node, unspentSyncMtx, txs, proc, crafts, kills>>

\* Line 135 after a sync: c.unspentSyncMtx.Unlock() a second time.  It
\* releases the mutex if another goroutine holds it, and is fatal if not.
UnlockCacheAgain(self) ==
  /\ Running
  /\ pc[self] = "unlockCache"
  /\ IF unspentSyncMtx
     THEN /\ unspentSyncMtx' = FALSE
          /\ Goto(self, "select")
          /\ UNCHANGED proc
     ELSE /\ Fatal
          /\ UNCHANGED <<unspentSyncMtx, pc>>
  /\ UNCHANGED <<node, unspent, coinSelectMtx, locals, txs, crafts, kills>>

\* coinSelect over c.unspent under the cache mutex.
SelectCoins(self) ==
  /\ Running
  /\ pc[self] = "select"
  /\ ~ unspentSyncMtx
  /\ \E r \in coinSelect(req[self].rate, req[self].amt, Cached) :
       IF r.status = "ok"
       THEN /\ sel'    = [sel    EXCEPT ![self] = r]
            /\ toLock' = [toLock EXCEPT ![self] = r.inputs]
            /\ Goto(self, "lockInputs")
            /\ UNCHANGED <<coinSelectMtx, req>>
       ELSE Return(self)
  /\ UNCHANGED <<node, unspent, unspentSyncMtx, txs, proc, crafts, kills>>

\* c.client.LockUnspent(false, [outpoint]) for one selected input.  The node
\* refuses an output that is not unspent; any RPC may fail.  A failure
\* returns and leaves the inputs locked so far locked.  The error may come
\* after the node applied the lock (a timeout or a lost reply), which leaves
\* one more lock behind.
LockInput(self) ==
  /\ Running
  /\ pc[self] = "lockInputs"
  /\ \E o \in toLock[self] :
       \/ /\ o \in nodeUnspent
          /\ nodeLocked' = nodeLocked \cup {o}
          /\ toLock' = [toLock EXCEPT ![self] = @ \ {o}]
          /\ Goto(self, IF toLock'[self] = {} THEN "build" ELSE "lockInputs")
          /\ UNCHANGED <<coinSelectMtx, req, sel>>
       \/ /\ Return(self)
          /\ \/ UNCHANGED nodeLocked
             \/ /\ o \in nodeUnspent
                /\ nodeLocked' = nodeLocked \cup {o}
  /\ UNCHANGED <<nodeUnspent, nodeSpent, unspent, unspentSyncMtx, txs, proc,
                 crafts, kills>>

\* Mutant: the spent entries are deleted from c.unspent before the RPCs
\* that build the transaction, which may still fail.
BuildTransactionDeleteFirst(self) ==
  /\ Running
  /\ pc[self] = "build"
  /\ DeleteSpent(self)
  /\ \/ /\ Goto(self, "remove")
        /\ UNCHANGED <<coinSelectMtx, locals>>
     \/ Return(self)
  /\ UNCHANGED <<node, unspentSyncMtx, txs, proc, crafts, kills>>

\* GetNewAddress for a non-zero change, then CreateRawTransaction; either
\* RPC may fail, which returns with nothing else changed.
BuildTransaction(self) ==
  /\ Running
  /\ pc[self] = "build"
  /\ \/ /\ Goto(self, "remove")
        /\ UNCHANGED <<coinSelectMtx, locals>>
     \/ Return(self)
  /\ UNCHANGED <<node, unspent, unspentSyncMtx, txs, proc, crafts, kills>>

\* Delete the selected inputs from c.unspent by TxID and return the
\* transaction to the caller.
RemoveSpent(self) ==
  /\ Running
  /\ pc[self] = "remove"
  /\ ~ unspentSyncMtx
  /\ DeleteSpent(self)
  /\ txs' = Append(txs, GeneratedTransaction(sel[self].inputs, req[self].amt,
                                             sel[self].fee, sel[self].change))
  /\ Return(self)
  /\ UNCHANGED <<node, unspentSyncMtx, proc, crafts, kills>>

(***************************************************************************)
(* syncUnspent called outside craftTransaction.  The RPC runs with the     *)
(* cache mutex held; the deferred Unlock is fatal if another goroutine's   *)
(* Unlock already cleared it.                                              *)
(***************************************************************************)
SyncLock(self) ==
  /\ Running
  /\ pc[self] = "idle"
  /\ ~ unspentSyncMtx
  /\ unspentSyncMtx' = TRUE
  /\ Goto(self, "listing")
  /\ UNCHANGED <<node, unspent, coinSelectMtx, locals, txs, proc, crafts, kills>>

SyncList(self) ==
  /\ Running
  /\ pc[self] = "listing"
  /\ \/ unspent' \in SyncedMaps
     \/ UNCHANGED unspent
  /\ IF unspentSyncMtx
     THEN /\ unspentSyncMtx' = FALSE
          /\ Goto(self, "idle")
          /\ UNCHANGED proc
     ELSE /\ Fatal
          /\ UNCHANGED <<unspentSyncMtx, pc>>
  /\ UNCHANGED <<node, coinSelectMtx, locals, txs, crafts, kills>>

(***************************************************************************)
(* The environment: the node confirms new outputs, callers broadcast the   *)
(* transactions they were given, the process is killed and restarted.     *)
(***************************************************************************)
ReceiveOutput ==
  /\ \E o \in Outputs \ (nodeUnspent \cup nodeSpent) :
       nodeUnspent' = nodeUnspent \cup {o}
  /\ UNCHANGED <<nodeSpent, nodeLocked, unspent, unspentSyncMtx, coinSelectMtx,
                 pc, locals, txs, proc, crafts, kills>>

\* SendTransaction: the node accepts a transaction whose inputs are all
\* unspent and rejects it otherwise.
SendTransaction(i) ==
  /\ Running
  /\ txs[i].state = "pending"
  /\ IF txs[i].inputs \subseteq nodeUnspent
     THEN /\ nodeUnspent' = nodeUnspent \ txs[i].inputs
          /\ nodeSpent'   = nodeSpent \cup txs[i].inputs
          /\ txs' = [txs EXCEPT ![i].state = "sent"]
     ELSE /\ txs' = [txs EXCEPT ![i].state = "rejected"]
          /\ UNCHANGED <<nodeUnspent, nodeSpent>>
  /\ UNCHANGED <<nodeLocked, unspent, unspentSyncMtx, coinSelectMtx, pc, locals,
                 proc, crafts, kills>>

Kill ==
  /\ Running
  /\ kills < MaxKills
  /\ proc' = "killed"
  /\ kills' = kills + 1
  /\ UNCHANGED <<node, unspent, unspentSyncMtx, coinSelectMtx, pc, locals, txs,
                 crafts>>

\* A new process: nil cache, free mutexes, no call in progress.
Restart ==
  /\ ~ Running
  /\ proc' = "running"
  /\ unspent' = Nil
  /\ unspentSyncMtx' = FALSE
  /\ coinSelectMtx' = FALSE
  /\ pc' = [g \in Callers \cup Syncers |-> "idle"]
  /\ req' = [c \in Callers |-> NoReq]
  /\ sel' = [c \in Callers |-> NoSel]
  /\ toLock' = [c \in Callers |-> {}]
  /\ UNCHANGED <<node, txs, crafts, kills>>

Init ==
  /\ nodeUnspent = InitialUnspent
  /\ nodeSpent = {}
  /\ nodeLocked = {}
  /\ unspent = Nil
  /\ unspentSyncMtx = FALSE
  /\ coinSelectMtx = FALSE
  /\ pc = [g \in Callers \cup Syncers |-> "idle"]
  /\ req = [c \in Callers |-> NoReq]
  /\ sel = [c \in Callers |-> NoSel]
  /\ toLock = [c \in Callers |-> {}]
  /\ txs = <<>>
  /\ proc = "running"
  /\ crafts = 0
  /\ kills = 0

CraftStep(self) ==
  \/ GenerateTransaction(self)
  \/ AcquireCoinSelect(self)
  \/ UnlockAll(self)
  \/ CheckCache(self)
  \/ SyncInCraft(self)
  \/ UnlockCacheAgain(self)
  \/ SelectCoins(self)
  \/ LockInput(self)
  \/ BuildTransaction(self)
  \/ RemoveSpent(self)

Next ==
  \/ \E c \in Callers : CraftStep(c)
  \/ \E s \in Syncers : SyncLock(s) \/ SyncList(s)
  \/ ReceiveOutput
  \/ \E i \in DOMAIN txs : SendTransaction(i)
  \/ Kill
  \/ Restart

Spec == Init /\ [][Next]_vars

(***************************************************************************)
(* Fairness.  A goroutine blocked in Mutex.Lock gets the mutex if it is    *)
(* free infinitely often (Go mutexes switch to FIFO hand-off when a waiter *)
(* starves), and every other step of a running call, an RPC included,      *)
(* eventually completes.  A call is at one program point at a time, so one *)
(* strong fairness condition over the steps of a call in progress says     *)
(* both.  A sync in progress finishes (weak fairness).  Nothing forces a   *)
(* caller to call, a syncer to start a sync, the node to confirm outputs,  *)
(* or the process to be killed or restarted.                              *)
(***************************************************************************)
CallInProgress(self) == CraftStep(self) /\ pc[self] # "idle"

Fairness ==
  /\ \A c \in Callers : SF_vars(CallInProgress(c))
  /\ \A s \in Syncers : WF_vars(SyncList(s))

FairSpec == Spec /\ Fairness

(***************************************************************************)
(* Properties                                                              *)
(***************************************************************************)
\* Calls past c.coinSelectMtx.Lock() that have selected coins.
Selecting == {"lockInputs", "build", "remove"}

\* Spec I2: an output never appears in the selections of two
\* craftTransaction calls in flight at the same time (the coin select
\* mutex serialises select, lock and build).
InFlightSelectionsDisjoint ==
  \A c1, c2 \in Callers :
    c1 # c2 /\ pc[c1] \in Selecting /\ pc[c2] \in Selecting =>
      sel[c1].inputs \cap sel[c2].inputs = {}

\* Locks at the node left by a killed process or a failed call are swept
\* by the LockUnspent(true, nil) at the start of the next call: once a
\* call has passed it, every output locked at the node is one that this
\* call has locked itself.
NodeLocksOwnedByCurrentCraft ==
  \A c \in Callers :
    pc[c] \in {"checkCache", "sync", "unlockCache", "select"} \cup Selecting =>
      nodeLocked \subseteq sel[c].inputs \ toLock[c]

\* Every craftTransaction call eventually returns, unless the process
\* dies: no goroutine waits forever on either mutex.
CraftCompletes ==
  \A c \in Callers : pc[c] # "idle" ~> (pc[c] = "idle" \/ ~ Running)

\* The process never reaches Go's fatal "unlock of unlocked mutex".
NoUnlockOfUnlockedMutex == proc # "fatal"

\* Spec 4.1: a sync replaces the cache by exactly the node's confirmed,
\* unlocked, unspent outputs.
SyncMirrorsNode ==
  [][\A g \in Callers \cup Syncers :
       (SyncInCraft(g) \/ SyncList(g)) /\ unspent' # unspent =>
         Range(unspent') = ListUnspent]_vars

(***************************************************************************)
(* Refinement.  Every step of craftTransaction but the return stutters on  *)
(* the node's outputs and the returned transactions; the return is one     *)
(* atomic Craft of CraftSpec, the node's steps are its Confirm and         *)
(* Broadcast.  The mapping is the identity on nodeUnspent, nodeSpent and   *)
(* txs; locks, the cache and the goroutines are hidden.                    *)
(***************************************************************************)
ReservingCraft == INSTANCE CraftSpec

\* Spec sections 4.4 and 8: craftTransaction behaves as an atomic craft
\* that reserves its inputs: each returned transaction spends unspent
\* outputs that no returned, not yet broadcast transaction spends.
ImplementsReservingCraft == ReservingCraft!Spec

\* Spec 4.1: the cache is lazily populated, "if empty when a selection is
\* requested, the Orchestrator triggers sync()": craftTransaction never runs
\* coinSelect over an empty cache while the node lists unlocked, unspent
\* outputs (the code tests c.unspent == nil, tx.go 128).
EmptyCacheIsResynced ==
  [][\A c \in Callers : SelectCoins(c) /\ Cached = {} => ListUnspent = {}]_vars

\* Spec 4.1: remove(ids...) deletes the entries of the consumed outputs,
\* an output's identity being (txid, index): the delete loop of
\* craftTransaction (tx.go 196-200) takes out of the cache only outputs the
\* call selected, even when a background sync has refilled the cache since
\* the selection.
RemoveEvictsOnlySpent ==
  [][\A c \in Callers : RemoveSpent(c) => Cached \ Cached' \subseteq sel[c].inputs]_vars

\* Spec section 7: "a failed craft must not have mutated the Cache (removal
\* happens only after successful raw-transaction assembly)".  Outside a
\* sync, an output leaves c.unspent only on the step where a call returns
\* a transaction: no step of a call that may still fail (a lock, the
\* change address, the raw transaction) deletes from the cache.
RemovalOnlyAfterAssembly ==
  [][Running /\ Cached \ Cached' # {} =>
       \/ Len(txs') = Len(txs) + 1
       \/ \E g \in Callers \cup Syncers : SyncInCraft(g) \/ SyncList(g)]_vars

=============================================================================
