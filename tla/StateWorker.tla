---------------------------- MODULE StateWorker -----------------------------
(***************************************************************************)
(* The always-on worker of the router service (apps/router): it subscribes   *)
(* to every pool, loads a snapshot of all of them, and serves their state to *)
(* the quote engine while every pool is synced and none is stale.            *)
(*                                                                           *)
(* The chain and the node are external.  What an account held is kept as the *)
(* slot it was read at: state as of slot s shows every change up to s.  A    *)
(* change may also leave an account closed, so that a snapshot has no row    *)
(* for it, or with data its venue's reader cannot decode: it is broken then, *)
(* until a change it can be read after.                                      *)
(* Updates reach the worker in any order; a connection that drops loses      *)
(* those under way.  A snapshot is two calls, the slot and then the rows.    *)
(***************************************************************************)
EXTENDS Integers

CONSTANTS
    Pools,       \* the enabled pools of the registry
    Loads,       \* bound: snapshots that may be under way at once
    StaleAfter,  \* staleAfterSlots
    MaxSlot,     \* bound: the chain's last slot
    MaxDrops     \* bound: lost connections and updates, failed loads, broken accounts

ASSUME WorkerAssumption == StaleAfter \in Nat /\ MaxSlot \in Nat /\ MaxDrops \in Nat

VARIABLES
    chain,   \* the slot, the slots each account changed in and was broken by
    feed,    \* the subscription: its connection and the updates under way
    worker,  \* memory of the process
    drops    \* drops so far

workerVars == <<chain, feed, worker, drops>>

Slot == 0..MaxSlot
NoSlot == -1
NoState == [slot |-> NoSlot, asOf |-> NoSlot]
NoLoad == [stage |-> "none", slot |-> NoSlot, asOf |-> NoSlot]
NoFeed == [connected |-> FALSE, since |-> NoSlot, mail |-> {}, missed |-> FALSE]
NoWorker ==
    [health |-> "off", ready |-> FALSE, synced |-> {}, syncSlot |-> NoSlot,
     currentSlot |-> NoSlot, store |-> [p \in Pools |-> NoState],
     loads |-> [l \in Loads |-> NoLoad]]

Update == [pool : Pools, slot : Slot]
MaybeSlot == Slot \cup {NoSlot}
Load == [stage : {"none", "slot", "rows", "back"}, slot : MaybeSlot, asOf : MaybeSlot]
Memory ==
    [health : {"off", "starting", "live", "failed"}, ready : BOOLEAN, synced : SUBSET Pools,
     syncSlot : MaybeSlot, currentSlot : MaybeSlot,
     store : [Pools -> [slot : MaybeSlot, asOf : MaybeSlot]], loads : [Loads -> Load]]
\* Chain, subscription and memory hold what their types say.
WorkerTypeOK ==
    /\ chain \in [slot : Slot, changed : [Pools -> SUBSET Slot], broken : [Pools -> SUBSET Slot]]
    /\ feed \in [connected : BOOLEAN, since : MaybeSlot, mail : SUBSET Update, missed : BOOLEAN]
    /\ worker \in Memory
    /\ drops \in 0..MaxDrops

WorkerInit ==
    /\ chain = [slot |-> 0, changed |-> [p \in Pools |-> {}], broken |-> [p \in Pools |-> {}]]
    /\ feed = NoFeed
    /\ worker = NoWorker
    /\ drops = 0

Later(s, t) == IF s > t THEN s ELSE t
Drop == drops < MaxDrops /\ drops' = drops + 1

\* MemoryStateStore.set: an older update never replaces a newer one.
Stored(old, slot, asOf) ==
    IF old.slot > slot THEN old ELSE [slot |-> slot, asOf |-> asOf]
\* setCurrentSlot and evaluateReadiness, after the state of pools P is in.
Judged(w, P, slot) ==
    [w EXCEPT !.synced = @ \cup P,
              !.currentSlot = Later(slot, @),
              !.ready = feed.connected /\ w.synced \cup P = Pools]

-----------------------------------------------------------------------------
(* The chain and the subscription                                           *)

\* What p held at slot t is there and its reader decodes it: what broke it by
\* then is past.
Readable(p, t) ==
    LET broken == {b \in chain.broken[p] : b =< t}
    IN  \/ broken = {}
        \/ \E c \in chain.changed[p] \ chain.broken[p] : c =< t /\ \A b \in broken : b < c

\* The slots f has of each pool, and the next one for the pools in P.
With(f, P) == [p \in Pools |-> IF p \in P THEN f[p] \cup {chain.slot + 1} ELSE f[p]]

\* The next slot changes the accounts in P and breaks those in B; the feed
\* has news of each.
NewSlot(P, B) ==
    /\ chain.slot < MaxSlot
    /\ chain' = [slot |-> chain.slot + 1, changed |-> With(chain.changed, P),
                 broken |-> With(chain.broken, B)]
    /\ feed' = [feed EXCEPT !.mail = IF feed.connected
                                     THEN @ \cup {[pool |-> p, slot |-> chain.slot + 1] : p \in P}
                                     ELSE @]
    /\ IF B = {} THEN UNCHANGED drops ELSE Drop
    /\ UNCHANGED worker

\* resync: not ready, nothing synced, a load under way.
Resync(w, l) ==
    /\ w.loads[l].stage = "none"
    /\ worker' = [w EXCEPT !.ready = FALSE, !.synced = {},
                           !.loads[l] = [NoLoad EXCEPT !.stage = "slot"]]

Connection == [connected |-> TRUE, since |-> chain.slot, mail |-> {}, missed |-> FALSE]

\* start: the stream's own "connected" finds no sync yet and does nothing.
StartWorker(l) ==
    /\ worker.health = "off"
    /\ feed' = Connection
    /\ Resync([worker EXCEPT !.health = "starting"], l)
    /\ UNCHANGED <<chain, drops>>

Disconnect ==
    /\ feed.connected
    /\ Drop
    /\ feed' = [feed EXCEPT !.connected = FALSE, !.mail = {}]
    /\ worker' = [worker EXCEPT !.ready = FALSE]
    /\ UNCHANGED chain

\* A reconnection asks for a resync, but not before the first one is through.
Connect(l) ==
    /\ worker.health # "off" /\ ~feed.connected
    /\ feed' = [Connection EXCEPT !.missed = worker.syncSlot = NoSlot]
    /\ IF worker.syncSlot = NoSlot THEN UNCHANGED worker ELSE Resync(worker, l)
    /\ UNCHANGED <<chain, drops>>

\* The library under SolanaWebSocketStream resubscribes on its own and tells
\* nobody.
Glitch ==
    /\ feed.connected
    /\ Drop
    /\ feed' = [feed EXCEPT !.mail = {}, !.missed = TRUE]
    /\ UNCHANGED <<chain, worker>>

-----------------------------------------------------------------------------
(* Updates, slots and snapshots                                             *)

\* Memory once the state of m is in: stored, m's pool synced, m's slot known.
Heard(m, state) == Judged([worker EXCEPT !.store[m.pool] = state], {m.pool}, m.slot)

\* ingest's decode-error path: nothing is stored and nothing synced, but the
\* slot counts and readiness is judged.
Undecoded(m) == m.slot \in chain.broken[m.pool] /\ worker' = Judged(worker, {}, m.slot)

\* Wrong on purpose: the update that came last wins.
MutantHearUpdate(m) ==
    /\ m \in feed.mail
    /\ feed' = [feed EXCEPT !.mail = @ \ {m}]
    /\ \/ Undecoded(m)
       \/ /\ m.slot \notin chain.broken[m.pool]
          /\ worker' = Heard(m, [slot |-> m.slot, asOf |-> m.slot])
    /\ UNCHANGED <<chain, drops>>

\* onStream "update": the state goes in unless a later one is there.
HearUpdate(m) ==
    /\ m \in feed.mail
    /\ feed' = [feed EXCEPT !.mail = @ \ {m}]
    /\ \/ Undecoded(m)
       \/ /\ m.slot \notin chain.broken[m.pool]
          /\ worker' = Heard(m, Stored(worker.store[m.pool], m.slot, m.slot))
    /\ UNCHANGED <<chain, drops>>

HearSlot(s) ==
    /\ feed.connected /\ worker.currentSlot < s /\ s =< chain.slot
    /\ worker' = [worker EXCEPT !.currentSlot = s]
    /\ UNCHANGED <<chain, feed, drops>>

LoadSlot(l) ==
    /\ worker.loads[l].stage = "slot"
    /\ worker' = [worker EXCEPT !.loads[l] = [@ EXCEPT !.stage = "rows", !.slot = chain.slot]]
    /\ UNCHANGED <<chain, feed, drops>>

LoadRows(l) ==
    /\ worker.loads[l].stage = "rows"
    /\ worker' = [worker EXCEPT !.loads[l] = [@ EXCEPT !.stage = "back", !.asOf = chain.slot]]
    /\ UNCHANGED <<chain, feed, drops>>

\* The pools whose row has an account that decodes; the others are skipped.
Decoded(l) == {p \in Pools : Readable(p, worker.loads[l].asOf)}

\* maxSlot: the slot asked for, unless no row had an account at all.
Learnt(l) == {worker.loads[l].slot} \cup (IF Decoded(l) = {} THEN {0} ELSE {})

\* The rows seen go in under the slot that was asked before them.
Snapshot(l, slot) ==
    LET asOf == worker.loads[l].asOf
    IN  [worker EXCEPT !.store = [p \in Pools |-> IF p \in Decoded(l)
                                                  THEN Stored(worker.store[p], slot, asOf)
                                                  ELSE worker.store[p]],
                       !.loads[l] = NoLoad, !.syncSlot = slot, !.health = "live"]

\* Wrong on purpose: the rows are labelled with the slot they came back in.
MutantLoadReturn(l) ==
    /\ worker.loads[l].stage = "back"
    /\ worker' = Judged(Snapshot(l, chain.slot), Decoded(l), chain.slot)
    /\ UNCHANGED <<chain, feed, drops>>
\* Wrong on purpose: readiness is left to the next update.
MutantUnjudged(l) ==
    /\ worker.loads[l].stage = "back"
    /\ worker' = [Snapshot(l, worker.loads[l].slot) EXCEPT !.synced = @ \cup Decoded(l)]
    /\ UNCHANGED <<chain, feed, drops>>

\* A pool without a row that decodes stays unsynced, and keeps the worker
\* not ready until an update of it does.
LoadReturn(l) ==
    /\ worker.loads[l].stage = "back"
    /\ \E slot \in Learnt(l) : worker' = Judged(Snapshot(l, slot), Decoded(l), slot)
    /\ UNCHANGED <<chain, feed, drops>>

\* The first load's failure is caught and the service stays down; nobody
\* catches a later one, and the process ends.
LoadFail(l) ==
    /\ worker.loads[l].stage # "none"
    /\ Drop
    /\ IF worker.health = "starting"
         THEN /\ worker' = [worker EXCEPT !.loads[l] = NoLoad, !.health = "failed"]
              /\ UNCHANGED feed
         ELSE worker' = NoWorker /\ feed' = NoFeed
    /\ UNCHANGED chain

-----------------------------------------------------------------------------
LoadStep(l) ==
    StartWorker(l) \/ LoadSlot(l) \/ LoadRows(l) \/ LoadReturn(l) \/ Connect(l)

WorkerNext ==
    \/ \E P \in SUBSET Pools : \E B \in SUBSET P : NewSlot(P, B)
    \/ Disconnect \/ Glitch
    \/ \E m \in feed.mail : HearUpdate(m)
    \/ \E s \in Slot : HearSlot(s)
    \/ \E l \in Loads : LoadStep(l) \/ LoadFail(l)

WorkerSpec == WorkerInit /\ [][WorkerNext]_workerVars

\* The process is started, a provider reconnects and calls are answered.
WorkerProgress == \E l \in Loads : LoadStep(l)

-----------------------------------------------------------------------------
\* stateFor answers for p.
Serves(p) ==
    /\ worker.ready /\ worker.store[p].slot # NoSlot
    /\ worker.currentSlot - worker.store[p].slot =< StaleAfter

\* "null when not ready or stale" (stateFor): what is served of a pool shows
\* every change up to StaleAfter slots before the slot the worker knows, in
\* whatever order the snapshot's two calls and the updates came.
ServedIsRecent ==
    \A p \in Pools : Serves(p) =>
        \A c \in chain.changed[p] :
            c =< worker.currentSlot - StaleAfter => c =< worker.store[p].asOf

\* Once all that was sent is in, the store is the chain for every pool whose
\* account can be read, unless updates were lost that no resync followed:
\* late updates, overlapping resyncs and rows that could not be read leave
\* nothing older behind.
QuietMeansCurrent ==
    /\ worker.health = "live" /\ feed.connected /\ ~feed.missed /\ feed.mail = {}
    /\ \A l \in Loads : worker.loads[l].stage = "none"
    => \A p \in Pools : Readable(p, chain.slot) =>
          \A c \in chain.changed[p] : c =< worker.store[p].asOf

\* "requires a full resync (every pool refreshed) before serving again"
\* (worker.ts:9): while ready, no state is from before the present connection.
ReadyMeansResynced ==
    worker.ready => \A p \in Pools : worker.store[p].asOf >= feed.since

\* Some unsynced pool keeps the worker not ready: its account is broken, or
\* was when it was read and the news of its repair was lost.
Unreadable ==
    \E p \in Pools \ worker.synced :
        ~Readable(p, chain.slot) \/ (feed.missed /\ chain.broken[p] # {})

\* The worker becomes ready and stays so once connections hold, unless the
\* load it started with failed or a pool's account cannot be read ("a missing
\* account keeps the worker not-ready", tests/router/worker.test.ts:50).
WorkerBecomesReady == <>[](worker.ready \/ worker.health = "failed" \/ Unreadable)
=============================================================================
