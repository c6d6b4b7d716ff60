---------------------------- MODULE SolverWorker ----------------------------
(***************************************************************************)
(* The keeper process (services/solver): it lists packs and positions with   *)
(* work left, reconciles what it sent for each before, sends one transaction *)
(* at a time and waits for it.  A lock file keeps a second process out of    *)
(* the state directory; a journal written before every send survives a       *)
(* crash.  One action is one awaited call or one write, so a crash, the      *)
(* network and other processes may come between any two.                     *)
(*                                                                           *)
(* Solana is external.  A transaction that was sent may be processed while   *)
(* its blockhash is valid; a fork may drop it until it is confirmed.         *)
(* nextAttempt is kept as whether it is still to come.                       *)
(***************************************************************************)
EXTENDS Integers, FiniteSets

CONSTANTS
    Workers,     \* processes started on one state directory
    Nobody,      \* worker.lock does not exist
    Jobs,        \* packs and positions
    PackJobs,    \* the packs: one pass resolves and then settles
    NoJob,
    Signatures,  \* a dead one that nothing names any more is used anew
    NoSignature,
    Work,        \* instructions each job needs from a solver
    MaxMishaps   \* bound: crashes, failed calls and forks

ASSUME NameAssumption ==
    /\ Nobody \notin Workers /\ NoJob \notin Jobs /\ NoSignature \notin Signatures
    /\ PackJobs \subseteq Jobs
ASSUME WorkAssumption == Work \in [Jobs -> Nat] /\ MaxMishaps \in Nat

VARIABLES
    lock,      \* owner of worker.lock
    journal,   \* journal.json
    proc,      \* memory of each process
    tx,        \* what became of each signature
    due,       \* instructions the program would still accept for a job
    mishaps    \* mishaps so far

vars == <<lock, journal, proc, tx, due, mishaps>>

NoRecord == [pending |-> {}, waiting |-> FALSE]
JobState == [pending : SUBSET Signatures, waiting : BOOLEAN]
NoProcess ==
    [pc |-> "off", todo |-> {}, job |-> NoJob, left |-> {}, sig |-> NoSignature,
     unresolved |-> FALSE, state |-> [j \in Jobs |-> NoRecord]]
Process ==
    [pc : {"off", "list", "next", "status", "blockhash", "execute", "send", "await"},
     todo : SUBSET Jobs, job : Jobs \cup {NoJob}, left : SUBSET Signatures,
     sig : Signatures \cup {NoSignature}, unresolved : BOOLEAN, state : [Jobs -> JobState]]
Unused == [job |-> NoJob, state |-> "unused", valid |-> FALSE, ok |-> FALSE]
Transaction ==
    [job : Jobs \cup {NoJob}, state : {"unused", "signed", "sent", "processed", "confirmed"},
     valid : BOOLEAN, ok : BOOLEAN]

\* Memory, files and network hold what their types say.
TypeOK ==
    /\ lock \in Workers \cup {Nobody}
    /\ journal \in [Jobs -> JobState]
    /\ proc \in [Workers -> Process]
    /\ tx \in [Signatures -> Transaction]
    /\ due \in [Jobs -> Nat]
    /\ mishaps \in 0..MaxMishaps

Init ==
    /\ lock = Nobody
    /\ journal = [j \in Jobs |-> NoRecord]
    /\ proc = [w \in Workers |-> NoProcess]
    /\ tx = [s \in Signatures |-> Unused]
    /\ due = Work
    /\ mishaps = 0

At(w, pc) == proc[w].pc = pc
Mishap == mishaps < MaxMishaps /\ mishaps' = mishaps + 1

-----------------------------------------------------------------------------
(* The process and its files                                                *)

\* open "wx" fails while the file exists; then the journal is read.
Start(w) ==
    /\ At(w, "off") /\ lock = Nobody
    /\ lock' = w
    /\ proc' = [proc EXCEPT ![w] = [NoProcess EXCEPT !.pc = "list", !.state = journal]]
    /\ UNCHANGED <<journal, tx, due, mishaps>>

\* A signal, or an error outside a job: the lock file is removed on the way out.
Stop(w) ==
    /\ proc[w].pc \in {"list", "next"}
    /\ Mishap
    /\ proc' = [proc EXCEPT ![w] = NoProcess]
    /\ lock' = Nobody
    /\ UNCHANGED <<journal, tx, due>>

\* Memory is gone, the files stay.
Crash(w) ==
    /\ ~At(w, "off")
    /\ Mishap
    /\ proc' = [proc EXCEPT ![w] = NoProcess]
    /\ UNCHANGED <<lock, journal, tx, due>>

\* The operator removes the lock of a process that is gone.
ClearLock ==
    /\ lock # Nobody /\ At(lock, "off")
    /\ lock' = Nobody
    /\ UNCHANGED <<journal, proc, tx, due, mishaps>>

-----------------------------------------------------------------------------
(* One pass over the jobs                                                   *)

List(w) ==
    /\ At(w, "list")
    /\ proc' = [proc EXCEPT ![w].pc = "next", ![w].todo = {j \in Jobs : due[j] > 0}]
    /\ UNCHANGED <<lock, journal, tx, due, mishaps>>

EndPass(w) ==
    /\ At(w, "next") /\ proc[w].todo = {}
    /\ proc' = [proc EXCEPT ![w].pc = "list"]
    /\ UNCHANGED <<lock, journal, tx, due, mishaps>>

Skip(w, j) ==
    /\ At(w, "next") /\ j \in proc[w].todo /\ proc[w].state[j].waiting
    /\ proc' = [proc EXCEPT ![w].todo = @ \ {j}]
    /\ UNCHANGED <<lock, journal, tx, due, mishaps>>

Take(w, j) ==
    /\ At(w, "next") /\ j \in proc[w].todo /\ ~proc[w].state[j].waiting
    /\ proc' = [proc EXCEPT ![w].todo = @ \ {j}, ![w].job = j, ![w].pc = "status",
                            ![w].left = proc[w].state[j].pending, ![w].unresolved = FALSE]
    /\ UNCHANGED <<lock, journal, tx, due, mishaps>>

\* getSignatureStatuses of one pending signature.  A node may not have heard
\* of a transaction that is not confirmed yet.
ReadStatus(w, s) ==
    /\ At(w, "status") /\ s \in proc[w].left
    /\ \/ /\ tx[s].state \in {"processed", "confirmed"}
          /\ proc' = [proc EXCEPT ![w].left = @ \ {s},
                                  ![w].unresolved = @ \/ tx[s].state = "processed"]
       \/ /\ tx[s].state # "confirmed"
          /\ proc' = [proc EXCEPT ![w].left = @ \ {s}, ![w].sig = s, ![w].pc = "blockhash"]
    /\ UNCHANGED <<lock, journal, tx, due, mishaps>>

\* Wrong on purpose: a signature no node knows is taken for dead.
MutantReadBlockhash(w) ==
    /\ At(w, "blockhash")
    /\ proc' = [proc EXCEPT ![w].pc = "status", ![w].sig = NoSignature]
    /\ UNCHANGED <<lock, journal, tx, due, mishaps>>
\* Wrong on purpose: a signature no node knows is waited for, expired or not.
MutantNeverDead(w) ==
    /\ At(w, "blockhash")
    /\ proc' = [proc EXCEPT ![w].pc = "status", ![w].sig = NoSignature, ![w].unresolved = TRUE]
    /\ UNCHANGED <<lock, journal, tx, due, mishaps>>

\* isBlockhashValid, for a signature without a status.
ReadBlockhash(w) ==
    /\ At(w, "blockhash")
    /\ proc' = [proc EXCEPT ![w].pc = "status", ![w].sig = NoSignature,
                            ![w].unresolved = @ \/ tx[proc[w].sig].valid]
    /\ UNCHANGED <<lock, journal, tx, due, mishaps>>

\* The record of the job is put off and the journal written; the next job.
Leave(w) ==
    LET state == [proc[w].state EXCEPT ![proc[w].job].waiting = TRUE]
    IN  /\ journal' = state
        /\ proc' = [proc EXCEPT ![w].state = state, ![w].pc = "next", ![w].job = NoJob,
                                ![w].left = {}, ![w].sig = NoSignature,
                                ![w].unresolved = FALSE]

PutOff(w) ==
    /\ At(w, "status") /\ proc[w].left = {} /\ proc[w].unresolved
    /\ Leave(w)
    /\ UNCHANGED <<lock, tx, due, mishaps>>

\* Nothing sent before can still happen: forgotten in memory, not on disk yet.
Reconciled(w) ==
    /\ At(w, "status") /\ proc[w].left = {} /\ ~proc[w].unresolved
    /\ proc' = [proc EXCEPT ![w].state[proc[w].job].pending = {}, ![w].pc = "execute"]
    /\ UNCHANGED <<lock, journal, tx, due, mishaps>>

\* Nothing names s any more.
Forgotten(s) ==
    /\ ~tx[s].valid
    /\ \A j \in Jobs :
          s \notin journal[j].pending /\ \A w \in Workers : s \notin proc[w].state[j].pending

Signed(w, s) ==
    /\ At(w, "execute") /\ due[proc[w].job] > 0
    /\ Forgotten(s)
    /\ tx' = [tx EXCEPT ![s] = [job |-> proc[w].job, state |-> "signed", valid |-> TRUE,
                                ok |-> FALSE]]
    /\ proc' = [proc EXCEPT ![w].state[proc[w].job].pending = @ \cup {s},
                            ![w].sig = s, ![w].pc = "send"]

\* Wrong on purpose: the journal is left to the end of the job.
MutantRecord(w, s) ==
    /\ Signed(w, s)
    /\ UNCHANGED <<lock, journal, due, mishaps>>

\* The state was read anew and the simulation passed: the signature is on
\* disk before the transaction is sent.
Record(w, s) ==
    /\ Signed(w, s)
    /\ journal' = proc'[w].state
    /\ UNCHANGED <<lock, due, mishaps>>

Send(w) ==
    /\ At(w, "send")
    /\ tx' = [tx EXCEPT ![proc[w].sig].state = "sent"]
    /\ proc' = [proc EXCEPT ![w].pc = "await"]
    /\ UNCHANGED <<lock, journal, due, mishaps>>

\* A pack that was resolved is settled in the same pass.
Continue(w) ==
    /\ At(w, "await") /\ tx[proc[w].sig].ok
    /\ proc[w].job \in PackJobs /\ due[proc[w].job] > 0
    /\ proc' = [proc EXCEPT ![w].pc = "execute", ![w].sig = NoSignature]
    /\ UNCHANGED <<lock, journal, tx, due, mishaps>>

\* Nothing left to do, or the one transaction of a position went through.
Finish(w) ==
    /\ \/ At(w, "execute") /\ due[proc[w].job] = 0
       \/ /\ At(w, "await") /\ tx[proc[w].sig].ok
          /\ proc[w].job \in PackJobs => due[proc[w].job] = 0
    /\ Leave(w)
    /\ UNCHANGED <<lock, tx, due, mishaps>>

\* awaitConfirmation finds that the transaction failed, or hears nothing in time.
GiveUp(w) ==
    /\ At(w, "await")
    /\ Leave(w)
    /\ UNCHANGED <<lock, tx, due, mishaps>>

\* Any other call of a job throws, or there is no quote or no draw yet.
Fail(w) ==
    /\ proc[w].pc \in {"status", "blockhash", "execute", "send"}
    /\ Mishap
    /\ Leave(w)
    /\ UNCHANGED <<lock, tx, due>>

\* A job's nextAttempt is reached.
Elapse(j) ==
    /\ journal[j].waiting \/ \E w \in Workers : proc[w].state[j].waiting
    /\ journal' = [journal EXCEPT ![j].waiting = FALSE]
    /\ proc' = [w \in Workers |-> [proc[w] EXCEPT !.state[j].waiting = FALSE]]
    /\ UNCHANGED <<lock, tx, due, mishaps>>

-----------------------------------------------------------------------------
(* The network                                                              *)

Include(s) ==
    /\ tx[s].state = "sent" /\ tx[s].valid
    /\ tx' = [tx EXCEPT ![s].state = "processed"]
    /\ UNCHANGED <<lock, journal, proc, due, mishaps>>

Fork(s) ==
    /\ tx[s].state = "processed"
    /\ Mishap
    /\ tx' = [tx EXCEPT ![s].state = "sent"]
    /\ UNCHANGED <<lock, journal, proc, due>>

\* The program's guards refuse an instruction that is not due any more.
Confirm(s) ==
    LET j == tx[s].job
    IN  /\ tx[s].state = "processed"
        /\ tx' = [tx EXCEPT ![s].state = "confirmed", ![s].valid = FALSE, ![s].ok = due[j] > 0]
        /\ due' = [due EXCEPT ![j] = IF @ > 0 THEN @ - 1 ELSE 0]
        /\ UNCHANGED <<lock, journal, proc, mishaps>>

\* What was processed under a blockhash is confirmed or dropped before the
\* confirmed chain sees that blockhash expire.
Expire(s) ==
    /\ tx[s].state \in {"signed", "sent"} /\ tx[s].valid
    /\ tx' = [tx EXCEPT ![s].valid = FALSE]
    /\ UNCHANGED <<lock, journal, proc, due, mishaps>>

\* The owner, or another solver, does what was due.
Elsewhere(j) ==
    /\ due[j] > 0
    /\ Mishap
    /\ due' = [due EXCEPT ![j] = @ - 1]
    /\ UNCHANGED <<lock, journal, proc, tx>>

-----------------------------------------------------------------------------
WorkerStep(w) ==
    \/ Start(w) \/ List(w) \/ EndPass(w)
    \/ \E j \in Jobs : Skip(w, j) \/ Take(w, j)
    \/ \E s \in Signatures : ReadStatus(w, s) \/ Record(w, s)
    \/ ReadBlockhash(w) \/ PutOff(w) \/ Reconciled(w) \/ Send(w)
    \/ Continue(w) \/ Finish(w) \/ GiveUp(w)

Misfortune ==
    \/ \E w \in Workers : Stop(w) \/ Crash(w) \/ Fail(w)
    \/ \E s \in Signatures : Fork(s)
    \/ \E j \in Jobs : Elsewhere(j)

World ==
    \/ ClearLock
    \/ \E j \in Jobs : Elapse(j)
    \/ \E s \in Signatures : Include(s) \/ Confirm(s) \/ Expire(s)

Next == World \/ Misfortune \/ \E w \in Workers : WorkerStep(w)

Spec == Init /\ [][Next]_vars

-----------------------------------------------------------------------------
\* "Never send a replacement transaction after an uncertain result"
\* (transactions.ts): of all transactions ever sent for a job at most one can
\* still take effect, over crashes, restarts, lost answers and forks.
OneLiveTransaction ==
    \A s, t \in Signatures :
        tx[s].valid /\ tx[t].valid /\ tx[s].job = tx[t].job => s = t

\* "journal.json records signatures before broadcasting" (MAINNET.md): what
\* can still take effect is on disk under its job, so a restart finds it.
JournalNamesLive ==
    \A s \in Signatures :
        tx[s].valid /\ tx[s].state # "signed" => s \in journal[tx[s].job].pending

\* Once mishaps end, whatever a solver can do for a job gets done: no stale
\* lock, dead signature or unresolved status keeps it back.
EveryJobIsDone == <>(\A j \in Jobs : due[j] = 0)
=============================================================================
