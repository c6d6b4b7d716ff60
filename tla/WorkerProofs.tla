---------------------------- MODULE WorkerProofs ----------------------------
(***************************************************************************)
(* The two background workers.                                               *)
(*                                                                           *)
(* The solver's: a job never has two transactions that can still take        *)
(* effect, and what can is in the journal, for every number of processes,    *)
(* jobs and signatures and whatever crashes, failed calls and forks there    *)
(* are.  The lock makes the running process the only one, so that what it    *)
(* knows of a job is what is on disk, less what it found dead; while it      *)
(* reconciles a job, what is alive is still to be asked for, or was found    *)
(* unresolved.                                                               *)
(*                                                                           *)
(* The router's: what it serves is recent, and current once everything sent  *)
(* has arrived, for every set of pools, every number of snapshots under way  *)
(* and every staleness bound.  The key is that a stored state is never older *)
(* than its label, and that every change is in the store, in the mail, or    *)
(* before the connection with a snapshot under way that was begun after it.  *)
(***************************************************************************)
EXTENDS SolverWorker, StateWorker, TLAPS

Running(w) == proc[w].pc # "off"

\* A process that runs owns the lock.
LockOK == \A w \in Workers : Running(w) => lock = w

\* A step on a job has one, and a step on a signature too.
StepOK ==
    \A w \in Workers :
        /\ proc[w].pc \in {"status", "blockhash", "execute", "send", "await"} =>
              proc[w].job \in Jobs
        /\ proc[w].pc \in {"blockhash", "send", "await"} => proc[w].sig \in Signatures
        /\ proc[w].pc \in {"send", "await"} => tx[proc[w].sig].state # "unused"

\* What took effect cannot do so again.
TxOK ==
    \A s \in Signatures :
        /\ tx[s].state # "unused" => tx[s].job \in Jobs
        /\ tx[s].valid => tx[s].state \notin {"unused", "confirmed"} /\ ~tx[s].ok

\* What can take effect is named on disk and by the process that runs.
LiveNamed ==
    \A s \in Signatures : tx[s].valid =>
        /\ s \in journal[tx[s].job].pending
        /\ \A w \in Workers : Running(w) => s \in proc[w].state[tx[s].job].pending

\* What the step of p leaves open about its job: until it is reconciled a live
\* signature is still to be read or was found unresolved; then there is none,
\* or the one just signed.
Accounts(p) ==
    \A s \in Signatures : tx[s].valid /\ tx[s].job = p.job =>
        /\ p.pc \in {"status", "blockhash"} =>
              s \in p.left \/ p.unresolved \/ (p.pc = "blockhash" /\ s = p.sig)
        /\ p.pc # "execute"
        /\ p.pc \in {"send", "await"} => s = p.sig

AllAccount == \A w \in Workers : Accounts(proc[w])

WorkerInv ==
    TypeOK /\ LockOK /\ StepOK /\ TxOK /\ LiveNamed /\ AllAccount /\ OneLiveTransaction

-----------------------------------------------------------------------------
\* A step of one process in its memory alone.
LEMMA OwnStep ==
    ASSUME WorkerInv, NEW w \in Workers, NEW p \in Process,
           Running(w), proc' = [proc EXCEPT ![w] = p], p.pc # "off",
           UNCHANGED <<lock, journal, tx, due, mishaps>>,
           p.pc \notin {"send", "await"},
           p.pc \in {"status", "blockhash", "execute"} => p.job \in Jobs,
           p.pc = "blockhash" => p.sig \in Signatures,
           \A s \in Signatures : tx[s].valid => s \in p.state[tx[s].job].pending,
           Accounts(p)
    PROVE  WorkerInv'
<1> USE DEF WorkerInv
<1> HIDE DEF Process
<1>1. \A v \in Workers : proc'[v] = IF v = w THEN p ELSE proc[v] BY DEF TypeOK
<1>2. TypeOK' BY DEF TypeOK
<1>3. LockOK' /\ StepOK' BY <1>1 DEF LockOK, StepOK, Running
<1>4. TxOK' /\ OneLiveTransaction' BY DEF TxOK, OneLiveTransaction
<1>5. LiveNamed' BY <1>1 DEF LiveNamed, Running
<1>6. AllAccount' BY <1>1 DEF AllAccount, Accounts
<1> QED BY <1>2, <1>3, <1>4, <1>5, <1>6

\* The steps that only read: none changes what a process knows is alive.
LEMMA ReadingStep ==
    ASSUME WorkerInv, NEW w \in Workers,
           \/ List(w) \/ EndPass(w) \/ Continue(w) \/ ReadBlockhash(w)
           \/ \E j \in Jobs : Skip(w, j) \/ Take(w, j)
           \/ \E s \in Signatures : ReadStatus(w, s)
    PROVE  WorkerInv'
<1> DEFINE q == proc[w]
<1>0. /\ q \in Process /\ proc \in [Workers -> Process]
      /\ \A s \in Signatures : tx[s].valid /\ Running(w) => s \in q.state[tx[s].job].pending
      /\ Accounts(q)
  BY DEF WorkerInv, TypeOK, LiveNamed, AllAccount
<1>1. CASE List(w)
  <2> DEFINE p == [q EXCEPT !.pc = "next", !.todo = {j \in Jobs : due[j] > 0}]
  <2>1. proc' = [proc EXCEPT ![w] = p] BY <1>0, <1>1 DEF List
  <2>2. p \in Process /\ p.pc = "next" /\ p.state = q.state BY <1>0 DEF Process
  <2> HIDE DEF p
  <2> QED BY <1>0, <1>1, <2>1, <2>2, OwnStep DEF List, At, Running, Accounts
<1>2. CASE EndPass(w)
  <2> DEFINE p == [q EXCEPT !.pc = "list"]
  <2>1. proc' = [proc EXCEPT ![w] = p] BY <1>0, <1>2 DEF EndPass
  <2>2. p \in Process /\ p.pc = "list" /\ p.state = q.state BY <1>0 DEF Process
  <2> HIDE DEF p
  <2> QED BY <1>0, <1>2, <2>1, <2>2, OwnStep DEF EndPass, At, Running, Accounts
<1>3. ASSUME NEW j \in Jobs, Skip(w, j) PROVE WorkerInv'
  <2> DEFINE p == [q EXCEPT !.todo = @ \ {j}]
  <2>1. proc' = [proc EXCEPT ![w] = p] BY <1>0, <1>3 DEF Skip
  <2>2. p \in Process /\ p.pc = "next" /\ p.state = q.state
    BY <1>0, <1>3 DEF Process, Skip, At
  <2> HIDE DEF p
  <2> QED BY <1>0, <1>3, <2>1, <2>2, OwnStep DEF Skip, At, Running, Accounts
<1>4. ASSUME NEW j \in Jobs, Take(w, j) PROVE WorkerInv'
  <2> DEFINE p == [q EXCEPT !.todo = @ \ {j}, !.job = j, !.pc = "status",
                            !.left = q.state[j].pending, !.unresolved = FALSE]
  <2>1. proc' = [proc EXCEPT ![w] = p] BY <1>0, <1>4 DEF Take
  <2>2. q.state[j].pending \in SUBSET Signatures BY <1>0 DEF Process, JobState
  <2>3. /\ p \in Process /\ p.pc = "status" /\ p.state = q.state /\ p.job = j
        /\ p.left = q.state[j].pending
    BY <1>0, <2>2 DEF Process
  <2> HIDE DEF p
  <2>4. Accounts(p) BY <1>0, <1>4, <2>3 DEF Accounts, Take, At, Running
  <2> QED BY <1>0, <1>4, <2>1, <2>3, <2>4, OwnStep DEF Take, At, Running
<1>5. ASSUME NEW s \in Signatures, ReadStatus(w, s) PROVE WorkerInv'
  <2>0. q.pc = "status" /\ q.job \in Jobs BY <1>5 DEF ReadStatus, At, WorkerInv, StepOK
  <2>1. CASE /\ tx[s].state \in {"processed", "confirmed"}
             /\ proc' = [proc EXCEPT ![w].left = @ \ {s},
                                     ![w].unresolved = @ \/ tx[s].state = "processed"]
    <3> DEFINE p == [q EXCEPT !.left = @ \ {s},
                              !.unresolved = @ \/ tx[s].state = "processed"]
    <3>1. proc' = [proc EXCEPT ![w] = p] BY <1>0, <2>1
    <3>2. /\ p \in Process /\ p.pc = "status" /\ p.state = q.state /\ p.job = q.job
          /\ p.left = q.left \ {s} /\ p.unresolved = (q.unresolved \/ tx[s].state = "processed")
      BY <1>0, <2>0 DEF Process
    <3> HIDE DEF p
    <3>3. Accounts(p) BY <1>0, <2>0, <2>1, <3>2 DEF Accounts, WorkerInv, TxOK
    <3> QED BY <1>0, <1>5, <2>0, <3>1, <3>2, <3>3, OwnStep DEF ReadStatus, Running
  <2>2. CASE proc' = [proc EXCEPT ![w].left = @ \ {s}, ![w].sig = s, ![w].pc = "blockhash"]
    <3> DEFINE p == [q EXCEPT !.left = @ \ {s}, !.sig = s, !.pc = "blockhash"]
    <3>1. proc' = [proc EXCEPT ![w] = p] BY <1>0, <2>2
    <3>2. /\ p \in Process /\ p.pc = "blockhash" /\ p.state = q.state /\ p.job = q.job
          /\ p.left = q.left \ {s} /\ p.unresolved = q.unresolved /\ p.sig = s
      BY <1>0, <2>0 DEF Process
    <3> HIDE DEF p
    <3>3. Accounts(p) BY <1>0, <2>0, <3>2 DEF Accounts
    <3> QED BY <1>0, <1>5, <2>0, <3>1, <3>2, <3>3, OwnStep DEF ReadStatus, Running
  <2> QED BY <1>5, <2>1, <2>2 DEF ReadStatus
<1>6. CASE ReadBlockhash(w)
  <2> DEFINE p == [q EXCEPT !.pc = "status", !.sig = NoSignature,
                            !.unresolved = @ \/ tx[q.sig].valid]
  <2>0. q.pc = "blockhash" /\ q.job \in Jobs /\ q.sig \in Signatures
    BY <1>6 DEF ReadBlockhash, At, WorkerInv, StepOK
  <2>1. proc' = [proc EXCEPT ![w] = p] BY <1>0, <1>6 DEF ReadBlockhash
  <2>2. tx[q.sig].valid \in BOOLEAN BY <2>0 DEF WorkerInv, TypeOK, Transaction
  <2>3. /\ p \in Process /\ p.pc = "status" /\ p.state = q.state /\ p.job = q.job
        /\ p.left = q.left /\ p.unresolved = (q.unresolved \/ tx[q.sig].valid)
    BY <1>0, <2>2 DEF Process
  <2> HIDE DEF p
  <2>4. Accounts(p) BY <1>0, <2>0, <2>3 DEF Accounts
  <2> QED BY <1>0, <1>6, <2>0, <2>1, <2>3, <2>4, OwnStep DEF ReadBlockhash, Running
<1>7. CASE Continue(w)
  <2> DEFINE p == [q EXCEPT !.pc = "execute", !.sig = NoSignature]
  <2>0. q.pc = "await" /\ q.job \in Jobs /\ q.sig \in Signatures /\ tx[q.sig].ok
    BY <1>7 DEF Continue, At, WorkerInv, StepOK
  <2>1. proc' = [proc EXCEPT ![w] = p] BY <1>0, <1>7 DEF Continue
  <2>2. p \in Process /\ p.pc = "execute" /\ p.state = q.state /\ p.job = q.job
    BY <1>0 DEF Process
  <2> HIDE DEF p
  <2>3. Accounts(p) BY <1>0, <2>0, <2>2 DEF Accounts, WorkerInv, TxOK
  <2> QED BY <1>0, <1>7, <2>0, <2>1, <2>2, <2>3, OwnStep DEF Continue, Running
<1> QED BY <1>1, <1>2, <1>3, <1>4, <1>5, <1>6, <1>7

\* What is dead is forgotten in memory; the disk still names it.
LEMMA ReconciledStep ==
    ASSUME WorkerInv, NEW w \in Workers, Reconciled(w)
    PROVE  WorkerInv'
<1> DEFINE q == proc[w]
           record == [q.state[q.job] EXCEPT !.pending = {}]
           p == [q EXCEPT !.state = [q.state EXCEPT ![q.job] = record], !.pc = "execute"]
<1>0. /\ q \in Process /\ proc \in [Workers -> Process]
      /\ \A s \in Signatures : tx[s].valid /\ Running(w) => s \in q.state[tx[s].job].pending
      /\ Accounts(q) /\ q.pc = "status" /\ q.job \in Jobs /\ q.left = {} /\ ~q.unresolved
      /\ \A s \in Signatures : tx[s].valid => tx[s].job \in Jobs
  BY DEF WorkerInv, TypeOK, LiveNamed, AllAccount, Reconciled, At, StepOK, TxOK
<1>1. proc' = [proc EXCEPT ![w] = p] BY <1>0 DEF Reconciled
<1>2. q.state \in [Jobs -> JobState] /\ record \in JobState BY <1>0 DEF Process, JobState
<1> HIDE DEF record
<1>3. /\ p \in Process /\ p.pc = "execute" /\ p.job = q.job
      /\ \A j \in Jobs : j # q.job => p.state[j] = q.state[j]
  BY <1>0, <1>2 DEF Process
<1> HIDE DEF p
<1>4. \A s \in Signatures : ~(tx[s].valid /\ tx[s].job = q.job) BY <1>0 DEF Accounts
<1>5. Accounts(p) BY <1>3, <1>4 DEF Accounts
<1>6. \A s \in Signatures : tx[s].valid => s \in p.state[tx[s].job].pending
  BY <1>0, <1>3, <1>4 DEF Running
<1> QED BY <1>0, <1>1, <1>3, <1>5, <1>6, OwnStep DEF Reconciled, Running

\* A job is left: what the process knows goes to disk.
LEMMA LeaveStep ==
    ASSUME WorkerInv, NEW w \in Workers,
           PutOff(w) \/ Finish(w) \/ GiveUp(w) \/ Fail(w)
    PROVE  WorkerInv'
<1> DEFINE q == proc[w]
           record == [q.state[q.job] EXCEPT !.waiting = TRUE]
           state == [q.state EXCEPT ![q.job] = record]
           p == [q EXCEPT !.state = state, !.pc = "next", !.job = NoJob,
                          !.left = {}, !.sig = NoSignature, !.unresolved = FALSE]
<1>0. /\ q \in Process /\ proc \in [Workers -> Process]
      /\ q.pc \in {"status", "blockhash", "execute", "send", "await"} /\ q.job \in Jobs
      /\ \A s \in Signatures : tx[s].valid => s \in q.state[tx[s].job].pending
      /\ \A s \in Signatures : tx[s].valid => tx[s].job \in Jobs
  BY DEF WorkerInv, TypeOK, LiveNamed, PutOff, Finish, GiveUp, Fail, At, StepOK, TxOK, Running
<1>1. /\ proc' = [proc EXCEPT ![w] = p] /\ journal' = state
      /\ UNCHANGED <<lock, tx, due>> /\ mishaps' \in 0..MaxMishaps
  <2>1. /\ Leave(w) /\ UNCHANGED <<lock, tx, due>>
        /\ \/ mishaps' = mishaps
           \/ mishaps < MaxMishaps /\ mishaps' = mishaps + 1
    BY DEF PutOff, Finish, GiveUp, Fail, Mishap
  <2>2. mishaps' \in 0..MaxMishaps BY <2>1, WorkAssumption DEF WorkerInv, TypeOK
  <2>3. state = [q.state EXCEPT ![q.job].waiting = TRUE] OBVIOUS
  <2> HIDE DEF state
  <2>4. proc' = [proc EXCEPT ![w] = p] /\ journal' = state BY <1>0, <2>1, <2>3 DEF Leave
  <2> QED BY <2>1, <2>2, <2>4
<1>2. q.state \in [Jobs -> JobState] /\ record \in JobState
        /\ record.pending = q.state[q.job].pending
  <2>1. q.state \in [Jobs -> JobState] BY <1>0 DEF Process
  <2>2. q.state[q.job] \in JobState BY <1>0, <2>1
  <2> QED BY <2>1, <2>2 DEF JobState
<1> HIDE DEF record
<1>3. /\ state \in [Jobs -> JobState]
      /\ \A j \in Jobs : state[j].pending = q.state[j].pending
  BY <1>0, <1>2
<1> HIDE DEF state
<1>4. p \in Process /\ p.pc = "next" /\ p.state = state /\ p.job = NoJob
  BY <1>0, <1>3 DEF Process
<1> HIDE DEF p
<1>5. \A v \in Workers : proc'[v] = IF v = w THEN p ELSE proc[v] BY <1>0, <1>1
<1>6. TypeOK' BY <1>0, <1>1, <1>3, <1>4 DEF WorkerInv, TypeOK
<1>7. LockOK' /\ StepOK'
  BY <1>0, <1>1, <1>4, <1>5 DEF WorkerInv, LockOK, StepOK, Running
<1>8. TxOK' /\ OneLiveTransaction' BY <1>1 DEF WorkerInv, TxOK, OneLiveTransaction
<1>9. LiveNamed'
  BY <1>0, <1>1, <1>3, <1>4, <1>5 DEF WorkerInv, LiveNamed, Running
<1>10. AllAccount'
  <2>1. proc'[w].pc = "next" BY <1>4, <1>5
  <2> QED BY <1>1, <1>5, <2>1 DEF WorkerInv, AllAccount, Accounts
<1> QED BY <1>6, <1>7, <1>8, <1>9, <1>10 DEF WorkerInv

\* A new signature is on disk and in memory, alone of its job.
LEMMA RecordStep ==
    ASSUME WorkerInv, NEW w \in Workers, NEW s \in Signatures, Record(w, s)
    PROVE  WorkerInv'
<1> DEFINE q == proc[w]
           record == [q.state[q.job] EXCEPT !.pending = @ \cup {s}]
           state == [q.state EXCEPT ![q.job] = record]
           p == [q EXCEPT !.state = state, !.sig = s, !.pc = "send"]
           new == [job |-> q.job, state |-> "signed", valid |-> TRUE, ok |-> FALSE]
<1>0. /\ q \in Process /\ proc \in [Workers -> Process] /\ tx \in [Signatures -> Transaction]
      /\ q.pc = "execute" /\ q.job \in Jobs /\ Running(w) /\ ~tx[s].valid
      /\ \A t \in Signatures : tx[t].valid => t \in q.state[tx[t].job].pending
      /\ \A t \in Signatures : tx[t].valid => tx[t].job \in Jobs
      /\ \A t \in Signatures : ~(tx[t].valid /\ tx[t].job = q.job)
  BY DEF WorkerInv, TypeOK, LiveNamed, Record, Signed, Forgotten, At, StepOK, TxOK, Running,
         AllAccount, Accounts
<1>1. q.state \in [Jobs -> JobState] BY <1>0 DEF Process
<1>2. record \in JobState /\ record.pending = q.state[q.job].pending \cup {s}
  <2>1. q.state[q.job] \in JobState BY <1>0, <1>1
  <2> QED BY <2>1 DEF JobState
<1>3. state = [q.state EXCEPT ![q.job].pending = @ \cup {s}] OBVIOUS
<1> HIDE DEF record
<1>4. /\ state \in [Jobs -> JobState]
      /\ \A j \in Jobs : q.state[j].pending \subseteq state[j].pending
      /\ s \in state[q.job].pending
  BY <1>0, <1>1, <1>2
<1> HIDE DEF state
<1>5. /\ proc' = [proc EXCEPT ![w] = p] /\ tx' = [tx EXCEPT ![s] = new]
      /\ UNCHANGED <<lock, due, mishaps>>
  BY <1>0, <1>3 DEF Record, Signed
<1>6. /\ p \in Process /\ p.pc = "send" /\ p.state = state /\ p.job = q.job /\ p.sig = s
  BY <1>0, <1>4 DEF Process
<1>7. new \in Transaction BY <1>0 DEF Transaction
<1> HIDE DEF p
<1>8. /\ \A v \in Workers : proc'[v] = IF v = w THEN p ELSE proc[v]
      /\ \A t \in Signatures : tx'[t] = IF t = s THEN new ELSE tx[t]
  BY <1>0, <1>5
<1>9. journal' = state
  <2>1. journal' = proc'[w].state BY DEF Record
  <2> QED BY <1>6, <1>8, <2>1
<1>10. TypeOK' BY <1>0, <1>4, <1>5, <1>6, <1>7, <1>9 DEF WorkerInv, TypeOK
<1>11. LockOK' /\ StepOK'
  BY <1>0, <1>5, <1>6, <1>8 DEF WorkerInv, LockOK, StepOK, Running
<1>12. TxOK' BY <1>0, <1>8 DEF WorkerInv, TxOK
<1>13. OneLiveTransaction' BY <1>0, <1>8 DEF WorkerInv, OneLiveTransaction
<1>14. \A v \in Workers : v # w => ~Running(v) /\ proc'[v] = proc[v]
  BY <1>0, <1>8 DEF WorkerInv, LockOK
<1>15. LiveNamed'
  BY <1>0, <1>4, <1>6, <1>8, <1>9, <1>14 DEF LiveNamed, Running
<1>16. AllAccount'
  <2>1. proc'[w].pc = "send" /\ proc'[w].sig = s /\ proc'[w].job = q.job BY <1>6, <1>8
  <2>2. Accounts(proc[w])' BY <1>0, <1>8, <2>1 DEF Accounts
  <2>3. \A v \in Workers : v # w => Accounts(proc[v])'
    BY <1>14 DEF Accounts, Running
  <2> QED BY <2>2, <2>3 DEF AllAccount
<1> QED BY <1>10, <1>11, <1>12, <1>13, <1>15, <1>16 DEF WorkerInv

\* What happens to transactions outside the process: none becomes alive.
LEMMA NetworkStep ==
    ASSUME WorkerInv, tx' \in [Signatures -> Transaction], due' \in [Jobs -> Nat],
           mishaps' \in 0..MaxMishaps, UNCHANGED <<lock, journal>>,
           \A s \in Signatures :
              /\ tx'[s].job = tx[s].job /\ (tx'[s].valid => tx[s].valid)
              /\ tx'[s].state # "unused" => tx'[s].job \in Jobs
              /\ tx[s].state # "unused" => tx'[s].state # "unused"
              /\ tx'[s].valid => tx'[s].state \notin {"unused", "confirmed"} /\ ~tx'[s].ok,
           proc' = proc
    PROVE  WorkerInv'
<1> USE DEF WorkerInv
<1>1. TypeOK' BY DEF TypeOK
<1>2. LockOK' /\ StepOK' BY DEF LockOK, StepOK, Running
<1>3. TxOK' BY DEF TxOK
<1>4. LiveNamed' /\ OneLiveTransaction' BY DEF LiveNamed, OneLiveTransaction, Running
<1>5. AllAccount' BY DEF AllAccount, Accounts
<1> QED BY <1>1, <1>2, <1>3, <1>4, <1>5

\* Blocks, forks, expiry and other actors.
LEMMA WorldStep ==
    ASSUME WorkerInv,
           \/ \E s \in Signatures : Include(s) \/ Confirm(s) \/ Expire(s) \/ Fork(s)
           \/ \E j \in Jobs : Elsewhere(j)
    PROVE  WorkerInv'
<1>0. /\ tx \in [Signatures -> Transaction] /\ due \in [Jobs -> Nat]
      /\ mishaps \in 0..MaxMishaps /\ TxOK
  BY DEF WorkerInv, TypeOK
<1>1. ASSUME Mishap PROVE mishaps' \in 0..MaxMishaps
  BY <1>0, <1>1, WorkAssumption DEF Mishap
<1>2. ASSUME NEW s \in Signatures, Include(s) \/ Fork(s) \/ Expire(s) PROVE WorkerInv'
  <2>1. PICK new \in Transaction :
           /\ tx' = [tx EXCEPT ![s] = new] /\ new.job = tx[s].job /\ new.ok = tx[s].ok
           /\ (new.valid => tx[s].valid) /\ new.state \notin {"unused", "confirmed"}
           /\ tx[s].state # "unused"
    <3>1. tx[s] \in Transaction BY <1>0
    <3>2. CASE Include(s)
      <4>1. [tx[s] EXCEPT !.state = "processed"] \in Transaction BY <3>1 DEF Transaction
      <4> QED BY <1>0, <3>1, <3>2, <4>1 DEF Include, Transaction
    <3>3. CASE Fork(s)
      <4>1. [tx[s] EXCEPT !.state = "sent"] \in Transaction BY <3>1 DEF Transaction
      <4> QED BY <1>0, <3>1, <3>3, <4>1 DEF Fork, Transaction
    <3>4. CASE Expire(s)
      <4>1. [tx[s] EXCEPT !.valid = FALSE] \in Transaction BY <3>1 DEF Transaction
      <4> QED BY <1>0, <3>1, <3>4, <4>1 DEF Expire, Transaction
    <3> QED BY <1>2, <3>2, <3>3, <3>4
  <2>2. \A t \in Signatures : tx'[t] = IF t = s THEN new ELSE tx[t] BY <1>0, <2>1
  <2>3. UNCHANGED <<lock, journal, proc, due>> /\ mishaps' \in 0..MaxMishaps
    BY <1>0, <1>1, <1>2 DEF Include, Fork, Expire
  <2>4. tx' \in [Signatures -> Transaction] BY <1>0, <2>1
  <2> QED BY <1>0, <2>1, <2>2, <2>3, <2>4, NetworkStep DEF TxOK
<1>3. ASSUME NEW s \in Signatures, Confirm(s) PROVE WorkerInv'
  <2> DEFINE j == tx[s].job
             new == [tx[s] EXCEPT !.state = "confirmed", !.valid = FALSE, !.ok = due[j] > 0]
  <2>1. tx[s] \in Transaction /\ j \in Jobs BY <1>0, <1>3 DEF Confirm, TxOK
  <2>2. tx' = [tx EXCEPT ![s] = new] BY <1>0, <1>3 DEF Confirm
  <2>3. (due[j] > 0) \in BOOLEAN OBVIOUS
  <2>4. new \in Transaction /\ new.job = j /\ ~new.valid /\ new.state = "confirmed"
    BY <2>1, <2>3 DEF Transaction
  <2> HIDE DEF new
  <2>5. \A t \in Signatures : tx'[t] = IF t = s THEN new ELSE tx[t] BY <1>0, <2>2
  <2>6. due' \in [Jobs -> Nat]
    <3>1. due[j] \in Nat BY <1>0, <2>1
    <3>2. (IF due[j] > 0 THEN due[j] - 1 ELSE 0) \in Nat BY <3>1
    <3> HIDE DEF j
    <3> QED BY <1>0, <1>3, <3>2 DEF Confirm, j
  <2>7. UNCHANGED <<lock, journal, proc, mishaps>> BY <1>3 DEF Confirm
  <2>8. tx' \in [Signatures -> Transaction] BY <1>0, <2>2, <2>4
  <2> QED BY <1>0, <2>1, <2>4, <2>5, <2>6, <2>7, <2>8, NetworkStep DEF TxOK
<1>4. ASSUME NEW j \in Jobs, Elsewhere(j) PROVE WorkerInv'
  <2>1. due' \in [Jobs -> Nat]
    <3>1. due[j] \in Nat /\ due[j] > 0 BY <1>0, <1>4 DEF Elsewhere
    <3>2. due[j] - 1 \in Nat BY <3>1
    <3> QED BY <1>0, <1>4, <3>2 DEF Elsewhere
  <2> QED BY <1>0, <1>1, <1>4, <2>1, NetworkStep DEF Elsewhere, TxOK
<1> QED BY <1>2, <1>3, <1>4

\* The transaction that was recorded is handed to the network.
LEMMA SendStep ==
    ASSUME WorkerInv, NEW w \in Workers, Send(w)
    PROVE  WorkerInv'
<1> DEFINE q == proc[w]
           p == [q EXCEPT !.pc = "await"]
           new == [tx[q.sig] EXCEPT !.state = "sent"]
<1>0. /\ q \in Process /\ proc \in [Workers -> Process] /\ tx \in [Signatures -> Transaction]
      /\ q.pc = "send" /\ q.job \in Jobs /\ q.sig \in Signatures
      /\ tx[q.sig].state # "unused"
  BY DEF WorkerInv, TypeOK, Send, At, StepOK
<1>1. /\ proc' = [proc EXCEPT ![w] = p] /\ tx' = [tx EXCEPT ![q.sig] = new]
      /\ UNCHANGED <<lock, journal, due, mishaps>>
  BY <1>0 DEF Send
<1>2. /\ p \in Process /\ p.pc = "await" /\ p.state = q.state /\ p.job = q.job
      /\ p.sig = q.sig
  BY <1>0 DEF Process
<1>3. /\ new \in Transaction /\ new.state = "sent" /\ new.job = tx[q.sig].job
      /\ new.valid = tx[q.sig].valid /\ new.ok = tx[q.sig].ok
  <2>1. tx[q.sig] \in Transaction BY <1>0
  <2> QED BY <2>1 DEF Transaction
<1> HIDE DEF p, new
<1>4. /\ \A v \in Workers : proc'[v] = IF v = w THEN p ELSE proc[v]
      /\ \A t \in Signatures : tx'[t] = IF t = q.sig THEN new ELSE tx[t]
  BY <1>0, <1>1
<1>5. \A t \in Signatures : tx'[t].valid = tx[t].valid /\ tx'[t].job = tx[t].job
  BY <1>3, <1>4
<1>6. TypeOK' BY <1>0, <1>1, <1>2, <1>3 DEF WorkerInv, TypeOK
<1>7. LockOK' /\ StepOK'
  BY <1>0, <1>1, <1>2, <1>3, <1>4 DEF WorkerInv, LockOK, StepOK, Running
<1>8. TxOK' BY <1>0, <1>3, <1>4 DEF WorkerInv, TxOK
<1>9. LiveNamed' BY <1>0, <1>1, <1>2, <1>4, <1>5 DEF WorkerInv, LiveNamed, Running
<1>10. AllAccount'
  BY <1>0, <1>2, <1>4, <1>5 DEF WorkerInv, AllAccount, Accounts
<1>11. OneLiveTransaction' BY <1>5 DEF WorkerInv, OneLiveTransaction
<1> QED BY <1>6, <1>7, <1>8, <1>9, <1>10, <1>11 DEF WorkerInv

\* Processes come and go; the lock keeps a second one out.
LEMMA ProcessStep ==
    ASSUME WorkerInv, ClearLock \/ \E w \in Workers : Start(w) \/ Stop(w) \/ Crash(w)
    PROVE  WorkerInv'
<1>0. /\ proc \in [Workers -> Process] /\ journal \in [Jobs -> JobState]
      /\ mishaps \in 0..MaxMishaps /\ LockOK
  BY DEF WorkerInv, TypeOK
<1>1. NoProcess \in Process /\ NoProcess.pc = "off"
  BY DEF NoProcess, NoRecord, Process, JobState
<1>2. CASE ClearLock
  <2>1. /\ \A w \in Workers : ~Running(w)
        /\ UNCHANGED <<journal, proc, tx, due, mishaps>> /\ lock' = Nobody
    BY <1>2, NameAssumption DEF ClearLock, At, WorkerInv, LockOK, Running
  <2>2. TypeOK' /\ LockOK' BY <2>1 DEF WorkerInv, TypeOK, LockOK, Running
  <2> QED BY <2>1, <2>2
          DEF WorkerInv, StepOK, TxOK, LiveNamed, AllAccount, Accounts, OneLiveTransaction,
              Running
<1>3. ASSUME NEW w \in Workers, Stop(w) \/ Crash(w) PROVE WorkerInv'
  <2>1. /\ proc' = [proc EXCEPT ![w] = NoProcess] /\ UNCHANGED <<journal, tx, due>>
        /\ lock' \in {lock, Nobody} /\ Running(w)
        /\ mishaps < MaxMishaps /\ mishaps' = mishaps + 1
    BY <1>3 DEF Stop, Crash, Mishap, At, Running
  <2>2. mishaps' \in 0..MaxMishaps BY <1>0, <2>1, WorkAssumption
  <2> HIDE DEF NoProcess, Process
  <2>3. \A v \in Workers : proc'[v] = IF v = w THEN NoProcess ELSE proc[v] BY <1>0, <2>1
  <2>4. \A v \in Workers : proc'[v].pc = "off" BY <1>1, <2>1, <2>3 DEF WorkerInv, LockOK, Running
  <2>5. TypeOK' BY <1>1, <2>1, <2>2 DEF WorkerInv, TypeOK
  <2>6. LockOK' /\ StepOK' BY <2>4 DEF LockOK, StepOK, Running
  <2>7. TxOK' /\ OneLiveTransaction' BY <2>1 DEF WorkerInv, TxOK, OneLiveTransaction
  <2>8. LiveNamed' /\ AllAccount'
    BY <2>1, <2>4 DEF WorkerInv, LiveNamed, AllAccount, Accounts, Running
  <2> QED BY <2>5, <2>6, <2>7, <2>8 DEF WorkerInv
<1>4. ASSUME NEW w \in Workers, Start(w) PROVE WorkerInv'
  <2> DEFINE p == [NoProcess EXCEPT !.pc = "list", !.state = journal]
  <2>1. /\ proc' = [proc EXCEPT ![w] = p] /\ lock' = w /\ lock = Nobody
        /\ UNCHANGED <<journal, tx, due, mishaps>>
    BY <1>4 DEF Start
  <2>2. p \in Process /\ p.pc = "list" /\ p.state = journal
    BY <1>0 DEF NoProcess, NoRecord, Process
  <2> HIDE DEF p, Process
  <2>3. \A v \in Workers : proc'[v] = IF v = w THEN p ELSE proc[v] BY <1>0, <2>1
  <2>4. \A v \in Workers : proc[v].pc = "off"
    BY <2>1, NameAssumption DEF WorkerInv, LockOK, Running
  <2>5. TypeOK' BY <2>1, <2>2 DEF WorkerInv, TypeOK
  <2>6. LockOK' /\ StepOK' BY <2>1, <2>2, <2>3, <2>4 DEF LockOK, StepOK, Running
  <2>7. TxOK' /\ OneLiveTransaction' BY <2>1 DEF WorkerInv, TxOK, OneLiveTransaction
  <2>8. LiveNamed' /\ AllAccount'
    BY <2>1, <2>2, <2>3, <2>4 DEF WorkerInv, LiveNamed, AllAccount, Accounts, Running
  <2> QED BY <2>5, <2>6, <2>7, <2>8 DEF WorkerInv
<1> QED BY <1>2, <1>3, <1>4

\* A job's next attempt is reached, in memory and on disk.
LEMMA ElapseStep ==
    ASSUME WorkerInv, NEW j \in Jobs, Elapse(j)
    PROVE  WorkerInv'
<1>0. /\ proc \in [Workers -> Process] /\ journal \in [Jobs -> JobState]
  BY DEF WorkerInv, TypeOK
<1>1. ASSUME NEW state \in [Jobs -> JobState]
      PROVE  /\ [state EXCEPT ![j].waiting = FALSE] \in [Jobs -> JobState]
             /\ \A i \in Jobs : [state EXCEPT ![j].waiting = FALSE][i].pending = state[i].pending
  <2> DEFINE record == [state[j] EXCEPT !.waiting = FALSE]
  <2>1. state[j] \in JobState OBVIOUS
  <2>2. record \in JobState /\ record.pending = state[j].pending BY <2>1 DEF JobState
  <2>3. [state EXCEPT ![j].waiting = FALSE] = [state EXCEPT ![j] = record] OBVIOUS
  <2> HIDE DEF record
  <2> QED BY <2>2, <2>3
<1>2. /\ journal' \in [Jobs -> JobState]
      /\ \A i \in Jobs : journal'[i].pending = journal[i].pending
  BY <1>0, <1>1 DEF Elapse
<1>3. ASSUME NEW w \in Workers
      PROVE  /\ proc'[w] \in Process /\ proc'[w].pc = proc[w].pc
             /\ proc'[w].job = proc[w].job /\ proc'[w].left = proc[w].left
             /\ proc'[w].sig = proc[w].sig /\ proc'[w].unresolved = proc[w].unresolved
             /\ \A i \in Jobs : proc'[w].state[i].pending = proc[w].state[i].pending
  <2> DEFINE state == [proc[w].state EXCEPT ![j].waiting = FALSE]
  <2>1. proc[w] \in Process /\ proc[w].state \in [Jobs -> JobState]
    BY <1>0 DEF Process
  <2>2. /\ state \in [Jobs -> JobState]
        /\ \A i \in Jobs : state[i].pending = proc[w].state[i].pending
    BY <1>1, <2>1
  <2>3. proc'[w] = [proc[w] EXCEPT !.state = state] BY DEF Elapse
  <2> HIDE DEF state
  <2> QED BY <2>1, <2>2, <2>3 DEF Process
<1>4. proc' \in [Workers -> Process]
  <2>1. proc' = [w \in Workers |-> proc'[w]] BY DEF Elapse
  <2> QED BY <1>3, <2>1
<1>5. UNCHANGED <<lock, tx, due, mishaps>> BY DEF Elapse
<1>6. TypeOK' BY <1>2, <1>4, <1>5 DEF WorkerInv, TypeOK
<1>7. LockOK' /\ StepOK' BY <1>3, <1>5 DEF WorkerInv, LockOK, StepOK, Running
<1>8. TxOK' /\ OneLiveTransaction' BY <1>5 DEF WorkerInv, TxOK, OneLiveTransaction
<1>9. LiveNamed'
  <2>1. \A s \in Signatures : tx[s].valid => tx[s].job \in Jobs BY DEF WorkerInv, TxOK
  <2> QED BY <1>2, <1>3, <1>5, <2>1 DEF WorkerInv, LiveNamed, Running
<1>10. AllAccount' BY <1>3, <1>5 DEF WorkerInv, AllAccount, Accounts
<1> QED BY <1>6, <1>7, <1>8, <1>9, <1>10 DEF WorkerInv

-----------------------------------------------------------------------------
\* The initial state satisfies the invariant.
LEMMA InitWorker == Init => WorkerInv
<1> SUFFICES ASSUME Init PROVE WorkerInv OBVIOUS
<1>1. TypeOK
  <2>1. NoProcess \in Process /\ Unused \in Transaction /\ NoRecord \in JobState
    BY DEF NoProcess, NoRecord, Process, JobState, Unused, Transaction
  <2> HIDE DEF NoProcess, Process, Unused, Transaction, NoRecord, JobState
  <2> QED BY <2>1, WorkAssumption DEF Init, TypeOK
<1>2. LockOK /\ StepOK /\ TxOK /\ LiveNamed /\ AllAccount /\ OneLiveTransaction
  BY DEF Init, LockOK, StepOK, TxOK, LiveNamed, AllAccount, Accounts, OneLiveTransaction,
         Running, NoProcess, Unused
<1> QED BY <1>1, <1>2 DEF WorkerInv

\* Every step keeps the invariant.
LEMMA NextWorker == WorkerInv /\ [Next]_vars => WorkerInv'
<1> SUFFICES ASSUME WorkerInv, [Next]_vars PROVE WorkerInv' OBVIOUS
<1>1. CASE UNCHANGED vars
  BY <1>1 DEF vars, WorkerInv, TypeOK, LockOK, StepOK, TxOK, LiveNamed, AllAccount, Accounts,
              OneLiveTransaction, Running
<1>2. ASSUME NEW w \in Workers, WorkerStep(w) PROVE WorkerInv'
  BY <1>2, ReadingStep, ReconciledStep, LeaveStep, RecordStep, SendStep, ProcessStep
     DEF WorkerStep
<1>3. CASE World BY <1>3, ProcessStep, ElapseStep, WorldStep DEF World
<1>4. CASE Misfortune BY <1>4, ProcessStep, LeaveStep, WorldStep DEF Misfortune
<1> QED BY <1>1, <1>2, <1>3, <1>4 DEF Next

-----------------------------------------------------------------------------
\* "Never send a replacement transaction after an uncertain result": no order
\* of crashes, restarts, lost answers and forks lets a job have two.
\* (reconcile and execute in transactions.ts, storage.ts)
THEOREM NeverTwoTransactions == Spec => []OneLiveTransaction
<1>1. WorkerInv => OneLiveTransaction BY DEF WorkerInv
<1> QED BY <1>1, InitWorker, NextWorker, PTL DEF Spec

\* Signatures are on disk before they are sent and stay there while alive.
\* (record and the lock file in storage.ts)
THEOREM DiskNamesLive == Spec => []JournalNamesLive
<1>1. WorkerInv => JournalNamesLive BY DEF WorkerInv, LiveNamed, JournalNamesLive
<1> QED BY <1>1, InitWorker, NextWorker, PTL DEF Spec

\* Lock, journal, memory and network keep their types; what is due never goes
\* below zero.  (index.ts)
THEOREM WorkerTypes == Spec => []TypeOK
<1>1. WorkerInv => TypeOK BY DEF WorkerInv
<1> QED BY <1>1, InitWorker, NextWorker, PTL DEF Spec

-----------------------------------------------------------------------------
Idle(l) == worker.loads[l].stage = "none"

\* A snapshot's rows are read at or after the slot they go in under.
LoadsOK ==
    \A l \in Loads :
        LET load == worker.loads[l]
        IN  /\ load.stage \in {"rows", "back"} => load.slot \in Slot /\ load.slot =< chain.slot
            /\ load.stage = "back" => load.asOf \in Slot /\ load.slot =< load.asOf

\* So no state is older than its label.
StoreOK == \A p \in Pools : worker.store[p].slot =< worker.store[p].asOf

ChainOK ==
    /\ feed.since =< chain.slot
    /\ \A p \in Pools : \A c \in chain.changed[p] \cup chain.broken[p] : c =< chain.slot

\* Nothing is under way in a process that is off or whose first load failed,
\* and only that load before it is through.
LifeOK ==
    /\ worker.health = "off" => ~feed.connected
    /\ worker.health # "live" => worker.syncSlot = NoSlot
    /\ worker.health \in {"off", "failed"} => \A l \in Loads : Idle(l)
    /\ worker.health = "starting" =>
          \A l, m \in Loads : ~Idle(l) /\ ~Idle(m) => l = m

\* A snapshot that will show every change up to the connection.
Fresh(l) ==
    \/ worker.loads[l].stage = "slot"
    \/ worker.loads[l].stage \in {"rows", "back"} /\ worker.loads[l].slot >= feed.since

\* Changes the account can be read after, with nothing broken since.
Standing(p) ==
    {c \in chain.changed[p] \ chain.broken[p] : \A b \in chain.broken[p] : b < c}

Accounted ==
    feed.connected /\ ~feed.missed /\ worker.health \in {"starting", "live"} =>
        \A p \in Pools : \A c \in Standing(p) :
            \/ c =< worker.store[p].slot
            \/ [pool |-> p, slot |-> c] \in feed.mail
            \/ c =< feed.since /\ \E l \in Loads : Fresh(l)

RouterInv == WorkerTypeOK /\ LoadsOK /\ StoreOK /\ ChainOK /\ LifeOK /\ Accounted

-----------------------------------------------------------------------------
\* Slots are integers and no load, store or feed holds anything else.
LEMMA Slots ==
    ASSUME WorkerTypeOK
    PROVE  /\ Slot \subseteq Int /\ NoSlot \in Int /\ MaybeSlot \subseteq Int
           /\ chain.slot \in Slot /\ feed.since \in MaybeSlot
           /\ worker.currentSlot \in MaybeSlot
           /\ \A p \in Pools : /\ worker.store[p] \in [slot : MaybeSlot, asOf : MaybeSlot]
                               /\ chain.changed[p] \subseteq Slot
                               /\ chain.broken[p] \subseteq Slot
                               /\ Standing(p) \subseteq Slot
           /\ \A l \in Loads : worker.loads[l].slot \in MaybeSlot
BY WorkerAssumption DEF WorkerTypeOK, Memory, Load, Slot, NoSlot, MaybeSlot, Standing

\* What a step that only changes one load does to the memory.
LEMMA LoadMoved ==
    ASSUME NEW w \in Memory, NEW l \in Loads, NEW load \in Load,
           worker' = [w EXCEPT !.loads[l] = load]
    PROVE  /\ worker' \in Memory
           /\ worker'.health = w.health /\ worker'.syncSlot = w.syncSlot
           /\ worker'.store = w.store
           /\ \A m \in Loads : worker'.loads[m] = IF m = l THEN load ELSE w.loads[m]
<1>1. [w.loads EXCEPT ![l] = load] \in [Loads -> Load] BY DEF Memory
<1>2. worker' = [w EXCEPT !.loads = [w.loads EXCEPT ![l] = load]] OBVIOUS
<1> HIDE DEF Load
<1> QED BY <1>1, <1>2 DEF Memory

\* The initial state satisfies the invariant.
LEMMA InitRouter == WorkerInit => RouterInv
<1> SUFFICES ASSUME WorkerInit PROVE RouterInv OBVIOUS
<1> USE DEF WorkerInit, NoWorker, NoFeed, NoLoad, NoState
<1>1. WorkerTypeOK
  BY WorkerAssumption DEF WorkerTypeOK, Memory, Load, Slot, MaybeSlot, NoSlot
<1>2. LoadsOK /\ StoreOK /\ LifeOK /\ Accounted
  BY DEF LoadsOK, StoreOK, LifeOK, Accounted, Idle, NoSlot
<1>3. ChainOK BY DEF ChainOK, NoSlot
<1> QED BY <1>1, <1>2, <1>3 DEF RouterInv

\* A new slot: news of its changes is in the mail of a connected feed.
LEMMA NewSlotStep ==
    ASSUME RouterInv, NEW P \in SUBSET Pools, NEW B \in SUBSET P, NewSlot(P, B)
    PROVE  RouterInv'
<1> USE DEF RouterInv
<1> DEFINE s == chain.slot + 1
<1>0. s \in Slot /\ s > chain.slot /\ worker' = worker
  BY WorkerAssumption, Slots DEF NewSlot, Slot
<1>1. /\ chain'.slot = s
      /\ chain'.changed = [p \in Pools |-> IF p \in P THEN chain.changed[p] \cup {s}
                                           ELSE chain.changed[p]]
      /\ chain'.broken = [p \in Pools |-> IF p \in B THEN chain.broken[p] \cup {s}
                                          ELSE chain.broken[p]]
      /\ chain' = [slot |-> chain'.slot, changed |-> chain'.changed, broken |-> chain'.broken]
  BY DEF NewSlot, With
<1>2. /\ feed'.connected = feed.connected /\ feed'.since = feed.since
      /\ feed'.missed = feed.missed /\ feed.mail \subseteq feed'.mail
      /\ feed.connected => \A p \in P : [pool |-> p, slot |-> s] \in feed'.mail
  BY DEF NewSlot, WorkerTypeOK
<1>3. WorkerTypeOK'
  <2>1. chain' \in [slot : Slot, changed : [Pools -> SUBSET Slot], broken : [Pools -> SUBSET Slot]]
    <3>1. chain'.changed \in [Pools -> SUBSET Slot] BY <1>0, <1>1 DEF WorkerTypeOK, Memory
    <3>2. chain'.broken \in [Pools -> SUBSET Slot] BY <1>0, <1>1 DEF WorkerTypeOK, Memory
    <3> QED BY <1>0, <1>1, <3>1, <3>2
  <2>2. feed' \in [connected : BOOLEAN, since : MaybeSlot, mail : SUBSET Update,
                   missed : BOOLEAN]
    <3>1. {[pool |-> p, slot |-> s] : p \in P} \subseteq Update BY <1>0 DEF Update
    <3> QED BY <3>1 DEF NewSlot, WorkerTypeOK
  <2>3. drops' \in 0..MaxDrops BY WorkerAssumption DEF NewSlot, Drop, WorkerTypeOK
  <2> QED BY <1>0, <2>1, <2>2, <2>3 DEF WorkerTypeOK, Memory
<1> HIDE DEF s
<1>4. LoadsOK' BY <1>0, <1>1, Slots DEF LoadsOK
<1>5. StoreOK' /\ LifeOK' BY <1>0, <1>2 DEF StoreOK, LifeOK, Idle
<1>6. ChainOK'
  <2>1. feed'.since =< chain'.slot BY <1>0, <1>1, <1>2, Slots DEF ChainOK
  <2>2. \A p \in Pools : \A c \in chain'.changed[p] \cup chain'.broken[p] : c =< chain'.slot
    BY <1>0, <1>1, Slots DEF ChainOK
  <2> QED BY <2>1, <2>2 DEF ChainOK
<1>7. Accounted'
  <2>1. \A l \in Loads : Fresh(l) => Fresh(l)' BY <1>0, <1>2 DEF Fresh
  <2>2. \A p \in Pools : \A c \in Standing(p)' : c \in Standing(p) \/ (p \in P /\ c = s)
    BY <1>1 DEF Standing
  <2> SUFFICES ASSUME feed.connected, ~feed.missed, worker.health \in {"starting", "live"},
                      NEW p \in Pools, NEW c \in Standing(p)'
               PROVE  \/ c =< worker.store[p].slot
                      \/ [pool |-> p, slot |-> c] \in feed'.mail
                      \/ c =< feed.since /\ \E l \in Loads : Fresh(l)'
    BY <1>0, <1>2 DEF Accounted
  <2> QED BY <1>2, <2>1, <2>2 DEF Accounted
<1> QED BY <1>3, <1>4, <1>5, <1>6, <1>7

\* Losing the connection, or updates on it, leaves nothing to account for.
LEMMA LossStep ==
    ASSUME RouterInv, Disconnect \/ Glitch
    PROVE  RouterInv'
<1> USE DEF RouterInv
<1>1. /\ chain' = chain /\ feed'.since = feed.since /\ feed'.mail = {}
      /\ feed'.connected => feed.connected /\ feed'.missed
      /\ \/ worker' = worker
         \/ worker' = [worker EXCEPT !.ready = FALSE]
  BY DEF Disconnect, Glitch, WorkerTypeOK
<1>2. /\ worker'.health = worker.health /\ worker'.syncSlot = worker.syncSlot
      /\ worker'.store = worker.store /\ worker'.loads = worker.loads
  BY <1>1 DEF WorkerTypeOK, Memory
<1>3. WorkerTypeOK'
  <2>1. feed' \in [connected : BOOLEAN, since : MaybeSlot, mail : SUBSET Update,
                   missed : BOOLEAN]
    BY DEF Disconnect, Glitch, WorkerTypeOK
  <2>2. drops' \in 0..MaxDrops
    BY WorkerAssumption DEF Disconnect, Glitch, Drop, WorkerTypeOK
  <2> QED BY <1>1, <2>1, <2>2 DEF WorkerTypeOK, Memory
<1>4. LoadsOK' /\ StoreOK' /\ ChainOK' /\ LifeOK' /\ Accounted'
  BY <1>1, <1>2 DEF LoadsOK, StoreOK, ChainOK, LifeOK, Accounted, Idle, Standing
<1> QED BY <1>3, <1>4

\* A resync puts a fresh snapshot under way and touches no state.
LEMMA Resynced ==
    ASSUME RouterInv, NEW l \in Loads, NEW w \in Memory,
           w = worker \/ w = [worker EXCEPT !.health = "starting"], Resync(w, l)
    PROVE  /\ worker' \in Memory
           /\ worker'.health = w.health /\ worker'.syncSlot = worker.syncSlot
           /\ worker'.store = worker.store
           /\ \A m \in Loads : worker'.loads[m] = IF m = l THEN [NoLoad EXCEPT !.stage = "slot"]
                                                ELSE worker.loads[m]
<1> DEFINE u == [w EXCEPT !.ready = FALSE, !.synced = {}]
           load == [NoLoad EXCEPT !.stage = "slot"]
<1>1. u \in Memory /\ u.health = w.health /\ u.syncSlot = w.syncSlot /\ u.store = w.store
        /\ u.loads = w.loads
  BY DEF Memory
<1>2. load \in Load BY DEF Load, NoLoad, MaybeSlot
<1>3. worker' = [u EXCEPT !.loads[l] = load] BY DEF Resync
<1>4. w.syncSlot = worker.syncSlot /\ w.store = worker.store /\ w.loads = worker.loads
  BY DEF Memory
<1> HIDE DEF u, load
<1>5. /\ worker' \in Memory
      /\ worker'.health = u.health /\ worker'.syncSlot = u.syncSlot /\ worker'.store = u.store
      /\ \A m \in Loads : worker'.loads[m] = IF m = l THEN load ELSE u.loads[m]
  BY <1>1, <1>2, <1>3, LoadMoved
<1> QED BY <1>1, <1>4, <1>5 DEF load

\* A connection is opened; what it may have missed is before it.
LEMMA ConnectionStep ==
    ASSUME RouterInv, NEW l \in Loads, StartWorker(l) \/ Connect(l)
    PROVE  RouterInv'
<1> USE DEF RouterInv
<1>1. /\ chain' = chain /\ drops' = drops
      /\ \/ feed' = Connection
         \/ feed' = [Connection EXCEPT !.missed = (worker.syncSlot = NoSlot)]
      /\ feed'.connected /\ feed'.since = chain.slot /\ feed'.mail = {}
      /\ feed' \in [connected : BOOLEAN, since : MaybeSlot, mail : SUBSET Update,
                    missed : BOOLEAN]
  <2>1. /\ chain' = chain /\ drops' = drops
        /\ \/ feed' = Connection
           \/ feed' = [Connection EXCEPT !.missed = (worker.syncSlot = NoSlot)]
    BY DEF StartWorker, Connect
  <2>2. (worker.syncSlot = NoSlot) \in BOOLEAN /\ chain.slot \in MaybeSlot
    BY Slots DEF MaybeSlot
  <2>3. PICK b \in BOOLEAN : feed' = [connected |-> TRUE, since |-> chain.slot,
                                      mail |-> {}, missed |-> b]
    BY <2>1, <2>2 DEF Connection
  <2> QED BY <2>1, <2>2, <2>3
<1>2. ChainOK' BY <1>1, Slots DEF ChainOK
<1>3. CASE \E w \in Memory :
              /\ \/ w = worker /\ worker.health = "live"
                 \/ w = [worker EXCEPT !.health = "starting"] /\ worker.health = "off"
              /\ Resync(w, l)
  <2>1. PICK w \in Memory :
                 /\ \/ w = worker /\ worker.health = "live"
                    \/ w = [worker EXCEPT !.health = "starting"] /\ worker.health = "off"
                 /\ Resync(w, l)
    BY <1>3
  <2>2. /\ worker'.health = w.health /\ worker'.syncSlot = worker.syncSlot
        /\ worker'.store = worker.store /\ worker' \in Memory
        /\ worker'.loads[l].stage = "slot"
        /\ \A m \in Loads : m # l => worker'.loads[m] = worker.loads[m]
    BY <2>1, Resynced DEF NoLoad
  <2>3. WorkerTypeOK' BY <1>1, <2>2 DEF WorkerTypeOK, Memory
  <2>4. LoadsOK' /\ StoreOK' BY <1>1, <2>2 DEF LoadsOK, StoreOK
  <2>5. w.health = (IF worker.health = "off" THEN "starting" ELSE "live")
    BY <2>1 DEF WorkerTypeOK, Memory
  <2>6. worker.health = "off" => \A m \in Loads : m # l => Idle(m)'
    BY <2>2 DEF LifeOK, Idle
  <2>7. LifeOK' BY <2>1, <2>2, <2>5, <2>6 DEF LifeOK
  <2>8. Fresh(l)' BY <2>2 DEF Fresh
  <2>9. Accounted' BY <1>1, <2>8 DEF Accounted, ChainOK, Standing
  <2> QED BY <1>2, <2>3, <2>4, <2>7, <2>9
<1>4. CASE worker' = worker /\ worker.health # "off" /\ feed'.missed
  <2>1. WorkerTypeOK' BY <1>1, <1>4 DEF WorkerTypeOK, Memory
  <2>2. LoadsOK' /\ StoreOK' /\ LifeOK' /\ Accounted'
    BY <1>1, <1>4 DEF LoadsOK, StoreOK, LifeOK, Accounted, Idle
  <2> QED BY <1>2, <2>1, <2>2
<1>5. CASE StartWorker(l)
  <2>1. [worker EXCEPT !.health = "starting"] \in Memory BY DEF WorkerTypeOK, Memory
  <2> QED BY <1>3, <1>5, <2>1 DEF StartWorker
<1>6. CASE Connect(l)
  <2>1. CASE worker.syncSlot = NoSlot
    <3>1. feed'.missed /\ worker' = worker /\ worker.health # "off"
      BY <1>6, <2>1 DEF Connect, Connection
    <3> QED BY <1>4, <3>1
  <2>2. CASE worker.syncSlot # NoSlot
    <3>1. worker.health = "live" BY <2>2 DEF LifeOK
    <3>2. worker \in Memory /\ Resync(worker, l) BY <1>6, <2>2 DEF Connect, WorkerTypeOK
    <3> QED BY <1>3, <3>1, <3>2
  <2> QED BY <2>1, <2>2
<1> QED BY <1>5, <1>6

\* An update goes in unless a later state is there: labels only grow.  One
\* that does not decode was not standing.
LEMMA HearUpdateStep ==
    ASSUME RouterInv, NEW m \in feed.mail, HearUpdate(m)
    PROVE  RouterInv'
<1> USE DEF RouterInv
<1> DEFINE decodes == m.slot \notin chain.broken[m.pool]
           state == IF decodes THEN Stored(worker.store[m.pool], m.slot, m.slot)
                    ELSE worker.store[m.pool]
           P == IF decodes THEN {m.pool} ELSE {}
<1>0. m \in Update /\ m.pool \in Pools /\ m.slot \in Slot BY DEF WorkerTypeOK, Update
<1>1. /\ chain' = chain /\ drops' = drops
      /\ feed'.connected = feed.connected /\ feed'.since = feed.since
      /\ feed'.missed = feed.missed /\ feed'.mail = feed.mail \ {m}
      /\ feed' \in [connected : BOOLEAN, since : MaybeSlot, mail : SUBSET Update,
                    missed : BOOLEAN]
  BY DEF HearUpdate, WorkerTypeOK
<1>2. worker' = Judged([worker EXCEPT !.store[m.pool] = state], P, m.slot)
  <2>1. CASE decodes BY <2>1 DEF HearUpdate, Undecoded, Heard
  <2>2. CASE ~decodes
    <3>1. worker' = Judged(worker, {}, m.slot) BY <2>2 DEF HearUpdate, Undecoded
    <3>2. worker = [worker EXCEPT !.store[m.pool] = worker.store[m.pool]]
      BY <1>0 DEF WorkerTypeOK, Memory
    <3> QED BY <2>2, <3>1, <3>2
  <2> QED BY <2>1, <2>2
<1>3. state \in [slot : MaybeSlot, asOf : MaybeSlot]
  BY <1>0 DEF Stored, WorkerTypeOK, Memory, MaybeSlot
<1>4. /\ worker'.health = worker.health /\ worker'.syncSlot = worker.syncSlot
      /\ worker'.loads = worker.loads
      /\ worker'.store = [worker.store EXCEPT ![m.pool] = state]
  BY <1>2 DEF Judged, WorkerTypeOK, Memory
<1> HIDE DEF state
<1>5. WorkerTypeOK'
  <2>1. Later(m.slot, worker.currentSlot) \in MaybeSlot
    BY <1>0, Slots DEF Later, MaybeSlot
  <2>2. (feed.connected /\ worker.synced \cup P = Pools) \in BOOLEAN OBVIOUS
  <2> QED BY <1>0, <1>1, <1>2, <1>3, <2>1, <2>2 DEF Judged, WorkerTypeOK, Memory
<1>6. \A p \in Pools : worker'.store[p] = IF p = m.pool THEN state ELSE worker.store[p]
  BY <1>0, <1>4 DEF WorkerTypeOK, Memory
<1>7. \A p \in Pools : /\ worker.store[p].slot =< worker'.store[p].slot
                       /\ worker'.store[p].slot =< worker'.store[p].asOf
                       /\ p = m.pool /\ decodes => m.slot =< worker'.store[p].slot
  BY <1>0, <1>6, Slots DEF Stored, StoreOK, state
<1>8. LoadsOK' /\ StoreOK' /\ ChainOK' /\ LifeOK'
  BY <1>1, <1>4, <1>7 DEF LoadsOK, StoreOK, ChainOK, LifeOK, Idle
<1>9. Accounted'
  <2>1. \A l \in Loads : Fresh(l) => Fresh(l)' BY <1>1, <1>4 DEF Fresh
  <2>2. \A p \in Pools : \A c \in Standing(p) :
           /\ c =< worker.store[p].slot => c =< worker'.store[p].slot
           /\ [pool |-> p, slot |-> c] = m => c =< worker'.store[p].slot
    <3> TAKE p \in Pools
    <3> TAKE c \in Standing(p)
    <3>1. /\ c \in Int /\ worker.store[p].slot \in Int /\ worker'.store[p].slot \in Int
      BY <1>5, Slots DEF WorkerTypeOK, Memory, MaybeSlot
    <3>2. [pool |-> p, slot |-> c] = m => decodes BY DEF Standing, decodes
    <3> QED BY <1>7, <3>1, <3>2
  <2>3. \A p \in Pools : Standing(p)' = Standing(p) BY <1>1 DEF Standing
  <2> QED BY <1>1, <1>4, <2>1, <2>2, <2>3 DEF Accounted
<1> QED BY <1>5, <1>8, <1>9

\* Asking for the slot or the rows of a snapshot.
LEMMA AskStep ==
    ASSUME RouterInv, NEW l \in Loads, LoadSlot(l) \/ LoadRows(l)
    PROVE  RouterInv'
<1> USE DEF RouterInv
<1> DEFINE load == worker.loads[l]
<1>0. PICK next \in Load :
         /\ \/ /\ load.stage = "slot" /\ next.stage = "rows" /\ next.slot = chain.slot
            \/ /\ load.stage = "rows" /\ next.stage = "back"
               /\ next.slot = load.slot /\ next.asOf = chain.slot
         /\ worker' = [worker EXCEPT !.loads[l] = next]
  <2>1. load \in Load /\ chain.slot \in MaybeSlot BY Slots DEF WorkerTypeOK, Memory, MaybeSlot
  <2>2. CASE LoadSlot(l)
    <3>1. [load EXCEPT !.stage = "rows", !.slot = chain.slot] \in Load BY <2>1 DEF Load
    <3>2. load.stage = "slot" /\ worker' = [worker EXCEPT !.loads[l] =
             [load EXCEPT !.stage = "rows", !.slot = chain.slot]]
      BY <2>2 DEF LoadSlot
    <3> HIDE DEF load
    <3>3. /\ [load EXCEPT !.stage = "rows", !.slot = chain.slot].stage = "rows"
          /\ [load EXCEPT !.stage = "rows", !.slot = chain.slot].slot = chain.slot
      BY <2>1 DEF Load
    <3> QED BY <3>1, <3>2, <3>3
  <2>3. CASE LoadRows(l)
    <3>1. [load EXCEPT !.stage = "back", !.asOf = chain.slot] \in Load BY <2>1 DEF Load
    <3>2. load.stage = "rows" /\ worker' = [worker EXCEPT !.loads[l] =
             [load EXCEPT !.stage = "back", !.asOf = chain.slot]]
      BY <2>3 DEF LoadRows
    <3> HIDE DEF load
    <3>3. /\ [load EXCEPT !.stage = "back", !.asOf = chain.slot].stage = "back"
          /\ [load EXCEPT !.stage = "back", !.asOf = chain.slot].slot = load.slot
          /\ [load EXCEPT !.stage = "back", !.asOf = chain.slot].asOf = chain.slot
      BY <2>1 DEF Load
    <3> QED BY <3>1, <3>2, <3>3
  <2> QED BY <2>2, <2>3
<1>1. /\ chain' = chain /\ feed' = feed /\ drops' = drops
      /\ worker'.health = worker.health /\ worker'.syncSlot = worker.syncSlot
      /\ worker'.store = worker.store /\ worker' \in Memory
      /\ \A m \in Loads : worker'.loads[m] = IF m = l THEN next ELSE worker.loads[m]
  BY <1>0, LoadMoved DEF LoadSlot, LoadRows, WorkerTypeOK
<1>2. WorkerTypeOK' BY <1>1 DEF WorkerTypeOK, Memory
<1>3. \A m \in Loads :
         \/ worker'.loads[m] = worker.loads[m]
         \/ /\ worker.loads[m].stage = "slot" /\ worker'.loads[m].stage = "rows"
            /\ worker'.loads[m].slot = chain.slot
         \/ /\ worker.loads[m].stage = "rows" /\ worker'.loads[m].stage = "back"
            /\ worker'.loads[m].slot = worker.loads[m].slot
            /\ worker'.loads[m].asOf = chain.slot
  BY <1>0, <1>1
<1>4. LoadsOK' BY <1>1, <1>3, Slots DEF LoadsOK
<1>5. \A m \in Loads : Idle(m) <=> Idle(m)' BY <1>3 DEF Idle
<1>6. StoreOK' /\ ChainOK' /\ LifeOK' BY <1>1, <1>5 DEF StoreOK, ChainOK, LifeOK
<1>7. \A m \in Loads : Fresh(m) => Fresh(m)'
  <2>1. chain.slot >= feed.since BY Slots DEF ChainOK
  <2> QED BY <1>1, <1>3, <2>1 DEF Fresh
<1>8. Accounted' BY <1>1, <1>7 DEF Accounted, Standing
<1> QED BY <1>2, <1>4, <1>6, <1>8

\* A snapshot comes back: labels only grow, and a fresh one covers what was
\* before the connection and stands.
LEMMA LoadReturnStep ==
    ASSUME RouterInv, NEW l \in Loads, LoadReturn(l)
    PROVE  RouterInv'
<1> USE DEF RouterInv
<1> DEFINE slot == worker.loads[l].slot
           asOf == worker.loads[l].asOf
<1>0. worker.loads[l].stage = "back" /\ slot \in Slot /\ asOf \in Slot /\ slot =< asOf
  BY DEF LoadReturn, LoadsOK
<1>1. chain' = chain /\ feed' = feed /\ drops' = drops BY DEF LoadReturn
<1>p. PICK learnt \in Learnt(l) : worker' = Judged(Snapshot(l, learnt), Decoded(l), learnt)
  BY DEF LoadReturn
<1>q. learnt \in Slot /\ (Decoded(l) # {} => learnt = slot)
  BY <1>0, WorkerAssumption DEF Learnt, Slot
<1>2. /\ worker'.health = "live" /\ worker'.syncSlot = learnt
      /\ worker'.loads = [worker.loads EXCEPT ![l] = NoLoad]
      /\ worker'.store = [p \in Pools |-> IF p \in Decoded(l)
                                          THEN Stored(worker.store[p], slot, asOf)
                                          ELSE worker.store[p]]
  <2>1. /\ worker'.health = "live" /\ worker'.syncSlot = learnt
        /\ worker'.loads = [worker.loads EXCEPT ![l] = NoLoad]
        /\ worker'.store = [p \in Pools |-> IF p \in Decoded(l)
                                            THEN Stored(worker.store[p], learnt, asOf)
                                            ELSE worker.store[p]]
    BY <1>p DEF Judged, Snapshot, WorkerTypeOK, Memory
  <2> QED BY <1>q, <2>1
<1>3. WorkerTypeOK'
  <2>1. \A p \in Pools : Stored(worker.store[p], slot, asOf) \in [slot : MaybeSlot, asOf : MaybeSlot]
    BY <1>0 DEF Stored, WorkerTypeOK, Memory, Load, MaybeSlot
  <2>2. worker'.store \in [Pools -> [slot : MaybeSlot, asOf : MaybeSlot]]
    BY <1>2, <2>1 DEF WorkerTypeOK, Memory
  <2>3. Later(learnt, worker.currentSlot) \in MaybeSlot /\ learnt \in MaybeSlot
    BY <1>q, Slots DEF Later, MaybeSlot
  <2>4. worker'.loads \in [Loads -> Load]
    <3>1. NoLoad \in Load BY DEF NoLoad, Load, MaybeSlot
    <3>2. worker.loads \in [Loads -> Load] BY DEF WorkerTypeOK, Memory
    <3> HIDE DEF Load, NoLoad
    <3> QED BY <1>2, <3>1, <3>2
  <2>5. /\ worker' = [health |-> worker'.health, ready |-> worker'.ready,
                      synced |-> worker'.synced, syncSlot |-> worker'.syncSlot,
                      currentSlot |-> worker'.currentSlot, store |-> worker'.store,
                      loads |-> worker'.loads]
        /\ worker'.ready \in BOOLEAN /\ worker'.synced \in SUBSET Pools
        /\ worker'.currentSlot = Later(learnt, worker.currentSlot)
    BY <1>p DEF Judged, Snapshot, Decoded, WorkerTypeOK, Memory
  <2> HIDE DEF slot
  <2>6. worker' \in Memory BY <1>2, <2>2, <2>3, <2>4, <2>5 DEF Memory
  <2> QED BY <1>1, <2>6 DEF WorkerTypeOK
<1> HIDE DEF asOf, slot
<1>4. \A p \in Pools : /\ worker.store[p].slot =< worker'.store[p].slot
                       /\ p \in Decoded(l) => slot =< worker'.store[p].slot
                       /\ worker'.store[p].slot =< worker'.store[p].asOf
  BY <1>0, <1>2, Slots DEF Stored, StoreOK
<1>5. \A m \in Loads : m # l => worker'.loads[m] = worker.loads[m]
  BY <1>2 DEF WorkerTypeOK, Memory
<1>6. worker'.loads[l] = NoLoad BY <1>2 DEF WorkerTypeOK, Memory
<1>7. LoadsOK' BY <1>1, <1>5, <1>6 DEF LoadsOK, NoLoad
<1>8. StoreOK' /\ ChainOK' /\ LifeOK'
  <2>1. worker.health # "off" BY <1>0 DEF LifeOK, Idle
  <2> QED BY <1>1, <1>2, <1>4 DEF StoreOK, ChainOK, LifeOK
<1>9. Accounted'
  <2>1. worker.health \in {"starting", "live"} BY <1>0 DEF LifeOK, Idle, WorkerTypeOK, Memory
  <2>2. \A p \in Pools : \A c \in Standing(p) :
           /\ c =< worker.store[p].slot => c =< worker'.store[p].slot
           /\ c =< feed.since /\ feed.since =< slot => c =< worker'.store[p].slot
    <3> TAKE p \in Pools
    <3> TAKE c \in Standing(p)
    <3>1. /\ c \in Int /\ worker.store[p].slot \in Int /\ worker'.store[p].slot \in Int
          /\ slot \in Int /\ feed.since \in Int /\ asOf \in Int
      BY <1>0, <1>3, Slots DEF WorkerTypeOK, Memory, Load, MaybeSlot
    <3>2. ASSUME c =< asOf PROVE p \in Decoded(l)
      BY <3>2 DEF Decoded, Readable, Standing, asOf
    <3> QED BY <1>0, <1>4, <3>1, <3>2
  <2>3. Fresh(l) => feed.since =< slot BY <1>0, Slots DEF Fresh, slot
  <2>4. \A m \in Loads : m # l /\ Fresh(m) => Fresh(m)' BY <1>1, <1>5 DEF Fresh
  <2>5. \A p \in Pools : Standing(p)' = Standing(p) BY <1>1 DEF Standing
  <2> QED BY <1>1, <2>1, <2>2, <2>3, <2>4, <2>5 DEF Accounted
<1> QED BY <1>3, <1>7, <1>8, <1>9

\* A load fails: the first one leaves the service down, a later one ends it.
LEMMA LoadFailStep ==
    ASSUME RouterInv, NEW l \in Loads, LoadFail(l)
    PROVE  RouterInv'
<1> USE DEF RouterInv
<1>0. ~Idle(l) /\ chain' = chain /\ drops' \in 0..MaxDrops
  BY WorkerAssumption DEF LoadFail, Drop, Idle, WorkerTypeOK, Memory
<1>1. CASE worker.health = "starting"
  <2> DEFINE u == [worker EXCEPT !.loads[l] = NoLoad]
  <2>1. worker' = [u EXCEPT !.health = "failed"] /\ feed' = feed BY <1>1 DEF LoadFail
  <2>2. NoLoad \in Load /\ worker \in Memory
    BY DEF NoLoad, Load, MaybeSlot, WorkerTypeOK
  <2>3. /\ u \in Memory
        /\ u.health = worker.health /\ u.syncSlot = worker.syncSlot /\ u.store = worker.store
        /\ \A m \in Loads : u.loads[m] = IF m = l THEN NoLoad ELSE worker.loads[m]
    <3>1. [worker.loads EXCEPT ![l] = NoLoad] \in [Loads -> Load] BY <2>2 DEF Memory
    <3>2. u = [worker EXCEPT !.loads = [worker.loads EXCEPT ![l] = NoLoad]] OBVIOUS
    <3> HIDE DEF u, Load, NoLoad
    <3> QED BY <2>2, <3>1, <3>2 DEF Memory
  <2> HIDE DEF u
  <2>4. /\ worker' \in Memory /\ worker'.health = "failed"
        /\ worker'.syncSlot = u.syncSlot /\ worker'.store = u.store
        /\ worker'.loads = u.loads
    BY <2>1, <2>3 DEF Memory
  <2>5. WorkerTypeOK' BY <1>0, <2>1, <2>4 DEF WorkerTypeOK
  <2>6. \A m \in Loads : worker'.loads[m].stage = "none"
    BY <1>0, <1>1, <2>3, <2>4 DEF LifeOK, Idle, NoLoad
  <2>7. LoadsOK' BY <2>6 DEF LoadsOK
  <2>8. LifeOK' BY <1>1, <2>3, <2>4, <2>6 DEF LifeOK, Idle
  <2>9. StoreOK' /\ ChainOK' /\ Accounted'
    BY <1>0, <2>1, <2>3, <2>4 DEF StoreOK, ChainOK, Accounted
  <2> QED BY <2>5, <2>7, <2>8, <2>9
<1>2. CASE worker.health # "starting"
  <2>1. worker' = NoWorker /\ feed' = NoFeed BY <1>2 DEF LoadFail
  <2>2. WorkerTypeOK'
    <3>1. NoWorker \in Memory
      BY DEF NoWorker, NoLoad, NoState, Memory, Load, MaybeSlot
    <3>2. NoFeed \in [connected : BOOLEAN, since : MaybeSlot, mail : SUBSET Update,
                      missed : BOOLEAN]
      BY DEF NoFeed, MaybeSlot
    <3> QED BY <1>0, <2>1, <3>1, <3>2 DEF WorkerTypeOK
  <2>3. NoSlot =< chain.slot BY WorkerAssumption, Slots DEF Slot, NoSlot
  <2>4. ChainOK' BY <1>0, <2>1, <2>3 DEF ChainOK, NoFeed
  <2>5. LoadsOK' /\ StoreOK' /\ LifeOK' /\ Accounted'
    BY <2>1 DEF LoadsOK, StoreOK, LifeOK, Accounted, Idle, NoWorker, NoFeed, NoLoad,
                NoState, NoSlot
  <2> QED BY <2>2, <2>4, <2>5
<1> QED BY <1>1, <1>2

\* Every step keeps the invariant.
LEMMA NextRouter == RouterInv /\ [WorkerNext]_workerVars => RouterInv'
<1> SUFFICES ASSUME RouterInv, [WorkerNext]_workerVars PROVE RouterInv' OBVIOUS
<1>1. CASE UNCHANGED workerVars
  BY <1>1 DEF workerVars, RouterInv, WorkerTypeOK, LoadsOK, StoreOK, ChainOK, LifeOK,
              Accounted, Idle, Fresh, Standing
<1>2. ASSUME NEW s \in Slot, HearSlot(s) PROVE RouterInv'
  <2>1. \A p \in Pools : worker'.store[p] = worker.store[p]
    BY <1>2 DEF HearSlot, RouterInv, WorkerTypeOK
  <2>2. /\ chain' = chain /\ feed' = feed /\ drops' = drops
        /\ worker' = [worker EXCEPT !.currentSlot = s]
    BY <1>2 DEF HearSlot
  <2>3. WorkerTypeOK' BY <2>2 DEF RouterInv, WorkerTypeOK, Memory, Load, MaybeSlot
  <2>4. /\ worker'.health = worker.health /\ worker'.syncSlot = worker.syncSlot
        /\ worker'.store = worker.store /\ worker'.loads = worker.loads
    BY <2>2 DEF RouterInv, WorkerTypeOK
  <2> QED BY <2>2, <2>3, <2>4 DEF RouterInv, LoadsOK, StoreOK, ChainOK, LifeOK, Accounted,
                                  Idle, Fresh, Standing
<1>3. ASSUME NEW l \in Loads, LoadStep(l) \/ LoadFail(l) PROVE RouterInv'
  <2> QED BY <1>3, AskStep, ConnectionStep, LoadReturnStep, LoadFailStep DEF LoadStep
<1> QED BY <1>1, <1>2, <1>3, NewSlotStep, LossStep, HearUpdateStep DEF WorkerNext

-----------------------------------------------------------------------------
\* The service hands out only states that show every change up to the bound
\* it was built with.  (stateFor, loadSnapshot and onStream in worker.ts)
THEOREM ServesOnlyRecent == WorkerSpec => []ServedIsRecent
<1>1. RouterInv => ServedIsRecent
  <2> SUFFICES ASSUME RouterInv, NEW p \in Pools, Serves(p),
                      NEW c \in chain.changed[p], c =< worker.currentSlot - StaleAfter
               PROVE  c =< worker.store[p].asOf
    BY DEF ServedIsRecent
  <2>1. /\ c \in Int /\ worker.currentSlot \in Int
        /\ worker.store[p].slot \in Int /\ worker.store[p].asOf \in Int
    BY Slots DEF RouterInv
  <2> QED BY <2>1, WorkerAssumption DEF RouterInv, StoreOK, Serves
<1> QED BY <1>1, InitRouter, NextRouter, PTL DEF WorkerSpec

\* Once everything that was sent has arrived the store is the chain for every
\* pool that can be read: no order of updates, snapshots, skipped rows and
\* reconnections leaves an older state behind.  (MemoryStateStore.set, ingest,
\* resync and onStream)
THEOREM QuietIsCurrent == WorkerSpec => []QuietMeansCurrent
<1>1. RouterInv => QuietMeansCurrent
  <2> SUFFICES ASSUME RouterInv, worker.health = "live", feed.connected, ~feed.missed,
                      feed.mail = {}, \A l \in Loads : worker.loads[l].stage = "none",
                      NEW p \in Pools, Readable(p, chain.slot), NEW c \in chain.changed[p]
               PROVE  c =< worker.store[p].asOf
    BY DEF QuietMeansCurrent
  <2>1. \A d \in Standing(p) : d =< worker.store[p].slot
    BY DEF RouterInv, Accounted, Fresh
  <2>2. \A b \in chain.broken[p] : b \in Int /\ b =< chain.slot
    BY Slots DEF RouterInv, ChainOK
  <2>3. c \in Int /\ worker.store[p].slot \in Int /\ worker.store[p].asOf \in Int
          /\ chain.changed[p] \subseteq Int
    BY Slots DEF RouterInv
  <2>4. \E d \in Standing(p) : c =< d
    <3>1. CASE chain.broken[p] = {} BY <2>3, <3>1 DEF Standing
    <3>2. CASE chain.broken[p] # {}
      <4>1. PICK d \in Standing(p) : TRUE BY <2>2, <3>2 DEF Readable, Standing
      <4>2. c > d => c \in Standing(p) BY <2>2, <2>3, <4>1 DEF Standing
      <4> QED BY <2>3, <4>1, <4>2 DEF Standing
    <3> QED BY <3>1, <3>2
  <2> QED BY <2>1, <2>3, <2>4 DEF RouterInv, StoreOK, Standing
<1> QED BY <1>1, InitRouter, NextRouter, PTL DEF WorkerSpec
=============================================================================
