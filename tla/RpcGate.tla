------------------------------ MODULE RpcGate -------------------------------
(***************************************************************************)
(* The gate in front of the RPC endpoint (src/lib/rpc-limiter.ts): at most    *)
(* Limit calls are meant to be out at a time, the others queue, and a call    *)
(* that is refused with a 429 is tried again while it holds its slot.         *)
(*                                                                           *)
(* The event loop runs one continuation at a time.  A waiter that release()   *)
(* wakes takes its slot only when its continuation runs, and other callers    *)
(* may enter before that.  The endpoint is external: it answers, refuses or   *)
(* fails as it likes.                                                         *)
(***************************************************************************)
EXTENDS Integers, Sequences, FiniteSets

CONSTANTS
    Callers,  \* calls that may be made at once
    Limit,    \* concurrency
    Retries   \* retries after a 429

ASSUME GateAssumption ==
    IsFiniteSet(Callers) /\ Limit \in Nat \ {0} /\ Retries \in Nat

VARIABLES
    call,     \* what each caller is at, and its retries so far
    active,   \* slots taken, by the gate's own count
    waiting   \* the gate's queue

gateVars == <<call, active, waiting>>

AtRest == [at |-> "idle", tries |-> 0]
GateInit ==
    /\ call = [c \in Callers |-> AtRest]
    /\ active = 0
    /\ waiting = <<>>

InState(s) == {c \in Callers : call[c].at = s}
Holders == InState("fetch") \cup InState("sleep")

GateTypeOK ==
    /\ call \in [Callers -> [at : {"idle", "waiting", "woken", "fetch", "sleep"},
                             tries : 0..Retries]]
    /\ active \in Nat
    /\ waiting \in Seq(Callers)

-----------------------------------------------------------------------------
\* enter: take a slot, or queue for one.
Enter(c) ==
    /\ call[c].at = "idle"
    /\ IF active >= Limit
         THEN /\ call' = [call EXCEPT ![c].at = "waiting"]
              /\ waiting' = Append(waiting, c)
              /\ UNCHANGED active
         ELSE /\ call' = [call EXCEPT ![c].at = "fetch"]
              /\ active' = active + 1
              /\ UNCHANGED waiting

Wake(c) ==
    /\ call[c].at = "woken"
    /\ call' = [call EXCEPT ![c].at = "fetch"]
    /\ active' = active + 1
    /\ UNCHANGED waiting

\* The call of c is over; release() gives the slot back and wakes the head.
Release(c) ==
    /\ active' = active - 1
    /\ IF waiting = <<>>
         THEN call' = [call EXCEPT ![c] = AtRest] /\ UNCHANGED waiting
         ELSE /\ call' = [call EXCEPT ![c] = AtRest, ![Head(waiting)].at = "woken"]
              /\ waiting' = Tail(waiting)

\* An answer, or a fetch that throws: the slot is given back either way.
Answer(c) == call[c].at = "fetch" /\ Release(c)

Refused(c) ==
    /\ call[c].at = "fetch" /\ call[c].tries < Retries
    /\ call' = [call EXCEPT ![c].at = "sleep", ![c].tries = @ + 1]
    /\ UNCHANGED <<active, waiting>>

Retry(c) ==
    /\ call[c].at = "sleep"
    /\ call' = [call EXCEPT ![c].at = "fetch"]
    /\ UNCHANGED <<active, waiting>>

\* Wrong on purpose: the RateLimitError leaves without giving the slot back.
MutantOutOfRetries(c) ==
    /\ call[c].at = "fetch" /\ call[c].tries >= Retries
    /\ call' = [call EXCEPT ![c] = AtRest]
    /\ UNCHANGED <<active, waiting>>

\* The last refusal is thrown; finally gives the slot back.
OutOfRetries(c) ==
    /\ call[c].at = "fetch" /\ call[c].tries >= Retries
    /\ Release(c)

GateStep(c) == Wake(c) \/ Answer(c) \/ Refused(c) \/ Retry(c) \/ OutOfRetries(c)
GateNext == \E c \in Callers : Enter(c) \/ GateStep(c)

GateSpec == GateInit /\ [][GateNext]_gateVars

-----------------------------------------------------------------------------
\* The queue never sleeps beside a free slot: the gate counts the calls that
\* hold one, however they end, and while anybody waits, those calls and the
\* waiters on their way make up the limit, whoever slipped in before them.
GateNeverStalls ==
    /\ active = Cardinality(Holders)
    /\ waiting # <<>> => active + Cardinality(InState("woken")) >= Limit
=============================================================================
