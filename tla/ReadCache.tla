----------------------------- MODULE ReadCache ------------------------------
(***************************************************************************)
(* One key of createReadCache (src/lib/read-cache.ts): a value with a time   *)
(* to live, one read under way that callers join, and the option to answer   *)
(* with the old value while it is read anew.                                 *)
(*                                                                           *)
(* What is read is external: a source whose versions only grow.  A read sees *)
(* the version of some moment between its start and its end.                 *)
(***************************************************************************)
EXTENDS Integers, FiniteSetsExt

CONSTANTS
    Readers,    \* callers
    Reads,      \* names for the reads under way; the code needs one
    MaxVersion  \* bound: the source's last version

ASSUME CacheAssumption == MaxVersion \in Nat

VARIABLES
    version,  \* of the source
    swr,      \* staleWhileRevalidate of this cache
    value,    \* the cached value, and whether its time has not passed
    read,     \* reads under way: the value seen, and the one a refresh holds
    ask,      \* the read each caller waits for, and what was served before
    answer    \* the last answer, and what was served before its call

cacheVars == <<version, swr, value, read, ask, answer>>

Unseen == -1
NoValue == [seen |-> Unseen, live |-> FALSE]
NoRead == [on |-> FALSE, seen |-> Unseen, held |-> Unseen]
Resting == [on |-> {}, floor |-> Unseen]
Seen == {Unseen} \cup 0..MaxVersion

CacheTypeOK ==
    /\ version \in 0..MaxVersion /\ swr \in BOOLEAN
    /\ value \in [seen : Seen, live : BOOLEAN]
    /\ read \in [Reads -> [on : BOOLEAN, seen : Seen, held : Seen]]
    /\ ask \in [Readers -> [on : SUBSET Reads, floor : Seen]]
    /\ answer \in [floor : Seen, got : Seen, best : Seen]

CacheInit ==
    /\ version = 0 /\ swr \in BOOLEAN
    /\ value = NoValue
    /\ read = [r \in Reads |-> NoRead]
    /\ ask = [c \in Readers |-> Resting]
    /\ answer = [floor |-> Unseen, got |-> Unseen, best |-> Unseen]

Running == {r \in Reads : read[r].on}
Answered(floor, got) ==
    answer' = [floor |-> floor, got |-> got, best |-> Max({answer.best, got})]

-----------------------------------------------------------------------------
(* Calls                                                                    *)

\* The cached value: it is live, or stale while the read under way or the one
\* this call starts brings another.
AnswerNow == Answered(answer.best, value.seen) /\ UNCHANGED <<version, swr, value, ask>>
Join(c, r) ==
    /\ ask' = [ask EXCEPT ![c] = [on |-> {r}, floor |-> answer.best]]
    /\ UNCHANGED <<version, swr, value, answer>>
Begin(r, held) ==
    /\ ~read[r].on
    /\ read' = [read EXCEPT ![r] = [on |-> TRUE, seen |-> Unseen, held |-> held]]

Live(fresh) == ~fresh /\ value.live
Stale(fresh) == ~fresh /\ swr /\ value.seen # Unseen

\* Wrong on purpose: a fresh call does not join the read under way.
MutantCall(c, fresh, r) ==
    /\ ask[c] = Resting
    /\ \/ Live(fresh) /\ AnswerNow /\ UNCHANGED read
       \/ ~Live(fresh) /\ Running # {} /\ Stale(fresh) /\ AnswerNow /\ UNCHANGED read
       \/ ~Live(fresh) /\ ~fresh /\ r \in Running /\ ~Stale(fresh) /\ Join(c, r) /\ UNCHANGED read
       \/ ~Live(fresh) /\ Running = {} /\ Stale(fresh) /\ Begin(r, value.seen) /\ AnswerNow
       \/ ~Live(fresh) /\ (fresh \/ Running = {}) /\ ~Stale(fresh) /\ Begin(r, Unseen) /\ Join(c, r)

Call(c, fresh, r) ==
    /\ ask[c] = Resting
    /\ \/ Live(fresh) /\ AnswerNow /\ UNCHANGED read
       \/ ~Live(fresh) /\ Running # {} /\ Stale(fresh) /\ AnswerNow /\ UNCHANGED read
       \/ ~Live(fresh) /\ r \in Running /\ ~Stale(fresh) /\ Join(c, r) /\ UNCHANGED read
       \/ ~Live(fresh) /\ Running = {} /\ Stale(fresh) /\ Begin(r, value.seen) /\ AnswerNow
       \/ ~Live(fresh) /\ Running = {} /\ ~Stale(fresh) /\ Begin(r, Unseen) /\ Join(c, r)

-----------------------------------------------------------------------------
(* The read under way                                                       *)

Look(r) ==
    /\ read[r].on /\ read[r].seen = Unseen
    /\ read' = [read EXCEPT ![r].seen = version]
    /\ UNCHANGED <<version, swr, value, ask, answer>>

Waiting(r) == {c \in Readers : r \in ask[c].on}
Dismiss(r) ==
    /\ read' = [read EXCEPT ![r] = NoRead]
    /\ ask' = [c \in Readers |-> IF r \in ask[c].on THEN Resting ELSE ask[c]]

\* The value is kept and everybody who joined is given it; answer shows any one.
Arrive(r) ==
    /\ read[r].on /\ read[r].seen # Unseen
    /\ value' = [seen |-> read[r].seen, live |-> TRUE]
    /\ \/ Waiting(r) = {} /\ UNCHANGED answer
       \/ \E c \in Waiting(r) : Answered(ask[c].floor, read[r].seen)
    /\ Dismiss(r)
    /\ UNCHANGED <<version, swr>>

\* Who joined sees the error.  A refresh holds the value it began with for a
\* while, unless there is a live one.
ReadFails(r) ==
    /\ read[r].on
    /\ value' = IF read[r].held = Unseen \/ value.live THEN value
                ELSE [seen |-> read[r].held, live |-> TRUE]
    /\ Dismiss(r)
    /\ UNCHANGED <<version, swr, answer>>

-----------------------------------------------------------------------------
(* Time, other keys and the source                                          *)

Lapse ==
    /\ value.live
    /\ value' = [value EXCEPT !.live = FALSE]
    /\ UNCHANGED <<version, swr, read, ask, answer>>

Evict ==
    /\ value # NoValue
    /\ value' = NoValue
    /\ UNCHANGED <<version, swr, read, ask, answer>>

Publish ==
    /\ version < MaxVersion
    /\ version' = version + 1
    /\ UNCHANGED <<swr, value, read, ask, answer>>

CacheNext ==
    \/ \E c \in Readers, fresh \in BOOLEAN, r \in Reads : Call(c, fresh, r)
    \/ \E r \in Reads : Look(r) \/ Arrive(r) \/ ReadFails(r)
    \/ Lapse \/ Evict \/ Publish

CacheSpec == CacheInit /\ [][CacheNext]_cacheVars

-----------------------------------------------------------------------------
\* No caller is told something older than what anybody was told before it
\* asked: not by a late read, nor by the value a failed refresh puts back.
ReadsNeverGoBack == answer.got >= answer.floor
=============================================================================
