----------------------------- MODULE Submission -----------------------------
(***************************************************************************)
(* submitWithPolicy (packages/tx-builder/src/submit.ts): a signed             *)
(* transaction goes to the private endpoints in turn, and to the public one   *)
(* where the policy allows it and none of them accepted.                      *)
(*                                                                           *)
(* Endpoints and chain are external.  An endpoint may take a transaction and  *)
(* answer that it failed, or not at all; the node that is asked for the block *)
(* height may lag behind.                                                     *)
(***************************************************************************)
EXTENDS Integers, Sequences

CONSTANTS
    Privates,    \* the private submitters, in order
    Public,      \* the public one
    MaxAttempts  \* maxAttemptsPerSubmitter

ASSUME SubmissionAssumption ==
    /\ MaxAttempts \in Nat /\ Privates \in Seq(STRING)
    /\ \A i \in DOMAIN Privates : Privates[i] # Public
    /\ \A i, j \in DOMAIN Privates : Privates[i] = Privates[j] => i = j

VARIABLES
    policy,   \* flags: execution, private submission, public fallback
    sub,      \* the submission: where it is, whose turn, attempts of this turn
    log,      \* attempts and last answer of each submitter
    expired   \* the blockhash can no longer land

submissionVars == <<policy, sub, log, expired>>

Turns == 1..Len(Privates) + 1
Submitters == {Privates[i] : i \in DOMAIN Privates} \cup {Public}
Whose(turn) == IF turn \in DOMAIN Privates THEN Privates[turn] ELSE Public
Answers == {"none", "accepted", "retryable", "refused", "lost"}
Ends == {"accepted", "expired", "exhausted", "disabled", "thrown"}

SubmissionTypeOK ==
    /\ policy \in [execution : BOOLEAN, private : BOOLEAN, public : BOOLEAN]
    /\ sub \in [at : {"begin", "try", "send"} \cup Ends, turn : Turns, tries : 0..MaxAttempts]
    /\ log \in [Submitters -> [sent : Nat, answer : Answers]]
    /\ expired \in BOOLEAN

SubmissionInit ==
    /\ policy \in [execution : BOOLEAN, private : BOOLEAN, public : BOOLEAN]
    /\ sub = [at |-> "begin", turn |-> 1, tries |-> 0]
    /\ log = [s \in Submitters |-> [sent |-> 0, answer |-> "none"]]
    /\ expired = FALSE

-----------------------------------------------------------------------------
Ended(end) == sub' = [sub EXCEPT !.at = end]

\* The turn of the submitter numbered i: the public one's is skipped where the
\* policy has none.
Turn(i) ==
    IF i \in DOMAIN Privates \/ policy.public
      THEN sub' = [at |-> "try", turn |-> i, tries |-> 0]
      ELSE Ended("exhausted")

Submit ==
    /\ sub.at = "begin"
    /\ IF ~policy.execution THEN Ended("disabled")
       ELSE Turn(IF policy.private THEN 1 ELSE Len(Privates) + 1)
    /\ UNCHANGED <<policy, log, expired>>

NextTurn ==
    IF sub.turn \in DOMAIN Privates THEN Turn(sub.turn + 1) ELSE Ended("exhausted")

\* The block height is asked before each attempt; the call may throw.
CheckExpiry ==
    /\ sub.at = "try" /\ sub.tries < MaxAttempts
    /\ \/ Ended("send")
       \/ expired /\ Ended("expired")
       \/ Ended("thrown")
    /\ UNCHANGED <<policy, log, expired>>

NoAttemptLeft ==
    /\ sub.at = "try" /\ sub.tries = MaxAttempts
    /\ NextTurn
    /\ UNCHANGED <<policy, log, expired>>

Attempt(answer) ==
    log' = [log EXCEPT ![Whose(sub.turn)] = [sent |-> @.sent + 1, answer |-> answer]]

Accepted ==
    /\ sub.at = "send"
    /\ Attempt("accepted") /\ Ended("accepted")
    /\ UNCHANGED <<policy, expired>>

Retryable ==
    /\ sub.at = "send"
    /\ Attempt("retryable")
    /\ sub' = [sub EXCEPT !.at = "try", !.tries = @ + 1]
    /\ UNCHANGED <<policy, expired>>

RefusedForGood ==
    /\ sub.at = "send"
    /\ Attempt("refused") /\ NextTurn
    /\ UNCHANGED <<policy, expired>>

\* Wrong on purpose: a transport that throws is taken for one that refused.
MutantAnswerLost ==
    /\ sub.at = "send" /\ sub.turn \in DOMAIN Privates
    /\ Attempt("lost") /\ NextTurn
    /\ UNCHANGED <<policy, expired>>

\* The private transports do not catch what they throw, and neither does the
\* policy; the public submitter does.
AnswerLost ==
    /\ sub.at = "send" /\ sub.turn \in DOMAIN Privates
    /\ Attempt("lost") /\ Ended("thrown")
    /\ UNCHANGED <<policy, expired>>

Outdate ==
    /\ ~expired
    /\ expired' = TRUE
    /\ UNCHANGED <<policy, sub, log>>

SubmissionNext ==
    \/ Submit \/ CheckExpiry \/ NoAttemptLeft
    \/ Accepted \/ Retryable \/ RefusedForGood \/ AnswerLost
    \/ Outdate

SubmissionSpec == SubmissionInit /\ [][SubmissionNext]_submissionVars

-----------------------------------------------------------------------------
\* Nothing more is hoped for from a private submitter.
Failed(s) ==
    \/ log[s].answer = "refused" \/ MaxAttempts = 0
    \/ log[s].answer = "retryable" /\ log[s].sent = MaxAttempts

\* "NEVER additionally broadcast to a public endpoint unless
\* policy.allowPublicFallback is true AND every private attempt failed before
\* acceptance" (submit.ts:10): not after an acceptance, not after an answer
\* that was lost, not with attempts left, and not by retries of either.
PublicIsLastResort ==
    log[Public].sent > 0 =>
        /\ policy.execution /\ policy.public /\ log[Public].sent =< MaxAttempts
        /\ \A i \in DOMAIN Privates :
              IF policy.private THEN Failed(Privates[i]) ELSE log[Privates[i]].sent = 0
=============================================================================
