-------------------------- MODULE ProtocolProvider --------------------------
(***************************************************************************)
(* The dialog through which the web application prepares, reviews, signs and *)
(* sends an action on the stockroom program (components/protocol-provider).  *)
(*                                                                           *)
(* Every "await" lets other continuations, clicks and changes of the wallet  *)
(* in between.  The code counts generations and compares the count after an  *)
(* await; here each call knows whether its generation is still the current   *)
(* one.  A change of the wallet renders at once and its effect runs later,   *)
(* but before the next click.  Server, wallet and chain are external.        *)
(* What the refresh of the balances reads is left out; its await is not.     *)
(***************************************************************************)
EXTENDS Integers

CONSTANTS
    Owners,   \* wallets
    NoOwner,   \* no wallet is connected
    Intents,  \* what may be asked for: action, account, amounts
    NoIntent,
    Tasks     \* bound: runs and signings under way at once

ASSUME ProviderAssumption == NoOwner \notin Owners /\ NoIntent \notin Intents

VARIABLES
    owner,   \* the connected wallet
    lag,     \* the effect of its last change is still to run
    shown,   \* the dialog's state
    intent,  \* intent.current
    task     \* what is under way

providerVars == <<owner, lag, shown, intent, task>>

NotPrepared == [who |-> NoOwner, what |-> NoIntent]
BlankDialog == [prepared |-> NotPrepared, busy |-> FALSE, error |-> FALSE, signature |-> FALSE]
NoTask == [at |-> "none", tx |-> NotPrepared, current |-> FALSE]
Transactions == [who : Owners, what : Intents]

ProviderTypeOK ==
    /\ owner \in Owners \cup {NoOwner} /\ lag \in BOOLEAN
    /\ shown \in [prepared : Transactions \cup {NotPrepared}, busy : BOOLEAN, error : BOOLEAN,
                  signature : BOOLEAN]
    /\ intent \in Intents \cup {NoIntent}
    /\ task \in [Tasks -> [at : {"none", "prepare", "tables", "validator", "wallet", "sent",
                                  "refresh"},
                           tx : Transactions \cup {NotPrepared}, current : BOOLEAN]]

ProviderInit ==
    /\ owner = NoOwner /\ lag = FALSE
    /\ shown = BlankDialog
    /\ intent = NoIntent
    /\ task = [c \in Tasks |-> NoTask]

\* generation.current++
Outdated == [c \in Tasks |-> [task[c] EXCEPT !.current = FALSE]]

-----------------------------------------------------------------------------
(* The wallet and the user                                                  *)

ConnectWallet(o) ==
    /\ o # owner
    /\ owner' = o /\ lag' = TRUE
    /\ UNCHANGED <<shown, intent, task>>

\* The effect on [refresh], which is anew for each owner.
WalletEffect ==
    /\ lag
    /\ lag' = FALSE
    /\ shown' = BlankDialog
    /\ task' = Outdated
    /\ UNCHANGED <<owner, intent>>

\* run: without a wallet the error is shown at once.
Run(c, what) ==
    /\ ~lag /\ ~shown.busy /\ task[c].at = "none"
    /\ IF owner = NoOwner
         THEN shown' = [BlankDialog EXCEPT !.error = TRUE] /\ task' = Outdated
         ELSE /\ shown' = [BlankDialog EXCEPT !.busy = TRUE]
              /\ task' = [Outdated EXCEPT ![c] = [at |-> "prepare", current |-> TRUE,
                                                  tx |-> [who |-> owner, what |-> what]]]
    /\ UNCHANGED <<owner, lag, intent>>

Sign(c) ==
    /\ ~lag /\ ~shown.busy /\ task[c].at = "none"
    /\ owner # NoOwner /\ shown.prepared.who = owner
    /\ shown' = [shown EXCEPT !.busy = TRUE, !.error = FALSE]
    /\ task' = [task EXCEPT ![c] = [at |-> "tables", tx |-> shown.prepared, current |-> TRUE]]
    /\ UNCHANGED <<owner, lag, intent>>

Close ==
    /\ ~lag /\ ~shown.busy
    /\ shown' = BlankDialog
    /\ UNCHANGED <<owner, lag, intent, task>>

-----------------------------------------------------------------------------
(* Continuations                                                            *)

\* Wrong on purpose: whoever is done declares the dialog free.
MutantDone(c, ui) == [ui EXCEPT !.busy = FALSE]
\* finally: a call of an earlier generation leaves the dialog alone.
Done(c, ui) == IF task[c].current THEN [ui EXCEPT !.busy = FALSE] ELSE ui

\* The call ends, having changed the dialog to ui if it is still its own.
End(c, ui) ==
    /\ task' = [task EXCEPT ![c] = NoTask]
    /\ shown' = Done(c, IF task[c].current THEN ui ELSE shown)
    /\ UNCHANGED <<owner, lag>>

Prepared(c) ==
    /\ task[c].at = "prepare"
    /\ End(c, [shown EXCEPT !.prepared = task[c].tx])
    /\ intent' = IF task[c].current THEN task[c].tx.what ELSE intent

Throws(c) ==
    /\ task[c].at \notin {"none", "refresh"}
    /\ End(c, [shown EXCEPT !.error = TRUE])
    /\ UNCHANGED intent

Goes(c, at) ==
    /\ task' = [task EXCEPT ![c].at = at]
    /\ UNCHANGED <<owner, lag, shown, intent>>

Leaves(c) == End(c, shown) /\ UNCHANGED intent

\* Height and lookup tables are read; the validator is still to be loaded.
TablesRead(c) ==
    /\ task[c].at = "tables"
    /\ IF task[c].current THEN Goes(c, "validator") ELSE Leaves(c)

\* Validated against the intent of the moment, then the wallet is asked.
AskWallet(c) ==
    /\ task[c].at = "validator"
    /\ \/ ~task[c].current /\ Leaves(c)
       \/ task[c].current /\ intent = task[c].tx.what /\ Goes(c, "wallet")

Dispatched(c) ==
    /\ task' = [task EXCEPT ![c].at = "sent"]
    /\ shown' = [shown EXCEPT !.signature = TRUE, !.prepared = NotPrepared]
    /\ UNCHANGED <<owner, lag, intent>>

\* Wrong on purpose: what the wallet signed is sent, whatever happened since.
MutantDispatch(c) == task[c].at = "wallet" /\ Dispatched(c)

\* The wallet signed: shown, and sent in the same turn, if still current.
Dispatch(c) ==
    /\ task[c].at = "wallet"
    /\ IF task[c].current THEN Dispatched(c) ELSE Leaves(c)

\* Confirmed and verified; the balances are read anew.
Verified(c) ==
    /\ task[c].at = "sent"
    /\ IF task[c].current THEN Goes(c, "refresh") ELSE Leaves(c)

\* For the opening of packs the signature is then put away, whosever it is.
Refreshed(c) ==
    /\ task[c].at = "refresh"
    /\ \E opening \in BOOLEAN :
          LET ui == [shown EXCEPT !.signature = @ /\ ~opening]
          IN  /\ shown' = Done(c, ui)
              /\ task' = [task EXCEPT ![c] = NoTask]
    /\ UNCHANGED <<owner, lag, intent>>

Continuation(c) ==
    \/ Prepared(c) \/ Throws(c) \/ TablesRead(c) \/ AskWallet(c) \/ Dispatch(c)
        \/ Verified(c) \/ Refreshed(c)

ProviderNext ==
    \/ \E o \in Owners \cup {NoOwner} : ConnectWallet(o)
    \/ WalletEffect \/ Close
    \/ \E c \in Tasks : Sign(c) \/ Continuation(c) \/ \E what \in Intents : Run(c, what)

ProviderSpec == ProviderInit /\ [][ProviderNext]_providerVars

-----------------------------------------------------------------------------
\* Buttons come back exactly when the work they wait for is over: the dialog
\* is busy while a call of the current generation is under way, and no call of
\* an earlier one, for another wallet, frees it or keeps it.
BusyMeansWorking == shown.busy <=> \E c \in Tasks : task[c].at # "none" /\ task[c].current

\* A transaction goes to the wallet or to the network only while the dialog
\* shows that very one for review and it is what was asked for last: not after
\* the wallet was changed, nor after another action was begun.
SendsWhatIsShown ==
    [][\A c \in Tasks :
          task[c].at # task'[c].at /\ task'[c].at \in {"wallet", "sent"} =>
              shown.prepared = task[c].tx /\ intent = task[c].tx.what]_providerVars
=============================================================================
