---------------------------- MODULE ClientProofs ----------------------------
(***************************************************************************)
(* What runs in the browser beside the wallet, for all wallets, actions,     *)
(* tokens and amounts, every number of callers, slots, retries, submitters   *)
(* and attempts, and any number of calls under way.                          *)
(*                                                                           *)
(* Of the protocol dialog the key is that one call at most is of the present *)
(* generation, and that what it carries is what the dialog shows; of the     *)
(* ticket, that an operation of the present generation carries its terms.    *)
(* The gate's queue must be known to hold each waiting caller once, or a     *)
(* release could wake somebody who is not waiting.  That the public endpoint *)
(* is the last resort speaks only of what was sent; the strengthening says,  *)
(* while a submission is under way, what the log holds of the submitters     *)
(* before, at and after its turn.  Of the read cache it says that nothing it *)
(* can still answer with is older than what was told.                        *)
(***************************************************************************)
EXTENDS ProtocolProvider, TradeTicket, RpcGate, Submission, ReadCache, FiniteSetTheorems, TLAPS

Task == [at : {"none", "prepare", "tables", "validator", "wallet", "sent", "refresh"},
         tx : Transactions \cup {NotPrepared}, current : BOOLEAN]

\* At most one call is of the present generation, and it is under way; every
\* call has a transaction.
Solo ==
    /\ \A c \in Tasks : task[c].current => task[c].at # "none"
    /\ \A c \in Tasks : task[c].at # "none" => task[c].tx \in Transactions
    /\ \A c, d \in Tasks : task[c].current /\ task[d].current => c = d

\* What a signing call of the present generation carries is what is shown,
\* and, once validated, what was asked for last.
CarriesWhatIsShown ==
    \A c \in Tasks : task[c].current =>
        /\ task[c].at \in {"tables", "validator", "wallet"} => shown.prepared = task[c].tx
        /\ task[c].at = "wallet" => intent = task[c].tx.what

DialogInv == ProviderTypeOK /\ Solo /\ BusyMeansWorking /\ CarriesWhatIsShown

-----------------------------------------------------------------------------
\* The initial state satisfies the invariant.
LEMMA InitDialog == ProviderInit => DialogInv
<1> SUFFICES ASSUME ProviderInit PROVE DialogInv OBVIOUS
<1>1. ProviderTypeOK
  BY DEF ProviderInit, ProviderTypeOK, BlankDialog, NoTask
<1>2. Solo /\ BusyMeansWorking /\ CarriesWhatIsShown
  BY DEF ProviderInit, Solo, BusyMeansWorking, CarriesWhatIsShown, BlankDialog, NoTask
<1> QED BY <1>1, <1>2 DEF DialogInv

\* The types of the parts, for the steps below.
LEMMA DialogTypes ==
    ASSUME ProviderTypeOK
    PROVE  /\ task \in [Tasks -> Task]
           /\ shown \in [prepared : Transactions \cup {NotPrepared}, busy : BOOLEAN,
                         error : BOOLEAN, signature : BOOLEAN]
           /\ BlankDialog \in [prepared : Transactions \cup {NotPrepared}, busy : BOOLEAN,
                               error : BOOLEAN, signature : BOOLEAN]
           /\ NoTask \in Task /\ Outdated \in [Tasks -> Task]
<1>1. task \in [Tasks -> Task] BY DEF ProviderTypeOK, Task
<1>2. NoTask \in Task BY DEF NoTask, Task
<1>3. Outdated \in [Tasks -> Task]
  <2>1. \A c \in Tasks : [task[c] EXCEPT !.current = FALSE] \in Task BY <1>1 DEF Task
  <2> QED BY <2>1 DEF Outdated
<1> QED BY <1>1, <1>2, <1>3 DEF ProviderTypeOK, BlankDialog

\* A step that only outdates calls, with a dialog that is not busy after it.
LEMMA AllOutdated ==
    ASSUME DialogInv, task' = Outdated, ~shown'.busy, ProviderTypeOK'
    PROVE  DialogInv'
<1>1. \A c \in Tasks : /\ ~task'[c].current /\ task'[c].at = task[c].at
                       /\ task'[c].tx = task[c].tx
  BY DialogTypes DEF DialogInv, Outdated, Task
<1> QED BY <1>1 DEF DialogInv, Solo, BusyMeansWorking, CarriesWhatIsShown

\* The user and the wallet.
LEMMA UserStep ==
    ASSUME DialogInv,
           \/ \E o \in Owners \cup {NoOwner} : ConnectWallet(o)
           \/ WalletEffect \/ Close
    PROVE  DialogInv'
<1> USE DEF DialogInv
<1>1. ASSUME NEW o \in Owners \cup {NoOwner}, ConnectWallet(o) PROVE DialogInv'
  BY <1>1 DEF ConnectWallet, ProviderTypeOK, Solo, BusyMeansWorking, CarriesWhatIsShown
<1>2. CASE WalletEffect
  <2>1. ProviderTypeOK'
    BY <1>2, DialogTypes DEF WalletEffect, ProviderTypeOK, Task
  <2> QED BY <1>2, <2>1, AllOutdated DEF WalletEffect, BlankDialog
<1>3. CASE Close
  <2>1. ProviderTypeOK' BY <1>3, DialogTypes DEF Close, ProviderTypeOK
  <2>2. \A c \in Tasks : ~task[c].current BY <1>3 DEF Close, BusyMeansWorking, Solo
  <2>3. task' = task /\ ~shown'.busy BY <1>3 DEF Close, BlankDialog
  <2> QED BY <2>1, <2>2, <2>3 DEF Solo, BusyMeansWorking, CarriesWhatIsShown
<1> QED BY <1>1, <1>2, <1>3

\* A call begins while none of the present generation is under way.
LEMMA BeginStep ==
    ASSUME DialogInv, NEW c \in Tasks, Sign(c) \/ \E what \in Intents : Run(c, what)
    PROVE  DialogInv'
<1> USE DEF DialogInv
<1>1. ASSUME NEW what \in Intents, Run(c, what) PROVE DialogInv'
  <2>1. CASE owner = NoOwner
    <3>1. shown' = [BlankDialog EXCEPT !.error = TRUE] /\ task' = Outdated
            /\ UNCHANGED <<owner, lag, intent>>
      BY <1>1, <2>1 DEF Run
    <3>2. ProviderTypeOK' /\ ~shown'.busy
      BY <3>1, DialogTypes DEF ProviderTypeOK, BlankDialog, Task
    <3> QED BY <3>1, <3>2, AllOutdated
  <2>2. CASE owner # NoOwner
    <3> DEFINE tx == [who |-> owner, what |-> what]
               begun == [at |-> "prepare", current |-> TRUE, tx |-> tx]
    <3>1. /\ shown' = [BlankDialog EXCEPT !.busy = TRUE]
          /\ task' = [Outdated EXCEPT ![c] = begun]
          /\ UNCHANGED <<owner, lag, intent>>
      BY <1>1, <2>2 DEF Run
    <3>2. begun \in Task BY <2>2 DEF ProviderTypeOK, Task, Transactions
    <3>3. \A d \in Tasks : task'[d] = IF d = c THEN begun ELSE Outdated[d]
      BY <3>1, DialogTypes
    <3>4. ProviderTypeOK'
      BY <3>1, <3>2, DialogTypes DEF ProviderTypeOK, BlankDialog, Task
    <3>5. \A d \in Tasks : task'[d].current <=> d = c
      <4>1. \A d \in Tasks : ~Outdated[d].current
        BY DialogTypes DEF Outdated, Task
      <4>2. begun.current OBVIOUS
      <4> QED BY <3>3, <4>1, <4>2
    <3>6. /\ shown'.busy /\ task'[c].at = "prepare" /\ task'[c].tx = tx
      BY <3>1, <3>3 DEF BlankDialog
    <3>7. tx \in Transactions BY <2>2 DEF ProviderTypeOK, Transactions
    <3>8. \A d \in Tasks : d # c => task'[d].at = task[d].at /\ task'[d].tx = task[d].tx
      BY <3>3, DialogTypes DEF Outdated, Task
    <3>9. Solo' BY <3>5, <3>6, <3>7, <3>8 DEF Solo
    <3> QED BY <3>4, <3>5, <3>6, <3>9 DEF BusyMeansWorking, CarriesWhatIsShown
  <2> QED BY <2>1, <2>2
<1>2. CASE Sign(c)
  <2> DEFINE begun == [at |-> "tables", tx |-> shown.prepared, current |-> TRUE]
  <2>1. /\ shown' = [shown EXCEPT !.busy = TRUE, !.error = FALSE]
        /\ task' = [task EXCEPT ![c] = begun]
        /\ UNCHANGED <<owner, lag, intent>>
    BY <1>2 DEF Sign
  <2>2. begun \in Task BY DialogTypes DEF Task
  <2>3. \A d \in Tasks : task'[d] = IF d = c THEN begun ELSE task[d] BY <2>1, DialogTypes
  <2>4. shown'.busy /\ shown'.prepared = shown.prepared BY <2>1, DialogTypes
  <2>5. ProviderTypeOK'
    <3>1. shown' \in [prepared : Transactions \cup {NotPrepared}, busy : BOOLEAN,
                      error : BOOLEAN, signature : BOOLEAN]
      BY <2>1, DialogTypes
    <3>2. task' \in [Tasks -> Task] BY <2>1, <2>2, DialogTypes
    <3> QED BY <2>1, <3>1, <3>2 DEF ProviderTypeOK, Task
  <2>6. \A d \in Tasks : ~task[d].current BY <1>2 DEF Sign, BusyMeansWorking, Solo
  <2>7. shown.prepared \in Transactions BY <1>2, DialogTypes DEF Sign, NotPrepared
  <2> QED BY <2>3, <2>4, <2>5, <2>6, <2>7 DEF Solo, BusyMeansWorking, CarriesWhatIsShown
<1> QED BY <1>1, <1>2

\* A call ends: its own dialog is free, another's is left alone.
LEMMA EndStep ==
    ASSUME DialogInv, NEW c \in Tasks, NEW ui, End(c, ui),
           ui \in [prepared : Transactions \cup {NotPrepared}, busy : BOOLEAN,
                   error : BOOLEAN, signature : BOOLEAN],
           ~task[c].current => intent' = intent, intent' \in Intents \cup {NoIntent}
    PROVE  DialogInv'
<1> USE DEF DialogInv
<1>1. /\ task' = [task EXCEPT ![c] = NoTask] /\ UNCHANGED <<owner, lag>>
      /\ shown' = IF task[c].current THEN [ui EXCEPT !.busy = FALSE] ELSE shown
  BY DEF End, Done
<1>2. \A d \in Tasks : task'[d] = IF d = c THEN NoTask ELSE task[d] BY <1>1, DialogTypes
<1>3. ProviderTypeOK'
  <2>1. task' \in [Tasks -> Task] BY <1>1, DialogTypes
  <2>2. shown' \in [prepared : Transactions \cup {NotPrepared}, busy : BOOLEAN,
                    error : BOOLEAN, signature : BOOLEAN]
    BY <1>1, DialogTypes
  <2> QED BY <1>1, <2>1, <2>2 DEF ProviderTypeOK, Task
<1>4. ~NoTask.current /\ NoTask.at = "none" BY DEF NoTask
<1>5. CASE task[c].current
  <2>1. ~shown'.busy BY <1>1, <1>5
  <2>2. \A d \in Tasks : ~task'[d].current BY <1>2, <1>4, <1>5 DEF Solo
  <2>3. Solo' BY <1>2, <1>4, <2>2 DEF Solo
  <2>4. BusyMeansWorking' /\ CarriesWhatIsShown'
    BY <2>1, <2>2 DEF BusyMeansWorking, CarriesWhatIsShown
  <2> QED BY <1>3, <2>3, <2>4
<1>6. CASE ~task[c].current
  <2>1. shown' = shown /\ intent' = intent BY <1>1, <1>6
  <2>2. Solo' BY <1>2, <1>4 DEF Solo
  <2>3. BusyMeansWorking' BY <1>2, <1>4, <1>6, <2>1 DEF BusyMeansWorking
  <2>4. CarriesWhatIsShown' BY <1>2, <1>4, <2>1 DEF CarriesWhatIsShown
  <2> QED BY <1>3, <2>2, <2>3, <2>4
<1> QED BY <1>5, <1>6

\* A call of the present generation goes on to its next await.
LEMMA GoesStep ==
    ASSUME DialogInv, NEW c \in Tasks, task[c].current,
           NEW at \in {"validator", "wallet", "sent", "refresh"},
           task' = [task EXCEPT ![c].at = at], UNCHANGED <<owner, lag, intent>>,
           at \in {"validator", "wallet"} => shown.prepared = task[c].tx,
           at = "wallet" => intent = task[c].tx.what,
           \/ shown' = shown
           \/ at = "sent" /\ shown' = [shown EXCEPT !.signature = TRUE, !.prepared = NotPrepared]
    PROVE  DialogInv'
<1> USE DEF DialogInv
<1>1. \A d \in Tasks : /\ task'[d].current = task[d].current /\ task'[d].tx = task[d].tx
                       /\ task'[d].at = IF d = c THEN at ELSE task[d].at
  BY DialogTypes DEF Task
<1>2. ProviderTypeOK'
  <2>1. task' \in [Tasks -> Task]
    <3>1. [task[c] EXCEPT !.at = at] \in Task BY DialogTypes DEF Task
    <3>2. task' = [task EXCEPT ![c] = [task[c] EXCEPT !.at = at]] OBVIOUS
    <3> QED BY <3>1, <3>2, DialogTypes
  <2>2. shown' \in [prepared : Transactions \cup {NotPrepared}, busy : BOOLEAN,
                    error : BOOLEAN, signature : BOOLEAN]
    BY DialogTypes
  <2> QED BY <2>1, <2>2 DEF ProviderTypeOK, Task
<1>3. shown'.busy = shown.busy /\ (at # "sent" => shown' = shown) BY DialogTypes
<1>4. Solo' BY <1>1 DEF Solo
<1>5. BusyMeansWorking' BY <1>1, <1>3 DEF BusyMeansWorking, Solo
<1>6. CarriesWhatIsShown' BY <1>1, <1>3 DEF CarriesWhatIsShown, Solo
<1> QED BY <1>2, <1>4, <1>5, <1>6

\* What runs after an await.
LEMMA ContinuationStep ==
    ASSUME DialogInv, NEW c \in Tasks, Continuation(c)
    PROVE  DialogInv'
<1> USE DEF DialogInv
<1>1. task[c] \in Task /\ intent \in Intents \cup {NoIntent}
  BY DialogTypes DEF ProviderTypeOK
<1>2. ASSUME Leaves(c) PROVE DialogInv'
  BY <1>1, <1>2, DialogTypes, EndStep DEF Leaves
<1>3. CASE Prepared(c)
  <2>1. task[c].tx \in Transactions BY <1>3 DEF Prepared, Solo
  <2>2. /\ End(c, [shown EXCEPT !.prepared = task[c].tx])
        /\ intent' = IF task[c].current THEN task[c].tx.what ELSE intent
    BY <1>3 DEF Prepared
  <2>3. intent' \in Intents \cup {NoIntent} BY <1>1, <2>1, <2>2 DEF Transactions
  <2>4. [shown EXCEPT !.prepared = task[c].tx] \in
           [prepared : Transactions \cup {NotPrepared}, busy : BOOLEAN,
            error : BOOLEAN, signature : BOOLEAN]
    BY <2>1, DialogTypes
  <2> QED BY <2>2, <2>3, <2>4, EndStep
<1>4. CASE Throws(c)
  <2>1. End(c, [shown EXCEPT !.error = TRUE]) /\ intent' = intent BY <1>4 DEF Throws
  <2>2. [shown EXCEPT !.error = TRUE] \in
           [prepared : Transactions \cup {NotPrepared}, busy : BOOLEAN,
            error : BOOLEAN, signature : BOOLEAN]
    BY DialogTypes
  <2> QED BY <1>1, <2>1, <2>2, EndStep
<1>5. CASE TablesRead(c)
  <2>1. CASE task[c].current
    BY <1>5, <2>1, GoesStep DEF TablesRead, Goes, CarriesWhatIsShown
  <2> QED BY <1>2, <1>5, <2>1 DEF TablesRead
<1>6. CASE AskWallet(c)
  <2>1. CASE task[c].current
    BY <1>6, <2>1, GoesStep DEF AskWallet, Goes, CarriesWhatIsShown
  <2> QED BY <1>2, <1>6, <2>1 DEF AskWallet
<1>7. CASE Dispatch(c)
  <2>1. CASE task[c].current
    BY <1>7, <2>1, GoesStep DEF Dispatch, Dispatched
  <2> QED BY <1>2, <1>7, <2>1 DEF Dispatch
<1>8. CASE Verified(c)
  <2>1. CASE task[c].current
    BY <1>8, <2>1, GoesStep DEF Verified, Goes
  <2> QED BY <1>2, <1>8, <2>1 DEF Verified
<1>9. CASE Refreshed(c)
  <2>1. PICK opening \in BOOLEAN :
           /\ shown' = Done(c, [shown EXCEPT !.signature = @ /\ ~opening])
           /\ task' = [task EXCEPT ![c] = NoTask] /\ UNCHANGED <<owner, lag, intent>>
    BY <1>9 DEF Refreshed
  <2> DEFINE ui == [shown EXCEPT !.signature = @ /\ ~opening]
  <2>2. ui \in [prepared : Transactions \cup {NotPrepared}, busy : BOOLEAN,
                error : BOOLEAN, signature : BOOLEAN]
    <3>1. (shown.signature /\ ~opening) \in BOOLEAN OBVIOUS
    <3> QED BY <3>1, DialogTypes
  <2>3. ui.prepared = shown.prepared /\ ui.busy = shown.busy BY DialogTypes
  <2> HIDE DEF ui
  <2>4. CASE task[c].current
    <3>1. End(c, ui) BY <2>1, <2>4 DEF End, ui
    <3> QED BY <1>1, <2>1, <2>2, <3>1, EndStep
  <2>5. CASE ~task[c].current
    <3>1. shown' = ui BY <2>1, <2>5 DEF Done, ui
    <3>2. \A d \in Tasks : task'[d] = IF d = c THEN NoTask ELSE task[d]
      BY <2>1, DialogTypes
    <3>3. ~NoTask.current /\ NoTask.at = "none" BY DEF NoTask
    <3>4. ProviderTypeOK'
      <4>1. task' \in [Tasks -> Task] BY <2>1, DialogTypes
      <4> QED BY <2>1, <2>2, <3>1, <4>1 DEF ProviderTypeOK, Task
    <3>5. Solo' BY <3>2, <3>3 DEF Solo
    <3>6. BusyMeansWorking' BY <2>3, <2>5, <3>1, <3>2, <3>3 DEF BusyMeansWorking
    <3>7. CarriesWhatIsShown'
      BY <2>1, <2>3, <3>1, <3>2, <3>3 DEF CarriesWhatIsShown
    <3> QED BY <3>4, <3>5, <3>6, <3>7
  <2> QED BY <2>4, <2>5
<1> QED BY <1>3, <1>4, <1>5, <1>6, <1>7, <1>8, <1>9 DEF Continuation

\* Every step keeps the invariant.
LEMMA NextDialog == DialogInv /\ [ProviderNext]_providerVars => DialogInv'
<1> SUFFICES ASSUME DialogInv, [ProviderNext]_providerVars PROVE DialogInv' OBVIOUS
<1>1. CASE UNCHANGED providerVars
  BY <1>1 DEF providerVars, DialogInv, ProviderTypeOK, Solo, BusyMeansWorking,
              CarriesWhatIsShown
<1> QED BY <1>1, UserStep, BeginStep, ContinuationStep DEF ProviderNext

-----------------------------------------------------------------------------
\* Buttons are off exactly while a call of the present generation is under
\* way.  (run, sign, and the effect on refresh in protocol-provider.tsx)
THEOREM DialogIsBusyWhileWorking == ProviderSpec => []BusyMeansWorking
<1>1. DialogInv => BusyMeansWorking BY DEF DialogInv
<1> QED BY <1>1, InitDialog, NextDialog, PTL DEF ProviderSpec

\* No transaction is signed or sent that the dialog does not show.
\* (sign in protocol-provider.tsx)
THEOREM DialogSendsWhatItShows == ProviderSpec => SendsWhatIsShown
<1> DEFINE Sends ==
             \A c \in Tasks :
                task[c].at # task'[c].at /\ task'[c].at \in {"wallet", "sent"} =>
                    shown.prepared = task[c].tx /\ intent = task[c].tx.what
<1>1. DialogInv /\ [ProviderNext]_providerVars => [Sends]_providerVars
  <2> SUFFICES ASSUME DialogInv, ProviderNext, NEW c \in Tasks, task[c].at # task'[c].at,
                      task'[c].at \in {"wallet", "sent"}
               PROVE  shown.prepared = task[c].tx /\ intent = task[c].tx.what
    OBVIOUS
  <2> USE DEF DialogInv
  <2>1. \A d \in Tasks : Outdated[d].at = task[d].at
    BY DialogTypes DEF Outdated, Task
  <2>2. PICK d \in Tasks : Sign(d) \/ Continuation(d) \/ \E what \in Intents : Run(d, what)
    BY <2>1 DEF ProviderNext, ConnectWallet, WalletEffect, Close
  <2>3. ~Sign(d)
    BY DialogTypes DEF Sign
  <2>4. ASSUME NEW what \in Intents PROVE ~Run(d, what)
    BY <2>1, DialogTypes DEF Run
  <2>5. ASSUME NEW ui, End(d, ui) PROVE FALSE
    BY <2>5, DialogTypes DEF End, NoTask
  <2>6. ASSUME NEW at, Goes(d, at) PROVE c = d /\ at \in {"wallet", "sent"}
    BY <2>6, DialogTypes DEF Goes
  <2>7. ~Leaves(d) /\ ~Prepared(d) /\ ~Throws(d) BY <2>5 DEF Leaves, Prepared, Throws
  <2>8. ~TablesRead(d) /\ ~Verified(d) BY <2>6, <2>7 DEF TablesRead, Verified
  <2>9. ASSUME Refreshed(d) PROVE FALSE
    <3>1. task' = [task EXCEPT ![d] = NoTask] BY <2>9 DEF Refreshed
    <3> QED BY <3>1, DialogTypes DEF NoTask
  <2>10. CASE AskWallet(d)
    BY <2>6, <2>7, <2>10 DEF AskWallet, CarriesWhatIsShown
  <2>11. CASE Dispatch(d)
    <3>1. task[d].current /\ task[d].at = "wallet" /\ task' = [task EXCEPT ![d].at = "sent"]
      BY <2>7, <2>11 DEF Dispatch, Dispatched
    <3>2. d = c BY <3>1, DialogTypes
    <3> QED BY <3>1, <3>2 DEF CarriesWhatIsShown
  <2> QED BY <2>2, <2>3, <2>4, <2>7, <2>8, <2>9, <2>10, <2>11 DEF Continuation
<1> QED BY <1>1, InitDialog, NextDialog, PTL DEF ProviderSpec, SendsWhatIsShown

-----------------------------------------------------------------------------
(* The ticket                                                               *)

\* An operation that is still current was begun for the terms shown, unless
\* the effect of their change is still to run.
CurrentIsShown ==
    operation.current /\ ~ticket.effect => operation.terms = ticket.terms

\* The wallet was asked for what the operation was begun for.
AskedIsChecked ==
    operation.at = "wallet" => Matches(operation.build, operation.terms, operation.via)

\* Whatever is under way was begun for some terms.
BegunForTerms == operation.at # "idle" => operation.terms \in Terms

TicketInv == TicketTypeOK /\ BegunForTerms /\ CurrentIsShown /\ AskedIsChecked

\* The parts of the state and their types.
LEMMA TicketTypes ==
    ASSUME TicketTypeOK
    PROVE  /\ ticket.terms \in Terms
           /\ ticket = [terms |-> ticket.terms, output |-> ticket.output,
                        effect |-> ticket.effect]
           /\ ticket.output \in BOOLEAN /\ ticket.effect \in BOOLEAN
           /\ operation.build \in Builds /\ operation.terms \in Terms \cup {Blank}
           /\ NoOperation \in
                [at : {"idle", "access", "build", "check", "wallet", "sent"},
                 via : {"market", "router"}, terms : Terms \cup {Blank}, build : Builds,
                 current : BOOLEAN]
           /\ Unbuilt \in Builds
<1> HIDE DEF Terms
<1> QED BY DEF TicketTypeOK, NoOperation, Builds, Unbuilt

\* The initial state satisfies the invariant.
LEMMA InitTicket == TicketInit => TicketInv
<1> SUFFICES ASSUME TicketInit PROVE TicketInv OBVIOUS
<1>1. TicketTypeOK
  <2>1. PICK token \in Tokens \ {Cash} :
           ticket = [terms |-> [owner |-> Blank, pay |-> Cash, get |-> token, amount |-> Blank],
                     output |-> FALSE, effect |-> FALSE]
    BY DEF TicketInit
  <2>2. [owner |-> Blank, pay |-> Cash, get |-> token, amount |-> Blank] \in Terms
    BY TicketAssumption DEF Terms
  <2> HIDE DEF Terms
  <2> QED BY <2>1, <2>2 DEF TicketInit, TicketTypeOK, NoOperation, Builds, Unbuilt
<1>2. BegunForTerms /\ CurrentIsShown /\ AskedIsChecked
  BY DEF TicketInit, BegunForTerms, CurrentIsShown, AskedIsChecked, NoOperation
<1> QED BY <1>1, <1>2 DEF TicketInv

\* New terms on the ticket: an effect is to run before the next operation.
LEMMA ShowStep ==
    ASSUME TicketInv, NEW terms \in Terms, NEW output \in BOOLEAN, Show(terms, output),
           review' \in Builds, routed' \in Builds
    PROVE  TicketInv'
<1> USE DEF TicketInv
<1>1. /\ ticket' = [terms |-> terms, output |-> output,
                    effect |-> ticket.effect \/ terms # ticket.terms]
      /\ operation' = operation
  BY DEF Show
<1> HIDE DEF Terms
<1>2. (ticket.effect \/ terms # ticket.terms) \in BOOLEAN OBVIOUS
<1>3. TicketTypeOK' BY <1>1, <1>2 DEF TicketTypeOK
<1>4. BegunForTerms' /\ CurrentIsShown' BY <1>1 DEF BegunForTerms, CurrentIsShown
<1>5. AskedIsChecked' BY <1>1 DEF AskedIsChecked, Matches
<1> QED BY <1>3, <1>4, <1>5

LEMMA TermsStep ==
    ASSUME TicketInv,
           \/ \E amount \in Sizes \cup {Blank} : Edit(amount) \/ Estimate(amount) \/ Flip(amount)
           \/ \E token \in Tokens, paying \in BOOLEAN : Choose(token, paying)
           \/ \E owner_ \in Traders \cup {Blank} : Switch(owner_)
           \/ EditOutput
    PROVE  TicketInv'
<1> USE DEF TicketInv
<1> DEFINE t == ticket.terms
<1>0. t \in Terms /\ Unbuilt \in Builds /\ review \in Builds /\ routed \in Builds
        /\ ticket.output \in BOOLEAN
  BY TicketTypes DEF TicketTypeOK
<1>1. ASSUME NEW amount \in Sizes \cup {Blank}, Edit(amount) \/ Estimate(amount) \/ Flip(amount)
      PROVE  TicketInv'
  <2>1. [t EXCEPT !.amount = amount] \in Terms
        /\ [t EXCEPT !.pay = t.get, !.get = t.pay, !.amount = amount] \in Terms
    BY <1>0 DEF Terms
  <2> HIDE DEF Terms, Unbuilt, Builds
  <2> QED BY <1>0, <1>1, <2>1, ShowStep DEF Edit, Estimate, Flip
<1>2. ASSUME NEW token \in Tokens, NEW paying \in BOOLEAN, Choose(token, paying)
      PROVE  TicketInv'
  <2> DEFINE swapped == IF paying THEN t.get = token ELSE t.pay = token
             chosen == [t EXCEPT !.pay = IF paying THEN token ELSE IF swapped THEN t.get ELSE @,
                                 !.get = IF ~paying THEN token ELSE IF swapped THEN t.pay ELSE @,
                                 !.amount = Blank]
  <2>1. chosen \in Terms
    <3> DEFINE pay == IF paying THEN token ELSE IF swapped THEN t.get ELSE t.pay
               get == IF ~paying THEN token ELSE IF swapped THEN t.pay ELSE t.get
    <3>1. pay \in Tokens /\ get \in Tokens /\ pay # get BY <1>0 DEF Terms
    <3>2. chosen = [t EXCEPT !.pay = pay, !.get = get, !.amount = Blank] OBVIOUS
    <3> HIDE DEF pay, get, chosen
    <3> QED BY <1>0, <3>1, <3>2 DEF Terms
  <2>2. Show(chosen, FALSE) /\ UNCHANGED <<review, routed>> BY <1>2 DEF Choose
  <2> HIDE DEF chosen, Terms
  <2> QED BY <1>0, <2>1, <2>2, ShowStep
<1>3. ASSUME NEW owner_ \in Traders \cup {Blank}, Switch(owner_) PROVE TicketInv'
  <2>1. [t EXCEPT !.owner = owner_] \in Terms BY <1>0 DEF Terms
  <2> HIDE DEF Terms
  <2> QED BY <1>0, <1>3, <2>1, ShowStep DEF Switch
<1>4. CASE EditOutput
  <2>1. [t EXCEPT !.amount = Blank] \in Terms BY <1>0 DEF Terms
  <2> HIDE DEF Terms
  <2> QED BY <1>0, <1>4, <2>1, ShowStep DEF EditOutput
<1> QED BY <1>1, <1>2, <1>3, <1>4

Operation ==
    [at : {"idle", "access", "build", "check", "wallet", "sent"}, via : {"market", "router"},
     terms : Terms \cup {Blank}, build : Builds, current : BOOLEAN]

\* An operation goes on or ends; the ticket stays.
LEMMA OperationMoves ==
    ASSUME TicketInv, ticket' = ticket, review' \in Builds, routed' \in Builds,
           operation' \in Operation, operation'.at # "idle" => operation'.terms \in Terms,
           operation'.current => operation'.terms = ticket.terms \/ ticket.effect,
           operation'.at = "wallet" =>
               Matches(operation'.build, operation'.terms, operation'.via)
    PROVE  TicketInv'
<1>1. TicketTypeOK' BY DEF TicketInv, TicketTypeOK, Operation
<1>2. BegunForTerms' /\ CurrentIsShown' BY DEF BegunForTerms, CurrentIsShown
<1>3. AskedIsChecked' BY DEF AskedIsChecked, Matches
<1> QED BY <1>1, <1>2, <1>3 DEF TicketInv

\* getQuote.
LEMMA QuoteStep ==
    ASSUME TicketInv,
           \/ \E via \in {"market", "router"} : Quote(via)
           \/ \E live, path \in BOOLEAN : Built(live, path)
           \/ Authorize
    PROVE  TicketInv'
<1> USE DEF TicketInv
<1>0. /\ ticket.terms \in Terms /\ operation \in Operation /\ NoOperation \in Operation
      /\ Unbuilt \in Builds /\ review \in Builds /\ routed \in Builds
  BY TicketTypes DEF TicketTypeOK, Operation
<1>1. ASSUME NEW via \in {"market", "router"}, Quote(via) PROVE TicketInv'
  <2>1. /\ operation' = [at |-> "access", via |-> via, terms |-> ticket.terms,
                         build |-> Unbuilt, current |-> TRUE]
        /\ review' = Unbuilt /\ routed' = Unbuilt /\ ticket' = ticket
    BY <1>1 DEF Quote
  <2> HIDE DEF Terms, Builds, Unbuilt
  <2>2. operation' \in Operation BY <1>0, <2>1 DEF Operation
  <2> QED BY <1>0, <2>1, <2>2, OperationMoves
<1>2. ASSUME NEW live \in BOOLEAN, NEW path \in BOOLEAN, Built(live, path) PROVE TicketInv'
  <2> DEFINE build == [terms |-> operation.terms, live |-> live, path |-> path]
  <2>1. /\ operation' = NoOperation /\ ticket' = ticket
        /\ review' \in {review, build} /\ routed' \in {routed, build}
        /\ operation.current => build \in Builds
        /\ ~operation.current => review' = review /\ routed' = routed
    <3>1. operation.terms \in Terms BY <1>2 DEF Built, BegunForTerms
    <3>2. build \in Builds BY <3>1 DEF Builds
    <3> QED BY <1>2, <3>2 DEF Built
  <2>2. ~NoOperation.current /\ NoOperation.at = "idle" BY DEF NoOperation
  <2> HIDE DEF build, NoOperation
  <2> QED BY <1>0, <2>1, <2>2, OperationMoves
<1>3. CASE Authorize
  <2>1. CASE operation.current
    <3>1. /\ operation' = [operation EXCEPT !.at = "build"]
          /\ UNCHANGED <<ticket, review, routed>>
      BY <1>3, <2>1 DEF Authorize
    <3>2. /\ operation' \in Operation /\ operation'.at = "build"
          /\ operation'.terms = operation.terms
      BY <1>0, <3>1 DEF Operation
    <3>3. operation.terms \in Terms BY <1>3 DEF Authorize, BegunForTerms
    <3> QED BY <1>0, <2>1, <3>1, <3>2, <3>3, OperationMoves DEF CurrentIsShown
  <2>2. CASE ~operation.current
    <3>1. operation' = NoOperation /\ UNCHANGED <<ticket, review, routed>>
      BY <1>3, <2>2 DEF Authorize
    <3>2. ~NoOperation.current /\ NoOperation.at = "idle" BY DEF NoOperation
    <3> QED BY <1>0, <3>1, <3>2, OperationMoves
  <2> QED BY <2>1, <2>2
<1> QED BY <1>1, <1>2, <1>3

\* buy.
LEMMA BuyStep ==
    ASSUME TicketInv, Buy \/ Ask \/ Deliver \/ LeaveOff
    PROVE  TicketInv'
<1> USE DEF TicketInv
<1>0. /\ ticket.terms \in Terms /\ operation \in Operation /\ NoOperation \in Operation
      /\ Unbuilt \in Builds /\ review \in Builds /\ routed \in Builds
  BY TicketTypes DEF TicketTypeOK, Operation
<1>1. CASE Buy
  <2>1. PICK via \in {"market", "router"}, build \in Builds :
           operation' = [at |-> "check", via |-> via, terms |-> ticket.terms,
                         build |-> build, current |-> TRUE]
    BY <1>0, <1>1 DEF Buy
  <2>2. UNCHANGED <<ticket, review, routed>> BY <1>1 DEF Buy
  <2> HIDE DEF Terms, Builds
  <2>3. operation' \in Operation BY <1>0, <2>1 DEF Operation
  <2> QED BY <1>0, <2>1, <2>2, <2>3, OperationMoves
<1>2. CASE Ask
  <2>1. /\ operation' = [operation EXCEPT !.at = "wallet"]
        /\ Matches(operation.build, operation.terms, operation.via)
        /\ UNCHANGED <<ticket, review, routed>>
    BY <1>2 DEF Ask
  <2>2. /\ operation' \in Operation /\ operation'.terms = operation.terms
        /\ operation'.build = operation.build /\ operation'.via = operation.via
        /\ operation'.current = operation.current
    BY <1>0, <2>1 DEF Operation
  <2>3. operation.terms \in Terms BY <1>2 DEF Ask, BegunForTerms
  <2> QED BY <1>0, <2>1, <2>2, <2>3, OperationMoves DEF CurrentIsShown
<1>3. CASE Deliver
  <2>1. /\ operation' = [operation EXCEPT !.at = "sent"] /\ ticket' = ticket
        /\ review' \in {review, Unbuilt} /\ routed' \in {routed, Unbuilt}
    BY <1>3 DEF Deliver, Broadcast
  <2>2. /\ operation' \in Operation /\ operation'.at = "sent"
        /\ operation'.terms = operation.terms /\ operation'.current = operation.current
    BY <1>0, <2>1 DEF Operation
  <2>3. operation.terms \in Terms BY <1>3 DEF Deliver, BegunForTerms
  <2> QED BY <1>0, <2>1, <2>2, <2>3, OperationMoves DEF CurrentIsShown
<1>4. CASE LeaveOff
  <2>1. /\ operation' = NoOperation /\ ticket' = ticket /\ routed' = routed
        /\ review' \in {review, Unbuilt}
    BY <1>4 DEF LeaveOff
  <2>2. ~NoOperation.current /\ NoOperation.at = "idle" BY DEF NoOperation
  <2> QED BY <1>0, <2>1, <2>2, OperationMoves
<1> QED BY <1>1, <1>2, <1>3, <1>4

\* The effect of a change, and the passing of time.
LEMMA TimeStep ==
    ASSUME TicketInv, Effect \/ BuildExpires
    PROVE  TicketInv'
<1> USE DEF TicketInv
<1>0. /\ ticket.terms \in Terms /\ operation \in Operation
      /\ Unbuilt \in Builds /\ review \in Builds /\ routed \in Builds
  BY TicketTypes DEF TicketTypeOK, Operation
<1>1. CASE Effect
  <2>1. /\ ticket' = [ticket EXCEPT !.effect = FALSE] /\ review' = Unbuilt
        /\ operation' = [operation EXCEPT !.current = FALSE] /\ routed' = routed
    BY <1>1 DEF Effect
  <2>2. /\ operation' \in Operation /\ ~operation'.current
        /\ operation'.at = operation.at /\ operation'.build = operation.build
        /\ operation'.terms = operation.terms /\ operation'.via = operation.via
    BY <1>0, <2>1 DEF Operation
  <2>3. ticket' \in [terms : Terms, output : BOOLEAN, effect : BOOLEAN]
    <3> HIDE DEF Terms
    <3> QED BY <2>1 DEF TicketTypeOK
  <2>4. TicketTypeOK' BY <1>0, <2>1, <2>2, <2>3 DEF TicketTypeOK, Operation
  <2> QED BY <2>2, <2>4 DEF BegunForTerms, CurrentIsShown, AskedIsChecked, Matches
<1>2. CASE BuildExpires
  <2>1. \A build \in Builds : Late(build) \in Builds /\ Late(build).terms = build.terms
                              /\ Late(build).path = build.path
    <3> SUFFICES ASSUME NEW build \in Builds
                 PROVE  /\ Late(build) \in Builds /\ Late(build).terms = build.terms
                        /\ Late(build).path = build.path
      OBVIOUS
    <3> HIDE DEF Terms
    <3>1. CASE build = Unbuilt
      <4>1. build \in [terms : {Blank}, live : {FALSE}, path : {FALSE}]
        BY <3>1 DEF Unbuilt
      <4>2. [build EXCEPT !.live = FALSE] = build BY <4>1
      <4> QED BY <4>2 DEF Late
    <3>2. CASE build \in [terms : Terms, live : BOOLEAN, path : BOOLEAN]
      BY <3>2 DEF Builds, Late
    <3> QED BY <3>1, <3>2 DEF Builds
  <2>2. /\ operation' = [operation EXCEPT !.build = Late(operation.build)]
        /\ review' = Late(review) /\ routed' = Late(routed) /\ ticket' = ticket
    BY <1>2 DEF BuildExpires
  <2>3. operation.build \in Builds BY <1>0 DEF Operation
  <2> HIDE DEF Late
  <2>4. /\ operation' \in Operation /\ operation'.at = operation.at
        /\ operation'.build = Late(operation.build)
        /\ operation'.current = operation.current
        /\ operation'.terms = operation.terms /\ operation'.via = operation.via
    BY <1>0, <2>1, <2>2, <2>3 DEF Operation
  <2>5. operation'.at = "wallet" => Matches(operation'.build, operation'.terms, operation'.via)
    <3> SUFFICES ASSUME operation'.at = "wallet"
                 PROVE  Matches(operation'.build, operation'.terms, operation'.via)
      OBVIOUS
    <3>1. Matches(operation.build, operation.terms, operation.via)
      BY <2>4 DEF AskedIsChecked
    <3> QED BY <2>1, <2>3, <2>4, <3>1 DEF Matches
  <2> QED BY <1>0, <2>1, <2>2, <2>3, <2>4, <2>5, OperationMoves
          DEF CurrentIsShown, BegunForTerms
<1> QED BY <1>1, <1>2

\* Every step keeps the invariant.
LEMMA NextTicket == TicketInv /\ [TicketNext]_ticketVars => TicketInv'
<1> SUFFICES ASSUME TicketInv, [TicketNext]_ticketVars PROVE TicketInv' OBVIOUS
<1>1. CASE UNCHANGED ticketVars
  BY <1>1 DEF ticketVars, TicketInv, TicketTypeOK, BegunForTerms, CurrentIsShown,
              AskedIsChecked, Matches
<1> QED BY <1>1, TermsStep, QuoteStep, BuyStep, TimeStep DEF TicketNext

\* What is signed, and what is sent to the market, is what the ticket shows,
\* however many tokens, traders and amounts there are.  (getQuote and buy in
\* stockroom.tsx)
THEOREM TicketSignsWhatItShows == TicketSpec => SignedForTheTicket
<1> DEFINE Signs ==
       operation'.at # operation.at /\ ~ticket.effect =>
         LET build == operation.build  terms == ticket.terms
         IN  /\ operation'.at \in {"wallet", "sent"} /\ operation.via = "market" =>
                   build.live /\ build.terms = terms
             /\ operation'.at = "wallet" =>
                   build.live /\ build.terms.owner = terms.owner
                              /\ build.terms.amount = terms.amount
<1>1. TicketInv /\ [TicketNext]_ticketVars => [Signs]_ticketVars
  <2> SUFFICES ASSUME TicketInv, TicketNext, operation'.at # operation.at,
                      operation'.at \in {"wallet", "sent"}, ~ticket.effect
               PROVE  Signs
    OBVIOUS
  <2> USE DEF TicketInv
  <2>1. operation \in Operation BY DEF TicketTypeOK, Operation
  <2>2. ASSUME operation' = [operation EXCEPT !.current = FALSE] PROVE FALSE
    BY <2>1, <2>2 DEF Operation
  <2>3. ASSUME NEW build, operation' = [operation EXCEPT !.build = build] PROVE FALSE
    BY <2>1, <2>3 DEF Operation
  <2>4. ~(operation' = NoOperation) BY DEF NoOperation
  <2>5. operation' # operation OBVIOUS
  <2>6. ~Effect /\ ~BuildExpires /\ ~LeaveOff /\ ~EditOutput
    BY <2>2, <2>3, <2>4, <2>5 DEF Effect, BuildExpires, LeaveOff, EditOutput, Show
  <2>7. ~Authorize
    <3> SUFFICES ASSUME Authorize PROVE FALSE OBVIOUS
    <3>1. operation' = [operation EXCEPT !.at = "build"] BY <2>4 DEF Authorize
    <3> QED BY <2>1, <3>1 DEF Operation
  <2>8. ~Buy BY DEF Buy
  <2>9. Ask \/ Deliver
    <3>1. \A terms, output : ~Show(terms, output) BY <2>5 DEF Show
    <3>2. \A amount : ~Edit(amount) /\ ~Estimate(amount) /\ ~Flip(amount)
      BY <3>1 DEF Edit, Estimate, Flip
    <3>3. \A token, paying : ~Choose(token, paying)
      <4> SUFFICES ASSUME NEW token, NEW paying, Choose(token, paying) PROVE FALSE
        OBVIOUS
      <4>1. PICK terms : Show(terms, FALSE) BY DEF Choose
      <4> QED BY <3>1, <4>1
    <3>4. \A owner_ : ~Switch(owner_) BY <3>1 DEF Switch
    <3>5. \A via : ~Quote(via) BY DEF Quote
    <3>6. \A live, path : ~Built(live, path) BY <2>4 DEF Built
    <3> QED BY <2>6, <2>7, <2>8, <3>2, <3>3, <3>4, <3>5, <3>6 DEF TicketNext
  <2>10. CASE Ask
    <3>1. operation.terms = ticket.terms BY <2>10 DEF Ask, CurrentIsShown
    <3> QED BY <2>10, <3>1 DEF Ask, Matches
  <2>11. CASE Deliver
    <3>1. operation' = [operation EXCEPT !.at = "sent"] BY <2>11 DEF Deliver, Broadcast
    <3>2. operation'.at = "sent" BY <2>1, <3>1 DEF Operation
    <3> QED BY <2>11, <3>2 DEF Deliver, CurrentIsShown, AskedIsChecked, Matches
  <2> QED BY <2>9, <2>10, <2>11
<1> QED BY <1>1, InitTicket, NextTicket, PTL DEF TicketSpec, SignedForTheTicket

-----------------------------------------------------------------------------
(* The gate                                                                 *)

\* Who queues is waiting, and queues once.
QueueOK ==
    /\ \A i \in DOMAIN waiting : call[waiting[i]].at = "waiting"
    /\ \A i, j \in DOMAIN waiting : waiting[i] = waiting[j] => i = j

GateInv == GateTypeOK /\ QueueOK /\ GateNeverStalls

States == {"idle", "waiting", "woken", "fetch", "sleep"}

-----------------------------------------------------------------------------
\* The calls in a state, and those that hold a slot, are finitely many.
LEMMA FiniteCalls ==
    /\ IsFiniteSet(Holders) /\ Cardinality(Holders) \in Nat
    /\ \A s : IsFiniteSet(InState(s)) /\ Cardinality(InState(s)) \in Nat
<1>1. Holders \subseteq Callers BY DEF Holders, InState
<1>2. \A s : InState(s) \subseteq Callers BY DEF InState
<1>3. IsFiniteSet(Callers) BY GateAssumption
<1> QED BY <1>1, <1>2, <1>3, FS_Subset, FS_CardinalityType

\* The initial state satisfies the invariant.
LEMMA InitGate == GateInit => GateInv
<1> SUFFICES ASSUME GateInit PROVE GateInv OBVIOUS
<1>1. GateTypeOK BY GateAssumption DEF GateInit, GateTypeOK, AtRest
<1>2. QueueOK BY DEF GateInit, QueueOK
<1>3. Holders = {} BY DEF GateInit, Holders, InState, AtRest
<1>4. GateNeverStalls BY <1>3, FS_EmptySet DEF GateInit, GateNeverStalls
<1> QED BY <1>1, <1>2, <1>4 DEF GateInv

\* A caller takes a slot or joins the queue.
LEMMA EnterStep ==
    ASSUME GateInv, NEW c \in Callers, Enter(c)
    PROVE  GateInv'
<1> USE GateAssumption DEF GateInv
<1>1. CASE active >= Limit
  <2>1. /\ call' = [call EXCEPT ![c].at = "waiting"]
        /\ waiting' = Append(waiting, c) /\ active' = active
    BY <1>1 DEF Enter
  <2>2. GateTypeOK' BY <2>1 DEF GateTypeOK
  <2>3. \A i \in DOMAIN waiting : waiting[i] \in Callers /\ waiting[i] # c
    BY DEF Enter, QueueOK, GateTypeOK
  <2>4. QueueOK' BY SMTT(60), <2>1, <2>3 DEF QueueOK, GateTypeOK
  <2>5. Holders' = Holders /\ InState("woken")' = InState("woken")
    BY <2>1 DEF Enter, Holders, InState, GateTypeOK
  <2>6. GateNeverStalls' BY <1>1, <2>1, <2>5, FiniteCalls DEF GateNeverStalls, GateTypeOK
  <2> QED BY <2>2, <2>4, <2>6
<1>2. CASE ~(active >= Limit)
  <2>1. /\ call' = [call EXCEPT ![c].at = "fetch"]
        /\ waiting' = waiting /\ active' = active + 1
    BY <1>2 DEF Enter
  <2>2. GateTypeOK' BY <2>1 DEF GateTypeOK
  <2>3. \A i \in DOMAIN waiting : waiting[i] \in Callers /\ waiting[i] # c
    BY DEF Enter, QueueOK, GateTypeOK
  <2>4. QueueOK' BY <2>1, <2>3 DEF QueueOK, GateTypeOK
  <2>5. c \notin Holders /\ Holders' = Holders \cup {c}
        /\ InState("woken")' = InState("woken")
    BY <2>1 DEF Enter, Holders, InState, GateTypeOK
  <2>6. Cardinality(Holders') = Cardinality(Holders) + 1
    BY <2>5, FiniteCalls, FS_AddElement
  <2>7. GateNeverStalls' BY <2>1, <2>5, <2>6, FiniteCalls DEF GateNeverStalls, GateTypeOK
  <2> QED BY <2>2, <2>4, <2>7
<1> QED BY <1>1, <1>2

\* A woken waiter takes the slot that was meant for it.
LEMMA WakeStep ==
    ASSUME GateInv, NEW c \in Callers, Wake(c)
    PROVE  GateInv'
<1> USE GateAssumption DEF GateInv
<1>1. /\ call' = [call EXCEPT ![c].at = "fetch"]
      /\ waiting' = waiting /\ active' = active + 1
  BY DEF Wake
<1>2. GateTypeOK' BY <1>1 DEF GateTypeOK
<1>3. \A i \in DOMAIN waiting : waiting[i] \in Callers /\ waiting[i] # c
  BY DEF Wake, QueueOK, GateTypeOK
<1>4. QueueOK' BY <1>1, <1>3 DEF QueueOK, GateTypeOK
<1>5. /\ c \notin Holders /\ Holders' = Holders \cup {c}
      /\ c \in InState("woken") /\ InState("woken")' = InState("woken") \ {c}
  BY <1>1 DEF Wake, Holders, InState, GateTypeOK
<1>6. /\ Cardinality(Holders') = Cardinality(Holders) + 1
      /\ Cardinality(InState("woken")') = Cardinality(InState("woken")) - 1
  <2>1. Cardinality(Holders') = Cardinality(Holders) + 1
    BY <1>5, FiniteCalls, FS_AddElement
  <2>2. Cardinality(InState("woken")') = Cardinality(InState("woken")) - 1
    BY <1>5, FiniteCalls, FS_RemoveElement
  <2> QED BY <2>1, <2>2
<1>7. GateNeverStalls' BY <1>1, <1>6, FiniteCalls DEF GateNeverStalls, GateTypeOK
<1> QED BY <1>2, <1>4, <1>7

\* A slot that is given back is on its way to the head of the queue.
LEMMA ReleaseStep ==
    ASSUME GateInv, NEW c \in Callers, call[c].at = "fetch", Release(c)
    PROVE  GateInv'
<1> USE GateAssumption DEF GateInv
<1>1. c \in Holders BY DEF Holders, InState
<1>2. active >= 1 /\ active' = active - 1
  <2>1. Cardinality(Holders) # 0 BY <1>1, FiniteCalls, FS_EmptySet
  <2> QED BY <2>1, FiniteCalls DEF Release, GateNeverStalls, GateTypeOK
<1>3. CASE waiting = <<>>
  <2>1. call' = [call EXCEPT ![c] = AtRest] /\ waiting' = <<>>
    BY <1>3 DEF Release
  <2>2. GateTypeOK' BY <1>2, <2>1 DEF GateTypeOK, AtRest
  <2>3. QueueOK' BY <2>1 DEF QueueOK
  <2>4. Holders' = Holders \ {c} BY <2>1 DEF Holders, InState, GateTypeOK, AtRest
  <2>5. Cardinality(Holders') = Cardinality(Holders) - 1
    BY <1>1, <2>4, FiniteCalls, FS_RemoveElement
  <2>6. GateNeverStalls' BY <1>2, <2>1, <2>5, FiniteCalls DEF GateNeverStalls, GateTypeOK
  <2> QED BY <2>2, <2>3, <2>6
<1>4. CASE waiting # <<>>
  <2> DEFINE h == Head(waiting)
  <2>1. /\ call' = [call EXCEPT ![c] = AtRest, ![h].at = "woken"]
        /\ waiting' = Tail(waiting)
    BY <1>4 DEF Release
  <2>2. h \in Callers /\ h = waiting[1] /\ 1 \in DOMAIN waiting
    <3>1. waiting \in Seq(Callers) BY DEF GateTypeOK
    <3>2. h \in Callers BY <1>4, <3>1
    <3> QED BY <1>4, <3>1, <3>2
  <2>3. call[h].at = "waiting" /\ h # c BY <2>2 DEF QueueOK
  <2>4. GateTypeOK'
    <3>1. waiting' \in Seq(Callers) BY <1>4, <2>1 DEF GateTypeOK
    <3>2. active' \in Nat BY <1>2 DEF GateTypeOK
    <3> DEFINE Type == [at : States, tries : 0..Retries]
    <3>3. AtRest \in Type BY DEF AtRest, States
    <3>4. [call[h] EXCEPT !.at = "woken"] \in Type BY <2>2 DEF GateTypeOK, States
    <3>5. call \in [Callers -> Type] BY DEF GateTypeOK, States
    <3>6. call' \in [Callers -> Type]
      <4> HIDE DEF h, Type
      <4>1. call' = [d \in Callers |-> IF d = h THEN [call[h] EXCEPT !.at = "woken"]
                                      ELSE IF d = c THEN AtRest ELSE call[d]]
        BY <2>1, <2>3, <3>5
      <4> QED BY <4>1, <3>3, <3>4, <3>5
    <3> QED BY <3>1, <3>2, <3>6 DEF GateTypeOK, States
  <2>5. \A i \in DOMAIN waiting' :
           i + 1 \in DOMAIN waiting /\ waiting'[i] = waiting[i + 1] /\ i + 1 # 1
    BY <1>4, <2>1 DEF GateTypeOK
  <2>6. \A i \in DOMAIN waiting' :
           waiting'[i] \in Callers /\ waiting'[i] # c /\ waiting'[i] # h
    BY <2>2, <2>5 DEF QueueOK, GateTypeOK
  <2>7. QueueOK'
    <3> HIDE DEF h
    <3>1. \A i \in DOMAIN waiting' : call'[waiting'[i]].at = "waiting"
      BY <2>1, <2>5, <2>6 DEF QueueOK, GateTypeOK
    <3>2. \A i, j \in DOMAIN waiting' :
             i \in Int /\ j \in Int /\ (waiting[i + 1] = waiting[j + 1] => i + 1 = j + 1)
      BY <1>4, <2>1, <2>5 DEF QueueOK, GateTypeOK
    <3>3. \A i, j \in DOMAIN waiting' : waiting'[i] = waiting'[j] => i = j
      BY <2>5, <3>2
    <3> QED BY <3>1, <3>3 DEF QueueOK
  <2>8. /\ Holders' = Holders \ {c}
        /\ h \notin InState("woken") /\ InState("woken")' = InState("woken") \cup {h}
    BY <2>1, <2>2, <2>3 DEF Holders, InState, GateTypeOK, AtRest
  <2>9. /\ Cardinality(Holders') = Cardinality(Holders) - 1
        /\ Cardinality(InState("woken")') = Cardinality(InState("woken")) + 1
    BY ZenonT(60), <1>1, <2>8, FiniteCalls, FS_AddElement, FS_RemoveElement
  <2>10. GateNeverStalls'
    BY <1>2, <1>4, <2>9, FiniteCalls DEF GateNeverStalls, GateTypeOK
  <2> QED BY <2>4, <2>7, <2>10
<1> QED BY <1>3, <1>4

\* A refused call keeps its slot while it waits to be tried again.
LEMMA RetryStep ==
    ASSUME GateInv, NEW c \in Callers, Refused(c) \/ Retry(c)
    PROVE  GateInv'
<1> USE GateAssumption DEF GateInv
<1>1. waiting' = waiting /\ active' = active BY DEF Refused, Retry
<1>2. GateTypeOK' BY <1>1 DEF GateTypeOK, Refused, Retry
<1>3. \A i \in DOMAIN waiting : waiting[i] \in Callers /\ waiting[i] # c
  BY DEF Refused, Retry, QueueOK, GateTypeOK
<1>4. QueueOK' BY <1>1, <1>3 DEF Refused, Retry, QueueOK, GateTypeOK
<1>5. Holders' = Holders /\ InState("woken")' = InState("woken")
  BY DEF Refused, Retry, Holders, InState, GateTypeOK
<1>6. GateNeverStalls' BY <1>1, <1>5 DEF GateNeverStalls
<1> QED BY <1>2, <1>4, <1>6

\* Every step keeps the invariant.
LEMMA NextGate == GateInv /\ [GateNext]_gateVars => GateInv'
<1> SUFFICES ASSUME GateInv, [GateNext]_gateVars PROVE GateInv' OBVIOUS
<1>1. CASE UNCHANGED gateVars
  BY <1>1 DEF gateVars, GateInv, GateTypeOK, QueueOK, GateNeverStalls, Holders, InState
<1>2. ASSUME NEW c \in Callers, Enter(c) \/ GateStep(c) PROVE GateInv'
  <2>1. CASE Enter(c) BY <2>1, EnterStep
  <2>2. CASE Wake(c) BY <2>2, WakeStep
  <2>3. CASE Answer(c) \/ OutOfRetries(c) BY <2>3, ReleaseStep DEF Answer, OutOfRetries
  <2>4. CASE Refused(c) \/ Retry(c) BY <2>4, RetryStep
  <2> QED BY <1>2, <2>1, <2>2, <2>3, <2>4 DEF GateStep
<1> QED BY <1>1, <1>2 DEF GateNext

-----------------------------------------------------------------------------
\* The gate's count is the number of calls that hold a slot, so it is never
\* negative, and the queue never sleeps beside a free slot.  (enter, release
\* and the finally of limitedFetch in rpc-limiter.ts)
THEOREM GateIsFair == GateSpec => [](GateTypeOK /\ GateNeverStalls)
<1>1. GateInv => GateTypeOK /\ GateNeverStalls BY DEF GateInv
<1> QED BY <1>1, InitGate, NextGate, PTL DEF GateSpec

-----------------------------------------------------------------------------
(* The submission policy                                                    *)

UnderWay == sub.at \in {"try", "send"}

\* The turn is one the policy provides for.
TurnAllowed ==
    /\ policy.execution
    /\ sub.turn \in DOMAIN Privates => policy.private
    /\ sub.turn \notin DOMAIN Privates => policy.public

\* Those before have failed, those after have heard nothing.
OthersInOrder ==
    /\ policy.private => \A i \in DOMAIN Privates : i < sub.turn => Failed(Privates[i])
    /\ ~policy.private => \A i \in DOMAIN Privates : log[Privates[i]].sent = 0
    /\ \A i \in DOMAIN Privates : i > sub.turn => log[Privates[i]].sent = 0
    /\ sub.turn \in DOMAIN Privates => log[Public].sent = 0

\* The log holds this turn's attempts, each answered with a retryable error.
OwnAttempts ==
    /\ log[Whose(sub.turn)].sent = sub.tries
    /\ sub.tries > 0 => log[Whose(sub.turn)].answer = "retryable"
    /\ sub.at = "send" => sub.tries < MaxAttempts

SubmissionInv ==
    /\ SubmissionTypeOK
    /\ sub.at = "begin" => \A s \in Submitters : log[s].sent = 0
    /\ UnderWay => TurnAllowed /\ OthersInOrder /\ OwnAttempts
    /\ PublicIsLastResort

-----------------------------------------------------------------------------
\* Turns and submitters: each private one has a turn of its own, and the last
\* turn is the public one's.
LEMMA Turned ==
    /\ Len(Privates) \in Nat /\ DOMAIN Privates = 1..Len(Privates)
    /\ Public \in Submitters /\ \A i \in DOMAIN Privates : Privates[i] \in Submitters
    /\ \A t \in Turns : Whose(t) \in Submitters /\ t \in Nat
    /\ \A t \in Turns, i \in DOMAIN Privates : Privates[i] = Whose(t) <=> i = t
    /\ \A t \in Turns : Public = Whose(t) <=> t \notin DOMAIN Privates
BY SubmissionAssumption DEF Turns, Submitters, Whose

\* The initial state satisfies the invariant.
LEMMA InitSubmission == SubmissionInit => SubmissionInv
<1> SUFFICES ASSUME SubmissionInit PROVE SubmissionInv OBVIOUS
<1>1. SubmissionTypeOK
  <2>1. 1 \in Turns /\ 0 \in 0..MaxAttempts BY Turned, SubmissionAssumption DEF Turns
  <2>2. log \in [Submitters -> [sent : Nat, answer : Answers]] BY DEF SubmissionInit, Answers
  <2> QED BY <2>1, <2>2 DEF SubmissionInit, SubmissionTypeOK
<1>2. \A s \in Submitters : log[s].sent = 0 BY DEF SubmissionInit
<1>3. PublicIsLastResort BY <1>2, Turned DEF PublicIsLastResort
<1>4. ~UnderWay BY DEF SubmissionInit, UnderWay
<1> QED BY <1>1, <1>2, <1>3, <1>4 DEF SubmissionInv

\* The log is what a turn needs to begin: nothing of the submitters from it
\* on, and the failures of those before.
ReadyFor(turn) ==
    /\ policy.private => \A i \in DOMAIN Privates : i < turn => Failed(Privates[i])
    /\ ~policy.private => \A i \in DOMAIN Privates : log[Privates[i]].sent = 0
    /\ \A i \in DOMAIN Privates : i >= turn => log[Privates[i]].sent = 0
    /\ log[Public].sent = 0

\* A turn that begins on such a log, after a step that may have written to
\* it, leaves the invariant true.
LEMMA TurnStep ==
    ASSUME SubmissionTypeOK, log' \in [Submitters -> [sent : Nat, answer : Answers]],
           policy' = policy, expired' = expired, NEW turn \in Turns,
           policy.execution, turn \in DOMAIN Privates => policy.private,
           ReadyFor(turn)', Turn(turn)
    PROVE  SubmissionInv'
<1>1. CASE turn \in DOMAIN Privates \/ policy.public
  <2>1. sub' = [at |-> "try", turn |-> turn, tries |-> 0] BY <1>1 DEF Turn
  <2>2. SubmissionTypeOK'
    BY <2>1, SubmissionAssumption DEF SubmissionTypeOK
  <2>3. TurnAllowed' BY <1>1, <2>1 DEF TurnAllowed
  <2>4. \A i \in DOMAIN Privates : i > turn => i >= turn BY Turned
  <2>5. OthersInOrder' BY <2>1, <2>4 DEF OthersInOrder, ReadyFor
  <2>6. log'[Whose(turn)].sent = 0
    BY Turned DEF ReadyFor, Whose
  <2>7. OwnAttempts' BY <2>1, <2>6 DEF OwnAttempts
  <2>8. PublicIsLastResort' BY DEF ReadyFor, PublicIsLastResort
  <2> QED BY <2>1, <2>2, <2>3, <2>5, <2>7, <2>8 DEF SubmissionInv
<1>2. CASE ~(turn \in DOMAIN Privates \/ policy.public)
  <2>1. sub' = [sub EXCEPT !.at = "exhausted"] BY <1>2 DEF Turn, Ended
  <2>2. SubmissionTypeOK' BY <2>1 DEF SubmissionTypeOK, Ends
  <2>3. sub'.at = "exhausted" BY <2>1 DEF SubmissionTypeOK
  <2>4. PublicIsLastResort' BY DEF ReadyFor, PublicIsLastResort
  <2> QED BY <2>2, <2>3, <2>4 DEF SubmissionInv, UnderWay
<1> QED BY <1>1, <1>2

\* A step that ends a submission needs only the last resort.
LEMMA SubmissionEnds ==
    ASSUME SubmissionTypeOK, log' \in [Submitters -> [sent : Nat, answer : Answers]],
           policy' = policy, expired' = expired, NEW end \in Ends, Ended(end),
           PublicIsLastResort'
    PROVE  SubmissionInv'
<1>1. sub'.at = end /\ SubmissionTypeOK' BY DEF Ended, SubmissionTypeOK
<1> QED BY <1>1 DEF SubmissionInv, UnderWay, Ends

\* The submission begins.
LEMMA SubmitStep ==
    ASSUME SubmissionInv, Submit
    PROVE  SubmissionInv'
<1> USE DEF SubmissionInv
<1>1. policy' = policy /\ log' = log /\ expired' = expired BY DEF Submit
<1>2. CASE ~policy.execution
  <2>1. Ended("disabled") BY <1>2 DEF Submit
  <2>2. PublicIsLastResort' BY <1>1 DEF PublicIsLastResort, Failed
  <2> QED BY <1>1, <2>1, <2>2, SubmissionEnds DEF SubmissionTypeOK, Ends
<1>3. CASE policy.execution
  <2>0. (IF policy.private THEN 1 ELSE Len(Privates) + 1) \in Turns BY Turned DEF Turns
  <2>1. PICK t \in Turns :
           t = (IF policy.private THEN 1 ELSE Len(Privates) + 1) /\ Turn(t)
    BY <1>3, <2>0 DEF Submit
  <2>2. t \in DOMAIN Privates => policy.private BY <2>1, Turned
  <2>3. \A s \in Submitters : log'[s].sent = 0 BY <1>1 DEF Submit
  <2>4. \A i \in DOMAIN Privates : policy.private => ~(i < t) BY <2>1, Turned
  <2>5. ReadyFor(t)' BY <1>1, <2>3, <2>4, Turned DEF ReadyFor
  <2> QED BY <1>1, <1>3, <2>1, <2>2, <2>5, TurnStep DEF SubmissionTypeOK
<1> QED BY <1>2, <1>3

\* The block height is asked before an attempt.
LEMMA CheckStep ==
    ASSUME SubmissionInv, CheckExpiry
    PROVE  SubmissionInv'
<1> USE DEF SubmissionInv
<1>1. policy' = policy /\ log' = log /\ expired' = expired BY DEF CheckExpiry
<1>2. PublicIsLastResort' BY <1>1 DEF PublicIsLastResort, Failed
<1>3. CASE Ended("send")
  <2>1. sub' = [sub EXCEPT !.at = "send"] BY <1>3 DEF Ended
  <2>2. SubmissionTypeOK' BY <1>1, <2>1 DEF SubmissionTypeOK
  <2>3. sub'.at = "send" /\ sub'.turn = sub.turn /\ sub'.tries = sub.tries
    BY <2>1 DEF SubmissionTypeOK
  <2>4. TurnAllowed' /\ OthersInOrder' /\ OwnAttempts'
    BY <1>1, <2>3 DEF CheckExpiry, UnderWay, TurnAllowed, OthersInOrder, OwnAttempts, Failed
  <2> QED BY <1>2, <2>2, <2>3, <2>4
<1>4. CASE Ended("expired") \/ Ended("thrown")
  BY <1>1, <1>2, <1>4, SubmissionEnds DEF SubmissionTypeOK, Ends
<1> QED BY <1>3, <1>4 DEF CheckExpiry

\* The next submitter's turn, after a step that leaves the log such that this
\* one has failed and the others are as they were.
LEMMA NextTurnStep ==
    ASSUME SubmissionInv, UnderWay, log' \in [Submitters -> [sent : Nat, answer : Answers]],
           policy' = policy, expired' = expired, NextTurn,
           \A s \in Submitters : s # Whose(sub.turn) => log'[s] = log[s],
           NEW own, own = Whose(sub.turn), Failed(own)',
           sub.turn \notin DOMAIN Privates => log'[Public].sent =< MaxAttempts
    PROVE  SubmissionInv'
<1> USE DEF SubmissionInv
<1>0. sub.turn \in Turns BY DEF SubmissionTypeOK
<1>1. CASE sub.turn \in DOMAIN Privates
  <2>0. sub.turn + 1 \in Turns /\ sub.turn \in Nat BY <1>1, Turned DEF Turns
  <2>1. PICK t \in Turns : t = sub.turn + 1 /\ Turn(t) BY <1>1, <2>0 DEF NextTurn
  <2>2. \A i \in DOMAIN Privates : (i < t <=> i < sub.turn \/ i = sub.turn)
                                   /\ (i >= t <=> i > sub.turn)
    BY <2>0, <2>1, Turned
  <2>3. policy.private /\ policy.execution BY <1>1 DEF TurnAllowed
  <2>4. \A i \in DOMAIN Privates : i < sub.turn => log'[Privates[i]] = log[Privates[i]]
    BY <1>0, Turned
  <2>5. \A i \in DOMAIN Privates : i < t => Failed(Privates[i])'
    <3> TAKE i \in DOMAIN Privates
    <3>1. CASE i = sub.turn
      <4>1. Privates[i] = own BY <1>1, <3>1 DEF Whose
      <4> QED BY <4>1
    <3>2. CASE i < sub.turn BY <2>3, <2>4, <3>2 DEF OthersInOrder, Failed
    <3> QED BY <2>2, <3>1, <3>2
  <2>6. \A i \in DOMAIN Privates : i >= t => log'[Privates[i]].sent = 0
    <3> TAKE i \in DOMAIN Privates
    <3> HAVE i >= t
    <3>1. i > sub.turn BY <2>2
    <3>2. Privates[i] # Whose(sub.turn) BY <1>0, <2>0, <3>1, Turned
    <3> QED BY <3>1, <3>2, Turned DEF OthersInOrder
  <2>7. log'[Public].sent = 0 BY <1>0, <1>1, Turned DEF OthersInOrder
  <2>8. ReadyFor(t)' BY <2>3, <2>5, <2>6, <2>7 DEF ReadyFor
  <2> QED BY <2>1, <2>3, <2>8, TurnStep
<1>2. CASE sub.turn \notin DOMAIN Privates
  <2>1. Ended("exhausted") BY <1>2 DEF NextTurn
  <2>2. \A i \in DOMAIN Privates : i < sub.turn /\ log'[Privates[i]] = log[Privates[i]]
    BY <1>0, <1>2, Turned DEF Turns
  <2>3. PublicIsLastResort'
    BY <1>2, <2>2 DEF PublicIsLastResort, Failed, TurnAllowed, OthersInOrder
  <2> QED BY <2>1, <2>3, SubmissionEnds DEF Ends
<1> QED BY <1>1, <1>2

\* Out of attempts.
LEMMA NoAttemptStep ==
    ASSUME SubmissionInv, NoAttemptLeft
    PROVE  SubmissionInv'
<1> USE DEF SubmissionInv
<1>1. UnderWay /\ policy' = policy /\ log' = log /\ expired' = expired /\ NextTurn
  BY DEF NoAttemptLeft, UnderWay
<1>2. MaxAttempts \in Nat /\ log[Whose(sub.turn)].sent = MaxAttempts
        /\ (MaxAttempts > 0 => log[Whose(sub.turn)].answer = "retryable")
  BY <1>1, SubmissionAssumption DEF NoAttemptLeft, OwnAttempts
<1>3. PICK own : own = Whose(sub.turn) OBVIOUS
<1>5. Failed(own)' BY <1>1, <1>2, <1>3, SubmissionAssumption DEF Failed
<1>4. sub.turn \notin DOMAIN Privates => log'[Public].sent =< MaxAttempts
  BY <1>1, <1>2 DEF Whose
<1> QED BY <1>1, <1>3, <1>4, <1>5, NextTurnStep DEF SubmissionTypeOK

\* What an attempt writes to the log.
LEMMA Attempted ==
    ASSUME SubmissionInv, sub.at = "send", NEW reply \in Answers, Attempt(reply)
    PROVE  /\ log' \in [Submitters -> [sent : Nat, answer : Answers]]
           /\ log'[Whose(sub.turn)] = [sent |-> sub.tries + 1, answer |-> reply]
           /\ \A s \in Submitters : s # Whose(sub.turn) => log'[s] = log[s]
           /\ sub.tries \in Nat /\ sub.tries + 1 =< MaxAttempts
<1>1. sub.turn \in Turns /\ sub.tries \in Nat BY SubmissionAssumption DEF SubmissionInv, SubmissionTypeOK
<1>2. Whose(sub.turn) \in Submitters BY <1>1, Turned
<1>3. OwnAttempts BY DEF SubmissionInv, UnderWay
<1>4. log' = [log EXCEPT ![Whose(sub.turn)] = [sent |-> sub.tries + 1, answer |-> reply]]
  BY <1>2, <1>3 DEF Attempt, OwnAttempts, SubmissionInv, SubmissionTypeOK
<1>5. sub.tries + 1 =< MaxAttempts BY <1>1, <1>3, SubmissionAssumption DEF OwnAttempts
<1> QED BY <1>1, <1>2, <1>4, <1>5 DEF SubmissionInv, SubmissionTypeOK

\* An attempt of the turn's submitter never puts the public one before a
\* private one that has not failed.
LEMMA AttemptIsAllowed ==
    ASSUME SubmissionInv, sub.at = "send", NEW reply \in Answers, Attempt(reply),
           policy' = policy
    PROVE  PublicIsLastResort'
<1> USE DEF SubmissionInv
<1>1. TurnAllowed /\ OthersInOrder /\ sub.turn \in Turns BY DEF UnderWay, SubmissionTypeOK
<1>4. /\ log'[Whose(sub.turn)] = [sent |-> sub.tries + 1, answer |-> reply]
      /\ \A s \in Submitters : s # Whose(sub.turn) => log'[s] = log[s]
      /\ sub.tries + 1 =< MaxAttempts
  BY Attempted
<1>2. CASE sub.turn \in DOMAIN Privates
  <2>1. log'[Public] = log[Public] BY <1>1, <1>2, <1>4, Turned
  <2> QED BY <1>1, <1>2, <2>1 DEF OthersInOrder, PublicIsLastResort
<1>3. CASE sub.turn \notin DOMAIN Privates
  <2>1. \A i \in DOMAIN Privates : i < sub.turn /\ log'[Privates[i]] = log[Privates[i]]
    BY <1>1, <1>3, <1>4, Turned DEF Turns
  <2>2. log'[Public].sent =< MaxAttempts
    BY <1>3, <1>4 DEF Whose
  <2> QED BY <1>1, <1>3, <2>1, <2>2
          DEF PublicIsLastResort, Failed, TurnAllowed, OthersInOrder
<1> QED BY <1>2, <1>3

\* An attempt that ends the submission.
LEMMA LastAttemptStep ==
    ASSUME SubmissionInv, Accepted \/ AnswerLost
    PROVE  SubmissionInv'
<1>1. PICK reply \in Answers, end \in Ends :
         sub.at = "send" /\ Attempt(reply) /\ Ended(end) /\ policy' = policy /\ expired' = expired
  BY DEF Accepted, AnswerLost, Answers, Ends
<1>2. PublicIsLastResort' BY <1>1, AttemptIsAllowed
<1>3. log' \in [Submitters -> [sent : Nat, answer : Answers]] BY <1>1, Attempted
<1> QED BY <1>1, <1>2, <1>3, SubmissionEnds DEF SubmissionInv

\* A retryable error leaves the turn where it is.
LEMMA RetryableStep ==
    ASSUME SubmissionInv, Retryable
    PROVE  SubmissionInv'
<1> USE DEF SubmissionInv
<1>1. /\ sub.at = "send" /\ Attempt("retryable") /\ policy' = policy /\ expired' = expired
      /\ sub' = [sub EXCEPT !.at = "try", !.tries = @ + 1] /\ "retryable" \in Answers
  BY DEF Retryable, Answers
<1>2. /\ log' \in [Submitters -> [sent : Nat, answer : Answers]]
      /\ log'[Whose(sub.turn)] = [sent |-> sub.tries + 1, answer |-> "retryable"]
      /\ \A s \in Submitters : s # Whose(sub.turn) => log'[s] = log[s]
      /\ sub.tries \in Nat /\ sub.tries + 1 =< MaxAttempts
  BY <1>1, Attempted
<1>3. sub' = [at |-> "try", turn |-> sub.turn, tries |-> sub.tries + 1] /\ sub.turn \in Turns
  BY <1>1 DEF SubmissionTypeOK
<1>4. SubmissionTypeOK'
  BY <1>1, <1>2, <1>3, SubmissionAssumption DEF SubmissionTypeOK
<1>5. TurnAllowed /\ OthersInOrder BY <1>1 DEF UnderWay
<1>6. TurnAllowed' BY <1>1, <1>3, <1>5 DEF TurnAllowed
<1>7. \A i \in DOMAIN Privates : i # sub.turn => log'[Privates[i]] = log[Privates[i]]
  BY <1>2, <1>3, Turned
<1>8. sub.turn \in DOMAIN Privates => log'[Public] = log[Public] BY <1>2, <1>3, Turned
<1>9. \A i \in DOMAIN Privates : ~policy.private => i # sub.turn BY <1>5 DEF TurnAllowed
<1>10. \A i \in DOMAIN Privates : (i < sub.turn \/ i > sub.turn) => i # sub.turn
  BY <1>3, Turned
<1>11. OthersInOrder'
  BY <1>1, <1>3, <1>5, <1>7, <1>8, <1>9, <1>10 DEF OthersInOrder, Failed
<1>12. OwnAttempts' BY <1>2, <1>3 DEF OwnAttempts
<1>13. PublicIsLastResort' BY <1>1, AttemptIsAllowed
<1> QED BY <1>3, <1>4, <1>6, <1>11, <1>12, <1>13

\* A refusal for good passes the turn on.
LEMMA RefusedStep ==
    ASSUME SubmissionInv, RefusedForGood
    PROVE  SubmissionInv'
<1>1. /\ sub.at = "send" /\ Attempt("refused") /\ policy' = policy /\ expired' = expired
      /\ NextTurn /\ UnderWay /\ "refused" \in Answers
  BY DEF RefusedForGood, Answers, UnderWay
<1>2. /\ log' \in [Submitters -> [sent : Nat, answer : Answers]]
      /\ log'[Whose(sub.turn)] = [sent |-> sub.tries + 1, answer |-> "refused"]
      /\ \A s \in Submitters : s # Whose(sub.turn) => log'[s] = log[s]
      /\ sub.tries + 1 =< MaxAttempts
  BY <1>1, Attempted
<1>3. PICK own : own = Whose(sub.turn) OBVIOUS
<1>5. Failed(own)' BY <1>2, <1>3 DEF Failed
<1>4. sub.turn \notin DOMAIN Privates => log'[Public].sent =< MaxAttempts
  BY <1>2 DEF Whose
<1> QED BY <1>1, <1>2, <1>3, <1>4, <1>5, NextTurnStep

\* Every step keeps the invariant.
LEMMA NextSubmission == SubmissionInv /\ [SubmissionNext]_submissionVars => SubmissionInv'
<1> SUFFICES ASSUME SubmissionInv, [SubmissionNext]_submissionVars PROVE SubmissionInv' OBVIOUS
<1>1. CASE Outdate \/ UNCHANGED submissionVars
  BY ZenonT(60), <1>1 DEF Outdate, submissionVars, SubmissionInv, SubmissionTypeOK, UnderWay,
              TurnAllowed, OthersInOrder, OwnAttempts, PublicIsLastResort, Failed
<1> QED BY <1>1, SubmitStep, CheckStep, NoAttemptStep, LastAttemptStep, RetryableStep,
           RefusedStep DEF SubmissionNext

-----------------------------------------------------------------------------
\* The public endpoint hears of a transaction only under a policy that allows
\* it, and only when every private submitter the policy uses has failed with
\* no attempt left.  (submitWithPolicy and submitThrough in submit.ts)
THEOREM PublicComesLast == SubmissionSpec => []PublicIsLastResort
<1>1. SubmissionInv => PublicIsLastResort BY DEF SubmissionInv
<1> QED BY <1>1, InitSubmission, NextSubmission, PTL DEF SubmissionSpec

\* The submission, its flags and its log always hold what their types say.
THEOREM SubmissionTypes == SubmissionSpec => []SubmissionTypeOK
<1>1. SubmissionInv => SubmissionTypeOK BY DEF SubmissionInv
<1> QED BY <1>1, InitSubmission, NextSubmission, PTL DEF SubmissionSpec

-----------------------------------------------------------------------------
(* The read cache                                                           *)

\* At most one read is under way, and nothing the cache can still answer with,
\* whether it is kept, on its way or held for a failure, is older than what
\* anybody was told.
OneRead == \A r, s \in Reads : read[r].on /\ read[s].on => r = s
NothingOlder ==
    /\ value.seen # Unseen => value.seen >= answer.best
    /\ value.live => value.seen # Unseen
    /\ value.seen <= version /\ answer.best <= version
    /\ \A r \in Reads : read[r].on =>
          /\ read[r].seen # Unseen => read[r].seen >= answer.best /\ read[r].seen >= value.seen
          /\ read[r].held # Unseen => read[r].held >= answer.best /\ read[r].held >= value.seen
          /\ read[r].seen <= version /\ read[r].held <= version
          /\ read[r].seen # Unseen => read[r].seen >= read[r].held
FloorsWereTold == \A c \in Readers : ask[c].floor <= answer.best

CacheInv == CacheTypeOK /\ OneRead /\ NothingOlder /\ FloorsWereTold /\ ReadsNeverGoBack

LEMMA LaterOfTwo ==
  ASSUME NEW a \in Int, NEW b \in Int
  PROVE  Max({a, b}) = IF a >= b THEN a ELSE b
BY DEF Max

LEMMA InitCache == CacheInit => CacheInv
BY CacheAssumption DEF CacheInit, CacheInv, CacheTypeOK, OneRead, NothingOlder, FloorsWereTold,
   ReadsNeverGoBack, Seen, Unseen, NoValue, NoRead, Resting

\* Whoever is told the cached value is told nothing older than anybody was.
LEMMA AnswerNowInv ==
  ASSUME CacheInv, AnswerNow, value.seen # Unseen
  PROVE  /\ answer' \in [floor : Seen, got : Seen, best : Seen]
         /\ answer'.best = value.seen /\ answer'.got >= answer'.floor
         /\ \A c \in Readers : ask[c].floor <= value.seen
<1>1. /\ value.seen \in Seen /\ answer.best \in Seen /\ value.seen >= answer.best
      /\ answer \in [floor : Seen, got : Seen, best : Seen]
  BY DEF CacheInv, CacheTypeOK, NothingOlder
<1>2. Seen \subseteq Int
  BY CacheAssumption DEF Seen, Unseen
<1>3. Max({answer.best, value.seen}) = value.seen
  BY ZenonT(60), <1>1, <1>2, LaterOfTwo
<1>4. answer' = [floor |-> answer.best, got |-> value.seen, best |-> value.seen]
  BY <1>3 DEF AnswerNow, Answered
<1>5. /\ answer'.floor = answer.best /\ answer'.got = value.seen /\ answer'.best = value.seen
      /\ answer' \in [floor : Seen, got : Seen, best : Seen]
  BY <1>1, <1>4
<1>6. \A c \in Readers : ask[c].floor \in Int /\ ask[c].floor <= answer.best
  BY <1>2 DEF CacheInv, CacheTypeOK, FloorsWereTold
<1>7. answer.best \in Int /\ value.seen \in Int
  BY <1>1, <1>2
<1> QED BY <1>1, <1>5, <1>6, <1>7

\* Everything told, kept or on its way is a version, and so a number.
LEMMA Numbers ==
  ASSUME CacheTypeOK
  PROVE  /\ version \in Int /\ value.seen \in Int /\ answer.best \in Int
         /\ \A s \in Reads : read[s].seen \in Int /\ read[s].held \in Int
         /\ \A c \in Readers : ask[c].floor \in Int
         /\ Unseen \in Int /\ Unseen <= version /\ Unseen <= answer.best
<1>1. Seen \subseteq Int /\ \A n \in Seen : Unseen <= n
  BY CacheAssumption DEF Seen, Unseen
<1>2. version \in Seen
  BY CacheAssumption DEF CacheTypeOK, Seen
<1>3. value.seen \in Seen /\ answer.best \in Seen
  BY DEF CacheTypeOK
<1>4. \A s \in Reads : read[s].seen \in Seen /\ read[s].held \in Seen
  BY DEF CacheTypeOK
<1>5. \A c \in Readers : ask[c].floor \in Seen
  BY DEF CacheTypeOK
<1>6. Unseen \in Int BY DEF Unseen
<1> QED BY <1>1, <1>2, <1>3, <1>4, <1>5, <1>6

\* A call answers at once, joins the read under way, or begins the only one.
LEMMA CallInv ==
  ASSUME CacheInv, NEW c \in Readers, NEW fresh \in BOOLEAN, NEW r \in Reads, Call(c, fresh, r)
  PROVE  CacheInv'
<1>0. /\ version \in 0..MaxVersion /\ value \in [seen : Seen, live : BOOLEAN]
      /\ read \in [Reads -> [on : BOOLEAN, seen : Seen, held : Seen]]
      /\ ask \in [Readers -> [on : SUBSET Reads, floor : Seen]]
      /\ answer \in [floor : Seen, got : Seen, best : Seen]
      /\ Seen \subseteq Int /\ Unseen \in Seen /\ Unseen = -1 /\ \A n \in Seen : n >= Unseen
  BY CacheAssumption DEF CacheInv, CacheTypeOK, Seen, Unseen
<1>10. /\ version \in Int /\ value.seen \in Int /\ answer.best \in Int
      /\ \A s \in Reads : read[s].seen \in Int /\ read[s].held \in Int
      /\ \A d \in Readers : ask[d].floor \in Int
      /\ Unseen <= version /\ Unseen <= answer.best
  BY Numbers DEF CacheInv
<1>1. CASE AnswerNow /\ UNCHANGED read /\ value.seen # Unseen
  <2>1. /\ answer' \in [floor : Seen, got : Seen, best : Seen]
        /\ answer'.best = value.seen /\ answer'.got >= answer'.floor
        /\ \A d \in Readers : ask[d].floor <= value.seen
    BY <1>1, AnswerNowInv
  <2>2. UNCHANGED <<version, swr, value, ask, read>>
    BY <1>1 DEF AnswerNow
  <2>3. CacheTypeOK' /\ OneRead'
    BY <2>1, <2>2 DEF CacheInv, CacheTypeOK, OneRead
  <2>4. NothingOlder'
    BY <1>0, <1>10, <2>1, <2>2 DEF CacheInv, NothingOlder
  <2> QED BY <2>1, <2>2, <2>3, <2>4 DEF CacheInv, FloorsWereTold, ReadsNeverGoBack
<1>2. CASE r \in Running /\ Join(c, r) /\ UNCHANGED read
  <2>1. /\ ask' \in [Readers -> [on : SUBSET Reads, floor : Seen]]
        /\ \A d \in Readers : ask'[d].floor <= answer.best
    <3> DEFINE mine == [on |-> {r}, floor |-> answer.best]
    <3>1. mine \in [on : SUBSET Reads, floor : Seen] /\ mine.floor = answer.best
      BY <1>0
    <3>2. ask' = [ask EXCEPT ![c] = mine]
      BY <1>2 DEF Join
    <3> HIDE DEF mine
    <3>3. \A d \in Readers : ask'[d] = IF d = c THEN mine ELSE ask[d]
      BY <1>0, <3>2
    <3> QED BY <1>0, <1>10, <3>1, <3>2, <3>3 DEF CacheInv, FloorsWereTold
  <2>2. UNCHANGED <<version, swr, value, answer, read>>
    BY <1>2 DEF Join
  <2> QED BY <2>1, <2>2 DEF CacheInv, CacheTypeOK, OneRead, NothingOlder, FloorsWereTold,
             ReadsNeverGoBack
<1>3. ASSUME NEW held \in Seen, Running = {}, Begin(r, held),
             held = value.seen \/ held = Unseen
      PROVE  /\ read' \in [Reads -> [on : BOOLEAN, seen : Seen, held : Seen]]
             /\ \A s \in Reads : read'[s].on => s = r
             /\ read'[r].seen = Unseen /\ read'[r].held = held
  BY <1>0, <1>3 DEF Begin, Running
<1>4. CASE Running = {} /\ value.seen # Unseen /\ Begin(r, value.seen) /\ AnswerNow
  <2>1. /\ answer' \in [floor : Seen, got : Seen, best : Seen]
        /\ answer'.best = value.seen /\ answer'.got >= answer'.floor
        /\ \A d \in Readers : ask[d].floor <= value.seen
    BY <1>4, AnswerNowInv
  <2>2. UNCHANGED <<version, swr, value, ask>>
    BY <1>4 DEF AnswerNow
  <2>3. /\ read' \in [Reads -> [on : BOOLEAN, seen : Seen, held : Seen]]
        /\ \A s \in Reads : read'[s].on => s = r
        /\ read'[r].seen = Unseen /\ read'[r].held = value.seen
    BY <1>0, <1>3, <1>4
  <2>4. CacheTypeOK' /\ OneRead'
    BY <2>1, <2>2, <2>3 DEF CacheInv, CacheTypeOK, OneRead
  <2>5. NothingOlder'
    BY <1>0, <1>10, <2>1, <2>2, <2>3 DEF CacheInv, NothingOlder
  <2> QED BY <2>1, <2>2, <2>4, <2>5 DEF CacheInv, FloorsWereTold, ReadsNeverGoBack
<1>5. CASE Running = {} /\ Begin(r, Unseen) /\ Join(c, r)
  <2>1. /\ ask' \in [Readers -> [on : SUBSET Reads, floor : Seen]]
        /\ \A d \in Readers : ask'[d].floor <= answer.best
    <3> DEFINE mine == [on |-> {r}, floor |-> answer.best]
    <3>1. mine \in [on : SUBSET Reads, floor : Seen] /\ mine.floor = answer.best
      BY <1>0
    <3>2. ask' = [ask EXCEPT ![c] = mine]
      BY <1>5 DEF Join
    <3> HIDE DEF mine
    <3>3. \A d \in Readers : ask'[d] = IF d = c THEN mine ELSE ask[d]
      BY <1>0, <3>2
    <3> QED BY <1>0, <1>10, <3>1, <3>2, <3>3 DEF CacheInv, FloorsWereTold
  <2>2. UNCHANGED <<version, swr, value, answer>>
    BY <1>5 DEF Join
  <2>3. /\ read' \in [Reads -> [on : BOOLEAN, seen : Seen, held : Seen]]
        /\ \A s \in Reads : read'[s].on => s = r
        /\ read'[r].seen = Unseen /\ read'[r].held = Unseen
    BY <1>0, <1>3, <1>5
  <2>4. CacheTypeOK' /\ OneRead'
    BY <2>1, <2>2, <2>3 DEF CacheInv, CacheTypeOK, OneRead
  <2>5. NothingOlder'
    BY <1>0, <2>2, <2>3 DEF CacheInv, NothingOlder
  <2> QED BY <2>1, <2>2, <2>4, <2>5 DEF CacheInv, FloorsWereTold, ReadsNeverGoBack
<1>6. value.live => value.seen # Unseen
  BY DEF CacheInv, NothingOlder
<1> QED BY <1>1, <1>2, <1>4, <1>5, <1>6 DEF Call, Live, Stale

\* What a read brings, or a failed one puts back, is no older than what was
\* told before; so is what a new look at the source sees.
LEMMA ReadInv ==
  ASSUME CacheInv, NEW r \in Reads, Look(r) \/ Arrive(r) \/ ReadFails(r)
  PROVE  CacheInv'
<1>0. /\ version \in 0..MaxVersion /\ value \in [seen : Seen, live : BOOLEAN]
      /\ read \in [Reads -> [on : BOOLEAN, seen : Seen, held : Seen]]
      /\ ask \in [Readers -> [on : SUBSET Reads, floor : Seen]]
      /\ answer \in [floor : Seen, got : Seen, best : Seen]
      /\ Seen \subseteq Int /\ Unseen \in Seen /\ Unseen = -1 /\ \A n \in Seen : n >= Unseen
      /\ 0..MaxVersion \subseteq Seen
  BY CacheAssumption DEF CacheInv, CacheTypeOK, Seen, Unseen
<1>10. /\ version \in Int /\ value.seen \in Int /\ answer.best \in Int
      /\ \A s \in Reads : read[s].seen \in Int /\ read[s].held \in Int
      /\ \A d \in Readers : ask[d].floor \in Int
      /\ Unseen <= version /\ Unseen <= answer.best
  BY Numbers DEF CacheInv
<1>1. CASE Look(r)
  <2>1. /\ read' \in [Reads -> [on : BOOLEAN, seen : Seen, held : Seen]]
        /\ read'[r].seen = version /\ read'[r].held = read[r].held /\ read'[r].on
        /\ \A s \in Reads \ {r} : read'[s] = read[s]
    BY <1>0, <1>1 DEF Look
  <2>2. UNCHANGED <<version, swr, value, ask, answer>> /\ read[r].on
    BY <1>1 DEF Look
  <2>3. CacheTypeOK' /\ OneRead'
    BY <2>1, <2>2 DEF CacheInv, CacheTypeOK, OneRead
  <2>4. NothingOlder'
    BY <1>0, <1>10, <2>1, <2>2 DEF CacheInv, NothingOlder
  <2> QED BY <2>2, <2>3, <2>4 DEF CacheInv, FloorsWereTold, ReadsNeverGoBack
<1>2. ASSUME read[r].on, Dismiss(r)
      PROVE  /\ read' \in [Reads -> [on : BOOLEAN, seen : Seen, held : Seen]]
             /\ ask' \in [Readers -> [on : SUBSET Reads, floor : Seen]]
             /\ \A s \in Reads : ~read'[s].on
             /\ \A c \in Readers : ask'[c].floor = ask[c].floor \/ ask'[c].floor = Unseen
  <2>1. \A s \in Reads \ {r} : ~read[s].on
    BY <1>2 DEF CacheInv, OneRead
  <2> QED BY <1>0, <1>2, <2>1 DEF Dismiss, NoRead, Resting
<1>3. CASE Arrive(r)
  <2>1. /\ read' \in [Reads -> [on : BOOLEAN, seen : Seen, held : Seen]]
        /\ ask' \in [Readers -> [on : SUBSET Reads, floor : Seen]]
        /\ \A s \in Reads : ~read'[s].on
        /\ \A c \in Readers : ask'[c].floor = ask[c].floor \/ ask'[c].floor = Unseen
    BY <1>2, <1>3 DEF Arrive
  <2>2. PICK seen \in Seen : seen = read[r].seen /\ seen # Unseen
    BY <1>0, <1>3 DEF Arrive
  <2>3. seen >= answer.best /\ seen <= version
    BY <1>3, <2>2 DEF Arrive, CacheInv, NothingOlder
  <2>4. value' = [seen |-> seen, live |-> TRUE] /\ UNCHANGED <<version, swr>>
    BY <1>3, <2>2 DEF Arrive
  <2>5. /\ answer' \in [floor : Seen, got : Seen, best : Seen] /\ answer'.got >= answer'.floor
        /\ answer'.best = seen \/ answer'.best = answer.best
    <3>1. CASE UNCHANGED answer
      BY <1>0, <3>1 DEF CacheInv, ReadsNeverGoBack
    <3>2. ASSUME NEW c \in Waiting(r), Answered(ask[c].floor, seen)
          PROVE  <2>5!1 /\ <2>5!2
      <4>1. PICK floor \in Seen : floor = ask[c].floor /\ floor <= answer.best
        BY <1>0, <3>2 DEF Waiting, CacheInv, FloorsWereTold
      <4>2. Max({answer.best, seen}) = seen
        BY <1>0, <1>10, <2>3, LaterOfTwo
      <4>3. answer' = [floor |-> floor, got |-> seen, best |-> seen]
        BY <3>2, <4>1, <4>2 DEF Answered
      <4>4. floor <= seen
        BY <1>0, <1>10, <2>3, <4>1
      <4> QED BY <4>3, <4>4
    <3> QED BY <1>3, <2>2, <3>1, <3>2 DEF Arrive
  <2>6. CacheTypeOK' /\ OneRead'
    BY <1>0, <2>1, <2>4, <2>5 DEF CacheInv, CacheTypeOK, OneRead
  <2>7. answer'.best <= seen /\ answer.best <= answer'.best
    BY <1>0, <1>10, <2>3, <2>5
  <2>8. NothingOlder'
    BY <1>0, <2>1, <2>2, <2>3, <2>4, <2>5, <2>7 DEF CacheInv, NothingOlder
  <2>9. FloorsWereTold'
    BY <1>0, <1>10, <2>1, <2>3, <2>5, <2>7 DEF CacheInv, FloorsWereTold
  <2> QED BY <2>5, <2>6, <2>8, <2>9 DEF CacheInv, ReadsNeverGoBack
<1>4. CASE ReadFails(r)
  <2>1. /\ read' \in [Reads -> [on : BOOLEAN, seen : Seen, held : Seen]]
        /\ ask' \in [Readers -> [on : SUBSET Reads, floor : Seen]]
        /\ \A s \in Reads : ~read'[s].on
        /\ \A c \in Readers : ask'[c].floor = ask[c].floor \/ ask'[c].floor = Unseen
    BY <1>2, <1>4 DEF ReadFails
  <2>2. /\ value' \in [seen : Seen, live : BOOLEAN]
        /\ value'.seen # Unseen => value'.seen >= answer.best
        /\ value'.live => value'.seen # Unseen
        /\ value'.seen <= version
    BY <1>0, <1>4 DEF ReadFails, CacheInv, NothingOlder
  <2>3. UNCHANGED <<version, swr, answer>>
    BY <1>4 DEF ReadFails
  <2>4. CacheTypeOK' /\ OneRead' /\ NothingOlder'
    BY <2>1, <2>2, <2>3 DEF CacheInv, CacheTypeOK, OneRead, NothingOlder
  <2>5. FloorsWereTold'
    BY <1>0, <2>1, <2>3 DEF CacheInv, FloorsWereTold
  <2> QED BY <2>3, <2>4, <2>5 DEF CacheInv, ReadsNeverGoBack
<1> QED BY <1>1, <1>3, <1>4

LEMMA NextCache == CacheInv /\ [CacheNext]_cacheVars => CacheInv'
<1> SUFFICES ASSUME CacheInv, [CacheNext]_cacheVars PROVE CacheInv'
  OBVIOUS
<1> USE DEF CacheInv, CacheTypeOK, OneRead, NothingOlder, FloorsWereTold, ReadsNeverGoBack
<1>1. CASE Lapse
  BY <1>1 DEF Lapse
<1>2. CASE Evict
  BY <1>2, CacheAssumption DEF Evict, NoValue, Seen, Unseen
<1>3. CASE Publish
  BY <1>3, CacheAssumption DEF Publish, Seen, Unseen
<1>4. CASE UNCHANGED cacheVars
  BY <1>4 DEF cacheVars
<1> QED BY <1>1, <1>2, <1>3, <1>4, CallInv, ReadInv DEF CacheNext

\* For every number of callers and whatever lapses, is evicted or fails: nobody
\* is told something older than what anybody was told before it asked.
THEOREM AnswersNeverGoBack == CacheSpec => []ReadsNeverGoBack
<1>1. CacheInv => ReadsNeverGoBack
  BY DEF CacheInv
<1> QED BY <1>1, InitCache, NextCache, PTL DEF CacheSpec
=============================================================================
