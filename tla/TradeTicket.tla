---------------------------- MODULE TradeTicket -----------------------------
(***************************************************************************)
(* The market ticket of the trade page (components/stockroom.tsx): getQuote   *)
(* builds a transaction for the terms on the ticket, on the market's route or *)
(* on the router's, and buy checks it, has it signed and sends it.            *)
(*                                                                           *)
(* One operation runs at a time.  The inputs are disabled meanwhile, but the  *)
(* wallet, an estimate or a token looked up before may still change the       *)
(* terms.  The effect of a change runs after it is rendered and before the    *)
(* next click; continuations may come in between.                             *)
(* Prices, server, wallet and chain are external.                             *)
(***************************************************************************)
EXTENDS Integers, FiniteSets

CONSTANTS
    Traders,  \* wallets
    Tokens,
    Cash,     \* USDC: the router trades against nothing else
    Sizes,    \* amounts that may be typed or estimated
    Blank     \* no wallet, no amount, no transaction

ASSUME TicketAssumption ==
    Cash \in Tokens /\ Cardinality(Tokens) > 1 /\ Blank \notin Sizes \cup Traders

VARIABLES
    ticket,     \* the terms shown; is the output typed; is an effect to run
    review,     \* the market's transaction
    routed,     \* routerReview: the router's
    operation   \* getQuote or buy, with what it captured when it began

ticketVars == <<ticket, review, routed, operation>>

Terms ==
    {t \in [owner : Traders \cup {Blank}, pay : Tokens, get : Tokens, amount : Sizes \cup {Blank}] :
        t.pay # t.get}
Unbuilt == [terms |-> Blank, live |-> FALSE, path |-> FALSE]
Builds == [terms : Terms, live : BOOLEAN, path : BOOLEAN] \cup {Unbuilt}
NoOperation ==
    [at |-> "idle", via |-> "market", terms |-> Blank, build |-> Unbuilt, current |-> FALSE]

TicketTypeOK ==
    /\ ticket \in [terms : Terms, output : BOOLEAN, effect : BOOLEAN]
    /\ review \in Builds /\ routed \in Builds
    /\ operation \in
         [at : {"idle", "access", "build", "check", "wallet", "sent"}, via : {"market", "router"},
          terms : Terms \cup {Blank}, build : Builds, current : BOOLEAN]

TicketInit ==
    /\ \E token \in Tokens \ {Cash} :
          ticket = [terms |-> [owner |-> Blank, pay |-> Cash, get |-> token, amount |-> Blank],
                    output |-> FALSE, effect |-> FALSE]
    /\ review = Unbuilt /\ routed = Unbuilt
    /\ operation = NoOperation

-----------------------------------------------------------------------------
(* The terms on the ticket                                                  *)

Free == operation.at = "idle" /\ ~ticket.effect
Show(terms, output) ==
    /\ ticket' = [terms |-> terms, output |-> output,
                  effect |-> ticket.effect \/ terms # ticket.terms]
    /\ UNCHANGED operation

\* editInput
Edit(amount) ==
    /\ Free
    /\ Show([ticket.terms EXCEPT !.amount = amount], FALSE)
    /\ routed' = Unbuilt
    /\ UNCHANGED review

\* The receive field: what it costs is estimated later.
EditOutput ==
    /\ Free
    /\ Show([ticket.terms EXCEPT !.amount = Blank], TRUE)
    /\ review' = Unbuilt
    /\ UNCHANGED routed

Estimate(amount) ==
    /\ ticket.output
    /\ Show([ticket.terms EXCEPT !.amount = amount], TRUE)
    /\ UNCHANGED <<review, routed>>

\* choosePayment, which may have looked the token up before: the token of the
\* other side changes sides.
Choose(token, paying) ==
    /\ LET t == ticket.terms
           swapped == IF paying THEN t.get = token ELSE t.pay = token
       IN  Show([t EXCEPT !.pay = IF paying THEN token ELSE IF swapped THEN t.get ELSE @,
                          !.get = IF ~paying THEN token ELSE IF swapped THEN t.pay ELSE @,
                          !.amount = Blank], FALSE)
    /\ UNCHANGED <<review, routed>>

\* The direction button puts the output where the input was.
Flip(amount) ==
    /\ Free
    /\ Show([ticket.terms EXCEPT !.pay = ticket.terms.get, !.get = ticket.terms.pay,
                                 !.amount = amount], FALSE)
    /\ routed' = Unbuilt
    /\ UNCHANGED review

Switch(owner) ==
    /\ Show([ticket.terms EXCEPT !.owner = owner], ticket.output)
    /\ UNCHANGED <<review, routed>>

\* generation.current++: the market's review goes, the router's stays.
Effect ==
    /\ ticket.effect
    /\ ticket' = [ticket EXCEPT !.effect = FALSE]
    /\ review' = Unbuilt
    /\ operation' = [operation EXCEPT !.current = FALSE]
    /\ UNCHANGED routed

-----------------------------------------------------------------------------
(* getQuote                                                                 *)

Quote(via) ==
    /\ Free /\ ticket.terms.owner # Blank
    /\ via = "router" => Cash \in {ticket.terms.pay, ticket.terms.get}
    /\ operation' = [at |-> "access", via |-> via, terms |-> ticket.terms, build |-> Unbuilt,
                     current |-> TRUE]
    /\ review' = Unbuilt /\ routed' = Unbuilt
    /\ UNCHANGED ticket

\* The wallet signed the authorization, if it was not cached.
Authorize ==
    /\ operation.at = "access"
    /\ operation' = IF operation.current THEN [operation EXCEPT !.at = "build"] ELSE NoOperation
    /\ UNCHANGED <<ticket, review, routed>>

Built(live, path) ==
    /\ operation.at = "build" /\ operation.terms.amount # Blank
    /\ path => operation.via = "router"
    /\ LET build == [terms |-> operation.terms, live |-> live, path |-> path]
           kept == operation.current
       IN  /\ review' = IF kept /\ operation.via = "market" THEN build ELSE review
           /\ routed' = IF kept /\ operation.via = "router" THEN build ELSE routed
    /\ operation' = NoOperation
    /\ UNCHANGED ticket

-----------------------------------------------------------------------------
(* buy                                                                      *)

\* The router's transaction goes first.
Buy ==
    /\ Free /\ ticket.terms.owner # Blank /\ {review, routed} # {Unbuilt}
    /\ operation' =
         [at |-> "check", via |-> IF routed # Unbuilt THEN "router" ELSE "market",
          terms |-> ticket.terms, build |-> IF routed # Unbuilt THEN routed ELSE review,
          current |-> TRUE]
    /\ UNCHANGED <<ticket, review, routed>>

\* validateRouterTransaction: owner, amount, the token the fee is taken in and
\* for a path both its ends; validateMarketTransaction: the terms.
Matches(build, terms, via) ==
    IF via = "market" THEN build.terms = terms
    ELSE /\ build.terms.owner = terms.owner /\ build.terms.amount = terms.amount
         /\ IF build.terms.pay = Cash THEN terms.pay = Cash ELSE terms.get = Cash
         /\ build.path => build.terms = terms

\* Every check is passed, the last of them right before the wallet is asked.
Ask ==
    /\ operation.at = "check" /\ operation.current /\ operation.build.live
    /\ Matches(operation.build, operation.terms, operation.via)
    /\ operation' = [operation EXCEPT !.at = "wallet"]
    /\ UNCHANGED <<ticket, review, routed>>

Broadcast ==
    /\ operation' = [operation EXCEPT !.at = "sent"]
    /\ IF operation.via = "market" THEN review' = Unbuilt /\ UNCHANGED routed
       ELSE routed' = Unbuilt /\ UNCHANGED review
    /\ UNCHANGED ticket

\* Wrong on purpose: what was signed is sent without another look.
MutantDeliver == operation.at = "wallet" /\ Broadcast

\* What the market built is looked at again once the wallet signed it.
Deliver ==
    /\ operation.at = "wallet"
    /\ operation.via = "market" => operation.current /\ operation.build.live
    /\ Broadcast

\* An error, a refusal or the end.  buy's catch drops the market's review.
LeaveOff ==
    /\ operation.at # "idle"
    /\ operation' = NoOperation
    /\ review' = IF operation.at \in {"check", "wallet", "sent"} THEN Unbuilt ELSE review
    /\ UNCHANGED <<ticket, routed>>

-----------------------------------------------------------------------------
Late(build) == [build EXCEPT !.live = FALSE]
\* The one transaction there is expires, wherever it is kept.
BuildExpires ==
    /\ review.live \/ routed.live \/ operation.build.live
    /\ review' = Late(review) /\ routed' = Late(routed)
    /\ operation' = [operation EXCEPT !.build = Late(@)]
    /\ UNCHANGED ticket

TicketNext ==
    \/ \E amount \in Sizes \cup {Blank} : Edit(amount) \/ Estimate(amount) \/ Flip(amount)
    \/ \E token \in Tokens, paying \in BOOLEAN : Choose(token, paying)
    \/ \E owner \in Traders \cup {Blank} : Switch(owner)
    \/ EditOutput \/ Effect
    \/ \E via \in {"market", "router"} : Quote(via)
    \/ \E live, path \in BOOLEAN : Built(live, path)
    \/ Authorize \/ Buy \/ Ask \/ Deliver \/ LeaveOff \/ BuildExpires

TicketSpec == TicketInit /\ [][TicketNext]_ticketVars

-----------------------------------------------------------------------------
\* What the wallet is asked to sign, and what is sent to the market, is alive
\* and is what the ticket shows, whatever token, wallet or estimate came while
\* it was checked or signed, up to a change whose effect is still to run; for
\* the router's transaction, which is checked for less, owner and amount.
SignedForTheTicket ==
    [][operation'.at # operation.at /\ ~ticket.effect =>
         LET build == operation.build  terms == ticket.terms
         IN  /\ operation'.at \in {"wallet", "sent"} /\ operation.via = "market" =>
                   build.live /\ build.terms = terms
             /\ operation'.at = "wallet" =>
                   build.live /\ build.terms.owner = terms.owner
                              /\ build.terms.amount = terms.amount]_ticketVars
=============================================================================
