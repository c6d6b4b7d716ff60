----------------------------- MODULE MCServices -----------------------------
(***************************************************************************)
(* The off-chain services and the web application, one at a time: "focus"    *)
(* is chosen once, and the parts share no state, so what holds of each part  *)
(* here holds of it alone.                                                   *)
(***************************************************************************)
EXTENDS MCSolverWorker, StateWorker, RpcGate, ReadCache, Submission, ProtocolProvider,
        TradeTicket



VARIABLE focus

MCPrivates == <<"jito", "relay">>

allVars ==
    <<focus, vars, workerVars, gateVars, cacheVars, submissionVars, providerVars, ticketVars>>

\* The part f alone takes a step.
Only(f) ==
    /\ focus = f /\ UNCHANGED focus
    /\ f # "solver" => UNCHANGED vars
    /\ f # "worker" => UNCHANGED workerVars
    /\ f # "gate" => UNCHANGED gateVars
    /\ f # "cache" => UNCHANGED cacheVars
    /\ f # "submission" => UNCHANGED submissionVars
    /\ f # "provider" => UNCHANGED providerVars
    /\ f # "ticket" => UNCHANGED ticketVars

\* A part that is not looked at starts in one state only.
ServicesInit ==
    /\ focus \in {"solver", "worker", "gate", "cache", "submission", "provider", "ticket"}
    /\ Init /\ WorkerInit /\ GateInit /\ CacheInit /\ SubmissionInit /\ ProviderInit /\ TicketInit
    /\ focus # "cache" => swr
    /\ focus # "submission" => policy.execution /\ policy.private /\ policy.public
    /\ focus # "ticket" => ticket.terms.get = CHOOSE t \in Tokens : t # Cash

ServicesNext ==
    \/ Only("solver") /\ Next
    \/ Only("worker") /\ WorkerNext
    \/ Only("gate") /\ GateNext
    \/ Only("cache") /\ CacheNext
    \/ Only("submission") /\ SubmissionNext
    \/ Only("provider") /\ ProviderNext
    \/ Only("ticket") /\ TicketNext

\* Solver: the process manager restarts it and the operator clears a stale
\* lock; time passes and blockhashes expire; of transactions recorded again and
\* again one is sent before its blockhash expires, and of those that are sent
\* so the network includes one.  Router: the process is started, a provider
\* reconnects, of the calls of a snapshot each is answered, and an update a
\* connection did not lose is delivered.
ServicesSpec ==
    /\ ServicesInit /\ [][ServicesNext]_allVars
    /\ \A w \in Workers :
          /\ WF_allVars(Only("solver") /\ WorkerStep(w))
          /\ SF_allVars(Only("solver") /\ Send(w) /\ tx[proc[w].sig].valid)
    /\ WF_allVars(Only("solver") /\ ClearLock)
    /\ \A j \in Jobs : WF_allVars(Only("solver") /\ Elapse(j))
    /\ \A s \in Signatures :
          /\ SF_allVars(Only("solver") /\ Include(s))
          /\ WF_allVars(Only("solver") /\ Confirm(s))
          /\ WF_allVars(Only("solver") /\ Expire(s))
    /\ WF_allVars(Only("worker") /\ WorkerProgress)
    /\ WF_allVars(Only("worker") /\ \E l \in Loads : LoadReturn(l))
    /\ WF_allVars(Only("worker") /\ \E m \in feed.mail : HearUpdate(m))

-----------------------------------------------------------------------------
\* The solver, with what SolverWorker's EveryJobIsDone says: once mishaps end,
\* no stale lock, dead signature or unresolved status keeps a job back.
SolverFinishes == focus = "solver" => EveryJobIsDone

\* The router's worker, with what StateWorker's WorkerBecomesReady says: once
\* connections hold it is ready and stays so, unless its first load failed or
\* an account stays unreadable.
RouterBecomesReady == focus = "worker" => WorkerBecomesReady
=============================================================================
