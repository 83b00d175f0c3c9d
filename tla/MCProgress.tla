------------------------------ MODULE MCProgress ------------------------------
(***************************************************************************)
(* The components that must get on although calls fail, connections break  *)
(* and tokens end: the judging pipeline of MCJudgePipeline, online runs,   *)
(* the gateway's links, the login and the web session.  They share no      *)
(* state: PartsInit picks the one that runs, the others stay where they    *)
(* start.                                                                  *)
(***************************************************************************)
EXTENDS MCJudgePipeline

CONSTANTS
    MaxRuns, MaxGets, RunTrouble,                              \* RunPipeline
    Conns, NoConn, LinkTrouble,                                \* GatewayLinks
    Clients, Accounts, FailMax, FailLock, RateMax, MaxBlind,   \* LoginGuard
    Tabs, Users, NoUser, MaxSessions, MaxPending               \* WebSession

VARIABLES
    part,
    \* RunPipeline
    row, runMsg, runGw, work, panel, gets, runTrouble, late,
    \* GatewayLinks
    proc, broker, channel, current, timers, redisLink, linkTrouble,
    \* LoginGuard
    users, fails, rate, client, told, blind,
    \* WebSession
    cookie, owner, expired, banned, ui, page, pending, clears, loads

runVars == <<row, runMsg, runGw, work, panel, gets, runTrouble, late>>
linksVars == <<proc, broker, channel, current, timers, redisLink, linkTrouble>>
loginVars == <<users, fails, rate, client, told, blind>>
sessionVars == <<cookie, owner, expired, banned, ui, page, pending, clears, loads>>

\* MaxRuns runs of one panel.
Run == INSTANCE RunPipeline WITH
    MaxTrouble <- RunTrouble, msg <- runMsg, gw <- runGw, trouble <- runTrouble

\* One connection may be dying while the next one is made.
Links == INSTANCE GatewayLinks WITH
    MaxTrouble <- LinkTrouble, conn <- broker, trouble <- linkTrouble

\* Two clients behind one address; registrations that share the e-mail or the name.
LoginAccounts == {[email |-> "e1", name |-> "n1"], [email |-> "e1", name |-> "n2"], [email |-> "e2", name |-> "n1"]}

Guard == INSTANCE LoginGuard WITH at <- client

\* One tab and one user, who logs in again; what other tabs do comes from outside.
Session == INSTANCE WebSession

ASSUME ProgressAssumption ==
    /\ Run!RunAssumption /\ Links!LinksAssumption /\ Guard!GuardAssumption /\ Session!SessionAssumption

-----------------------------------------------------------------------------
PartsInit ==
    /\ part \in {"submissions", "runs", "links", "login", "session"}
    /\ Init /\ Run!Init /\ Links!Init /\ Guard!Init /\ Session!Init

PartsNext ==
    /\ UNCHANGED part
    /\ \/ part = "submissions" /\ Next /\ UNCHANGED <<runVars, linksVars, loginVars, sessionVars>>
       \/ part = "runs" /\ Run!Next /\ UNCHANGED <<vars, linksVars, loginVars, sessionVars>>
       \/ part = "links" /\ Links!Next /\ UNCHANGED <<vars, runVars, loginVars, sessionVars>>
       \/ part = "login" /\ Guard!Next /\ UNCHANGED <<vars, runVars, linksVars, sessionVars>>
       \/ part = "session" /\ Session!Next /\ UNCHANGED <<vars, runVars, linksVars, loginVars>>

\* The fairness of each part, for the part that runs: of a handler as one process, and of the
\* workers together, which is less than what JudgePipeline and RunPipeline have for each.
PartsSpec ==
    /\ PartsInit /\ [][PartsNext]_<<part, vars, runVars, linksVars, loginVars, sessionVars>>
    /\ \A s \in Subs : WF_vars(part = "submissions" /\ (Send(s) \/ SubmitMarkRE(s)))
    /\ \A r \in Rejudges :
          WF_vars(part = "submissions" /\ (RejudgeFlip(r) \/ RejudgeReset(r) \/ RejudgeUndo(r) \/ Send(r)))
    /\ WF_vars(part = "submissions" /\ \E w \in Workers : WorkerStep(w))
    /\ WF_runVars(part = "runs" /\ \E w \in Workers : Run!WorkerStep(w))
    /\ \A r \in 1..MaxRuns : WF_runVars(part = "runs" /\ (Run!GatewayStep(r) \/ Run!PostAnswered(r)))
    /\ WF_linksVars(part = "links" /\ Links!Work)
    /\ WF_linksVars(part = "links" /\ proc = "stopping" /\ Links!Restart)
    /\ WF_loginVars(part = "login" /\ Guard!Tick)
    /\ \A t \in Tabs :
          /\ WF_sessionVars(part = "session" /\ Session!Arrive(t))
          /\ SF_sessionVars(part = "session" /\ Session!Poll(t))
          /\ SF_sessionVars(part = "session" /\ \E r \in pending[t] : Session!ApiAnswered(t, r))

-----------------------------------------------------------------------------
\* The part that runs keeps its types (submissions: in MCRecords).
PartsTypeOK ==
    CASE part = "submissions" -> TRUE
      [] part = "runs" -> Run!TypeOK
      [] part = "links" -> Links!TypeOK
      [] part = "login" -> Guard!TypeOK
      [] part = "session" -> Session!TypeOK

\* Online runs: a run nobody holds any more has the result of its program (RunPipeline).
QuietRunIsRight == Run!QuietRunIsRight

\* Online runs: a run that was accepted is answered (RunPipeline).
RunIsAnswered == Run!RunIsAnswered

\* Online runs: the panel ends with the run it was asked for last (RunPipeline).
PanelShowsNewest == Run!PanelShowsNewest

\* Gateway's links: a lost connection starts one chain of reconnections, not two (GatewayLinks).
SingleChain == Links!SingleChain

\* Gateway's links: a gateway that has lost its queue gets one again (GatewayLinks).
Reconnects == []<>(part = "links" => Links!Published)

\* Login: a registration that was confirmed owns its e-mail and its name (LoginGuard).
RegisteredOnce == Guard!RegisteredOnce

\* Login: guesses of a password are bounded although they run in parallel (LoginGuard).
GuessesBounded == Guard!GuessesBounded

\* Login: no lock lasts for ever (LoginGuard).
LockEnds == Guard!LockEnds

\* Web session: a tab finds out that its session has ended (WebSession).
UiSettles == Session!UiSettles

\* Web session: redirections to the login page come to an end (WebSession).
RedirectsEnd == Session!RedirectsEnd
=============================================================================
