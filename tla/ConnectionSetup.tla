--------------------------- MODULE ConnectionSetup ---------------------------
(***************************************************************************)
(* A host (HostContext) that connects to the server (ServerPool) among     *)
(* others: its rdma_connect is the server's connection request, the        *)
(* server's answer its event, and its end the server's disconnect.         *)
(***************************************************************************)
EXTENDS ServerPool, HostContext

CONSTANT Host      \* the connection of HostContext

ASSUME HostAssumption == Host \in Connections

systemVars == <<poolVars, contextVars>>

SystemTypeOK == TypeOK /\ ContextTypeOK

SystemInit == Init /\ ContextInit

-------------------------------------------------------------------------------
(* The connection manager (external) between host and server.              *)

Connects == HandleRouteResolved /\ HostConnects(Host)

\* What the host hears of its request.  Without a queue pair librdmacm does
\* not complete the connection: old versions fail, later ones tell the host.
\* The kernel of a crashed server rejects what is left, or nobody answers.
Hears(event, then) == cm = "connect" /\ cm' = then /\ Tells(event)

HearsAnswer ==
  /\ \/ /\ conn[Host] = "rejected" \/ (conn[Host] = "refused" /\ Host \notin ids)
        /\ Hears("REJECTED", "over")
     \/ conn[Host] \in {"refused", "failed"} /\ Hears("UNREACHABLE", "over")
     \/ Crashed /\ (Hears("REJECTED", "over") \/ Hears("UNREACHABLE", "over"))
     \/ /\ conn[Host] = "accepted"
        /\ \/ "qp" \in live /\ Hears("ESTABLISHED", "established")
           \/ "qp" \notin live /\ Hears("CONNECT_RESPONSE", "idle")
           \/ "qp" \notin live /\ Hears("CONNECT_ERROR", "over")
  /\ UNCHANGED poolVars

ServerHears ==
  \/ cm \in {"established", "disconnected"} /\ Establishes(Host)
  \/ cm \notin {"established", "disconnected"} /\ FailsToConnect(Host)
  \/ cm = "disconnected" /\ HostDisconnects(Host)

\* Another host does as ServerPool has it.
Manages(c) == IF c = Host THEN ServerHears ELSE Manager(c)

-------------------------------------------------------------------------------
HostSetsUp == (Setup /\ UNCHANGED poolVars) \/ Connects
HostCleansUp == Cleanup /\ UNCHANGED poolVars
HostDoes == /\ \/ CallSetup \/ RegisterMrs \/ RegisterUnconnected
               \/ UseConnection \/ CallCleanup \/ HostCrashes
            /\ UNCHANGED poolVars
Resolves == (ResolvesAddr \/ ResolvesRoute) /\ UNCHANGED poolVars
HostLosesDevice == LosesDevice /\ UNCHANGED poolVars

ServerDoes == /\ Master \/ \E c \in Connections : Worker(c) \/ Manages(c)
              /\ UNCHANGED contextVars

SystemNext == \/ HostSetsUp \/ HostCleansUp \/ HostDoes
              \/ Resolves \/ HostLosesDevice \/ HearsAnswer
              \/ ServerDoes

SystemSpec == SystemInit /\ [][SystemNext]_systemVars

(***************************************************************************)
(* Fairness: as ServerPool's; the host's library goes on while it is in a  *)
(* call; the connection manager answers what it is asked for.  When the    *)
(* application calls is its own affair.                                    *)
(***************************************************************************)
SystemFairness ==
  /\ WF_systemVars(Master /\ UNCHANGED contextVars)
  /\ \A c \in Connections :
       /\ WF_systemVars(Worker(c) /\ UNCHANGED contextVars)
       /\ WF_systemVars((Establishes(c) \/ FailsToConnect(c)) /\ Manages(c)
                          /\ UNCHANGED contextVars)
  /\ WF_systemVars(HostSetsUp) /\ WF_systemVars(HostCleansUp)
  /\ WF_systemVars(Resolves) /\ WF_systemVars(HearsAnswer)

SystemFairSpec == SystemSpec /\ SystemFairness

-------------------------------------------------------------------------------
(* naaice_setup_connection returns 0 only with all resources made and a    *)
(* connection that the server has accepted, for which it has a context     *)
(* until its worker ends.                                                  *)
SetupMeansServed ==
  app = "up" =>
    /\ Range(RdmaResources) \subseteq live
    /\ conn[Host] \in {"accepted", "established", "disconnected", "removed"}
    /\ thread[Host] = "none" => Host \in contexts /\ worker[id_context[Host]] = Host

(* Every slot taken for a connection is returned, whatever its host does   *)
(* or fails to do, by a server that does not crash.  The slot of a         *)
(* connection that fails after it was accepted is lost, and is left out    *)
(* here: RejectsOnlyWhenFull; what crashes the server: ServerSurvives.     *)
SlotsComeBack ==
  \A c \in Connections :
    conn[c] = "pending" ~> \/ \E i \in 1..Len(free) : free[i] = id_context[c]
                           \/ conn[c] = "failed"
                           \/ Crashed

-------------------------------------------------------------------------------
(* naaice_setup_connection "returns 0 on success, -1 on failure (e.g.      *)
(* timeout)": it returns.                                                  *)
SetupAlwaysReturns == app = "setup" ~> app # "setup"

===============================================================================
