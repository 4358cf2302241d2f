----------------------------- MODULE HostContext -----------------------------
(***************************************************************************)
(* The life of one communication context on the host (lib/naaice.c): from  *)
(* naaice_init_communication_context through naaice_setup_connection,      *)
(* which handles the events of the connection manager until the state is   *)
(* CONNECTED or an error, to naaice_disconnect_and_cleanup.                *)
(*                                                                         *)
(* The context is allocated with malloc: its pointers to what              *)
(* naaice_init_rdma_resources creates are not set before that call.  So a  *)
(* pointer is "unset", "NULL" or "set", apart from whether what it refers  *)
(* to is live.  MRSP and RPC calls are NaaiceLink; here they only leave    *)
(* their state.                                                            *)
(***************************************************************************)
EXTENDS NaaiceStates, Sequences, Integers, Functions

CONSTANTS HostFaults,      \* which failures the environment may produce
          CleansUpFailed,  \* the application cleans up after a failed setup
          RegistersFirst,  \* it may register its regions before it connects
          MaxCleanups      \* bound: calls of naaice_disconnect_and_cleanup

ASSUME ContextAssumption ==
  /\ HostFaults \subseteq {"addr", "route", "removal", "registration", "crash",
                           "resolve_route", "resources", "connect_call"}
  /\ CleansUpFailed \in BOOLEAN /\ RegistersFirst \in BOOLEAN
  /\ MaxCleanups \in Nat

VARIABLES comm_state,   \* comm_ctx->state
          pointer,      \* what the context knows of its resources
          live,         \* the resources that exist
          cm,           \* what the connection manager does with the id
          cm_events,    \* the event channel of the context
          ignored,      \* history: a handler failed and left the state as it was
          app,          \* where the application is
          todo,         \* what the cleanup has still to look at
          cleanups, rc  \* calls of the cleanup, and the result of the last

contextVars == <<comm_state, pointer, live, cm, cm_events, ignored, app, todo,
                 cleanups, rc>>

\* Made by naaice_init_communication_context, naaice_init_rdma_resources (in
\* this order) and naaice_register_mrs.
AtInit == {"ev_channel", "id", "internal", "data", "peer", "message"}
RdmaResources == <<"pd", "comp_channel", "cq", "qp">>
Registrations == {"data_mr", "message_mr"}
Resources == AtInit \cup Range(RdmaResources) \cup Registrations

ErrorEvents == {"ADDR_ERROR", "ROUTE_ERROR", "CONNECT_ERROR", "UNREACHABLE",
                "REJECTED", "DEVICE_REMOVAL"}
CmEvents == {"ADDR_RESOLVED", "ROUTE_RESOLVED", "ESTABLISHED",
             "CONNECT_RESPONSE"} \cup ErrorEvents

ContextTypeOK ==
  /\ comm_state \in {INIT, READY, CONNECTED, MRSP_SENDING, MRSP_DONE,
                     DATA_SENDING, FINISHED, ERROR}
  /\ pointer \in [Resources -> {"unset", "NULL", "set"}]
  /\ live \subseteq Resources
  /\ cm \in {"idle", "addr", "route", "connect", "established", "disconnected",
              "over"}
  /\ cm_events \in Seq(CmEvents)
  /\ ignored \in BOOLEAN
  /\ app \in {"ready", "setup", "up", "failed", "cleanup", "cleaned",
              "crashed", "gone"}
  /\ todo \in Seq(Resources)
  /\ cleanups \in 0..MaxCleanups /\ rc \in {0, -1}

\* naaice_init_communication_context has returned 0: the address is being
\* resolved.
ContextInit ==
  /\ comm_state = INIT
  /\ pointer = [r \in Resources |-> IF r \in AtInit THEN "set"
                                    ELSE IF r \in Registrations THEN "NULL"
                                    ELSE "unset"]
  /\ live = AtInit
  /\ cm = "addr" /\ cm_events = <<>> /\ ignored = FALSE
  /\ app = "ready"
  /\ todo = <<>> /\ cleanups = 0 /\ rc = 0

Can(fault) == fault \in HostFaults

-------------------------------------------------------------------------------
(* The connection manager (external) resolves address and route, and may   *)
(* lose the device.                                                        *)

Tells(event) == /\ cm_events' = Append(cm_events, event)
                /\ UNCHANGED <<comm_state, pointer, live, ignored, app, todo,
                               cleanups, rc>>

ResolvesAddr == /\ cm = "addr" /\ cm' = "idle"
                /\ \/ Tells("ADDR_RESOLVED")
                   \/ Can("addr") /\ Tells("ADDR_ERROR")

ResolvesRoute == /\ cm = "route" /\ cm' = "idle"
                 /\ \/ Tells("ROUTE_RESOLVED")
                    \/ Can("route") /\ Tells("ROUTE_ERROR")

LosesDevice == /\ Can("removal") /\ app = "setup"
               /\ "DEVICE_REMOVAL" \notin Range(cm_events)
               /\ Tells("DEVICE_REMOVAL") /\ UNCHANGED cm

-------------------------------------------------------------------------------
(* naaice_setup_connection: naaice_poll_and_handle_connection_event until  *)
(* the state is CONNECTED or beyond.  What a handler returns is not looked *)
(* at.  A poll without an event changes nothing.                           *)

CallSetup == /\ app = "ready" /\ app' = "setup"
             /\ UNCHANGED <<comm_state, pointer, live, cm, cm_events,
                            ignored, todo, cleanups, rc>>

SetupResultUnchecked(state) == "up"   \* mutant: the loop ended
SetupResult(state) == IF state = CONNECTED THEN "up" ELSE "failed"

SetupEnds == /\ app = "setup" /\ comm_state >= CONNECTED
             /\ app' = SetupResult(comm_state)
             /\ UNCHANGED <<comm_state, pointer, live, cm, cm_events,
                            ignored, todo, cleanups, rc>>

\* Takes the next event; the handler says what becomes of the state, of what
\* it asks the connection manager for, and whether it fails in vain.
Handles(event) ==
  /\ app = "setup" /\ comm_state < CONNECTED
  /\ cm_events # <<>> /\ Head(cm_events) = event
  /\ cm_events' = Tail(cm_events)
  /\ UNCHANGED <<app, todo, cleanups, rc>>

InitRdmaResourcesNoQp(n) ==   \* mutant: the queue pair is left to the id
  /\ live' = live \cup {RdmaResources[i] : i \in 1..n}
  /\ pointer' = [r \in Resources |->
                   IF \E i \in 1..n : i < 4 /\ RdmaResources[i] = r THEN "set"
                   ELSE pointer[r]]
\* naaice_init_rdma_resources, of which the first n succeed.
InitRdmaResources(n) ==
  LET made == {RdmaResources[i] : i \in 1..n}
      null == IF n < 3 THEN {RdmaResources[n + 1]} ELSE {}
  IN /\ live' = live \cup made
     /\ pointer' = [r \in Resources |-> IF r \in made THEN "set"
                                        ELSE IF r \in null THEN "NULL"
                                        ELSE pointer[r]]

HandleAddrResolved ==
  /\ Handles("ADDR_RESOLVED")
  /\ comm_state' = READY
  /\ \/ /\ cm' = "route"
        /\ InitRdmaResources(4)
        /\ UNCHANGED ignored
     \/ /\ cm' = "route"
        /\ Can("resources") /\ ignored' = TRUE
        /\ \E n \in 0..3 : InitRdmaResources(n)
     \/ /\ Can("resolve_route") /\ ignored' = TRUE
        /\ UNCHANGED <<pointer, live, cm>>

\* The rdma_connect of naaice_handle_route_resolved.
HandleRouteResolved ==
  /\ Handles("ROUTE_RESOLVED")
  /\ cm' = "connect"
  /\ UNCHANGED <<comm_state, pointer, live, ignored>>

ConnectFails ==
  /\ Can("connect_call")
  /\ Handles("ROUTE_RESOLVED")
  /\ ignored' = TRUE
  /\ UNCHANGED <<comm_state, pointer, live, cm>>

HandleEstablished ==
  /\ Handles("ESTABLISHED")
  /\ comm_state' = CONNECTED
  /\ UNCHANGED <<pointer, live, cm, ignored>>

SetsErrorButRejected(event) ==    \* mutant: a rejection is only logged
  event \in ErrorEvents \ {"REJECTED"}
SetsError(event) == event \in ErrorEvents

HandleErrorDisconnected ==     \* mutant: not the state the others test for
  \E event \in ErrorEvents :
    /\ Handles(event)
    /\ comm_state' = DISCONNECTED
    /\ UNCHANGED <<pointer, live, cm, ignored>>
HandleError ==
  \E event \in ErrorEvents :
    /\ Handles(event)
    /\ comm_state' = IF SetsError(event) THEN ERROR ELSE comm_state
    /\ UNCHANGED <<pointer, live, cm, ignored>>

\* naaice_handle_other: an unexpected event.
HandleOther ==
  /\ Handles("CONNECT_RESPONSE")
  /\ ignored' = TRUE
  /\ UNCHANGED <<comm_state, pointer, live, cm>>

\* Apart from HandleRouteResolved, which involves the server.
Setup == \/ SetupEnds
         \/ HandleAddrResolved \/ ConnectFails
         \/ HandleEstablished \/ HandleError \/ HandleOther

-------------------------------------------------------------------------------
(* With the connection: naaice_register_mrs, then MRSP and RPC calls,      *)
(* which leave one of their states behind (NaaiceLink).                    *)

RegisterMrs ==
  /\ app = "up" /\ live \cap Registrations = {}
  /\ \E made \in {Registrations} \cup
                 IF Can("registration") THEN {{}, {"data_mr"}} ELSE {} :
       /\ live' = live \cup made
       /\ pointer' = [r \in Resources |-> IF r \in made THEN "set"
                                         ELSE pointer[r]]
  /\ UNCHANGED <<comm_state, cm, cm_events, ignored, app, todo, cleanups, rc>>

\* Before the connection is set up there is no protection domain: the verbs
\* follow a pointer that was never set (or refuse it by chance).
RegisterUnconnected ==
  /\ RegistersFirst
  /\ app = "ready" /\ pointer["pd"] = "unset"
  /\ app' = "crashed" /\ live' = {} /\ cm' = "over"
  /\ UNCHANGED <<comm_state, pointer, cm_events, ignored, todo, cleanups, rc>>

UseConnection ==
  /\ app = "up" /\ Registrations \subseteq live
  /\ comm_state' \in {MRSP_SENDING, MRSP_DONE, DATA_SENDING, FINISHED, ERROR}
  /\ comm_state' >= comm_state
  /\ UNCHANGED <<pointer, live, cm, cm_events, ignored, app, todo, cleanups, rc>>

-------------------------------------------------------------------------------
(* naaice_disconnect_and_cleanup: rdma_disconnect, and one resource after  *)
(* the other.                                                              *)

ReleaseOrderPdFirst ==     \* mutant: the protection domain before the queue
  <<"message_mr", "data_mr", "peer", "message", "data", "pd", "qp", "cq",
    "comp_channel", "id", "ev_channel">>
ReleaseOrderMemoryFirst == \* mutant: the memory before its registration
  <<"peer", "message", "data", "message_mr", "data_mr", "qp", "cq",
    "comp_channel", "pd", "id", "ev_channel">>
ReleaseOrder ==
  <<"message_mr", "data_mr", "peer", "message", "data", "qp", "cq",
    "comp_channel", "pd", "id", "ev_channel">>

\* The registrations' pointers are in what they register.
Container == [message_mr |-> "message", data_mr |-> "data"]

\* What the verbs keep in use: they do not release it before.
UsedBy == [pd |-> {"qp", "data_mr", "message_mr"},
           cq |-> {"qp"}, comp_channel |-> {"cq"}]

CallCleanup ==
  /\ app \in {"up", "cleaned"} \/ (app = "failed" /\ CleansUpFailed)
  /\ cleanups < MaxCleanups
  /\ app' = "cleanup" /\ cleanups' = cleanups + 1
  /\ todo' = ReleaseOrder /\ rc' = 0
  /\ cm' = IF pointer["id"] = "set" /\ cm = "established" THEN "disconnected"
           ELSE cm
  /\ UNCHANGED <<comm_state, pointer, live, cm_events, ignored>>

Looks(resource) ==
  /\ app = "cleanup" /\ todo # <<>> /\ Head(todo) = resource
  /\ todo' = Tail(todo)
  /\ UNCHANGED <<comm_state, cm_events, ignored, cleanups>>

\* The guards of the code around the release of a resource.
LooksAt(resource) ==
  /\ pointer[resource] # "NULL"
  /\ resource \in Registrations => pointer[Container[resource]] # "NULL"
  /\ resource = "peer" => comm_state >= MRSP_DONE

InUse(resource) ==
  resource \in DOMAIN UsedBy /\ UsedBy[resource] \cap live # {}

NulledNot(p, resource) == p         \* mutant: it still points to what is freed
Nulled(p, resource) ==
  IF resource \in Registrations THEN p ELSE [p EXCEPT ![resource] = "NULL"]

Releases(resource) ==
  /\ Looks(resource)
  /\ LooksAt(resource) /\ pointer[resource] = "set"
  /\ live' = IF InUse(resource) THEN live ELSE live \ {resource}
  /\ rc' = IF InUse(resource) THEN -1 ELSE rc
  /\ pointer' = Nulled(pointer, resource)
  /\ cm' = IF resource # "id" \/ cm = "disconnected" THEN cm ELSE "over"
  /\ UNCHANGED app

Skips(resource) ==
  /\ Looks(resource) /\ ~LooksAt(resource)
  /\ UNCHANGED <<pointer, live, cm, app, rc>>

\* A pointer that was never set: NULL by chance, or the call crashes.
FollowsUnset(resource) ==
  /\ Looks(resource)
  /\ LooksAt(resource) /\ pointer[resource] = "unset"
  /\ \/ UNCHANGED <<live, cm, app>>
     \/ app' = "crashed" /\ live' = {} /\ cm' = "over"
  /\ pointer' = [pointer EXCEPT ![resource] = "NULL"]
  /\ UNCHANGED rc

CleanupEnds == /\ app = "cleanup" /\ todo = <<>> /\ app' = "cleaned"
               /\ UNCHANGED <<comm_state, pointer, live, cm, cm_events, ignored,
                              todo, cleanups, rc>>

Cleanup ==
  \/ \E r \in Resources : Releases(r) \/ Skips(r) \/ FollowsUnset(r)
  \/ CleanupEnds

\* The process dies: the kernel ends its connection and frees the rest.
HostCrashes ==
  /\ Can("crash") /\ app \notin {"crashed", "gone"}
  /\ app' = "gone" /\ live' = {}
  /\ cm' = IF cm \in {"established", "disconnected"} THEN "disconnected"
           ELSE "over"
  /\ UNCHANGED <<comm_state, pointer, cm_events, ignored, todo, cleanups, rc>>

-------------------------------------------------------------------------------
(* Nothing in use is taken from under its user: no memory is freed while   *)
(* it is registered with the adapter, which would still write to it, and   *)
(* no channel while its id is there.                                       *)
UsersOf == [pd |-> UsedBy.pd, cq |-> UsedBy.cq,
            comp_channel |-> UsedBy.comp_channel,
            message |-> {"message_mr"}, data |-> {"data_mr"},
            ev_channel |-> {"id"}]

DependenciesLive ==
  \A r \in DOMAIN UsersOf : UsersOf[r] \cap live # {} => r \in live

(* "Idempotent": however often and after whatever failure the context is   *)
(* cleaned up, what is released through a pointer is still there.          *)
ReleasesLive ==
  app = "cleanup" /\ todo # <<>> =>
    LET r == Head(todo)
    IN LooksAt(r) /\ pointer[r] = "set" => r \in live

(* "Best-effort teardown" that returns 0 has left nothing behind: all that *)
(* setup made, in whatever state it ended, is released; only the internal  *)
(* regions, and the peer's before MRSP was done, never are.                *)
CleanupComplete ==
  app = "cleaned" => rc = 0 /\ live \subseteq {"internal", "peer"}

(* A context that got its connection is cleaned up without a crash: by     *)
(* then no pointer that the cleanup follows is left unset.                 *)
ConnectedSurvives == comm_state \in CONNECTED..FINISHED => app # "crashed"

(* naaice_setup_connection returns, unless a handler failed and left the   *)
(* state as it was.                                                        *)
SetupReturns == app = "setup" ~> app # "setup" \/ ignored

-------------------------------------------------------------------------------
(* "NULL-safe, idempotent, best-effort teardown ... so a partial or double *)
(* disconnect can't deref freed memory": a cleanup never crashes.          *)
CleanupSurvives == app # "crashed"

===============================================================================
