---------------------------- MODULE ContextProofs ----------------------------
(***************************************************************************)
(* Proofs about a host's communication context and the server it connects  *)
(* to (ConnectionSetup), for any number of hosts, slots and cleanups and   *)
(* under every fault: the server among others behaves as ServerPool says,  *)
(* and setup and cleanup of the context never lose, free twice or free too *)
(* early what they manage.                                                 *)
(***************************************************************************)
EXTENDS ConnectionSetup, ServerPoolProofs

(* Host and connection manager do to the server what ServerPool allows.    *)
THEOREM ServerImplemented == SystemSpec => Spec
<1>1. SystemInit => Init
  BY DEF SystemInit
<1>2. [SystemNext]_systemVars => [Next]_poolVars
  <2> SUFFICES ASSUME SystemNext, ~UNCHANGED poolVars PROVE Next
    BY DEF systemVars
  <2>1. CASE Connects
    BY <2>1, HostAssumption DEF Connects, Next, Manager
  <2>2. CASE ServerDoes
    BY <2>2, HostAssumption
       DEF ServerDoes, Manages, ServerHears, Next, Manager
  <2> QED BY <2>1, <2>2 DEF SystemNext, HostSetsUp, HostCleansUp, HostDoes,
             Resolves, HostLosesDevice, HearsAnswer
<1> QED BY <1>1, <1>2, PTL DEF SystemSpec, Spec

-------------------------------------------------------------------------------
(* Resources.                                                              *)

Rdma == {"pd", "comp_channel", "cq", "qp"}

LEMMA RdmaNames ==
  /\ Range(RdmaResources) = Rdma
  /\ Resources = {"ev_channel", "id", "internal", "data", "peer", "message"}
                   \cup Rdma \cup {"data_mr", "message_mr"}
  BY DEF Range, RdmaResources, Rdma, Resources, AtInit, Registrations

Alive == app \notin {"crashed", "gone"}

\* The context knows what exists.
InSync ==
  /\ ~Alive => live = {}
  /\ Alive => /\ \A r \in live : pointer[r] = "set"
              /\ \A r \in Resources \ Registrations : pointer[r] = "set" => r \in live
              /\ \A r \in Registrations \cap live : pointer[Container[r]] = "set"
  /\ \A r \in AtInit \cup Registrations : pointer[r] # "unset"

\* A registration the cleanup would release exists.
Known(r) ==
  /\ r \in Registrations
  /\ pointer[r] = "set" /\ pointer[Container[r]] = "set"
  => r \in live

AllSet == \A r \in Rdma : pointer[r] # "unset"

InChannel(event) == \E i \in 1..Len(cm_events) : cm_events[i] = event

\* The address is resolved once, before any resource is made.
AddrOnce ==
  /\ \A i, j \in 1..Len(cm_events) :
       cm_events[i] = "ADDR_RESOLVED" /\ cm_events[j] = "ADDR_RESOLVED" => i = j
  /\ cm = "addr" => ~InChannel("ADDR_RESOLVED")
  /\ cm = "addr" \/ InChannel("ADDR_RESOLVED") => live \cap Rdma = {}

\* A connection is established only with a queue pair.
SetupInv ==
  /\ app \in {"ready", "setup", "up", "failed"} =>
       AtInit \subseteq live /\ \A r \in Registrations : Known(r)
  /\ "qp" \in live => AllSet
  /\ app \in {"ready", "setup"} =>
       /\ comm_state \in {INIT, READY, CONNECTED, ERROR}
       /\ (InChannel("ESTABLISHED") \/ comm_state = CONNECTED)
            => "qp" \in live
  /\ app = "ready" => comm_state = INIT
  /\ app = "up" => "qp" \in live
  /\ app = "failed" => comm_state = ERROR
  /\ comm_state \in CONNECTED..FINISHED => AllSet /\ app # "crashed"

\* What the cleanup has looked at is released and forgotten.
Forgotten(r) ==
  r # "peer" => /\ r \notin live
                /\ r \notin Registrations => pointer[r] = "NULL"

\* The cleanup has looked at the first k resources of its order.
LookedAt(k) ==
  /\ Len(todo) = 11 - k
  /\ \A i \in 1..Len(todo) : todo[i] = ReleaseOrder[i + k]
  /\ \A i \in 1..k : Forgotten(ReleaseOrder[i])
  /\ \A i \in (k + 1)..11 : Known(ReleaseOrder[i])

CleanupInv ==
  /\ app = "cleanup" => rc = 0 /\ \E k \in 0..11 : LookedAt(k)
  /\ app = "cleaned" => rc = 0 /\ \A i \in 1..11 : Forgotten(ReleaseOrder[i])

ContextInv == /\ ContextTypeOK /\ InSync /\ AddrOnce /\ SetupInv /\ CleanupInv
              /\ DependenciesLive

-------------------------------------------------------------------------------
LEMMA Order ==
  /\ Len(ReleaseOrder) = 11
  /\ ReleaseOrder[1] = "message_mr" /\ ReleaseOrder[2] = "data_mr"
  /\ ReleaseOrder[3] = "peer" /\ ReleaseOrder[4] = "message"
  /\ ReleaseOrder[5] = "data" /\ ReleaseOrder[6] = "qp"
  /\ ReleaseOrder[7] = "cq" /\ ReleaseOrder[8] = "comp_channel"
  /\ ReleaseOrder[9] = "pd" /\ ReleaseOrder[10] = "id"
  /\ ReleaseOrder[11] = "ev_channel"
  BY DEF ReleaseOrder

LEMMA OrderOnce ==
  /\ \A i, j \in 1..11 : ReleaseOrder[i] = ReleaseOrder[j] => i = j
  /\ \A i \in 1..11 : ReleaseOrder[i] \in Resources /\ ReleaseOrder[i] # "internal"
  /\ \A r \in Resources \ {"internal"} : \E i \in 1..11 : ReleaseOrder[i] = r
<1> DEFINE o == ReleaseOrder
<1>1. \A i \in 1..11 : i \in {1, 2, 3, 4, 5, 6, 7, 8, 9, 10, 11}
  OBVIOUS
<1>2. \A i, j \in 1..11 : o[i] = o[j] => i = j
  BY <1>1, Order
<1>3. \A i \in 1..11 : o[i] \in Resources /\ o[i] # "internal"
  BY <1>1, Order, RdmaNames DEF Rdma
<1>4. \A r \in Resources \ {"internal"} : \E i \in 1..11 : o[i] = r
  BY Order, RdmaNames DEF Rdma
<1> QED BY <1>2, <1>3, <1>4

-------------------------------------------------------------------------------
(* The event channel.                                                      *)

LEMMA TellsChannel ==
  ASSUME ContextTypeOK, NEW event \in CmEvents, Tells(event)
  PROVE  /\ cm_events' \in Seq(CmEvents)
         /\ \A e \in CmEvents : InChannel(e)' => InChannel(e) \/ e = event
         /\ AddrOnce /\ (event = "ADDR_RESOLVED" => ~InChannel(event)) =>
              \A i, j \in 1..Len(cm_events') :
                cm_events'[i] = "ADDR_RESOLVED" /\ cm_events'[j] = "ADDR_RESOLVED"
                  => i = j
<1>1. cm_events \in Seq(CmEvents) /\ cm_events' = Append(cm_events, event)
  BY DEF ContextTypeOK, Tells
<1>2. /\ cm_events' \in Seq(CmEvents) /\ Len(cm_events') = Len(cm_events) + 1
      /\ Len(cm_events) \in Nat
      /\ \A i \in 1..Len(cm_events) : cm_events'[i] = cm_events[i]
      /\ cm_events'[Len(cm_events) + 1] = event
  BY <1>1, AppendElements
<1>3. \A i \in 1..Len(cm_events') :
        i \in 1..Len(cm_events) \/ i = Len(cm_events) + 1
  BY <1>2
<1> QED BY <1>2, <1>3 DEF InChannel, AddrOnce

LEMMA HandlesChannel ==
  ASSUME ContextTypeOK, NEW event \in CmEvents, Handles(event)
  PROVE  /\ cm_events' \in Seq(CmEvents)
         /\ InChannel(event)
         /\ \A e \in CmEvents : InChannel(e)' => InChannel(e)
         /\ AddrOnce =>
              /\ \A i, j \in 1..Len(cm_events') :
                   cm_events'[i] = "ADDR_RESOLVED" /\ cm_events'[j] = "ADDR_RESOLVED"
                     => i = j
              /\ event = "ADDR_RESOLVED" => ~InChannel(event)'
<1>1. cm_events \in Seq(CmEvents) /\ cm_events' = Tail(cm_events) /\ cm_events # <<>>
  BY DEF ContextTypeOK, Handles
<1>2. /\ cm_events' \in Seq(CmEvents) /\ Len(cm_events') = Len(cm_events) - 1
      /\ Len(cm_events) \in Nat /\ Len(cm_events) > 0
      /\ \A i \in 1..Len(cm_events') : cm_events'[i] = cm_events[i + 1]
      /\ cm_events[1] = event
  BY <1>1, TailElements DEF Handles
<1>3. 1 \in 1..Len(cm_events)
      /\ \A i \in 1..Len(cm_events') : i + 1 \in 1..Len(cm_events) /\ i + 1 # 1
  BY <1>2
<1>4. AddrOnce /\ event = "ADDR_RESOLVED" => ~InChannel(event)'
  BY <1>2, <1>3 DEF AddrOnce, InChannel
<1>5. InChannel(event) /\ \A e \in CmEvents : InChannel(e)' => InChannel(e)
  BY <1>2, <1>3 DEF InChannel
<1>6. ASSUME AddrOnce, NEW i \in 1..Len(cm_events'), NEW j \in 1..Len(cm_events'),
             cm_events'[i] = "ADDR_RESOLVED", cm_events'[j] = "ADDR_RESOLVED"
      PROVE  i = j
  <2>1. /\ i + 1 \in 1..Len(cm_events) /\ cm_events[i + 1] = "ADDR_RESOLVED"
        /\ j + 1 \in 1..Len(cm_events) /\ cm_events[j + 1] = "ADDR_RESOLVED"
    BY <1>2, <1>3, <1>6
  <2>2. i + 1 = j + 1
    BY <2>1, <1>6 DEF AddrOnce
  <2> QED BY <2>2
<1> QED BY <1>2, <1>4, <1>5, <1>6

\* A step that leaves the context itself alone.
LEMMA ContextAlone ==
  ASSUME ContextInv, ContextTypeOK', AddrOnce',
         InChannel("ESTABLISHED")' => InChannel("ESTABLISHED") \/ "qp" \in live,
         UNCHANGED <<comm_state, pointer, live, app, todo, rc>>
  PROVE  ContextInv'
<1>1. InSync' /\ DependenciesLive'
  BY DEF ContextInv, InSync, Alive, DependenciesLive
<1>2. SetupInv'
  BY DEF ContextInv, SetupInv, Known, AllSet
<1>3. CleanupInv'
  BY DEF ContextInv, CleanupInv, LookedAt, Forgotten, Known
<1> QED BY <1>1, <1>2, <1>3 DEF ContextInv

(* What the connection manager tells.                                      *)
LEMMA TellsInv ==
  ASSUME ContextInv, NEW event \in CmEvents, Tells(event),
         cm' \in {"idle", "established", "over", cm},
         event = "ADDR_RESOLVED" => cm = "addr" /\ cm' = "idle",
         event = "ESTABLISHED" => "qp" \in live
  PROVE  ContextInv'
<1>1. ContextTypeOK'
  BY TellsChannel DEF ContextInv, ContextTypeOK, Tells
<1>2. AddrOnce'
  <2>1. "ADDR_RESOLVED" \in CmEvents
    BY DEF CmEvents
  <2>2. InChannel("ADDR_RESOLVED")' => InChannel("ADDR_RESOLVED") \/ event = "ADDR_RESOLVED"
    BY <2>1, TellsChannel DEF ContextInv
  <2>3. live' = live
    BY DEF Tells
  <2> QED BY <2>1, <2>2, <2>3, TellsChannel DEF ContextInv, AddrOnce
<1>3. InChannel("ESTABLISHED")' => InChannel("ESTABLISHED") \/ "qp" \in live
  BY TellsChannel DEF CmEvents, ContextInv
<1> QED BY <1>1, <1>2, <1>3, ContextAlone DEF Tells

-------------------------------------------------------------------------------
(* naaice_setup_connection.                                                *)

LEMMA SetupEndsInv ==
  ASSUME ContextInv, SetupEnds
  PROVE  ContextInv'
<1>1. app' = IF comm_state = CONNECTED THEN "up" ELSE "failed"
  BY DEF SetupEnds, SetupResult
<1>2. comm_state \in {CONNECTED, ERROR}
  BY DEF ContextInv, SetupInv, SetupEnds, INIT, READY, CONNECTED, ERROR
<1>3. ContextTypeOK'
  BY <1>1 DEF ContextInv, ContextTypeOK, SetupEnds
<1>4. InSync' /\ DependenciesLive' /\ AddrOnce'
  BY <1>1 DEF ContextInv, InSync, Alive, DependenciesLive, AddrOnce, InChannel,
              SetupEnds
<1>5. SetupInv'
  BY <1>1, <1>2 DEF ContextInv, SetupInv, Known, AllSet, SetupEnds
<1>6. CleanupInv'
  BY <1>1 DEF CleanupInv
<1> QED BY <1>3, <1>4, <1>5, <1>6 DEF ContextInv

\* A handler that makes no resource.
LEMMA HandlesInv ==
  ASSUME ContextInv, NEW event \in CmEvents, Handles(event),
         UNCHANGED <<pointer, live>>, ignored' \in BOOLEAN,
         cm' \in {"route", "connect", cm},
         comm_state' \in {READY, ERROR, comm_state}
           \/ (event = "ESTABLISHED" /\ comm_state' = CONNECTED)
  PROVE  ContextInv'
<1>1. app = "setup" /\ comm_state \in {INIT, READY}
  BY DEF ContextInv, SetupInv, Handles, INIT, READY, CONNECTED, ERROR
<1>2. comm_state' \in {INIT, READY, CONNECTED, ERROR}
  BY <1>1
<1>3. ContextTypeOK'
  BY <1>2, HandlesChannel DEF ContextInv, ContextTypeOK, Handles
<1>4. "ADDR_RESOLVED" \in CmEvents /\ "ESTABLISHED" \in CmEvents
  BY DEF CmEvents
<1>5. AddrOnce'
  BY <1>4, HandlesChannel DEF ContextInv, AddrOnce
<1>6. InSync' /\ DependenciesLive'
  BY DEF ContextInv, InSync, Alive, DependenciesLive, Handles
<1>7. InChannel("ESTABLISHED")' \/ comm_state' = CONNECTED => "qp" \in live
  BY <1>1, <1>4, HandlesChannel
     DEF ContextInv, SetupInv, INIT, READY, CONNECTED, ERROR
<1>8. comm_state' \in CONNECTED..FINISHED => comm_state' = CONNECTED
  BY <1>2 DEF INIT, READY, CONNECTED, FINISHED, ERROR
<1>9. SetupInv'
  BY <1>1, <1>2, <1>7, <1>8 DEF ContextInv, SetupInv, Known, AllSet, Handles
<1>10. CleanupInv'
  BY <1>1 DEF CleanupInv, Handles
<1> QED BY <1>3, <1>5, <1>6, <1>9, <1>10 DEF ContextInv

LEMMA MadeResources ==
  /\ {RdmaResources[i] : i \in 1..0} = {}
  /\ {RdmaResources[i] : i \in 1..1} = {"pd"}
  /\ {RdmaResources[i] : i \in 1..2} = {"pd", "comp_channel"}
  /\ {RdmaResources[i] : i \in 1..3} = {"pd", "comp_channel", "cq"}
  /\ {RdmaResources[i] : i \in 1..4} = Rdma
<1>1. /\ RdmaResources[1] = "pd" /\ RdmaResources[2] = "comp_channel"
      /\ RdmaResources[3] = "cq" /\ RdmaResources[4] = "qp"
  BY DEF RdmaResources
<1>2. /\ 1..0 = {} /\ 1..1 = {1} /\ 1..2 = {1, 2} /\ 1..3 = {1, 2, 3}
      /\ 1..4 = {1, 2, 3, 4}
  OBVIOUS
<1> QED BY <1>1, <1>2 DEF Rdma

\* naaice_init_rdma_resources makes its resources in order and unsets none.
LEMMA InitMakes ==
  ASSUME ContextTypeOK, NEW n \in 0..4, InitRdmaResources(n)
  PROVE  \E made \in SUBSET Rdma :
           /\ live' = live \cup made
           /\ pointer' \in [Resources -> {"unset", "NULL", "set"}]
           /\ \A r \in Resources \ Rdma : pointer'[r] = pointer[r]
           /\ \A r \in made : pointer'[r] = "set"
           /\ \A r \in Rdma \ made : pointer'[r] \in {pointer[r], "NULL"}
           /\ "cq" \in made => "comp_channel" \in made /\ "pd" \in made
           /\ "qp" \in made => made = Rdma
<1> DEFINE made == {RdmaResources[i] : i \in 1..n}
           null == IF n < 3 THEN {RdmaResources[n + 1]} ELSE {}
<1>1. n \in {0, 1, 2, 3, 4}
  OBVIOUS
<1>2. made \in SUBSET Rdma
  BY <1>1, MadeResources DEF Rdma
<1>3. ("cq" \in made => "comp_channel" \in made /\ "pd" \in made)
      /\ ("qp" \in made => made = Rdma)
  BY <1>1, MadeResources DEF Rdma
<1>4. null \subseteq Rdma
  BY <1>1 DEF Rdma, RdmaResources
<1>5. /\ live' = live \cup made
      /\ pointer' = [r \in Resources |-> IF r \in made THEN "set"
                                        ELSE IF r \in null THEN "NULL"
                                        ELSE pointer[r]]
  BY DEF InitRdmaResources
<1>6. Rdma \subseteq Resources
  BY RdmaNames
<1> HIDE DEF made, null
<1>7. pointer' \in [Resources -> {"unset", "NULL", "set"}]
  BY <1>5 DEF ContextTypeOK
<1>8. /\ \A r \in Resources \ Rdma : pointer'[r] = pointer[r]
      /\ \A r \in made : pointer'[r] = "set"
      /\ \A r \in Rdma \ made : pointer'[r] \in {pointer[r], "NULL"}
  BY <1>2, <1>4, <1>5, <1>6
<1> QED BY <1>2, <1>3, <1>5, <1>7, <1>8

LEMMA AddrResolvedInv ==
  ASSUME ContextInv, NEW n \in 0..4, Handles("ADDR_RESOLVED"),
         comm_state' = READY, cm' = "route", ignored' \in BOOLEAN,
         InitRdmaResources(n)
  PROVE  ContextInv'
<1>1. app = "setup" /\ app' = "setup"
  BY DEF Handles
<1>2. "ADDR_RESOLVED" \in CmEvents /\ "ESTABLISHED" \in CmEvents
  BY DEF CmEvents
<1>3. live \cap Rdma = {}
  BY <1>2, HandlesChannel DEF ContextInv, AddrOnce
<1>4. PICK made \in SUBSET Rdma :
        /\ live' = live \cup made
        /\ pointer' \in [Resources -> {"unset", "NULL", "set"}]
        /\ \A r \in Resources \ Rdma : pointer'[r] = pointer[r]
        /\ \A r \in made : pointer'[r] = "set"
        /\ \A r \in Rdma \ made : pointer'[r] \in {pointer[r], "NULL"}
        /\ "cq" \in made => "comp_channel" \in made /\ "pd" \in made
        /\ "qp" \in made => made = Rdma
  BY InitMakes DEF ContextInv
<1>5. /\ Rdma \subseteq Resources /\ Rdma \cap AtInit = {}
      /\ Rdma \cap Registrations = {} /\ AtInit \subseteq Resources
      /\ Registrations \subseteq Resources
      /\ \A r \in Registrations : Container[r] \in AtInit
  BY RdmaNames DEF Rdma, AtInit, Registrations, Container
<1>6. ContextTypeOK'
  BY <1>1, <1>2, <1>4, <1>5, HandlesChannel
     DEF ContextInv, ContextTypeOK, Handles
<1>7. AddrOnce'
  BY <1>2, HandlesChannel DEF ContextInv, AddrOnce
<1>8. InSync'
  <2>1. \A r \in live' : pointer'[r] = "set"
    BY <1>1, <1>3, <1>4 DEF ContextInv, InSync, Alive, ContextTypeOK
  <2>2. \A r \in Resources \ Registrations : pointer'[r] = "set" => r \in live'
    BY <1>1, <1>3, <1>4, <1>5 DEF ContextInv, InSync, Alive
  <2>3. \A r \in Registrations \cap live' : pointer'[Container[r]] = "set"
    BY <1>1, <1>4, <1>5 DEF ContextInv, InSync, Alive
  <2>4. \A r \in AtInit \cup Registrations : pointer'[r] # "unset"
    BY <1>4, <1>5 DEF ContextInv, InSync
  <2> QED BY <1>1, <2>1, <2>2, <2>3, <2>4 DEF InSync, Alive
<1>9. SetupInv'
  <2>1. AtInit \subseteq live' /\ \A r \in Registrations : Known(r)'
    BY <1>1, <1>4, <1>5 DEF ContextInv, SetupInv, Known
  <2>2. "qp" \in live' => AllSet'
    BY <1>3, <1>4 DEF AllSet, Rdma
  <2>3. InChannel("ESTABLISHED")' => "qp" \in live
    BY <1>1, <1>2, HandlesChannel DEF ContextInv, SetupInv
  <2>4. "qp" \notin live
    BY <1>3 DEF Rdma
  <2>5. comm_state' \notin CONNECTED..FINISHED /\ comm_state' # CONNECTED
    BY DEF READY, CONNECTED, FINISHED
  <2> QED BY <1>1, <2>1, <2>2, <2>3, <2>4, <2>5 DEF SetupInv
<1>10. CleanupInv'
  BY <1>1 DEF CleanupInv
<1>11. DependenciesLive'
  <2>1. live \cap {"qp", "cq", "comp_channel", "pd"} = {}
    BY <1>3 DEF Rdma
  <2>2. "data_mr" \notin live /\ "message_mr" \notin live
    BY <2>1 DEF ContextInv, DependenciesLive, UsersOf, UsedBy
  <2> QED BY <1>4, <2>1, <2>2
          DEF ContextInv, DependenciesLive, UsersOf, UsedBy, Rdma
<1> QED BY <1>6, <1>7, <1>8, <1>9, <1>10, <1>11 DEF ContextInv

-------------------------------------------------------------------------------
(* The application.                                                        *)

LEMMA CallSetupInv ==
  ASSUME ContextInv, CallSetup
  PROVE  ContextInv'
<1>1. ContextTypeOK'
  BY DEF ContextInv, ContextTypeOK, CallSetup
<1>2. InSync' /\ DependenciesLive' /\ AddrOnce'
  BY DEF ContextInv, InSync, Alive, DependenciesLive, AddrOnce, InChannel,
         CallSetup
<1>3. SetupInv' /\ CleanupInv'
  BY DEF ContextInv, SetupInv, CleanupInv, Known, AllSet, InChannel, CallSetup
<1> QED BY <1>1, <1>2, <1>3 DEF ContextInv

LEMMA RegisterInv ==
  ASSUME ContextInv, RegisterMrs
  PROVE  ContextInv'
<1>1. app = "up" /\ UNCHANGED <<comm_state, cm, cm_events, ignored, app, todo,
                                cleanups, rc>>
  BY DEF RegisterMrs
<1>2. PICK made \in SUBSET Registrations :
        /\ live' = live \cup made
        /\ pointer' = [r \in Resources |-> IF r \in made THEN "set" ELSE pointer[r]]
  BY DEF RegisterMrs, Registrations
<1>3. /\ Registrations \subseteq Resources /\ AtInit \subseteq Resources
      /\ AtInit \cap Registrations = {} /\ Rdma \subseteq Resources
      /\ Rdma \cap Registrations = {}
      /\ \A r \in Registrations : Container[r] \in AtInit
  BY RdmaNames DEF Registrations, AtInit, Container, Rdma
<1>4. AtInit \subseteq live /\ "qp" \in live
  BY <1>1 DEF ContextInv, SetupInv
<1>5. /\ \A r \in live : pointer[r] = "set"
      /\ \A r \in Resources \ Registrations : pointer[r] = "set" => r \in live
      /\ \A r \in AtInit \cup Registrations : pointer[r] # "unset"
  BY <1>1 DEF ContextInv, InSync, Alive
<1>6. /\ \A r \in made : pointer'[r] = "set"
      /\ \A r \in Resources \ made : pointer'[r] = pointer[r]
  BY <1>2, <1>3
<1>7. ContextTypeOK'
  BY <1>1, <1>2, <1>3 DEF ContextInv, ContextTypeOK
<1>8. AddrOnce'
  <2>1. live' \cap Rdma = live \cap Rdma
    BY <1>2, <1>3
  <2> QED BY <1>1, <2>1 DEF ContextInv, AddrOnce, InChannel
<1>9. InSync'
  <2>1. live \subseteq Resources
    BY DEF ContextInv, ContextTypeOK
  <2>2. \A r \in live' : pointer'[r] = "set"
    BY <1>2, <1>5, <1>6, <2>1
  <2>3. \A r \in Resources \ Registrations : pointer'[r] = "set" => r \in live'
    BY <1>2, <1>5, <1>6
  <2>4. \A r \in AtInit \cup Registrations : pointer'[r] # "unset"
    BY <1>3, <1>5, <1>6
  <2>5. \A r \in Registrations : pointer'[Container[r]] = "set"
    BY <1>2, <1>3, <1>4, <2>2
  <2> QED BY <1>1, <2>2, <2>3, <2>4, <2>5 DEF InSync, Alive
<1>10. SetupInv'
  <2>1. \A r \in Registrations : Known(r)'
    <3> SUFFICES ASSUME NEW r \in Registrations, pointer'[r] = "set" PROVE r \in live'
      BY DEF Known
    <3>1. CASE r \in made
      BY <3>1, <1>2
    <3>2. CASE r \notin made
      <4>1. pointer[r] = "set"
        BY <3>2, <1>3, <1>6
      <4>2. pointer[Container[r]] = "set"
        BY <1>3, <1>4, <1>5
      <4>3. Known(r)
        BY <1>1 DEF ContextInv, SetupInv
      <4> QED BY <4>1, <4>2, <4>3, <1>2 DEF Known
    <3> QED BY <3>1, <3>2
  <2>2. AllSet /\ AllSet'
    BY <1>2, <1>3, <1>4, <1>6 DEF ContextInv, SetupInv, AllSet
  <2> QED BY <1>1, <1>2, <1>4, <2>1, <2>2 DEF SetupInv
<1>11. CleanupInv'
  BY <1>1 DEF CleanupInv
<1>12. DependenciesLive'
  BY <1>2, <1>4 DEF ContextInv, DependenciesLive, UsersOf, UsedBy, AtInit,
                    Registrations
<1> QED BY <1>7, <1>8, <1>9, <1>10, <1>11, <1>12 DEF ContextInv

LEMMA UseInv ==
  ASSUME ContextInv, UseConnection
  PROVE  ContextInv'
<1>1. ContextTypeOK'
  BY DEF ContextInv, ContextTypeOK, UseConnection
<1>2. InSync' /\ DependenciesLive' /\ AddrOnce'
  BY DEF ContextInv, InSync, Alive, DependenciesLive, AddrOnce, InChannel,
         UseConnection
<1>3. SetupInv' /\ CleanupInv'
  BY DEF ContextInv, SetupInv, CleanupInv, Known, AllSet, InChannel,
         UseConnection
<1> QED BY <1>1, <1>2, <1>3 DEF ContextInv

LEMMA CrashInv ==
  ASSUME ContextInv, HostCrashes
  PROVE  ContextInv'
<1>1. app' = "gone" /\ live' = {} /\ cm' \in {"disconnected", "over"}
      /\ UNCHANGED <<comm_state, pointer, cm_events, ignored, todo, cleanups, rc>>
  BY DEF HostCrashes
<1>2. ContextTypeOK'
  BY <1>1 DEF ContextInv, ContextTypeOK
<1>3. InSync' /\ DependenciesLive' /\ AddrOnce'
  BY <1>1 DEF ContextInv, InSync, Alive, DependenciesLive, UsersOf, AddrOnce,
              InChannel
<1>4. SetupInv' /\ CleanupInv'
  BY <1>1 DEF ContextInv, SetupInv, CleanupInv, AllSet
<1> QED BY <1>2, <1>3, <1>4 DEF ContextInv

LEMMA RegisterUnconnectedInv ==
  ASSUME ContextInv, RegisterUnconnected
  PROVE  ContextInv'
<1>1. app' = "crashed" /\ live' = {} /\ cm' = "over"
      /\ UNCHANGED <<comm_state, pointer, cm_events, ignored, todo, cleanups, rc>>
  BY DEF RegisterUnconnected
<1>2. comm_state \notin CONNECTED..FINISHED
  BY DEF ContextInv, SetupInv, RegisterUnconnected, INIT, CONNECTED, FINISHED
<1>3. ContextTypeOK'
  BY <1>1 DEF ContextInv, ContextTypeOK
<1>4. InSync' /\ DependenciesLive' /\ AddrOnce'
  BY <1>1 DEF ContextInv, InSync, Alive, DependenciesLive, UsersOf, AddrOnce,
              InChannel
<1>5. SetupInv' /\ CleanupInv'
  BY <1>1, <1>2 DEF SetupInv, CleanupInv
<1> QED BY <1>3, <1>4, <1>5 DEF ContextInv

-------------------------------------------------------------------------------
(* naaice_disconnect_and_cleanup.                                          *)

LEMMA CallCleanupInv ==
  ASSUME ContextInv, CallCleanup
  PROVE  ContextInv'
<1>1. /\ app \in {"up", "failed", "cleaned"} /\ app' = "cleanup"
      /\ cleanups < MaxCleanups /\ cleanups' = cleanups + 1
      /\ todo' = ReleaseOrder /\ rc' = 0 /\ cm' \in {"disconnected", cm}
      /\ UNCHANGED <<comm_state, pointer, live, cm_events, ignored>>
  BY DEF CallCleanup
<1>2. ReleaseOrder \in Seq(Resources)
  BY RdmaNames DEF ReleaseOrder, Rdma
<1>3. ContextTypeOK'
  BY <1>1, <1>2, ContextAssumption DEF ContextInv, ContextTypeOK
<1>4. InSync' /\ DependenciesLive' /\ AddrOnce'
  BY <1>1 DEF ContextInv, InSync, Alive, DependenciesLive, AddrOnce, InChannel
<1>5. SetupInv'
  BY <1>1 DEF ContextInv, SetupInv, AllSet
<1>6. \A r \in Resources : Known(r)
  <2> SUFFICES ASSUME NEW r \in Registrations, pointer[Container[r]] = "set",
                      pointer[r] = "set"
               PROVE  r \in live
    BY DEF Known
  <2>1. CASE app = "cleaned"
    <3>1. \A i \in 1..11 : Forgotten(ReleaseOrder[i])
      BY <2>1 DEF ContextInv, CleanupInv
    <3>2. Forgotten("message") /\ Forgotten("data")
      BY <3>1, Order
    <3>3. pointer["message"] = "NULL" /\ pointer["data"] = "NULL"
      BY <3>2 DEF Forgotten, Registrations
    <3> QED BY <3>3 DEF Container, Registrations
  <2>2. CASE app \in {"up", "failed"}
    BY <2>2 DEF ContextInv, SetupInv, Known
  <2> QED BY <1>1, <2>1, <2>2
<1>7. LookedAt(0)'
  <2>1. /\ Len(todo') = 11 /\ \A i \in 1..Len(todo') : todo'[i] = ReleaseOrder[i + 0]
    BY <1>1, Order
  <2>2. \A i \in 1..11 : Known(ReleaseOrder[i])
    BY <1>6, OrderOnce
  <2>3. \A i \in 1..11 : Known(ReleaseOrder[i])'
    BY <1>1, <2>2 DEF Known
  <2> QED BY <2>1, <2>3 DEF LookedAt
<1>8. CleanupInv'
  BY <1>1, <1>7 DEF CleanupInv
<1> QED BY <1>3, <1>4, <1>5, <1>8 DEF ContextInv

\* While the cleanup looks at a resource, those that use it are gone.
LEMMA NotInUse ==
  ASSUME ContextInv, NEW resource, Looks(resource)
  PROVE  /\ rc = 0 /\ resource \in Resources /\ resource # "internal"
         /\ ~InUse(resource)
         /\ resource = "message" => "message_mr" \notin live
         /\ resource = "data" => "data_mr" \notin live
         /\ resource = "ev_channel" => "id" \notin live
         /\ Known(resource)
<1>1. PICK k \in 0..11 : LookedAt(k)
  BY DEF ContextInv, CleanupInv, Looks
<1>2. rc = 0 /\ todo \in Seq(Resources) /\ todo # <<>> /\ Head(todo) = resource
  BY DEF ContextInv, CleanupInv, ContextTypeOK, Looks
<1>3. Len(todo) > 0 /\ todo[1] = resource /\ Len(todo) \in Nat
  BY <1>2, TailElements
<1>4. k \in 0..10 /\ resource = ReleaseOrder[k + 1]
  BY <1>1, <1>3 DEF LookedAt
<1>5. k + 1 \in 1..11
  BY <1>4
<1>6. resource \in Resources /\ resource # "internal" /\ Known(resource)
  BY <1>1, <1>4, <1>5, k + 1 \in (k + 1)..11, OrderOnce DEF LookedAt
<1>7. \A i \in 1..k : Forgotten(ReleaseOrder[i])
  BY <1>1 DEF LookedAt
<1>8. \A i \in 1..11 : ReleaseOrder[i] # "peer" /\ i <= k => ReleaseOrder[i] \notin live
  BY <1>4, <1>7 DEF Forgotten
<1>9. k \in {0, 1, 2, 3, 4, 5, 6, 7, 8, 9, 10}
  BY <1>4
<1>10. /\ resource \in {"message", "data", "pd", "cq", "comp_channel", "ev_channel"}
            => k >= 3
       /\ resource \in {"cq", "comp_channel", "pd", "ev_channel"} => k >= 6
       /\ resource \in {"comp_channel", "pd", "ev_channel"} => k >= 7
       /\ resource = "ev_channel" => k = 10
  BY <1>4, <1>9, Order
<1>11. /\ k >= 3 => "message_mr" \notin live /\ "data_mr" \notin live
       /\ k >= 6 => "qp" \notin live
       /\ k >= 7 => "cq" \notin live
       /\ k = 10 => "id" \notin live
  BY <1>4, <1>8, Order
<1>12. ~InUse(resource)
  BY <1>10, <1>11 DEF InUse, UsedBy
<1> QED BY <1>2, <1>6, <1>10, <1>11, <1>12

\* The cleanup goes on: the resource it looked at is released and forgotten.
LEMMA LooksInv ==
  ASSUME ContextInv, NEW resource, Looks(resource), app' = "cleanup", rc' = 0,
         cm' \in {cm, "over"}, live' \in {live, live \ {resource}},
         \/ pointer' = pointer /\ (live' = live \/ resource \in Registrations)
         \/ pointer' = [pointer EXCEPT ![resource] = "NULL"]
              /\ resource \notin Registrations /\ resource \notin live',
         Forgotten(resource)'
  PROVE  ContextInv'
<1>1. /\ app = "cleanup" /\ todo # <<>> /\ resource = Head(todo)
      /\ todo' = Tail(todo)
      /\ UNCHANGED <<comm_state, cm_events, ignored, cleanups>>
  BY DEF Looks
<1>2. live' \subseteq live
  OBVIOUS
<1>3. /\ pointer' \in [Resources -> {"unset", "NULL", "set"}]
      /\ \A r \in Resources : pointer'[r] \in {pointer[r], "NULL"}
      /\ \A r \in Resources : r # resource => pointer'[r] = pointer[r]
      /\ \A r \in Registrations : pointer'[r] = pointer[r]
      /\ resource \in Resources
  <2>1. resource \in Resources /\ pointer \in [Resources -> {"unset", "NULL", "set"}]
        /\ Registrations \subseteq Resources
    BY NotInUse, RdmaNames DEF ContextInv, ContextTypeOK, Registrations
  <2>2. CASE pointer' = pointer
    BY <2>1, <2>2
  <2>3. CASE pointer' = [pointer EXCEPT ![resource] = "NULL"]
             /\ resource \notin Registrations
    BY <2>1, <2>3
  <2> QED BY <2>2, <2>3
<1>4. /\ Registrations \subseteq Resources
      /\ \A r \in Registrations : Container[r] \in Resources
  BY RdmaNames DEF Registrations, Container
<1>5. ContextTypeOK'
  BY <1>1, <1>2, <1>3, TailElements DEF ContextInv, ContextTypeOK
<1>6. AddrOnce'
  <2>1. cm' = "addr" => cm = "addr"
    OBVIOUS
  <2> QED BY <1>1, <1>2, <2>1 DEF ContextInv, AddrOnce, InChannel
<1>7. InSync'
  <2>1. /\ \A r \in live : pointer[r] = "set"
        /\ \A r \in Resources \ Registrations : pointer[r] = "set" => r \in live
        /\ \A r \in Registrations \cap live : pointer[Container[r]] = "set"
        /\ \A r \in AtInit \cup Registrations : pointer[r] # "unset"
        /\ live \subseteq Resources
    BY <1>1 DEF ContextInv, InSync, Alive, ContextTypeOK
  <2>2. \A r \in live' : pointer'[r] = "set"
    BY <1>2, <1>3, <2>1
  <2>3. \A r \in Resources \ Registrations : pointer'[r] = "set" => r \in live'
    BY <1>3, <2>1
  <2>4. \A r \in Registrations \cap live' : pointer'[Container[r]] = "set"
    <3> SUFFICES ASSUME NEW r \in Registrations \cap live'
                 PROVE  pointer'[Container[r]] = "set"
      OBVIOUS
    <3>1. r \in live /\ pointer[Container[r]] = "set"
      BY <1>2, <2>1
    <3>2. Container[r] # resource
      BY <3>1, NotInUse DEF Container, Registrations
    <3> QED BY <1>3, <1>4, <3>1, <3>2
  <2>5. \A r \in AtInit \cup Registrations : pointer'[r] # "unset"
    BY <1>3, <1>4, <2>1, RdmaNames DEF AtInit, Registrations
  <2> QED BY <1>1, <2>2, <2>3, <2>4, <2>5 DEF InSync, Alive
<1>8. SetupInv'
  <2>1. AllSet => AllSet'
    BY <1>3, RdmaNames DEF AllSet
  <2>2. /\ "qp" \in live => AllSet
        /\ comm_state \in CONNECTED..FINISHED => AllSet
    BY DEF ContextInv, SetupInv
  <2> QED BY <1>1, <1>2, <2>1, <2>2 DEF SetupInv
<1>9. CleanupInv'
  <2>1. PICK k \in 0..11 : LookedAt(k)
    BY <1>1 DEF ContextInv, CleanupInv
  <2>2. /\ todo \in Seq(Resources) /\ Len(todo) = 11 - k
        /\ \A i \in 1..Len(todo) : todo[i] = ReleaseOrder[i + k]
    BY <2>1 DEF LookedAt, ContextInv, ContextTypeOK
  <2>3. /\ Len(todo') = Len(todo) - 1 /\ Len(todo) > 0 /\ Len(todo) \in Nat
        /\ \A i \in 1..Len(todo') : todo'[i] = todo[i + 1]
        /\ resource = todo[1]
    BY <1>1, <2>2, TailElements
  <2>4. k + 1 \in 1..11 /\ resource = ReleaseOrder[k + 1]
        /\ Len(todo') = 11 - (k + 1)
    BY <2>2, <2>3
  <2>5. \A i \in 1..Len(todo') : todo'[i] = ReleaseOrder[i + (k + 1)]
    <3> SUFFICES ASSUME NEW i \in 1..Len(todo')
                 PROVE  todo'[i] = ReleaseOrder[i + (k + 1)]
      OBVIOUS
    <3>1. i + 1 \in 1..Len(todo) /\ (i + 1) + k = i + (k + 1)
      BY <2>3
    <3>2. todo'[i] = todo[i + 1] /\ todo[i + 1] = ReleaseOrder[(i + 1) + k]
      BY <2>2, <2>3, <3>1
    <3> QED BY <3>1, <3>2
  <2>6. \A i \in 1..(k + 1) : Forgotten(ReleaseOrder[i])'
    <3> SUFFICES ASSUME NEW i \in 1..(k + 1), i # k + 1
                 PROVE  Forgotten(ReleaseOrder[i])'
      BY <2>4
    <3>0. \A j \in 1..k : Forgotten(ReleaseOrder[j])
      BY <2>1 DEF LookedAt
    <3>1. i \in 1..k /\ i \in 1..11
      BY <2>4
    <3>2. Forgotten(ReleaseOrder[i])
      BY <3>0, <3>1
    <3>3. ReleaseOrder[i] \in Resources
      BY <3>1, OrderOnce
    <3> QED BY <1>2, <1>3, <3>2, <3>3 DEF Forgotten
  <2>7. \A i \in ((k + 1) + 1)..11 : Known(ReleaseOrder[i])'
    <3> SUFFICES ASSUME NEW i \in ((k + 1) + 1)..11
                 PROVE  Known(ReleaseOrder[i])'
      OBVIOUS
    <3>1. i \in (k + 1)..11 /\ i \in 1..11 /\ i # k + 1
      BY <2>4
    <3>2. Known(ReleaseOrder[i]) /\ ReleaseOrder[i] # resource
      BY <2>1, <2>4, <3>1, OrderOnce DEF LookedAt
    <3> DEFINE r == ReleaseOrder[i]
    <3>3. SUFFICES ASSUME r \in Registrations, pointer'[r] = "set",
                          pointer'[Container[r]] = "set"
                   PROVE  r \in live'
      BY DEF Known
    <3>4. pointer[r] = "set" /\ pointer[Container[r]] = "set"
      BY <1>3, <1>4, <3>3
    <3> QED BY <3>2, <3>3, <3>4 DEF Known
  <2>8. LookedAt(k + 1)'
    BY <2>4, <2>5, <2>6, <2>7 DEF LookedAt
  <2>9. k + 1 \in 0..11
    BY <2>4
  <2> QED BY <2>8, <2>9 DEF CleanupInv
<1>10. DependenciesLive'
  BY <1>2, NotInUse DEF ContextInv, DependenciesLive, UsersOf, UsedBy, InUse
<1> QED BY <1>5, <1>6, <1>7, <1>8, <1>9, <1>10 DEF ContextInv

LEMMA ReleasesInv ==
  ASSUME ContextInv, NEW resource \in Resources, Releases(resource)
  PROVE  ContextInv'
<1>1. Looks(resource) /\ app = "cleanup" /\ app' = "cleanup"
  BY DEF Releases, Looks
<1>2. ~InUse(resource) /\ rc = 0
  BY <1>1, NotInUse
<1>3. live' = live \ {resource} /\ rc' = 0 /\ cm' \in {cm, "over"}
  BY <1>2 DEF Releases
<1>4. IF resource \in Registrations THEN pointer' = pointer
      ELSE pointer' = [pointer EXCEPT ![resource] = "NULL"]
  BY DEF Releases, Nulled
<1>5. Forgotten(resource)'
  BY <1>3, <1>4 DEF Forgotten, ContextInv, ContextTypeOK
<1> QED BY <1>1, <1>3, <1>4, <1>5, LooksInv

LEMMA SkipsInv ==
  ASSUME ContextInv, NEW resource \in Resources, Skips(resource)
  PROVE  ContextInv'
<1>1. /\ Looks(resource) /\ app = "cleanup" /\ app' = "cleanup"
      /\ rc' = 0 /\ UNCHANGED <<pointer, live, cm>>
  BY NotInUse DEF Skips, Looks
<1>2. /\ \A r \in live : pointer[r] = "set"
      /\ \A r \in Registrations \cap live : pointer[Container[r]] = "set"
  BY <1>1 DEF ContextInv, InSync, Alive
<1>3. resource # "peer" =>
        /\ resource \notin live
        /\ resource \notin Registrations => pointer[resource] = "NULL"
  BY <1>2 DEF Skips, LooksAt
<1>4. Forgotten(resource)'
  BY <1>1, <1>3 DEF Forgotten
<1> QED BY <1>1, <1>4, LooksInv

LEMMA FollowsUnsetInv ==
  ASSUME ContextInv, NEW resource \in Resources, FollowsUnset(resource)
  PROVE  ContextInv'
<1>1. /\ Looks(resource) /\ app = "cleanup" /\ pointer[resource] = "unset"
      /\ pointer' = [pointer EXCEPT ![resource] = "NULL"]
      /\ rc' = rc /\ rc = 0
  BY NotInUse DEF FollowsUnset, Looks
<1>2. resource \notin Registrations /\ resource \notin live /\ resource \in Rdma
  <2>1. resource \notin AtInit \cup Registrations /\ resource \notin live
    BY <1>1 DEF ContextInv, InSync, Alive
  <2> QED BY <2>1, RdmaNames DEF AtInit, Registrations
<1>3. CASE UNCHANGED <<live, cm, app>>
  <2>1. Forgotten(resource)'
    BY <1>1, <1>2, <1>3 DEF Forgotten, ContextInv, ContextTypeOK
  <2> QED BY <1>1, <1>2, <1>3, <2>1, LooksInv
<1>4. CASE app' = "crashed" /\ live' = {} /\ cm' = "over"
  <2>1. /\ todo' = Tail(todo) /\ todo # <<>>
        /\ UNCHANGED <<comm_state, cm_events, ignored, cleanups>>
    BY <1>1 DEF Looks
  <2>2. pointer' \in [Resources -> {"unset", "NULL", "set"}]
        /\ \A r \in Resources : pointer[r] # "unset" => pointer'[r] # "unset"
    BY <1>1 DEF ContextInv, ContextTypeOK
  <2>3. ContextTypeOK'
    BY <1>1, <1>4, <2>1, <2>2, TailElements DEF ContextInv, ContextTypeOK
  <2>4. AddrOnce' /\ DependenciesLive'
    BY <1>4, <2>1 DEF ContextInv, AddrOnce, InChannel, DependenciesLive, UsersOf
  <2>5. InSync'
    BY <1>4, <2>2, RdmaNames
       DEF ContextInv, InSync, Alive, AtInit, Registrations
  <2>6. comm_state \notin CONNECTED..FINISHED
    BY <1>1, <1>2 DEF ContextInv, SetupInv, AllSet
  <2>7. SetupInv' /\ CleanupInv'
    BY <1>4, <2>1, <2>6 DEF SetupInv, CleanupInv
  <2> QED BY <2>3, <2>4, <2>5, <2>7 DEF ContextInv
<1> QED BY <1>3, <1>4 DEF FollowsUnset

LEMMA CleanupEndsInv ==
  ASSUME ContextInv, CleanupEnds
  PROVE  ContextInv'
<1>1. app = "cleanup" /\ todo = <<>> /\ app' = "cleaned"
      /\ UNCHANGED <<comm_state, pointer, live, cm, cm_events, ignored, todo,
                     cleanups, rc>>
  BY DEF CleanupEnds
<1>2. ContextTypeOK'
  BY <1>1 DEF ContextInv, ContextTypeOK
<1>3. InSync' /\ DependenciesLive' /\ AddrOnce' /\ SetupInv'
  BY <1>1 DEF ContextInv, InSync, Alive, DependenciesLive, AddrOnce, InChannel,
              SetupInv, AllSet
<1>4. CleanupInv'
  <2>1. PICK k \in 0..11 : LookedAt(k)
    BY <1>1 DEF ContextInv, CleanupInv
  <2>2. k = 11
    BY <1>1, <2>1 DEF LookedAt
  <2>3. \A i \in 1..11 : Forgotten(ReleaseOrder[i])
    BY <2>1, <2>2 DEF LookedAt
  <2>4. \A i \in 1..11 : Forgotten(ReleaseOrder[i])'
    BY <1>1, <2>3 DEF Forgotten
  <2> QED BY <1>1, <2>4 DEF ContextInv, CleanupInv
<1> QED BY <1>2, <1>3, <1>4 DEF ContextInv

-------------------------------------------------------------------------------
(* The invariant, and what it means.                                       *)

LEMMA ContextInitially == ContextInit => ContextInv
<1> SUFFICES ASSUME ContextInit PROVE ContextInv
  OBVIOUS
<1>1. AtInit \subseteq Resources /\ AtInit \cap Rdma = {}
      /\ AtInit \cap Registrations = {}
  BY RdmaNames DEF AtInit, Rdma, Registrations
<1>2. \A r \in Resources : pointer[r] = IF r \in AtInit THEN "set"
                                        ELSE IF r \in Registrations THEN "NULL"
                                        ELSE "unset"
  BY DEF ContextInit
<1>3. ContextTypeOK
  <2>1. pointer \in [Resources -> {"unset", "NULL", "set"}]
    BY DEF ContextInit
  <2>2. cm_events \in Seq(CmEvents) /\ todo \in Seq(Resources)
    BY DEF ContextInit
  <2>3. /\ comm_state = INIT /\ live \subseteq Resources /\ cm = "addr"
        /\ app = "ready" /\ ignored \in BOOLEAN /\ rc = 0
    BY <1>1 DEF ContextInit
  <2>4. cleanups \in 0..MaxCleanups
    BY ContextAssumption DEF ContextInit
  <2> QED BY <2>1, <2>2, <2>3, <2>4 DEF ContextTypeOK
<1>4. InSync
  BY <1>1, <1>2, RdmaNames
     DEF ContextInit, InSync, Alive, AtInit, Registrations, Rdma
<1>5. AddrOnce
  BY <1>1 DEF ContextInit, AddrOnce, InChannel
<1>6. SetupInv
  <2>1. \A r \in Registrations : Known(r)
    BY <1>1, <1>2, RdmaNames DEF Known, AtInit, Registrations
  <2> QED BY <1>1, <2>1 DEF ContextInit, SetupInv, InChannel, INIT, CONNECTED, FINISHED,
                    AtInit, Rdma
<1>7. CleanupInv /\ DependenciesLive
  BY DEF ContextInit, CleanupInv, DependenciesLive, UsersOf, UsedBy, AtInit
<1> QED BY <1>3, <1>4, <1>5, <1>6, <1>7 DEF ContextInv

LEMMA ContextStep ==
  ASSUME ContextInv, [SystemNext]_systemVars
  PROVE  ContextInv'
<1>1. CASE HostSetsUp
  <2>1. CASE SetupEnds
    BY <2>1, SetupEndsInv
  <2>2. CASE HandleAddrResolved
    <3>1. Handles("ADDR_RESOLVED") /\ comm_state' = READY
      BY <2>2 DEF HandleAddrResolved
    <3>2. CASE cm' = "route" /\ ignored' \in BOOLEAN /\ \E n \in 0..4 : InitRdmaResources(n)
      BY <3>1, <3>2, AddrResolvedInv
    <3>3. CASE ignored' = TRUE /\ UNCHANGED <<pointer, live, cm>>
      BY <3>1, <3>3, HandlesInv DEF CmEvents
    <3>4. ignored \in BOOLEAN
      BY DEF ContextInv, ContextTypeOK
    <3>5. \/ cm' = "route" /\ InitRdmaResources(4) /\ ignored' = ignored
          \/ cm' = "route" /\ ignored' = TRUE /\ \E n \in 0..3 : InitRdmaResources(n)
          \/ ignored' = TRUE /\ UNCHANGED <<pointer, live, cm>>
      BY <2>2 DEF HandleAddrResolved
    <3>6. 4 \in 0..4 /\ \A n \in 0..3 : n \in 0..4
      OBVIOUS
    <3> QED BY <3>2, <3>3, <3>4, <3>5, <3>6
  <2>3. CASE ConnectFails
    BY <2>3, HandlesInv DEF ConnectFails, CmEvents
  <2>4. CASE HandleEstablished
    BY <2>4, HandlesInv
       DEF HandleEstablished, CmEvents, ContextInv, ContextTypeOK
  <2>5. CASE HandleError
    BY <2>5, HandlesInv DEF HandleError, CmEvents, ContextInv, ContextTypeOK
  <2>6. CASE HandleOther
    BY <2>6, HandlesInv DEF HandleOther, CmEvents
  <2>7. CASE Connects
    BY <2>7, HandlesInv
       DEF Connects, HandleRouteResolved, CmEvents, ContextInv, ContextTypeOK
  <2> QED BY <1>1, <2>1, <2>2, <2>3, <2>4, <2>5, <2>6, <2>7
          DEF HostSetsUp, Setup
<1>2. CASE HostCleansUp
  BY <1>2, ReleasesInv, SkipsInv, FollowsUnsetInv, CleanupEndsInv
     DEF HostCleansUp, Cleanup
<1>3. CASE HostDoes
  BY <1>3, CallSetupInv, RegisterInv, RegisterUnconnectedInv, UseInv,
     CallCleanupInv, CrashInv
     DEF HostDoes
<1>4. CASE Resolves
  BY <1>4, TellsInv DEF Resolves, ResolvesAddr, ResolvesRoute, CmEvents,
                        ErrorEvents
<1>5. CASE HostLosesDevice
  BY <1>5, TellsInv DEF HostLosesDevice, LosesDevice, CmEvents, ErrorEvents
<1>6. CASE HearsAnswer
  BY <1>6, TellsInv DEF HearsAnswer, Hears, CmEvents, ErrorEvents
<1>7. CASE UNCHANGED contextVars
  <2>1. ContextTypeOK' /\ AddrOnce' /\ (InChannel("ESTABLISHED")' => InChannel("ESTABLISHED"))
    BY <1>7 DEF contextVars, ContextInv, ContextTypeOK, AddrOnce, InChannel
  <2> QED BY <1>7, <2>1, ContextAlone DEF contextVars
<1> QED BY <1>1, <1>2, <1>3, <1>4, <1>5, <1>6, <1>7
        DEF SystemNext, ServerDoes, systemVars

LEMMA ContextInvariant == SystemSpec => []ContextInv
<1>1. SystemInit => ContextInv
  BY ContextInitially DEF SystemInit
<1> QED BY <1>1, ContextStep, PTL DEF SystemSpec

(* Type correctness of the server and of a host that connects to it.       *)
THEOREM SystemTypeCorrect == SystemSpec => []SystemTypeOK
<1>1. ContextInv => ContextTypeOK
  BY DEF ContextInv
<1> QED BY <1>1, ContextInvariant, ServerImplemented, PoolTypeCorrect, PTL
        DEF SystemTypeOK

(* The context frees nothing from under what still uses it: neither memory *)
(* that is registered nor what a queue pair needs, in setup or cleanup.    *)
THEOREM NothingFreedInUse == SystemSpec => []DependenciesLive
<1>1. ContextInv => DependenciesLive
  BY DEF ContextInv
<1> QED BY <1>1, ContextInvariant, PTL

(* However often and in whatever state naaice_disconnect_and_cleanup is    *)
(* called, it releases only what is there.                                 *)
THEOREM NothingFreedTwice == SystemSpec => []ReleasesLive
<1>1. ContextInv => ReleasesLive
  <2> SUFFICES ASSUME ContextInv, app = "cleanup", todo # <<>>,
                      LooksAt(Head(todo)), pointer[Head(todo)] = "set"
               PROVE  Head(todo) \in live
    BY DEF ReleasesLive
  <2> DEFINE r == Head(todo)
  <2>1. PICK k \in 0..11 : LookedAt(k)
    BY DEF ContextInv, CleanupInv
  <2>2. r = todo[1] /\ Len(todo) \in Nat /\ Len(todo) > 0
    BY TailElements DEF ContextInv, ContextTypeOK
  <2>3. k + 1 \in 1..11 /\ k + 1 \in (k + 1)..11 /\ r = ReleaseOrder[k + 1]
    BY <2>1, <2>2 DEF LookedAt
  <2>4. r \in Resources /\ Known(r)
    BY <2>1, <2>3, OrderOnce DEF LookedAt
  <2>5. CASE r \in Registrations
    <3>1. pointer[Container[r]] \in {"unset", "NULL", "set"} /\ Container[r] \in AtInit
      BY <2>5, RdmaNames
         DEF Container, Registrations, AtInit, ContextInv, ContextTypeOK
    <3>2. pointer[Container[r]] = "set"
      BY <2>5, <3>1 DEF LooksAt, ContextInv, InSync
    <3> QED BY <2>4, <2>5, <3>2 DEF Known
  <2>6. CASE r \notin Registrations
    BY <2>4, <2>6 DEF ContextInv, InSync, Alive
  <2> QED BY <2>5, <2>6
<1> QED BY <1>1, ContextInvariant, PTL

(* A cleanup that returns has returned 0 and released all that the context *)
(* made, whatever setup failed at; but for the internal regions and, if    *)
(* MRSP was not done, the peer's.                                          *)
THEOREM NothingLeftBehind == SystemSpec => []CleanupComplete
<1>1. ContextInv => CleanupComplete
  <2> SUFFICES ASSUME ContextInv, app = "cleaned"
               PROVE  rc = 0 /\ \A r \in live : r \in {"internal", "peer"}
    BY DEF CleanupComplete
  <2>1. rc = 0 /\ \A i \in 1..11 : Forgotten(ReleaseOrder[i])
    BY DEF ContextInv, CleanupInv
  <2>2. live \subseteq Resources
    BY DEF ContextInv, ContextTypeOK
  <2>3. \A r \in Resources \ {"internal", "peer"} : r \notin live
    BY <2>1, OrderOnce DEF Forgotten
  <2> QED BY <2>1, <2>2, <2>3
<1> QED BY <1>1, ContextInvariant, PTL

(* A context that was connected is cleaned up without following a pointer  *)
(* that nothing was ever assigned to.                                      *)
THEOREM ConnectedCleansUp == SystemSpec => []ConnectedSurvives
<1>1. ContextInv => ConnectedSurvives
  BY DEF ContextInv, SetupInv, ConnectedSurvives
<1> QED BY <1>1, ContextInvariant, PTL

-------------------------------------------------------------------------------
(* The host and the server agree on the connection.                        *)

\* What keeps setup going: the address or the route is resolved.
Resolutions == {"ADDR_RESOLVED", "ROUTE_RESOLVED"}
OneResolution == \A i, j \in 1..Len(cm_events) :
                   cm_events[i] \in Resolutions /\ cm_events[j] \in Resolutions
                     => i = j
NoResolution == \A i \in 1..Len(cm_events) : cm_events[i] \notin Resolutions

Reached == {"accepted", "established", "disconnected", "removed"}

\* Setup is at one place, in the hands of the connection manager or in the
\* event channel, so nothing takes back a connection once it is established.
ServedInv ==
  /\ OneResolution
  /\ cm \in {"addr", "route", "connect", "established"} => NoResolution
  /\ cm = "established" => conn[Host] \in Reached
  /\ app \in {"ready", "setup"} /\ (InChannel("ESTABLISHED") \/ comm_state = CONNECTED)
       => cm = "established"
  /\ app = "up" => cm = "established"

LEMMA TellsResolution ==
  ASSUME ContextTypeOK, NEW event \in CmEvents, Tells(event), OneResolution
  PROVE  /\ NoResolution \/ event \notin Resolutions => OneResolution'
         /\ NoResolution /\ event \notin Resolutions => NoResolution'
         /\ InChannel("ESTABLISHED")' => InChannel("ESTABLISHED") \/ event = "ESTABLISHED"
<1>1. cm_events \in Seq(CmEvents) /\ cm_events' = Append(cm_events, event)
  BY DEF ContextTypeOK, Tells
<1>2. /\ Len(cm_events') = Len(cm_events) + 1 /\ Len(cm_events) \in Nat
      /\ \A i \in 1..Len(cm_events) : cm_events'[i] = cm_events[i]
      /\ cm_events'[Len(cm_events) + 1] = event
  BY <1>1, AppendElements
<1>3. \A i \in 1..Len(cm_events') : i \in 1..Len(cm_events) \/ i = Len(cm_events) + 1
  BY <1>2
<1>4. \A i \in 1..Len(cm_events') :
        cm_events'[i] = event \/ (i \in 1..Len(cm_events) /\ cm_events'[i] = cm_events[i])
  BY <1>2, <1>3
<1>5. NoResolution /\ event \notin Resolutions => NoResolution'
  BY <1>4 DEF NoResolution
<1>6. ASSUME NoResolution PROVE OneResolution'
  BY <1>2, <1>3, <1>6 DEF NoResolution, OneResolution
<1>7. ASSUME event \notin Resolutions PROVE OneResolution'
  BY <1>4, <1>7 DEF OneResolution
<1>8. InChannel("ESTABLISHED")' => InChannel("ESTABLISHED") \/ event = "ESTABLISHED"
  BY <1>4 DEF InChannel
<1> QED BY <1>5, <1>6, <1>7, <1>8

LEMMA HandlesResolution ==
  ASSUME ContextTypeOK, NEW event \in CmEvents, Handles(event), OneResolution
  PROVE  /\ OneResolution'
         /\ event \in Resolutions => NoResolution' /\ ~NoResolution
         /\ NoResolution => NoResolution'
<1>1. cm_events \in Seq(CmEvents) /\ cm_events' = Tail(cm_events) /\ cm_events # <<>>
  BY DEF ContextTypeOK, Handles
<1>2. /\ Len(cm_events') = Len(cm_events) - 1
      /\ Len(cm_events) \in Nat /\ Len(cm_events) > 0
      /\ \A i \in 1..Len(cm_events') : cm_events'[i] = cm_events[i + 1]
      /\ cm_events[1] = event
  BY <1>1, TailElements DEF Handles
<1>3. /\ 1 \in 1..Len(cm_events)
      /\ \A i \in 1..Len(cm_events') : i + 1 \in 1..Len(cm_events) /\ i + 1 # 1
  BY <1>2
<1>4. OneResolution'
  <2> SUFFICES ASSUME NEW i \in 1..Len(cm_events'), NEW j \in 1..Len(cm_events'),
                      cm_events'[i] \in Resolutions, cm_events'[j] \in Resolutions
               PROVE  i = j
    BY DEF OneResolution
  <2>1. /\ i + 1 \in 1..Len(cm_events) /\ cm_events[i + 1] \in Resolutions
        /\ j + 1 \in 1..Len(cm_events) /\ cm_events[j + 1] \in Resolutions
    BY <1>2, <1>3
  <2>2. i + 1 = j + 1
    BY <2>1 DEF OneResolution
  <2> QED BY <2>2
<1>5. event \in Resolutions => NoResolution' /\ ~NoResolution
  BY <1>2, <1>3 DEF OneResolution, NoResolution
<1>6. NoResolution => NoResolution'
  BY <1>2, <1>3 DEF NoResolution
<1> QED BY <1>4, <1>5, <1>6

\* The server does not go back behind what the host was told.
LEMMA StaysReached ==
  ASSUME PoolInv, cm = "established", conn[Host] \in Reached,
         ServerDoes
  PROVE  conn'[Host] \in Reached
<1>0. conn \in [Connections -> Progress] /\ Host \in Connections
  BY HostAssumption DEF PoolInv, TypeOK
<1>1. CASE \E c \in Connections : Worker(c)
  BY <1>1 DEF Worker, WorkerCleansUp, WorkerCrashes, WorkerReturnsSlot
<1>2. CASE \E c \in Connections : Manages(c)
  <2>1. CASE Establishes(Host) \/ HostDisconnects(Host)
    BY <1>0, <2>1 DEF Establishes, HostDisconnects, Happens, Reached
  <2>2. ASSUME NEW c \in Connections \ {Host}, Manager(c)
        PROVE  conn'[Host] = conn[Host]
    BY <1>0, <2>2 DEF Manager, HostConnects, Establishes, FailsToConnect,
                      HostDisconnects, DeviceRemoved, Happens
  <2> QED BY <1>2, <2>1, <2>2 DEF Manages, ServerHears
<1>3. CASE Master
  <2>1. CASE MasterRejects
    <3>1. /\ 1 \in 1..Len(events) /\ Head(events) = events[1]
          /\ events[1].type = "CONNECT_REQUEST"
      BY <2>1 DEF MasterRejects, MasterGets, PoolInv, TypeOK
    <3>2. conn[Head(events).id] = "requested"
      BY <3>1 DEF PoolInv, Protocol, EventsInv, Told
    <3> QED BY <1>0, <2>1, <3>2 DEF MasterRejects, Reached
  <2>2. CASE MasterInitsWorker
    BY <1>0, <2>2 DEF MasterInitsWorker, PoolInv, Protocol, MasterInv, Reached
  <2>3. CASE MasterAccepts
    BY <1>0, <2>3 DEF MasterAccepts, PoolInv, Protocol, MasterInv, Reached
  <2>4. CASE \/ MasterAdmits \/ MasterTakes \/ MasterReturnsSlot \/ MasterDrops
             \/ MasterGetsEstablished \/ MasterStartsWorker \/ MasterLogs
             \/ MasterGetsRemoval \/ MasterLooksUp \/ MasterMarksError
    BY <2>4 DEF MasterAdmits, MasterTakes, MasterReturnsSlot, MasterDrops,
                MasterGetsEstablished, MasterStartsWorker, MasterLogs,
                MasterGetsRemoval, MasterLooksUp, MasterMarksError
  <2> QED BY <1>3, <2>1, <2>2, <2>3, <2>4 DEF Master
<1> QED BY <1>1, <1>2, <1>3 DEF ServerDoes

LEMMA ServedStep ==
  ASSUME PoolInv, ContextInv, ServedInv, [SystemNext]_systemVars
  PROVE  ServedInv'
<1>0. ContextTypeOK
  BY DEF ContextInv
<1>1. CASE Setup /\ UNCHANGED poolVars
  <2>1. CASE SetupEnds
    <3>1. comm_state \in {INIT, READY, CONNECTED, ERROR}
      BY <2>1 DEF SetupEnds, ContextInv, SetupInv
    <3> QED BY <1>1, <2>1, <3>1 DEF SetupEnds, SetupResult, ServedInv, OneResolution,
                               NoResolution, InChannel, poolVars, INIT, READY,
                               CONNECTED, ERROR
  <2>2. CASE HandleAddrResolved
    <3>1. /\ OneResolution' /\ NoResolution' /\ ~NoResolution
          /\ InChannel("ESTABLISHED")' => InChannel("ESTABLISHED")
      BY <1>0, <2>2, HandlesResolution, HandlesChannel
         DEF HandleAddrResolved, CmEvents, Resolutions, ServedInv
    <3>2. app = "setup" /\ app' = "setup" /\ comm_state' = READY
      BY <2>2 DEF HandleAddrResolved, Handles
    <3>3. cm # "established" /\ cm' \in {"route", cm}
      BY <2>2, <3>1 DEF HandleAddrResolved, ServedInv
    <3> QED BY <3>1, <3>2, <3>3 DEF ServedInv, READY, CONNECTED
  <2>3. CASE ConnectFails
    <3>1. /\ OneResolution' /\ NoResolution' /\ ~NoResolution
          /\ InChannel("ESTABLISHED")' => InChannel("ESTABLISHED")
      BY <1>0, <2>3, HandlesResolution, HandlesChannel
         DEF ConnectFails, CmEvents, Resolutions, ServedInv
    <3> QED BY <2>3, <3>1 DEF ConnectFails, Handles, ServedInv
  <2>4. CASE HandleEstablished
    <3>1. /\ OneResolution' /\ (NoResolution => NoResolution')
          /\ InChannel("ESTABLISHED")
      BY <1>0, <2>4, HandlesResolution, HandlesChannel
         DEF HandleEstablished, CmEvents, ServedInv
    <3> QED BY <1>1, <2>4, <3>1 DEF HandleEstablished, Handles, ServedInv, poolVars
  <2>5. CASE HandleError \/ HandleOther
    <3>1. PICK event \in CmEvents : /\ Handles(event)
                                    /\ comm_state' \in {comm_state, ERROR}
                                    /\ UNCHANGED cm
      BY <2>5 DEF HandleError, HandleOther, CmEvents
    <3>2. /\ OneResolution' /\ (NoResolution => NoResolution')
          /\ InChannel("ESTABLISHED")' => InChannel("ESTABLISHED")
      BY <1>0, <3>1, HandlesResolution, HandlesChannel DEF CmEvents, ServedInv
    <3> QED BY <1>1, <3>1, <3>2 DEF Handles, ServedInv, poolVars, ERROR, CONNECTED
  <2> QED BY <1>1, <2>1, <2>2, <2>3, <2>4, <2>5 DEF Setup
<1>2. CASE Connects
  <2>1. /\ OneResolution' /\ NoResolution' /\ ~NoResolution
        /\ InChannel("ESTABLISHED")' => InChannel("ESTABLISHED")
    BY <1>0, <1>2, HandlesResolution, HandlesChannel
       DEF Connects, HandleRouteResolved, CmEvents, Resolutions, ServedInv
  <2>2. cm # "established"
    BY <2>1 DEF ServedInv
  <2> QED BY <1>2, <2>1, <2>2 DEF Connects, HandleRouteResolved, Handles, ServedInv
<1>3. CASE HostCleansUp
  <2>1. app = "cleanup" /\ cm_events' = cm_events
        /\ app' \in {"cleanup", "cleaned", "crashed"} /\ cm' \in {cm, "over"}
    BY <1>3 DEF HostCleansUp, Cleanup, Releases, Skips, FollowsUnset, Looks, CleanupEnds
  <2> QED BY <1>3, <2>1 DEF HostCleansUp, ServedInv, OneResolution, NoResolution, poolVars
<1>4. CASE HostDoes
  <2>1. CASE CallSetup \/ RegisterMrs \/ UseConnection
    BY <1>4, <2>1 DEF HostDoes, CallSetup, RegisterMrs, UseConnection, ServedInv,
       OneResolution, NoResolution, InChannel, poolVars
  <2>2. CASE CallCleanup \/ HostCrashes \/ RegisterUnconnected
    <3>1. cm_events' = cm_events /\ app' \in {"cleanup", "gone", "crashed"}
          /\ cm' \in {cm, "disconnected", "over"}
      BY <2>2 DEF CallCleanup, HostCrashes, RegisterUnconnected
    <3> QED BY <1>4, <3>1 DEF HostDoes, ServedInv, OneResolution, NoResolution, poolVars
  <2> QED BY <1>4, <2>1, <2>2 DEF HostDoes
<1>5. CASE Resolves
  <2>1. PICK event \in CmEvents : /\ Tells(event) /\ event # "ESTABLISHED"
                                  /\ cm \in {"addr", "route"} /\ cm' = "idle"
    BY <1>5 DEF Resolves, ResolvesAddr, ResolvesRoute, CmEvents, ErrorEvents
  <2>2. OneResolution' /\ (InChannel("ESTABLISHED")' => InChannel("ESTABLISHED"))
    BY <1>0, <2>1, TellsResolution DEF ServedInv
  <2> QED BY <2>1, <2>2 DEF Tells, ServedInv
<1>6. CASE HostLosesDevice
  <2>1. Tells("DEVICE_REMOVAL") /\ UNCHANGED <<cm, conn>>
    BY <1>6 DEF HostLosesDevice, LosesDevice, poolVars
  <2>2. /\ OneResolution' /\ (NoResolution => NoResolution')
        /\ InChannel("ESTABLISHED")' => InChannel("ESTABLISHED")
    BY <1>0, <2>1, TellsResolution DEF CmEvents, ErrorEvents, Resolutions, ServedInv
  <2> QED BY <2>1, <2>2 DEF Tells, ServedInv
<1>7. CASE HearsAnswer
  <2>1. PICK event \in CmEvents :
          /\ Tells(event) /\ event \notin Resolutions /\ cm = "connect"
          /\ \/ cm' \in {"over", "idle"} /\ event # "ESTABLISHED"
             \/ cm' = "established" /\ conn[Host] = "accepted"
    BY <1>7 DEF HearsAnswer, Hears, CmEvents, ErrorEvents, Resolutions
  <2>2. /\ OneResolution' /\ NoResolution'
        /\ InChannel("ESTABLISHED")' => InChannel("ESTABLISHED") \/ event = "ESTABLISHED"
    BY <1>0, <2>1, TellsResolution DEF ServedInv
  <2> QED BY <1>7, <2>1, <2>2 DEF HearsAnswer, Tells, ServedInv, Reached, poolVars
<1>8. CASE ServerDoes
  <2>1. UNCHANGED <<comm_state, cm, cm_events, app>>
    BY <1>8 DEF ServerDoes, contextVars
  <2>2. cm = "established" => conn'[Host] \in Reached
    BY <1>8, StaysReached DEF ServedInv
  <2> QED BY <2>1, <2>2 DEF ServedInv, OneResolution, NoResolution, InChannel
<1>9. CASE UNCHANGED systemVars
  BY <1>9 DEF systemVars, contextVars, poolVars, ServedInv, OneResolution,
              NoResolution, InChannel
<1> QED BY <1>1, <1>2, <1>3, <1>4, <1>5, <1>6, <1>7, <1>8, <1>9
        DEF SystemNext, HostSetsUp

(* A context whose setup has succeeded has all its resources and is served: *)
(* its connection was accepted, and until its worker ends the server keeps  *)
(* its context in the slot that the connection refers to.                   *)
THEOREM ConnectedIsServed == SystemSpec => []SetupMeansServed
<1>1. SystemInit => ServedInv
  BY DEF SystemInit, ContextInit, ServedInv, OneResolution, NoResolution,
         InChannel, INIT, CONNECTED
<1>2. PoolInv /\ ContextInv /\ ServedInv => SetupMeansServed
  <2> SUFFICES ASSUME PoolInv, ContextInv, ServedInv, app = "up"
               PROVE  /\ Range(RdmaResources) \subseteq live
                      /\ conn[Host] \in Reached
                      /\ thread[Host] = "none" =>
                           Host \in contexts /\ worker[id_context[Host]] = Host
    BY DEF SetupMeansServed, Reached
  <2>1. "qp" \in live
    BY DEF ContextInv, SetupInv
  <2>2. "pd" \in live /\ "cq" \in live
    BY <2>1 DEF ContextInv, DependenciesLive, UsersOf, UsedBy
  <2>3. "comp_channel" \in live
    BY <2>2 DEF ContextInv, DependenciesLive, UsersOf, UsedBy
  <2>4. conn[Host] \in Reached
    BY DEF ServedInv
  <2>5. thread[Host] = "none" => Holds(Host)
    BY <2>4 DEF Reached, Holds
  <2> QED BY <2>1, <2>2, <2>3, <2>4, <2>5, RdmaNames, HostAssumption
          DEF Rdma, PoolInv, ContextsInPlace
<1> QED BY <1>1, <1>2, ServedStep, ContextInvariant, ServerImplemented, PoolInvariant,
           PTL DEF SystemSpec

===============================================================================
