--------------------------- MODULE ServerPoolProofs ---------------------------
(***************************************************************************)
(* Proofs about the connection slots of the server (ServerPool), for any   *)
(* number of slots and connections and under every fault: the slot array,  *)
(* the workers and the contexts never disagree.                            *)
(*                                                                         *)
(* SlotOwnership and ContextsInPlace are not inductive by themselves: that *)
(* a connection does not come to hold its slot twice rests on every event  *)
(* being told once, and on where its connection is by then.                *)
(***************************************************************************)
EXTENDS ServerPool, TLAPS

\* How far a connection is once the event of a type has been told.
Told(type) ==
  IF type = "CONNECT_REQUEST" THEN {"requested"}
  ELSE IF type = "CONNECT_ERROR" THEN {"failed"}
  ELSE IF type = "DISCONNECTED" THEN {"disconnected", "removed"}
  ELSE IF type = "DEVICE_REMOVAL" THEN {"removed"}
  ELSE {"established", "disconnected", "removed"}   \* ESTABLISHED

Event(type, c) == [type |-> type, id |-> c]
Queued(event) == \E i \in 1..Len(events) : events[i] = event

\* Every event is told once, of a connection that is that far.
EventsInv ==
  /\ \A i, j \in 1..Len(events) : events[i] = events[j] => i = j
  /\ \A i \in 1..Len(events) :
       /\ conn[events[i].id] \in Told(events[i].type)
       /\ events[i].type = "ESTABLISHED" => thread[events[i].id] = "none"

\* What the master knows of the event it is handling.
MasterInv ==
  /\ master_pc \notin {"poll", "crashed"} => master_id \in Connections
  /\ master_pc \in {"take", "init"} =>
       /\ conn[master_id] = "requested"
       /\ ~Queued(Event("CONNECT_REQUEST", master_id))
  /\ master_pc = "take" => free # <<>>
  /\ master_pc = "accept" => conn[master_id] = "pending" /\ id_context[master_id] = master_slot
  /\ master_pc = "start" =>
       /\ conn[master_id] \in Told("ESTABLISHED") /\ thread[master_id] = "none"
       /\ ~Queued(Event("ESTABLISHED", master_id))

\* Only an established connection has a thread.
ThreadsInv ==
  \A c \in Connections : thread[c] # "none" => conn[c] \in Told("ESTABLISHED")

Protocol == EventsInv /\ MasterInv /\ ThreadsInv

-------------------------------------------------------------------------------
(* Sequences.                                                              *)

LEMMA AppendElements ==
  ASSUME NEW X, NEW s \in Seq(X), NEW x \in X
  PROVE  /\ Append(s, x) \in Seq(X) /\ Len(Append(s, x)) = Len(s) + 1
         /\ Len(s) \in Nat
         /\ \A i \in 1..Len(s) : Append(s, x)[i] = s[i]
         /\ Append(s, x)[Len(s) + 1] = x
  OBVIOUS

LEMMA TailElements ==
  ASSUME NEW X, NEW s \in Seq(X), s # <<>>
  PROVE  /\ Tail(s) \in Seq(X) /\ Len(Tail(s)) = Len(s) - 1
         /\ Len(s) \in Nat /\ Len(s) > 0
         /\ \A i \in 1..Len(Tail(s)) : Tail(s)[i] = s[i + 1]
         /\ Head(s) = s[1] /\ Head(s) \in X
  OBVIOUS

LEMMA FrontElements ==
  ASSUME NEW X, NEW s \in Seq(X), s # <<>>
  PROVE  /\ TopSlotOff(s) \in Seq(X) /\ Len(TopSlotOff(s)) = Len(s) - 1
         /\ Len(s) \in Nat /\ Len(s) > 0
         /\ \A i \in 1..(Len(s) - 1) : TopSlotOff(s)[i] = s[i]
         /\ s[Len(s)] \in X
<1>1. Len(s) \in Nat /\ Len(s) > 0
  OBVIOUS
<1>2. Len(s) - 1 \in Nat /\ 1..(Len(s) - 1) \subseteq 1..Len(s)
  BY <1>1
<1>3. \A i \in 1..Len(s) : s[i] \in X
  OBVIOUS
<1>4. TopSlotOff(s) = [i \in 1..(Len(s) - 1) |-> s[i]]
  BY <1>2 DEF TopSlotOff
<1>5. TopSlotOff(s) \in Seq(X)
  BY <1>2, <1>3, <1>4
<1>6. Len(TopSlotOff(s)) = Len(s) - 1
  BY <1>2, <1>4
<1>7. \A i \in 1..(Len(s) - 1) : TopSlotOff(s)[i] = s[i]
  BY <1>4
<1> QED BY <1>1, <1>3, <1>5, <1>6, <1>7

-------------------------------------------------------------------------------
(* Type correctness.                                                       *)

EventSet == [type : EventTypes, id : Connections]

LEMMA HappensType ==
  ASSUME TypeOK, NEW c \in Connections, NEW before, NEW after \in Progress,
         NEW type \in EventTypes, Happens(c, before, after, type),
         ids' \subseteq Connections
  PROVE  TypeOK'
<1>1. Event(type, c) \in EventSet
  BY DEF Event, EventSet
<1>2. events' \in Seq(EventSet)
  BY <1>1, AppendElements DEF Happens, TypeOK, EventSet, Event
<1> QED BY <1>2 DEF Happens, TypeOK, EventSet

LEMMA MasterGetsType ==
  ASSUME TypeOK, NEW type, NEW pc, MasterGets(type, pc),
         pc \in {"poll", "take", "start", "lookup"},
         conn' \in [Connections -> Progress], UNCHANGED free
  PROVE  TypeOK'
<1>1. events' \in Seq(EventSet) /\ master_id' \in Connections
  <2>1. events \in Seq(EventSet) /\ events # <<>>
    BY DEF TypeOK, MasterGets, EventSet
  <2>2. Tail(events) \in Seq(EventSet) /\ Head(events) \in EventSet
    BY <2>1, TailElements
  <2> QED BY <2>2 DEF MasterGets, EventSet
<1> QED BY <1>1 DEF MasterGets, TypeOK, EventSet

LEMMA TypeNext ==
  ASSUME TypeOK, MasterInv, [Next]_poolVars
  PROVE  TypeOK'
<1>1. CASE MasterRejects
  <2>1. Head(events) \in EventSet
    BY <1>1, TailElements DEF MasterRejects, MasterGets, TypeOK, EventSet
  <2>2. conn' \in [Connections -> Progress]
    BY <1>1, <2>1 DEF MasterRejects, TypeOK, Progress, EventSet
  <2> QED BY <1>1, <2>2, MasterGetsType DEF MasterRejects
<1>2. CASE MasterAdmits
  BY <1>2, MasterGetsType DEF MasterAdmits, TypeOK
<1>3. CASE MasterTakes
  <2>1. free # <<>>
    BY <1>3 DEF MasterTakes, MasterInv
  <2>2. free' \in Seq(Slots) /\ master_slot' \in Slots
    BY <1>3, <2>1, FrontElements DEF MasterTakes, TypeOK
  <2> QED BY <1>3, <2>2 DEF MasterTakes, TypeOK
<1>4. CASE MasterInitsWorker
  <2>1. master_id \in Connections
    BY <1>4 DEF MasterInitsWorker, MasterInv
  <2> QED BY <1>4, <2>1 DEF MasterInitsWorker, Crashes, TypeOK, Progress
<1>5. CASE MasterReturnsSlot
  BY <1>5, AppendElements DEF MasterReturnsSlot, TypeOK
<1>6. CASE MasterAccepts
  BY <1>6 DEF MasterAccepts, Crashes, CleansUp, TypeOK, Progress
<1>7. CASE MasterDrops
  BY <1>7, AppendElements DEF MasterDrops, TypeOK
<1>8. CASE MasterGetsEstablished
  BY <1>8, MasterGetsType DEF MasterGetsEstablished, TypeOK
<1>9. CASE MasterStartsWorker
  BY <1>9 DEF MasterStartsWorker, TypeOK
<1>10. CASE MasterLogs
  BY <1>10, MasterGetsType DEF MasterLogs, TypeOK
<1>11. CASE MasterGetsRemoval
  BY <1>11, MasterGetsType DEF MasterGetsRemoval, TypeOK
<1>12. CASE MasterLooksUp
  <2>1. master_id \in Connections
    BY <1>12 DEF MasterLooksUp, MasterInv
  <2>2. master_slot' \in Slots /\ master_pc' \in {"error", "poll"}
    BY <1>12, <2>1 DEF MasterLooksUp, TypeOK
  <2> QED BY <1>12, <2>2 DEF MasterLooksUp, TypeOK
<1>13. CASE MasterMarksError
  BY <1>13 DEF MasterMarksError, Crashes, TypeOK
<1>14. ASSUME NEW c \in Connections, Worker(c) PROVE TypeOK'
  <2>1. CASE WorkerCleansUp(c)
    BY <2>1 DEF WorkerCleansUp, CleansUp, TypeOK
  <2>2. CASE WorkerReturnsSlot(c)
    BY <2>2, AppendElements DEF WorkerReturnsSlot, Pushed, TypeOK
  <2>3. CASE WorkerCrashes(c)
    BY <2>3 DEF WorkerCrashes, Crashes, TypeOK
  <2> QED BY <1>14, <2>1, <2>2, <2>3 DEF Worker
<1>15. ASSUME NEW c \in Connections, Manager(c) PROVE TypeOK'
  <2>1. ids' \subseteq Connections
    BY <1>15 DEF Manager, HostConnects, Establishes, FailsToConnect,
                 HostDisconnects, DeviceRemoved, TypeOK
  <2> QED BY <1>15, <2>1, HappensType
          DEF Manager, HostConnects, Establishes, FailsToConnect,
              HostDisconnects, DeviceRemoved, Progress, EventTypes
<1>16. CASE UNCHANGED poolVars
  BY <1>16 DEF poolVars, TypeOK
<1> QED BY <1>1, <1>2, <1>3, <1>4, <1>5, <1>6, <1>7, <1>8, <1>9, <1>10, <1>11,
           <1>12, <1>13, <1>14, <1>15, <1>16 DEF Next, Master

-------------------------------------------------------------------------------
(* The protocol between the connection manager and the master.             *)

LEMMA EventParts ==
  ASSUME TypeOK, NEW i \in 1..Len(events)
  PROVE  /\ events[i] = Event(events[i].type, events[i].id)
         /\ events[i].id \in Connections /\ events[i].type \in EventTypes
<1>1. events[i] \in EventSet
  <2>1. events \in Seq(EventSet)
    BY DEF TypeOK, EventSet
  <2> QED BY <2>1
<1> QED BY <1>1 DEF EventSet, Event

LEMMA EventFields ==
  ASSUME NEW type, NEW c
  PROVE  Event(type, c).type = type /\ Event(type, c).id = c
  BY DEF Event

\* The steps the connection manager makes, as <<before, after, event>>.
Advances == {<<{"none"}, "requested", "CONNECT_REQUEST">>,
             <<{"accepted"}, "established", "ESTABLISHED">>,
             <<{"accepted"}, "failed", "CONNECT_ERROR">>,
             <<{"established"}, "disconnected", "DISCONNECTED">>,
             <<{"established", "disconnected"}, "removed", "DEVICE_REMOVAL">>}

LEMMA AdvancesTold ==
  ASSUME NEW before, NEW after, NEW type, <<before, after, type>> \in Advances
  PROVE  /\ type \in EventTypes
         /\ before \cap Told(type) = {} /\ after \in Told(type)
         /\ \A t \in EventTypes : before \cap Told(t) # {} => after \in Told(t)
         /\ before \cap {"requested", "pending"} = {}
         /\ type = "CONNECT_REQUEST" => before = {"none"}
         /\ type = "ESTABLISHED" => before = {"accepted"}
  BY DEF Advances, Told, EventTypes

LEMMA ManagerProtocol ==
  ASSUME TypeOK, Protocol, NEW c \in Connections,
         NEW before, NEW after, NEW type, Happens(c, before, after, type),
         <<before, after, type>> \in Advances
  PROVE  Protocol'
<1> DEFINE new == Event(type, c)
<1>1. /\ type \in EventTypes
      /\ before \cap Told(type) = {} /\ after \in Told(type)
      /\ \A t \in EventTypes : before \cap Told(t) # {} => after \in Told(t)
      /\ before \cap {"requested", "pending"} = {}
      /\ type = "CONNECT_REQUEST" => before = {"none"}
      /\ type = "ESTABLISHED" => before = {"accepted"}
  BY AdvancesTold
<1>2. /\ conn[c] \in before /\ conn'[c] = after
      /\ \A d \in Connections : d # c => conn'[d] = conn[d]
      /\ UNCHANGED <<free, id_context, master_pc, master_id, master_slot, thread>>
  BY DEF Happens, TypeOK
<1>3. /\ Len(events) \in Nat /\ Len(events') = Len(events) + 1
      /\ \A i \in 1..Len(events) : events'[i] = events[i]
      /\ events'[Len(events) + 1] = new
  <2>1. new \in EventSet /\ events \in Seq(EventSet)
    BY <1>1 DEF Event, EventSet, TypeOK
  <2>2. events' = Append(events, new)
    BY DEF Happens, Event
  <2> HIDE DEF new
  <2> QED BY <2>1, <2>2, AppendElements
<1>4. new.type = type /\ new.id = c
  BY EventFields
<1> HIDE DEF new
<1>5. \A i \in 1..Len(events) : events[i] # new
  BY <1>1, <1>2, <1>4 DEF Protocol, EventsInv
<1>6. \A i \in 1..Len(events) : conn'[events[i].id] \in Told(events[i].type)
  BY <1>1, <1>2, EventParts DEF Protocol, EventsInv
<1>7. thread[c] # "none" => conn[c] \in Told("ESTABLISHED")
  BY DEF Protocol, ThreadsInv
<1>8. EventsInv'
  <2>1. \A i, j \in 1..Len(events') : events'[i] = events'[j] => i = j
    BY <1>3, <1>5 DEF Protocol, EventsInv
  <2>2. \A i \in 1..Len(events') :
          /\ conn'[events'[i].id] \in Told(events'[i].type)
          /\ events'[i].type = "ESTABLISHED" => thread'[events'[i].id] = "none"
    <3> SUFFICES ASSUME NEW i \in 1..Len(events')
                 PROVE  /\ conn'[events'[i].id] \in Told(events'[i].type)
                        /\ events'[i].type = "ESTABLISHED"
                             => thread'[events'[i].id] = "none"
      OBVIOUS
    <3>1. CASE i \in 1..Len(events)
      BY <1>2, <1>3, <1>6, <3>1 DEF Protocol, EventsInv
    <3>2. CASE i = Len(events) + 1
      <4>1. type = "ESTABLISHED" => conn[c] = "accepted"
        BY <1>1, <1>2
      <4>2. "accepted" \notin Told("ESTABLISHED")
        BY DEF Told
      <4> QED BY <1>1, <1>2, <1>3, <1>4, <1>7, <3>2, <4>1, <4>2
    <3> QED BY <1>3, <3>1, <3>2
  <2> QED BY <2>1, <2>2 DEF EventsInv
<1>9. ASSUME NEW t, NEW d, ~Queued(Event(t, d)), t = type => d # c
      PROVE  ~Queued(Event(t, d))'
  <2>1. Event(t, d) # new
    BY <1>4, <1>9, EventFields
  <2> QED BY <1>3, <1>9, <2>1 DEF Queued, Event
<1>10. MasterInv'
  <2>1. CASE master_pc \in {"take", "init"}
    <3>1. conn[master_id] = "requested" /\ ~Queued(Event("CONNECT_REQUEST", master_id))
          /\ master_id \in Connections /\ (master_pc = "take" => free # <<>>)
      BY <2>1 DEF Protocol, MasterInv
    <3>2. master_id # c
      BY <1>1, <1>2, <3>1
    <3>3. ~Queued(Event("CONNECT_REQUEST", master_id))'
      BY <1>2, <1>9, <3>1, <3>2 DEF Queued, Event
    <3> QED BY <1>2, <2>1, <3>1, <3>2, <3>3 DEF MasterInv
  <2>2. CASE master_pc = "start"
    <3>1. /\ conn[master_id] \in Told("ESTABLISHED") /\ thread[master_id] = "none"
          /\ ~Queued(Event("ESTABLISHED", master_id)) /\ master_id \in Connections
      BY <2>2 DEF Protocol, MasterInv
    <3>2. conn'[master_id] \in Told("ESTABLISHED")
      BY <1>1, <1>2, <3>1 DEF EventTypes
    <3>3. type = "ESTABLISHED" => master_id # c
      BY <1>1, <1>2, <3>1 DEF Told
    <3>4. ~Queued(Event("ESTABLISHED", master_id))'
      BY <1>2, <1>9, <3>1, <3>3 DEF Queued, Event
    <3> QED BY <1>2, <2>2, <3>1, <3>2, <3>4 DEF MasterInv
  <2>3. CASE master_pc \notin {"take", "init", "start"}
    BY <1>1, <1>2, <2>3 DEF Protocol, MasterInv
  <2> QED BY <2>1, <2>2, <2>3
<1>11. ThreadsInv'
  BY <1>1, <1>2 DEF Protocol, ThreadsInv, EventTypes
<1> QED BY <1>8, <1>10, <1>11 DEF Protocol

\* Taking an event: what the master knows of it from then on.
LEMMA GetsProtocol ==
  ASSUME TypeOK, Protocol, NEW type, NEW pc, MasterGets(type, pc),
         UNCHANGED free, pc # "accept", pc = "take" => free # <<>>,
         pc \in {"take", "init"} => type = "CONNECT_REQUEST",
         pc = "start" => type = "ESTABLISHED",
         \/ UNCHANGED conn
         \/ /\ type = "CONNECT_REQUEST" /\ pc = "poll"
            /\ conn' = [conn EXCEPT ![Head(events).id] = "rejected"]
  PROVE  Protocol'
<1> DEFINE c == Head(events).id
<1>1. /\ Len(events) \in Nat /\ Len(events) > 0
      /\ Len(events') = Len(events) - 1
      /\ \A i \in 1..Len(events') : events'[i] = events[i + 1] /\ i + 1 \in 1..Len(events)
      /\ Head(events) = events[1] /\ 1 \in 1..Len(events)
  <2>1. events \in Seq(EventSet) /\ events # <<>> /\ events' = Tail(events)
    BY DEF TypeOK, EventSet, MasterGets
  <2> QED BY <2>1, TailElements
<1>2. /\ events[1] = Event(type, c) /\ c \in Connections
      /\ master_id' = c /\ master_pc' = pc
      /\ conn[c] \in Told(type)
      /\ type = "ESTABLISHED" => thread[c] = "none"
  BY <1>1, EventParts DEF MasterGets, Protocol, EventsInv
<1>3. UNCHANGED <<free, thread, id_context, master_slot>>
  BY DEF MasterGets
<1> HIDE DEF c
<1>4. \A i \in 1..Len(events') : events'[i] # Event(type, c)
  BY <1>1, <1>2 DEF Protocol, EventsInv
<1>5. \A d \in Connections : conn'[d] = conn[d] \/
                              (d = c /\ type = "CONNECT_REQUEST" /\ pc = "poll")
  BY DEF TypeOK, c
<1>6. \A i \in 1..Len(events') : type = "CONNECT_REQUEST" => events'[i].id # c
  <2> SUFFICES ASSUME NEW i \in 1..Len(events'), type = "CONNECT_REQUEST",
                      events'[i].id = c
               PROVE  FALSE
    OBVIOUS
  <2>1. conn[c] = "requested"
    BY <1>2 DEF Told
  <2>2. /\ events[i + 1].id = c /\ events[i + 1].type \in EventTypes
        /\ conn[c] \in Told(events[i + 1].type)
        /\ events[i + 1] = Event(events[i + 1].type, c)
    BY <1>1, EventParts DEF Protocol, EventsInv
  <2>3. events[i + 1].type = "CONNECT_REQUEST"
    BY <2>1, <2>2 DEF Told, EventTypes
  <2>4. events[i + 1] = events[1]
    BY <1>2, <2>2, <2>3
  <2> QED BY <1>1, <2>4 DEF Protocol, EventsInv
<1>7. EventsInv'
  <2>1. \A i, j \in 1..Len(events') : events'[i] = events'[j] => i = j
    BY <1>1 DEF Protocol, EventsInv
  <2>2. \A i \in 1..Len(events') :
          /\ conn'[events'[i].id] \in Told(events'[i].type)
          /\ events'[i].type = "ESTABLISHED" => thread'[events'[i].id] = "none"
    BY <1>1, <1>3, <1>5, <1>6, EventParts DEF Protocol, EventsInv
  <2> QED BY <2>1, <2>2 DEF EventsInv
<1>8. MasterInv'
  <2>1. CASE pc \in {"take", "init"}
    <3>1. conn'[c] = "requested"
      BY <1>2, <1>5, <2>1 DEF Told
    <3> QED BY <1>2, <1>3, <1>4, <2>1, <3>1 DEF MasterInv, Queued, Event
  <2>2. CASE pc = "start"
    <3>1. conn'[c] \in Told("ESTABLISHED") /\ thread'[c] = "none"
      BY <1>2, <1>3, <1>5, <2>2
    <3> QED BY <1>2, <1>3, <1>4, <2>2, <3>1 DEF MasterInv, Queued, Event
  <2>3. CASE pc \notin {"take", "init", "start", "accept"}
    BY <1>2, <2>3 DEF MasterInv
  <2> QED BY <2>1, <2>2, <2>3
<1>9. ThreadsInv'
  BY <1>2, <1>3, <1>5 DEF Protocol, ThreadsInv, Told
<1> QED BY <1>7, <1>8, <1>9 DEF Protocol

\* While a connection is requested or pending no other event of it is queued.
LEMMA NoneOfIt ==
  ASSUME TypeOK, EventsInv, NEW c \in Connections,
         \/ conn[c] = "requested" /\ ~Queued(Event("CONNECT_REQUEST", c))
         \/ conn[c] = "pending"
  PROVE  \A i \in 1..Len(events) : events[i].id # c
<1> SUFFICES ASSUME NEW i \in 1..Len(events), events[i].id = c PROVE FALSE
  OBVIOUS
<1>1. /\ events[i] = Event(events[i].type, c) /\ events[i].type \in EventTypes
      /\ conn[c] \in Told(events[i].type)
  BY EventParts DEF EventsInv
<1>2. events[i].type = "CONNECT_REQUEST" /\ conn[c] = "requested"
  BY <1>1 DEF Told, EventTypes
<1> QED BY <1>1, <1>2 DEF Queued

\* A step of the master on the connection it has in hand.
LEMMA StepProtocol ==
  ASSUME TypeOK, Protocol, master_id \in Connections,
         \A i \in 1..Len(events) : events[i].id # master_id,
         thread[master_id] = "none",
         \A c \in Connections : c # master_id => conn'[c] = conn[c],
         master_pc' \in {"poll", "accept", "unslot", "drop", "crashed"},
         master_pc' = "accept" => /\ conn'[master_id] = "pending"
                                  /\ id_context'[master_id] = master_slot,
         UNCHANGED <<events, thread, master_id, master_slot>>
  PROVE  Protocol'
<1>1. EventsInv'
  BY EventParts DEF Protocol, EventsInv
<1>2. MasterInv'
  BY DEF MasterInv
<1>3. ThreadsInv'
  BY DEF Protocol, ThreadsInv
<1> QED BY <1>1, <1>2, <1>3 DEF Protocol

\* The connection whose thread the master starts is the one it has in hand.
LEMMA StartsItsOwn ==
  ASSUME TypeOK, Protocol, ContextsInPlace, MasterStartsWorker
  PROVE  /\ master_id \in Connections /\ Holds(master_id)
         /\ worker[id_context[master_id]] = master_id
         /\ thread[master_id] = "none"
         /\ conn[master_id] \in Told("ESTABLISHED")
<1>1. /\ master_id \in Connections /\ thread[master_id] = "none"
      /\ conn[master_id] \in Told("ESTABLISHED")
  BY DEF MasterStartsWorker, Protocol, MasterInv
<1>2. Holds(master_id)
  BY <1>1 DEF Told, Holds
<1> QED BY <1>1, <1>2 DEF ContextsInPlace

\* In a crash everything stays as it is.
LEMMA CrashProtocol ==
  ASSUME Protocol, Crashes, UNCHANGED <<conn, events, thread>>
  PROVE  Protocol'
  BY DEF Crashes, Protocol, EventsInv, MasterInv, ThreadsInv

LEMMA WorkerProtocol ==
  ASSUME TypeOK, Protocol, NEW c \in Connections, thread[c] # "none",
         thread' = [thread EXCEPT ![c] = thread'[c]], thread'[c] # "none",
         free # <<>> => free' # <<>>,
         UNCHANGED <<conn, events, id_context, master_pc, master_id, master_slot>>
  PROVE  Protocol'
<1>1. EventsInv'
  BY EventParts DEF Protocol, EventsInv, TypeOK
<1>2. MasterInv'
  BY DEF Protocol, MasterInv, Queued, TypeOK
<1>3. ThreadsInv'
  BY DEF Protocol, ThreadsInv, TypeOK
<1> QED BY <1>1, <1>2, <1>3 DEF Protocol

LEMMA ProtocolNext ==
  ASSUME TypeOK, Protocol, ContextsInPlace, [Next]_poolVars
  PROVE  Protocol'
<1>1. CASE MasterRejects
  BY <1>1, GetsProtocol DEF MasterRejects
<1>2. CASE MasterAdmits
  BY <1>2, GetsProtocol DEF MasterAdmits
<1>3. CASE MasterTakes
  <2>1. EventsInv' /\ ThreadsInv'
    BY <1>3 DEF MasterTakes, Protocol, EventsInv, ThreadsInv
  <2>2. MasterInv'
    BY <1>3 DEF MasterTakes, Protocol, MasterInv, Queued
  <2> QED BY <2>1, <2>2 DEF Protocol
<1>4. CASE MasterInitsWorker
  <2>1. /\ master_id \in Connections /\ conn[master_id] = "requested"
        /\ ~Queued(Event("CONNECT_REQUEST", master_id))
    BY <1>4 DEF MasterInitsWorker, Protocol, MasterInv
  <2>2. thread[master_id] = "none"
    BY <2>1 DEF Protocol, ThreadsInv, Told
  <2>3. \A i \in 1..Len(events) : events[i].id # master_id
    BY <2>1, NoneOfIt DEF Protocol
  <2>4. CASE Crashes
    BY <1>4, <2>1, <2>4, CrashProtocol DEF MasterInitsWorker, Crashes
  <2>5. CASE ~Crashes
    BY <1>4, <2>1, <2>2, <2>3, <2>5, StepProtocol
       DEF MasterInitsWorker, TypeOK
  <2> QED BY <2>4, <2>5
<1>5. CASE MasterAccepts
  <2>1. master_id \in Connections /\ conn[master_id] = "pending"
    BY <1>5 DEF MasterAccepts, Protocol, MasterInv
  <2>2. thread[master_id] = "none"
    BY <2>1 DEF Protocol, ThreadsInv, Told
  <2>3. \A i \in 1..Len(events) : events[i].id # master_id
    BY <2>1, NoneOfIt DEF Protocol
  <2> QED BY <1>5, <2>1, <2>2, <2>3, StepProtocol
          DEF MasterAccepts, Crashes, TypeOK
<1>6. CASE \/ MasterReturnsSlot \/ MasterDrops \/ MasterLooksUp
           \/ MasterMarksError
  <2>1. /\ master_pc' \in {"poll", "error", "crashed"}
        /\ master_pc \notin {"poll", "crashed"}
        /\ UNCHANGED <<conn, events, thread, master_id>>
    BY <1>6 DEF MasterReturnsSlot, MasterDrops, MasterLooksUp,
                MasterMarksError, Crashes
  <2> QED BY <2>1 DEF Protocol, EventsInv, MasterInv, ThreadsInv
<1>7. CASE MasterGetsEstablished
  BY <1>7, GetsProtocol DEF MasterGetsEstablished
<1>8. CASE MasterStartsWorker
  <2>1. /\ master_id \in Connections /\ worker[id_context[master_id]] = master_id
        /\ conn[master_id] \in Told("ESTABLISHED")
    BY <1>8, StartsItsOwn
  <2>2. ~Queued(Event("ESTABLISHED", master_id))
    BY <1>8 DEF MasterStartsWorker, Protocol, MasterInv
  <2>3. /\ thread' \in {thread, [thread EXCEPT ![master_id] = "serving"]}
        /\ UNCHANGED <<conn, events>> /\ master_pc' = "poll"
    BY <1>8, <2>1 DEF MasterStartsWorker
  <2>4. \A i \in 1..Len(events) :
          events[i].type = "ESTABLISHED" => events[i].id # master_id
    BY <2>2, EventParts DEF Queued
  <2>5. EventsInv'
    BY <2>1, <2>3, <2>4, EventParts DEF Protocol, EventsInv, TypeOK
  <2>6. MasterInv' /\ ThreadsInv'
    BY <2>1, <2>3 DEF Protocol, MasterInv, ThreadsInv, TypeOK
  <2> QED BY <2>5, <2>6 DEF Protocol
<1>9. CASE MasterLogs
  BY <1>9, GetsProtocol DEF MasterLogs
<1>10. CASE MasterGetsRemoval
  BY <1>10, GetsProtocol DEF MasterGetsRemoval
<1>11. ASSUME NEW c \in Connections, Worker(c) PROVE Protocol'
  <2>1. CASE WorkerCleansUp(c)
    BY <2>1, WorkerProtocol DEF WorkerCleansUp, TypeOK
  <2>2. CASE WorkerReturnsSlot(c)
    <3>1. free' # <<>>
      BY <2>2, AppendElements DEF WorkerReturnsSlot, Pushed, TypeOK
    <3> QED BY <2>2, <3>1, WorkerProtocol DEF WorkerReturnsSlot, TypeOK
  <2>3. CASE WorkerCrashes(c)
    BY <2>3, CrashProtocol DEF WorkerCrashes
  <2> QED BY <1>11, <2>1, <2>2, <2>3 DEF Worker
<1>12. ASSUME NEW c \in Connections, Manager(c) PROVE Protocol'
  BY <1>12, ManagerProtocol
     DEF Manager, HostConnects, Establishes, FailsToConnect, HostDisconnects,
         DeviceRemoved, Advances
<1>13. CASE UNCHANGED poolVars
  BY <1>13 DEF poolVars, Protocol, EventsInv, MasterInv, ThreadsInv, Queued
<1> QED BY <1>1, <1>2, <1>3, <1>4, <1>5, <1>6, <1>7, <1>8, <1>9, <1>10, <1>11,
           <1>12, <1>13 DEF Next, Master

-------------------------------------------------------------------------------
(* The slots.                                                              *)

IsFree(s) == \E i \in 1..Len(free) : free[i] = s
FreeOnce == \A i, j \in 1..Len(free) : free[i] = free[j] => i = j

LEMMA OwnershipForm ==
  SlotOwnership <=>
    /\ FreeOnce
    /\ \A c \in Connections : Holds(c) =>
         /\ ~IsFree(id_context[c])
         /\ \A d \in Connections : Holds(d) /\ id_context[d] = id_context[c]
                                     => d = c
         /\ MasterHolds => id_context[c] # master_slot
    /\ MasterHolds => ~IsFree(master_slot)
    /\ \A s \in Slots : \/ Crashed
                        \/ IsFree(s)
                        \/ MasterHolds /\ master_slot = s
                        \/ \E c \in Connections : Holds(c) /\ id_context[c] = s
  BY DEF SlotOwnership, FreeOnce, IsFree

LEMMA PushSlot ==
  ASSUME TypeOK, FreeOnce, NEW x \in Slots, ~IsFree(x), free' = Append(free, x)
  PROVE  FreeOnce' /\ \A s \in Slots : IsFree(s)' <=> IsFree(s) \/ s = x
<1>1. free \in Seq(Slots)
  BY DEF TypeOK
<1>2. /\ Len(free) \in Nat /\ Len(free') = Len(free) + 1
      /\ \A i \in 1..Len(free) : free'[i] = free[i]
      /\ free'[Len(free) + 1] = x
  BY <1>1, AppendElements
<1>3. FreeOnce'
  BY <1>2 DEF FreeOnce, IsFree
<1>4. ASSUME NEW s \in Slots PROVE IsFree(s)' <=> IsFree(s) \/ s = x
  <2>1. IsFree(s)' => IsFree(s) \/ s = x
    BY <1>2 DEF IsFree
  <2>2. IsFree(s) => IsFree(s)'
    BY <1>2 DEF IsFree
  <2>3. s = x => IsFree(s)'
    <3>1. Len(free) + 1 \in 1..Len(free')
      BY <1>2
    <3> QED BY <1>2, <3>1 DEF IsFree
  <2> QED BY <2>1, <2>2, <2>3
<1> QED BY <1>3, <1>4

LEMMA PopSlot ==
  ASSUME TypeOK, FreeOnce, free # <<>>, free' = TopSlotOff(free)
  PROVE  /\ FreeOnce'
         /\ free[Len(free)] \in Slots /\ IsFree(free[Len(free)])
         /\ \A s \in Slots : IsFree(s)' <=> IsFree(s) /\ s # free[Len(free)]
<1>1. free \in Seq(Slots)
  BY DEF TypeOK
<1>2. /\ Len(free') = Len(free) - 1 /\ Len(free) \in Nat /\ Len(free) > 0
      /\ \A i \in 1..(Len(free) - 1) : free'[i] = free[i]
      /\ free[Len(free)] \in Slots
  BY <1>1, FrontElements
<1>3. Len(free) \in 1..Len(free)
  BY <1>2
<1>4. FreeOnce'
  BY <1>2 DEF FreeOnce
<1>5. ASSUME NEW s \in Slots
      PROVE  IsFree(s)' <=> IsFree(s) /\ s # free[Len(free)]
  BY <1>2, <1>3 DEF IsFree, FreeOnce
<1> QED BY <1>2, <1>3, <1>4, <1>5 DEF IsFree

\* Who holds which slot is as it was.
LEMMA SameOwners ==
  ASSUME SlotOwnership, \A c \in Connections : Holds(c)' <=> Holds(c),
         UNCHANGED <<free, id_context>>,
         Crashed' \/ ((MasterHolds' <=> MasterHolds) /\ (Crashed => Crashed')),
         MasterHolds => UNCHANGED master_slot
  PROVE  SlotOwnership'
<1>1. Crashed' => ~MasterHolds'
  BY DEF Crashed, MasterHolds
<1>2. /\ MasterHolds' => MasterHolds /\ UNCHANGED master_slot
      /\ Crashed => Crashed'
      /\ Crashed' \/ (MasterHolds => MasterHolds')
  BY <1>1
<1> HIDE DEF Crashed, MasterHolds
<1> QED BY <1>2 DEF SlotOwnership

LEMMA SamePlaces ==
  ASSUME ContextsInPlace, \A c \in Connections : Holds(c)' => Holds(c),
         UNCHANGED <<id_context, worker, contexts>>,
         \A c \in Connections : Holds(c) /\ thread'[c] \in {"none", "serving"}
                                  => thread[c] \in {"none", "serving"}
  PROVE  ContextsInPlace'
  BY DEF ContextsInPlace

LEMMA ManagerOwners ==
  ASSUME TypeOK, NEW c \in Connections, Manager(c)
  PROVE  /\ \A d \in Connections : Holds(d)' <=> Holds(d)
         /\ UNCHANGED <<free, id_context, worker, contexts, thread>>
         /\ UNCHANGED <<master_pc, master_slot>>
<1>1. PICK before, after, type :
        /\ Happens(c, before, after, type)
        /\ <<before, after, type>> \in Advances
  BY DEF Manager, HostConnects, Establishes, FailsToConnect, HostDisconnects,
         DeviceRemoved, Advances
<1>2. Holds(c)' <=> Holds(c)
  BY <1>1 DEF Happens, Advances, Holds, TypeOK
<1>3. \A d \in Connections : d # c => (Holds(d)' <=> Holds(d))
  BY <1>1 DEF Happens, Holds, TypeOK
<1> QED BY <1>1, <1>2, <1>3 DEF Happens

LEMMA MasterQuietOwners ==
  ASSUME TypeOK, Protocol, ContextsInPlace,
         \/ MasterRejects \/ MasterAdmits \/ MasterGetsEstablished
         \/ MasterLogs \/ MasterGetsRemoval
         \/ MasterLooksUp \/ MasterMarksError \/ MasterStartsWorker
  PROVE  /\ \A d \in Connections : Holds(d)' <=> Holds(d)
         /\ UNCHANGED <<free, id_context, worker, contexts>>
         /\ ~MasterHolds /\ ~MasterHolds' /\ ~Crashed
         /\ \A d \in Connections : thread'[d] \in {"none", "serving"}
                                     => thread[d] \in {"none", "serving"}
<1>1. CASE MasterRejects
  <2>1. /\ Head(events).id \in Connections
        /\ conn[Head(events).id] = "requested"
    <3>1. events \in Seq(EventSet) /\ events # <<>>
      BY <1>1 DEF MasterRejects, MasterGets, TypeOK, EventSet
    <3>2. Head(events) = events[1] /\ 1 \in 1..Len(events)
      BY <3>1, TailElements
    <3> QED BY <1>1, <3>2, EventParts
            DEF MasterRejects, MasterGets, Protocol, EventsInv, Told
  <2> QED BY <1>1, <2>1
          DEF MasterRejects, MasterGets, Holds, MasterHolds, Crashed, TypeOK
<1>2. CASE MasterStartsWorker
  <2>1. /\ master_id \in Connections /\ thread[master_id] = "none"
        /\ worker[id_context[master_id]] = master_id
    BY <1>2, StartsItsOwn
  <2>2. /\ thread' \in {thread, [thread EXCEPT ![master_id] = "serving"]}
        /\ UNCHANGED <<conn, free, id_context, worker, contexts>>
        /\ master_pc = "start" /\ master_pc' = "poll"
    BY <1>2, <2>1 DEF MasterStartsWorker
  <2> QED BY <2>1, <2>2 DEF Holds, MasterHolds, Crashed, TypeOK
<1>3. CASE \/ MasterAdmits \/ MasterGetsEstablished
           \/ MasterLogs \/ MasterGetsRemoval
  BY <1>3 DEF MasterAdmits, MasterGetsEstablished, MasterLogs, MasterGetsRemoval,
              MasterGets, Holds, MasterHolds, Crashed
<1>4. CASE MasterLooksUp \/ MasterMarksError
  BY <1>4 DEF MasterLooksUp, MasterMarksError, Crashes, Crashed, Holds, MasterHolds
<1> QED BY <1>1, <1>2, <1>3, <1>4

\* A slot is taken from the pool, and is the master's.
LEMMA TakesOwners ==
  ASSUME TypeOK, Protocol, SlotOwnership, ContextsInPlace, MasterTakes
  PROVE  SlotOwnership' /\ ContextsInPlace'
<1>1. /\ free # <<>> /\ free' = TopSlotOff(free)
      /\ master_slot' = free[Len(free)]
      /\ UNCHANGED <<worker, contexts, id_context, conn, thread>>
      /\ ~MasterHolds /\ MasterHolds' /\ ~Crashed
  BY DEF MasterTakes, Protocol, MasterInv, MasterHolds, Crashed
<1>2. \A d \in Connections : Holds(d)' <=> Holds(d)
  BY <1>1 DEF Holds
<1>3. /\ FreeOnce' /\ master_slot' \in Slots /\ IsFree(master_slot')
      /\ \A s \in Slots : IsFree(s)' <=> IsFree(s) /\ s # master_slot'
  BY <1>1, PopSlot, OwnershipForm
<1>4. \A d \in Connections : id_context[d] \in Slots
  BY DEF TypeOK
<1>5. SlotOwnership'
  <2>1. ASSUME NEW c \in Connections, Holds(c)'
        PROVE  /\ ~IsFree(id_context[c])'
               /\ \A d \in Connections : Holds(d)' /\ id_context'[d] = id_context'[c]
                                           => d = c
               /\ id_context'[c] # master_slot'
    <3>1. ~IsFree(id_context[c])
      BY <1>2, <2>1, OwnershipForm
    <3>2. ~IsFree(id_context[c])'
      BY <1>1, <1>3, <1>4, <3>1 DEF IsFree
    <3>3. \A d \in Connections : Holds(d) /\ id_context[d] = id_context[c] => d = c
      BY <1>2, <2>1, OwnershipForm
    <3> QED BY <1>1, <1>2, <1>3, <3>1, <3>2, <3>3 DEF IsFree
  <2>2. ~IsFree(master_slot)'
    BY <1>3 DEF IsFree
  <2>3. \A s \in Slots : \/ IsFree(s)'
                         \/ master_slot' = s
                         \/ \E c \in Connections : Holds(c)' /\ id_context'[c] = s
    BY <1>1, <1>2, <1>3, OwnershipForm
  <2> QED BY <1>1, <1>3, <2>1, <2>2, <2>3 DEF SlotOwnership, FreeOnce, IsFree
<1>6. ContextsInPlace'
  BY <1>1, <1>2, SamePlaces
<1> QED BY <1>5, <1>6

\* The slot becomes the connection's, or the context could not be made.
LEMMA InitsOwners ==
  ASSUME TypeOK, Protocol, SlotOwnership, ContextsInPlace, MasterInitsWorker
  PROVE  SlotOwnership' /\ ContextsInPlace'
<1>1. /\ master_id \in Connections /\ conn[master_id] = "requested"
      /\ MasterHolds /\ ~Holds(master_id) /\ master_slot \in Slots /\ ~Crashed
  BY DEF MasterInitsWorker, Protocol, MasterInv, MasterHolds, Crashed, Holds,
         TypeOK
<1>2. thread[master_id] = "none"
  BY <1>1 DEF Protocol, ThreadsInv, Told
<1>2a. UNCHANGED <<free, master_id, master_slot, thread>>
  BY DEF MasterInitsWorker
<1>2b. CASE Crashes /\ UNCHANGED <<worker, contexts, id_context, conn>>
  <2>1. \A d \in Connections : Holds(d)' <=> Holds(d)
    BY <1>2a, <1>2b DEF Holds
  <2>2. SlotOwnership'
    BY <1>2a, <1>2b, <2>1, SameOwners DEF Crashes, Crashed
  <2> QED BY <1>2a, <1>2b, <2>1, <2>2, SamePlaces
<1> SUFFICES ASSUME ~(Crashes /\ UNCHANGED <<worker, contexts, id_context, conn>>)
             PROVE  SlotOwnership' /\ ContextsInPlace'
  BY <1>2b
<1>3. /\ UNCHANGED <<free, master_id, master_slot, thread>>
      /\ worker' = [worker EXCEPT ![master_slot] = master_id]
      /\ contexts' = contexts \cup {master_id}
  BY <1>2a DEF MasterInitsWorker
<1>4. \A d \in Connections \ {master_id} :
        (Holds(d)' <=> Holds(d)) /\ id_context'[d] = id_context[d]
  BY <1>3 DEF MasterInitsWorker, Holds, TypeOK
<1>5. \A d \in Connections : Holds(d) => id_context[d] # master_slot
  BY <1>1, OwnershipForm
<1>6. CASE conn' = [conn EXCEPT ![master_id] = "pending"]
  <2>1. Holds(master_id)' /\ id_context'[master_id] = master_slot /\ ~MasterHolds'
    BY <1>1, <1>2, <1>3, <1>6 DEF MasterInitsWorker, Holds, MasterHolds, TypeOK
  <2>2. ASSUME NEW c \in Connections, Holds(c)'
        PROVE  /\ \A i \in 1..Len(free') : free'[i] # id_context'[c]
               /\ \A d \in Connections : Holds(d)' /\ id_context'[d] = id_context'[c]
                                           => d = c
    BY <1>1, <1>3, <1>4, <1>5, <2>1, <2>2 DEF SlotOwnership
  <2>3. \A s \in Slots : \/ \E i \in 1..Len(free') : free'[i] = s
                         \/ \E c \in Connections : Holds(c)' /\ id_context'[c] = s
    BY <1>1, <1>3, <1>4, <2>1 DEF SlotOwnership
  <2>4. SlotOwnership'
    BY <1>3, <2>1, <2>2, <2>3 DEF SlotOwnership
  <2>5. ContextsInPlace'
    BY <1>1, <1>3, <1>4, <1>5, <2>1 DEF ContextsInPlace, TypeOK
  <2> QED BY <2>4, <2>5
<1>7. CASE conn' = [conn EXCEPT ![master_id] = "refused"]
  <2>1. /\ ~Holds(master_id)' /\ MasterHolds' /\ UNCHANGED id_context
    BY <1>1, <1>7 DEF MasterInitsWorker, Holds, MasterHolds, TypeOK
  <2>2. \A d \in Connections : Holds(d)' <=> Holds(d)
    BY <1>1, <1>3, <1>4, <2>1
  <2>3. SlotOwnership'
    BY <1>1, <1>3, <2>1, <2>2, SameOwners
  <2>4. ContextsInPlace'
    BY <1>1, <1>3, <1>5, <2>1, <2>2 DEF ContextsInPlace, TypeOK
  <2> QED BY <2>3, <2>4
<1> QED BY <1>6, <1>7 DEF MasterInitsWorker

\* The connection keeps the slot, or the master has it again.
LEMMA AcceptsOwners ==
  ASSUME TypeOK, Protocol, SlotOwnership, ContextsInPlace, MasterAccepts
  PROVE  SlotOwnership' /\ ContextsInPlace'
<1>1. /\ master_id \in Connections /\ conn[master_id] = "pending"
      /\ id_context[master_id] = master_slot /\ ~MasterHolds /\ ~Crashed
      /\ UNCHANGED <<free, worker, id_context, master_id, master_slot, thread>>
  BY DEF MasterAccepts, Protocol, MasterInv, MasterHolds, Crashed
<1>2. Holds(master_id)
  BY <1>1 DEF Protocol, ThreadsInv, Told, Holds
<1>3. \A d \in Connections \ {master_id} : Holds(d)' <=> Holds(d)
  BY <1>1 DEF MasterAccepts, Holds, TypeOK
<1>4. CASE conn' = [conn EXCEPT ![master_id] = "accepted"]
  <2>1. Holds(master_id)' /\ ~MasterHolds' /\ UNCHANGED contexts
    BY <1>1, <1>2, <1>4 DEF MasterAccepts, Holds, MasterHolds, TypeOK
  <2>2. \A d \in Connections : Holds(d)' <=> Holds(d)
    BY <1>1, <1>2, <1>3, <2>1
  <2>3. SlotOwnership'
    BY <1>1, <2>1, <2>2, SameOwners
  <2> QED BY <1>1, <2>1, <2>2, <2>3, SamePlaces
<1>5. CASE conn' = [conn EXCEPT ![master_id] = "refused"]
  <2>1. /\ ~Holds(master_id)' /\ MasterHolds'
        /\ contexts' \in {contexts, contexts \ {master_id}}
    BY <1>1, <1>5 DEF MasterAccepts, CleansUp, Holds, MasterHolds, TypeOK
  <2>2. \A d \in Connections : Holds(d)' <=> Holds(d) /\ d # master_id
    BY <1>1, <1>3, <2>1
  <2>3. SlotOwnership'
    BY <1>1, <1>2, <2>1, <2>2 DEF SlotOwnership
  <2>4. ContextsInPlace'
    BY <1>1, <2>1, <2>2 DEF ContextsInPlace
  <2> QED BY <2>3, <2>4
<1>6. CASE Crashes /\ UNCHANGED <<conn, contexts, ids>>
  <2>1. \A d \in Connections : Holds(d)' <=> Holds(d)
    BY <1>1, <1>6 DEF Holds
  <2>2. SlotOwnership'
    BY <1>1, <1>6, <2>1, SameOwners DEF Crashes, Crashed
  <2> QED BY <1>1, <1>6, <2>1, <2>2, SamePlaces
<1> QED BY <1>4, <1>5, <1>6 DEF MasterAccepts

\* Whoever had the slot returns it.
LEMMA ReturnsOwners ==
  ASSUME TypeOK, SlotOwnership, ~Crashed, NEW x \in Slots,
         free' = Append(free, x), UNCHANGED id_context,
         \/ /\ MasterHolds /\ ~MasterHolds' /\ x = master_slot
            /\ \A d \in Connections : Holds(d)' <=> Holds(d)
         \/ /\ MasterHolds' <=> MasterHolds
            /\ UNCHANGED master_slot
            /\ \E c \in Connections :
                 /\ Holds(c) /\ x = id_context[c]
                 /\ \A d \in Connections : Holds(d)' <=> Holds(d) /\ d # c
  PROVE  SlotOwnership'
<1>1. ~IsFree(x) /\ FreeOnce
  BY OwnershipForm
<1>2. FreeOnce' /\ \A s \in Slots : IsFree(s)' <=> IsFree(s) \/ s = x
  BY <1>1, PushSlot
<1>3. \A d \in Connections : id_context[d] \in Slots
  BY DEF TypeOK
<1>4. /\ \A d \in Connections : Holds(d)' => Holds(d) /\ id_context[d] # x
      /\ MasterHolds' => MasterHolds /\ UNCHANGED master_slot /\ x # master_slot
  BY OwnershipForm
<1>5. \A c \in Connections : Holds(c)' =>
        /\ ~IsFree(id_context[c])'
        /\ \A d \in Connections : Holds(d)' /\ id_context'[d] = id_context'[c] => d = c
        /\ MasterHolds' => id_context'[c] # master_slot'
  <2> SUFFICES ASSUME NEW c \in Connections, Holds(c)'
               PROVE  /\ ~IsFree(id_context[c])'
                      /\ \A d \in Connections :
                           Holds(d)' /\ id_context'[d] = id_context'[c] => d = c
                      /\ MasterHolds' => id_context'[c] # master_slot'
    OBVIOUS
  <2>1. Holds(c) /\ id_context[c] # x /\ ~IsFree(id_context[c])
    BY <1>4, OwnershipForm
  <2>2. ~IsFree(id_context[c])'
    BY <1>2, <1>3, <2>1 DEF IsFree
  <2> QED BY <1>4, <2>1, <2>2, OwnershipForm
<1>6. MasterHolds' => ~IsFree(master_slot)'
  BY <1>2, <1>4, OwnershipForm DEF IsFree, TypeOK
<1>7. \A s \in Slots : \/ IsFree(s)'
                       \/ MasterHolds' /\ master_slot' = s
                       \/ \E c \in Connections : Holds(c)' /\ id_context'[c] = s
  <2> SUFFICES ASSUME NEW s \in Slots, s # x, ~IsFree(s)
               PROVE  \/ MasterHolds' /\ master_slot' = s
                      \/ \E c \in Connections : Holds(c)' /\ id_context'[c] = s
    BY <1>2
  <2>1. CASE MasterHolds /\ master_slot = s
    BY <2>1
  <2>2. CASE \E c \in Connections : Holds(c) /\ id_context[c] = s
    <3>1. PICK c \in Connections : Holds(c) /\ id_context[c] = s
      BY <2>2
    <3>2. Holds(c)'
      BY <3>1
    <3> QED BY <3>1, <3>2
  <2> QED BY <2>1, <2>2, OwnershipForm
<1> QED BY <1>2, <1>5, <1>6, <1>7 DEF SlotOwnership, FreeOnce, IsFree

LEMMA SlotsNext ==
  ASSUME TypeOK, Protocol, SlotOwnership, ContextsInPlace, [Next]_poolVars
  PROVE  SlotOwnership' /\ ContextsInPlace'
<1>1. CASE \/ MasterRejects \/ MasterAdmits \/ MasterGetsEstablished
           \/ MasterLogs \/ MasterGetsRemoval
           \/ MasterLooksUp \/ MasterMarksError \/ MasterStartsWorker
  <2>1. ~MasterHolds' /\ ~MasterHolds /\ ~Crashed
    BY <1>1, MasterQuietOwners
  <2> HIDE DEF MasterHolds, Crashed
  <2> QED BY <1>1, <2>1, MasterQuietOwners, SameOwners, SamePlaces
<1>2. CASE MasterTakes
  BY <1>2, TakesOwners
<1>3. CASE MasterInitsWorker
  BY <1>3, InitsOwners
<1>4. CASE MasterAccepts
  BY <1>4, AcceptsOwners
<1>5. CASE MasterReturnsSlot \/ MasterDrops
  <2>1. /\ free' = Append(free, master_slot) /\ master_slot \in Slots
        /\ MasterHolds /\ ~MasterHolds' /\ ~Crashed
        /\ UNCHANGED <<id_context, contexts, conn, thread>>
        /\ worker' \in {worker, [worker EXCEPT ![master_slot] = NoConnection]}
    BY <1>5 DEF MasterReturnsSlot, MasterDrops, MasterHolds, Crashed, TypeOK
  <2>2. \A d \in Connections : Holds(d)' <=> Holds(d)
    BY <2>1 DEF Holds
  <2>3. SlotOwnership'
    BY <2>1, <2>2, ReturnsOwners
  <2>4. \A d \in Connections : Holds(d) => worker'[id_context[d]] = worker[id_context[d]]
    BY <2>1, OwnershipForm DEF TypeOK
  <2> QED BY <2>1, <2>2, <2>3, <2>4 DEF ContextsInPlace
<1>6. ASSUME NEW c \in Connections, WorkerCleansUp(c)
      PROVE  SlotOwnership' /\ ContextsInPlace'
  <2>1. /\ thread[c] = "serving" /\ thread' = [thread EXCEPT ![c] = "cleaned"]
        /\ UNCHANGED <<free, worker, id_context, conn, master_pc, master_slot>>
        /\ contexts' \in {contexts, contexts \ {c}}
    BY <1>6 DEF WorkerCleansUp, CleansUp
  <2>2. \A d \in Connections : Holds(d)' <=> Holds(d)
    BY <2>1 DEF Holds, TypeOK
  <2>3. SlotOwnership'
    BY <2>1, <2>2, SameOwners DEF MasterHolds, Crashed
  <2> QED BY <2>1, <2>2, <2>3 DEF ContextsInPlace, TypeOK
<1>10. ASSUME NEW c \in Connections, WorkerCrashes(c)
       PROVE  SlotOwnership' /\ ContextsInPlace'
  <2>1. /\ Crashed'
        /\ UNCHANGED <<free, worker, contexts, id_context, conn, thread, master_slot>>
    BY <1>10 DEF WorkerCrashes, Crashes, Crashed
  <2>2. \A d \in Connections : Holds(d)' <=> Holds(d)
    BY <2>1 DEF Holds
  <2> QED BY <2>1, <2>2, SameOwners, SamePlaces
<1>7. ASSUME NEW c \in Connections, WorkerReturnsSlot(c)
      PROVE  SlotOwnership' /\ ContextsInPlace'
  <2>1. /\ thread[c] = "cleaned" /\ thread' = [thread EXCEPT ![c] = "done"]
        /\ free' = Append(free, id_context[c]) /\ id_context[c] \in Slots
        /\ worker' = [worker EXCEPT ![id_context[c]] = NoConnection]
        /\ UNCHANGED <<contexts, id_context, conn, master_pc, master_slot>>
        /\ ~Crashed
    BY <1>7 DEF WorkerReturnsSlot, Pushed, TypeOK
  <2>2. Holds(c)
    BY <2>1 DEF Protocol, ThreadsInv, Told, Holds
  <2>3. \A d \in Connections : Holds(d)' <=> Holds(d) /\ d # c
    BY <2>1 DEF Holds, TypeOK
  <2>4. SlotOwnership'
    BY <2>1, <2>2, <2>3, ReturnsOwners DEF MasterHolds
  <2>5. \A d \in Connections : Holds(d) /\ d # c => id_context[d] # id_context[c]
    BY <2>2, OwnershipForm
  <2>6. \A d \in Connections : d # c => thread'[d] = thread[d]
    BY <2>1 DEF TypeOK
  <2>7. \A d \in Connections : Holds(d) /\ d # c
                              => worker'[id_context[d]] = worker[id_context[d]]
    BY <2>1, <2>5 DEF TypeOK
  <2> QED BY <2>1, <2>3, <2>4, <2>6, <2>7 DEF ContextsInPlace
<1>8. ASSUME NEW c \in Connections, Manager(c)
      PROVE  SlotOwnership' /\ ContextsInPlace'
  BY <1>8, ManagerOwners, SameOwners, SamePlaces DEF MasterHolds, Crashed
<1>9. CASE UNCHANGED poolVars
  <2>1. \A d \in Connections : Holds(d)' <=> Holds(d)
    BY <1>9 DEF poolVars, Holds
  <2> QED BY <1>9, <2>1, SameOwners, SamePlaces DEF poolVars, MasterHolds, Crashed
<1> QED BY <1>1, <1>2, <1>3, <1>4, <1>5, <1>6, <1>7, <1>8, <1>9, <1>10
        DEF Next, Master, Worker

-------------------------------------------------------------------------------
PoolInv == TypeOK /\ Protocol /\ SlotOwnership /\ ContextsInPlace

LEMMA PoolInit == Init => PoolInv
<1> SUFFICES ASSUME Init PROVE PoolInv
  OBVIOUS
<1>1. \A i \in 1..MaxConnections : i - 1 \in Slots /\ free[i] = i - 1
  BY PoolAssumption DEF Init, InitialSlot, Slots
<1>2. free \in Seq(Slots) /\ Len(free) = MaxConnections
  <2>1. free \in [1..MaxConnections -> Slots]
    BY <1>1 DEF Init, InitialSlot
  <2> QED BY <2>1, PoolAssumption
<1>3. TypeOK
  BY <1>2, PoolAssumption DEF Init, TypeOK, Slots, Progress
<1>4. Protocol
  BY DEF Init, Protocol, EventsInv, MasterInv, ThreadsInv
<1>5. /\ \A c \in Connections : ~Holds(c)
      /\ ~MasterHolds
  BY DEF Init, Holds, MasterHolds
<1>6. FreeOnce
  BY <1>1, <1>2, PoolAssumption DEF FreeOnce
<1>7. \A s \in Slots : IsFree(s)
  <2> SUFFICES ASSUME NEW s \in Slots PROVE IsFree(s)
    OBVIOUS
  <2>1. s + 1 \in 1..Len(free) /\ (s + 1) - 1 = s
    BY <1>2, PoolAssumption DEF Slots
  <2>2. free[s + 1] = s
    BY <1>1, <1>2, <2>1
  <2> QED BY <2>1, <2>2 DEF IsFree
<1>8. SlotOwnership /\ ContextsInPlace
  BY <1>5, <1>6, <1>7, OwnershipForm DEF ContextsInPlace
<1> QED BY <1>3, <1>4, <1>8 DEF PoolInv

LEMMA PoolInvariant == Spec => []PoolInv
<1>1. PoolInv /\ [Next]_poolVars => PoolInv'
  BY TypeNext, ProtocolNext, SlotsNext DEF PoolInv, Protocol
<1> QED BY <1>1, PoolInit, PTL DEF Spec

(* Type correctness of the server, for any number of slots and hosts.      *)
THEOREM PoolTypeCorrect == Spec => []TypeOK
<1>1. PoolInv => TypeOK
  BY DEF PoolInv
<1> QED BY <1>1, PoolInvariant, PTL

(* No slot is lost to the bookkeeping or given out twice, under every      *)
(* failure and interleaving of master, workers and connection manager.     *)
THEOREM SlotsOwned == Spec => []SlotOwnership
<1>1. PoolInv => SlotOwnership
  BY DEF PoolInv
<1> QED BY <1>1, PoolInvariant, PTL

(* The slot of a connection refers to its own context, which is there      *)
(* until its worker has freed it.                                          *)
THEOREM ContextsKept == Spec => []ContextsInPlace
<1>1. PoolInv => ContextsInPlace
  BY DEF PoolInv
<1> QED BY <1>1, PoolInvariant, PTL

===============================================================================
