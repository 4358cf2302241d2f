------------------------------ MODULE ServerPool ------------------------------
(***************************************************************************)
(* The server of the software NAA (lib/naaice_swnaa.c): the master thread, *)
(* which handles connection events one after the other                     *)
(* (naaice_swnaa_poll_and_handle_connection_event), the pool of connection *)
(* slots, and one worker thread per established connection                 *)
(* (worker_procedure).  What a worker does between its start and its end   *)
(* is NaaiceWorker; here it may end at any time.                           *)
(*                                                                         *)
(* The mutex ctx->lock guards single short sections: each is one step.     *)
(* Contexts and rdma_cm_ids are allocated and freed memory, named by the   *)
(* connection they are for: contexts and ids are those not freed.          *)
(*                                                                         *)
(* Some failures are met with a NULL pointer that is followed: the process *)
(* crashes, and master and workers stop where they are.  The connection    *)
(* manager goes on.                                                        *)
(***************************************************************************)
EXTENDS NaaiceStates, Sequences, FiniteSets

CONSTANTS Connections,      \* the hosts' connection attempts
          NoConnection,     \* a NULL pointer
          MaxConnections,   \* MAX_CONNECTIONS
          PoolFaults        \* which failures the environment may produce

ASSUME PoolAssumption ==
  /\ NoConnection \notin Connections
  /\ MaxConnections \in Nat \ {0}
  /\ PoolFaults \subseteq {"worker_memory", "resources", "accept", "connect",
                           "thread", "announcement", "cleanup", "removal"}

VARIABLES free,         \* con_mng->connections below top
          worker,       \* ctx->worker
          contexts, ids,
          ctx_state,    \* the state of a context, until its worker starts
          id_context,   \* rdma_cm_id->context: the slot of a connection
          conn,         \* how far a connection has come
          events,       \* the event channel of the master
          master_pc, master_id, master_slot,   \* the event being handled
          thread        \* the worker thread of a connection

poolVars == <<free, worker, contexts, ids, ctx_state, id_context, conn, events,
              master_pc, master_id, master_slot, thread>>

Slots == 0..(MaxConnections - 1)

EventTypes == {"CONNECT_REQUEST", "ESTABLISHED", "CONNECT_ERROR",
               "DISCONNECTED", "DEVICE_REMOVAL"}

Progress == {"none", "requested", "rejected", "pending", "refused", "accepted",
             "failed", "established", "disconnected", "removed"}

TypeOK ==
  /\ free \in Seq(Slots)
  /\ worker \in [Slots -> Connections \cup {NoConnection}]
  /\ contexts \subseteq Connections /\ ids \subseteq Connections
  /\ ctx_state \in [Connections -> {INIT, CONNECTED, ERROR}]
  /\ id_context \in [Connections -> Slots]
  /\ conn \in [Connections -> Progress]
  /\ events \in Seq([type : EventTypes, id : Connections])
  /\ master_pc \in {"poll", "take", "init", "unslot", "accept", "drop",
                    "start", "lookup", "error", "crashed"}
  /\ master_id \in Connections \cup {NoConnection}
  /\ master_slot \in Slots
  /\ thread \in [Connections -> {"none", "serving", "cleaned", "done"}]

InitialSlotOff(i) == i       \* mutant: counts from 1
InitialSlot(i) == i - 1

\* naaice_swnaa_init_master.  An id's context pointer is NULL, slot 0.
Init ==
  /\ free = [i \in 1..MaxConnections |-> InitialSlot(i)]
  /\ worker = [s \in Slots |-> NoConnection]
  /\ contexts = {} /\ ids = {}
  /\ ctx_state = [c \in Connections |-> INIT]
  /\ id_context = [c \in Connections |-> 0]
  /\ conn = [c \in Connections |-> "none"]
  /\ events = <<>>
  /\ master_pc = "poll" /\ master_id = NoConnection /\ master_slot = 0
  /\ thread = [c \in Connections |-> "none"]

-------------------------------------------------------------------------------
(* The connection manager (external): what happens to a connection, and    *)
(* the event that tells the master of it.                                  *)

Happens(c, before, after, type) ==
  /\ conn[c] \in before
  /\ conn' = [conn EXCEPT ![c] = after]
  /\ events' = Append(events, [type |-> type, id |-> c])
  /\ UNCHANGED <<free, worker, contexts, ctx_state, id_context,
                 master_pc, master_id, master_slot, thread>>

HostConnects(c) == /\ Happens(c, {"none"}, "requested", "CONNECT_REQUEST")
                   /\ ids' = ids \cup {c}

Establishes(c) == /\ Happens(c, {"accepted"}, "established", "ESTABLISHED")
                  /\ UNCHANGED ids

FailsToConnect(c) == /\ "connect" \in PoolFaults
                     /\ Happens(c, {"accepted"}, "failed", "CONNECT_ERROR")
                     /\ UNCHANGED ids

HostDisconnects(c) ==
  /\ Happens(c, {"established"}, "disconnected", "DISCONNECTED")
  /\ UNCHANGED ids

DeviceRemoved(c) ==
  /\ "removal" \in PoolFaults
  /\ Happens(c, {"established", "disconnected"}, "removed", "DEVICE_REMOVAL")
  /\ UNCHANGED ids

-------------------------------------------------------------------------------
Crashed == master_pc = "crashed"
Crashes == master_pc' = "crashed"

\* naaice_swnaa_disconnect_and_cleanup frees the id and last the context, and
\* gives up at the first call that fails.
CleansUp(c) ==
  \/ contexts' = contexts \ {c} /\ ids' = ids \ {c}
  \/ /\ "cleanup" \in PoolFaults
     /\ ids' \in {ids, ids \ {c}}
     /\ UNCHANGED contexts

-------------------------------------------------------------------------------
(* The master.                                                             *)

MasterGets(type, pc) ==
  /\ master_pc = "poll"
  /\ events # <<>> /\ Head(events).type = type
  /\ events' = Tail(events)
  /\ master_id' = Head(events).id
  /\ master_pc' = pc
  /\ UNCHANGED <<worker, contexts, ids, ctx_state, id_context, master_slot,
                 thread>>

\* CONNECT_REQUEST without capacity; con_mng->top is read without the lock.
MasterRejects ==
  /\ free = <<>>
  /\ MasterGets("CONNECT_REQUEST", "poll")
  /\ conn' = [conn EXCEPT ![Head(events).id] = "rejected"]
  /\ UNCHANGED free

MasterAdmits == /\ free # <<>>
                /\ MasterGets("CONNECT_REQUEST", "take")
                /\ UNCHANGED <<free, conn>>

\* Take a slot, under the lock: the one below top.
TopSlotKept(s) == s                          \* mutant: top is not lowered
TopSlotOff(s) == SubSeq(s, 1, Len(s) - 1)

MasterTakes ==
  /\ master_pc = "take"
  /\ master_slot' = free[Len(free)]
  /\ free' = TopSlotOff(free)
  /\ master_pc' = "init"
  /\ UNCHANGED <<worker, contexts, ids, ctx_state, id_context, conn, events,
                 master_id, thread>>

\* naaice_swnaa_init_worker; only then the id refers to the slot.  Out of
\* memory for the message region, the context stays where it is; out of
\* memory for the context, which is not looked at, the server crashes.
MasterInitsWorker ==
  /\ master_pc = "init"
  /\ \/ /\ worker' = [worker EXCEPT ![master_slot] = master_id]
        /\ contexts' = contexts \cup {master_id}
        /\ ctx_state' = [ctx_state EXCEPT ![master_id] = INIT]
        /\ \/ /\ id_context' = [id_context EXCEPT ![master_id] = master_slot]
              /\ conn' = [conn EXCEPT ![master_id] = "pending"]
              /\ master_pc' = "accept"
           \/ /\ "worker_memory" \in PoolFaults
              /\ conn' = [conn EXCEPT ![master_id] = "refused"]
              /\ master_pc' = "unslot"
              /\ UNCHANGED id_context
     \/ /\ "worker_memory" \in PoolFaults
        /\ Crashes
        /\ UNCHANGED <<worker, contexts, ctx_state, id_context, conn>>
  /\ UNCHANGED <<free, ids, events, master_id, master_slot, thread>>

\* Give the slot back, under the lock.
MasterReturnsSlot ==
  /\ master_pc = "unslot"
  /\ free' = Append(free, master_slot)
  /\ master_pc' = "poll"
  /\ UNCHANGED <<worker, contexts, ids, ctx_state, id_context, conn, events,
                 master_id, master_slot, thread>>

\* naaice_swnaa_handle_connection_requests accepts, or rdma_accept fails and
\* the context is cleaned up.  Without one of naaice_init_rdma_resources, or
\* with the message region not registered, the server crashes: on the NULL
\* given to the verbs next, or at the latest to ibv_dereg_mr in the cleanup.
MasterAccepts ==
  /\ master_pc = "accept"
  /\ \/ /\ conn' = [conn EXCEPT ![master_id] = "accepted"]
        /\ master_pc' = "poll"
        /\ UNCHANGED <<contexts, ids>>
     \/ /\ "accept" \in PoolFaults
        /\ conn' = [conn EXCEPT ![master_id] = "refused"]
        /\ CleansUp(master_id)
        /\ master_pc' = "drop"
     \/ /\ "resources" \in PoolFaults
        /\ Crashes
        /\ UNCHANGED <<conn, contexts, ids>>
  /\ UNCHANGED <<free, worker, ctx_state, id_context, events,
                 master_id, master_slot, thread>>

\* Then the slot is given back and emptied, under the lock.
MasterDrops ==
  /\ master_pc = "drop"
  /\ free' = Append(free, master_slot)
  /\ worker' = [worker EXCEPT ![master_slot] = NoConnection]
  /\ master_pc' = "poll"
  /\ UNCHANGED <<contexts, ids, ctx_state, id_context, conn, events,
                 master_id, master_slot, thread>>

MasterGetsEstablished ==
  MasterGets("ESTABLISHED", "start") /\ UNCHANGED <<free, conn>>

\* The context in the slot the id refers to gets its thread; whether that
\* could be created is not looked at.  The context is not NULL, which would
\* crash the server: ContextsInPlace.
MasterStartsWorker ==
  LET c == worker[id_context[master_id]]
  IN /\ master_pc = "start"
     /\ c # NoConnection
     /\ ctx_state' = [ctx_state EXCEPT ![c] = CONNECTED]
     /\ \/ thread' = [thread EXCEPT ![c] = "serving"]
        \/ "thread" \in PoolFaults /\ UNCHANGED thread
     /\ master_pc' = "poll"
     /\ UNCHANGED <<free, worker, contexts, ids, id_context, conn, events,
                    master_id, master_slot>>

\* CONNECT_ERROR and DISCONNECTED are logged.
MasterLogs ==
  /\ MasterGets("CONNECT_ERROR", "poll") \/ MasterGets("DISCONNECTED", "poll")
  /\ UNCHANGED <<free, conn>>

MasterGetsRemoval ==
  MasterGets("DEVICE_REMOVAL", "lookup") /\ UNCHANGED <<free, conn>>

\* Under the lock: is the connection of the event still in its slot?  A freed
\* id may hold any slot, and a freed context any id.
MasterLooksUp ==
  /\ master_pc = "lookup"
  /\ \E s \in IF master_id \in ids THEN {id_context[master_id]} ELSE Slots :
       /\ master_slot' = s
       /\ \/ /\ worker[s] # NoConnection
             /\ worker[s] = master_id \/ worker[s] \notin contexts
             /\ master_pc' = "error"
          \/ /\ worker[s] # master_id \/ worker[s] \notin contexts
             /\ master_pc' = "poll"
  /\ UNCHANGED <<free, worker, contexts, ids, ctx_state, id_context, conn,
                 events, master_id, thread>>

\* naaice_swnaa_handle_error, on ctx->worker[worker_id] read once more and
\* without the lock: NULL crashes the server.
MasterMarksError ==
  /\ master_pc = "error"
  /\ \/ /\ worker[master_slot] # NoConnection
        /\ ctx_state' = [ctx_state EXCEPT ![worker[master_slot]] = ERROR]
        /\ master_pc' = "poll"
     \/ /\ worker[master_slot] = NoConnection
        /\ Crashes
        /\ UNCHANGED ctx_state
  /\ UNCHANGED <<free, worker, contexts, ids, id_context, conn, events,
                 master_id, master_slot, thread>>

Master ==
  \/ MasterRejects \/ MasterAdmits \/ MasterTakes \/ MasterInitsWorker
  \/ MasterReturnsSlot \/ MasterAccepts \/ MasterDrops
  \/ MasterGetsEstablished \/ MasterStartsWorker
  \/ MasterLogs
  \/ MasterGetsRemoval \/ MasterLooksUp \/ MasterMarksError

-------------------------------------------------------------------------------
(* The end of worker_procedure: naaice_swnaa_disconnect_and_cleanup; then, *)
(* under the lock, the slot is returned and emptied.                       *)

WorkerCleansUp(c) ==
  /\ thread[c] = "serving" /\ ~Crashed
  /\ CleansUp(c)
  /\ thread' = [thread EXCEPT ![c] = "cleaned"]
  /\ UNCHANGED <<free, worker, ctx_state, id_context, conn, events,
                 master_pc, master_id, master_slot>>

\* A region of the announcement was not registered: ibv_dereg_mr gets NULL.
WorkerCrashes(c) ==
  /\ "announcement" \in PoolFaults
  /\ thread[c] = "serving" /\ ~Crashed
  /\ Crashes
  /\ UNCHANGED <<free, worker, contexts, ids, ctx_state, id_context, conn,
                 events, master_id, master_slot, thread>>

PushedTwice(s, x) == Append(Append(s, x), x)   \* mutant: returned twice
PushedNot(s, x) == s                           \* mutant: not returned
Pushed(s, x) == Append(s, x)

WorkerReturnsSlot(c) ==
  /\ thread[c] = "cleaned" /\ ~Crashed
  /\ free' = Pushed(free, id_context[c])
  /\ worker' = [worker EXCEPT ![id_context[c]] = NoConnection]
  /\ thread' = [thread EXCEPT ![c] = "done"]
  /\ UNCHANGED <<contexts, ids, ctx_state, id_context, conn, events,
                 master_pc, master_id, master_slot>>

Worker(c) == WorkerCleansUp(c) \/ WorkerCrashes(c) \/ WorkerReturnsSlot(c)

Manager(c) == \/ HostConnects(c) \/ Establishes(c) \/ FailsToConnect(c)
              \/ HostDisconnects(c) \/ DeviceRemoved(c)

Next == Master \/ \E c \in Connections : Worker(c) \/ Manager(c)

Spec == Init /\ [][Next]_poolVars

(***************************************************************************)
(* Fairness.  The master polls for ever; an accepted connection is         *)
(* established or fails; a worker does end, as it does when its host       *)
(* disconnects (NaaiceLink: the flushed receive ends it).                  *)
(***************************************************************************)
Fairness ==
  /\ WF_poolVars(Master)
  /\ \A c \in Connections :
       WF_poolVars(Worker(c)) /\ WF_poolVars(Establishes(c) \/ FailsToConnect(c))

FairSpec == Spec /\ Fairness

-------------------------------------------------------------------------------
(* The connections that hold a slot: from naaice_swnaa_init_worker until   *)
(* the worker has returned it.                                             *)
Holds(c) == /\ conn[c] \in {"pending", "accepted", "failed", "established",
                            "disconnected", "removed"}
            /\ thread[c] # "done"

MasterHolds == master_pc \in {"init", "unslot", "drop"}

(* Every slot is free, being handed out, or held by a connection, and only *)
(* one of these, once, as long as the server runs: none is lost and none   *)
(* is given to two workers.                                                *)
SlotOwnership ==
  /\ \A i, j \in 1..Len(free) : free[i] = free[j] => i = j
  /\ \A c \in Connections : Holds(c) =>
       /\ \A i \in 1..Len(free) : free[i] # id_context[c]
       /\ \A d \in Connections : Holds(d) /\ id_context[d] = id_context[c]
                                   => d = c
       /\ MasterHolds => id_context[c] # master_slot
  /\ MasterHolds => \A i \in 1..Len(free) : free[i] # master_slot
  /\ \A s \in Slots : \/ Crashed
                      \/ \E i \in 1..Len(free) : free[i] = s
                      \/ MasterHolds /\ master_slot = s
                      \/ \E c \in Connections : Holds(c) /\ id_context[c] = s

(* A connection that holds a slot is the one its slot refers to, and its   *)
(* context is there for the master to start its worker with, and for the   *)
(* worker until it has cleaned up itself.                                  *)
ContextsInPlace ==
  \A c \in Connections : Holds(c) =>
    /\ worker[id_context[c]] = c
    /\ thread[c] \in {"none", "serving"} => c \in contexts

-------------------------------------------------------------------------------
(* "Guard the unlikely case of a second error event for a connection       *)
(* already destroyed": the context given to naaice_swnaa_handle_error is   *)
(* the connection's, and not freed.                                        *)
RemovalGuarded ==
  master_pc = "error" =>
    worker[master_slot] = master_id /\ master_id \in contexts

(* A failing call is answered with a result, 0 or -1, as the headers say   *)
(* of the handling of connection events and of the cleanup: one connection *)
(* that fails does not end the server, and with it all others.             *)
ServerSurvives == ~Crashed

(* NUMBER_CONNECTIONS is the "maximal allowed number of parallel server    *)
(* connections": the pool is empty, and hosts are rejected, only while     *)
(* there are as many, not counting one whose failure has been handled.     *)
FailureQueued(c) ==
  \E i \in 1..Len(events) : events[i] = [type |-> "CONNECT_ERROR", id |-> c]

RejectsOnlyWhenFull ==
  master_pc = "poll" /\ free = <<>> =>
    Cardinality({c \in Connections :
                   Holds(c) /\ (conn[c] = "failed" => FailureQueued(c))})
      = MaxConnections

===============================================================================
