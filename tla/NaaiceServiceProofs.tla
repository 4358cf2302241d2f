------------------------- MODULE NaaiceServiceProofs -------------------------
(***************************************************************************)
(* The link while nothing fails.  Every end finds at the head of its queue *)
(* what its state accepts and has a receive posted for what the other will *)
(* send, so neither gives up; then what NaaiceDataProofs says of a living  *)
(* connection holds without condition, and the link does what RpcService   *)
(* promises.                                                               *)
(***************************************************************************)
EXTENDS NaaiceDataProofs

(* No call of the library fails, no clock runs out, no kernel reports an   *)
(* error, and the adapters acknowledge before they answer.                 *)
FaultFree == /\ Faults = {} /\ NaaFaults = {} /\ KernelErrors = {0}
             /\ AckFirst

One(b) == IF b THEN 1 ELSE 0

-------------------------------------------------------------------------------
(***************************************************************************)
(* The memory region setup protocol.  The announcement and the answer are  *)
(* in one place, and the host's own completion comes before the answer.    *)
(***************************************************************************)
Announcing == Has(sq["host"], {"SEND"})
Announced  == Has(cq["naa"], {"RECV"})
Answering  == Has(sq["naa"], {"SEND"})
Delivered  == Has(cq["host"], {"RECV"})
Unheard    == naa_state \in {CONNECTED, MRSP_RECEIVING}

InSetup == host_state \in {MRSP_SENDING, MRSP_RECEIVING}

HostMessage ==
  /\ Message(sq["host"], unacked["host"], cq["host"])
  /\ host_state = MRSP_SENDING <=>
       ~NoMessage(sq["host"], unacked["host"], cq["host"])

(* What the messages say.                                                  *)
Saying(q, op, msg) == \A i \in 1..Len(q) : q[i].op = op => q[i].msg = msg
Sayings == /\ Saying(sq["host"], "SEND", "AAR") /\ Saying(cq["naa"], "RECV", "AAR")
           /\ Saying(sq["naa"], "SEND", "A") /\ Saying(cq["host"], "RECV", "A")

Setup ==
  /\ Unheard => ~Answering /\ ~Delivered /\ ~InTransfer
                /\ (InSetup <=> Announcing \/ Announced)
                /\ host_state \in {CONNECTED, MRSP_SENDING, MRSP_RECEIVING}
  /\ ~Unheard => ~Announcing /\ ~Announced /\ host_state # CONNECTED
                 /\ (InSetup <=> Answering \/ Delivered)
  /\ ~(Announcing /\ Announced)
  /\ ~(Answering /\ Delivered)
  /\ Once(cq["naa"], {"RECV"})
  /\ InSetup => ~Answered
  /\ naa_state = MRSP_SENDING =>
       ~NoMessage(sq["naa"], unacked["naa"], cq["naa"])

(* What is at the head of the queues.                                      *)
Heads ==
  /\ host_state = MRSP_SENDING /\ cq["host"] # <<>> => Head(cq["host"]).op = "SEND"
  /\ naa_state = MRSP_SENDING /\ cq["naa"] # <<>> => Head(cq["naa"]).op = "SEND"

(* The outputs are counted one by one, and no call overtakes them.         *)
AllOf(d, s, u, c) == d + Len(s) + Len(u) + Len(c)

NaaTally ==
  naa_state = DATA_SENDING =>
    /\ naa_writes_done < no_output_mrs
    /\ AllOf(naa_writes_done, sq["naa"], unacked["naa"], cq["naa"])
         = no_output_mrs + One(Asked)
    /\ Asked => sq["naa"] = <<>> /\ unacked["naa"] = <<>>
    /\ OnlyLast(cq["naa"], {"RECV_IMM"})

(* The receives: one for whatever may still come, and the worker's spare.  *)
Spare == \/ naa_state = MRSP_RECEIVING
         \/ naa_call = "receive_data_transfer" /\ naa_state = DATA_RECEIVING
Receives ==
  /\ InSetup => recvs["host"] = One(~Delivered)
  /\ InTransfer => recvs["host"] = One(~Answered)
  /\ recvs["naa"] + One(Announced \/ Asked) = 1 + One(Spare)
  /\ naa_pc = "receive" => naa_call # "receive_data_transfer"

Serves == /\ NobodyGivesUp /\ host_pc # "closed"
          /\ Alive
          /\ \A i \in 1..Len(cq["host"]) : cq["host"][i].ok

FlowInv == HostMessage /\ Sayings /\ Setup /\ Heads /\ NaaTally /\ Receives /\ Serves

(* The kernel has run for every call but the one still to be served.       *)
Pending == Request \/ Asked \/ (Serving /\ naa_pc # "respond")
Runs == Len(naa_runs) + One(Pending) = no_rpc_calls

Known == TypeOK /\ HostOrder /\ ResponseInv /\ AppInv /\ ExchangeInv

-------------------------------------------------------------------------------
(***************************************************************************)
(* What the queues hold in each state.                                     *)
(***************************************************************************)
LEMMA HeadIn ==
  ASSUME NEW S, NEW q \in Seq(S), q # <<>>
  PROVE  /\ Head(q) \in S /\ Head(q) = q[1] /\ 1 \in 1..Len(q)
         /\ \A ops : Head(q).op \in ops => Has(q, ops)
  BY DEF Has

LEMMA HostIdle ==
  ASSUME Known, FlowInv
  PROVE  /\ ~InTransfer => /\ Writes(sq["host"]) = {}
                           /\ Writes(unacked["host"]) = {}
                           /\ Writes(cq["host"]) = {}
         /\ cq["host"] # <<>> => InSetup \/ InTransfer
<1>1. ASSUME ~InTransfer
      PROVE  /\ Writes(sq["host"]) = {} /\ Writes(unacked["host"]) = {}
             /\ Writes(cq["host"]) = {}
  <2>1. HostQueueTypes
    BY HostTypes DEF Known
  <2>2. Counted = 0 /\ Total = 0
    BY <1>1 DEF Counted, Total
  <2> QED BY <2>1, <2>2, AllCounted DEF Known, HostOrder, HostQueueTypes
<1>2. ASSUME cq["host"] # <<>>, ~InSetup, ~InTransfer PROVE FALSE
  <2> DEFINE c == Head(cq["host"])
  <2>1. c \in Completions /\ \A ops : c.op \in ops => Has(cq["host"], ops)
    BY <1>2, HeadIn, HostReceives DEF Known
  <2>2. host_state \in {CONNECTED, MRSP_DONE, FINISHED}
    <3>1. host_state \in CommunicationStates /\ host_call \in {"none", "do_mrsp"} \cup TransferCalls
      BY DEF Known, TypeOK, HostTypeOK
    <3> QED BY <1>2, <3>1 DEF Known, AppInv, InSetup, InTransfer
  <2>3. ~Has(cq["host"], {"RECV", "RECV_IMM"})
    BY <2>2 DEF Known, ResponseInv, NoResponse, AnyReceive
  <2>4. ~Has(cq["host"], {"RDMA_WRITE"})
    BY <1>1, <1>2, NoWriteHas
  <2>5. ~Has(cq["host"], {"SEND"})
    BY <1>2 DEF InSetup, FlowInv, HostMessage, NoMessage
  <2> HIDE DEF c
  <2> QED BY <2>1, <2>3, <2>4, <2>5 DEF Completions
<1> QED BY <1>1, <1>2

LEMMA HostHead ==
  ASSUME Known, FlowInv, cq["host"] # <<>>
  PROVE  LET c == Head(cq["host"])
         IN /\ c \in Completions /\ c.ok
            /\ \A ops : c.op \in ops => Has(cq["host"], ops)
            /\ host_state = MRSP_SENDING => c.op = "SEND"
            /\ host_state = MRSP_RECEIVING => c.op = "RECV" /\ c.msg = "A"
            /\ InTransfer => c.op \in {"RDMA_WRITE", "RECV_IMM"}
            /\ HostAccepts(c)
<1> DEFINE c == Head(cq["host"])
<1>1. /\ c \in Completions /\ c = cq["host"][1] /\ 1 \in 1..Len(cq["host"])
      /\ \A ops : c.op \in ops => Has(cq["host"], ops)
  BY HeadIn, HostReceives DEF Known
<1>2. c.ok
  BY <1>1 DEF FlowInv, Serves
<1>3. c.op = "RECV" => c.msg = "A"
  BY <1>1 DEF FlowInv, Sayings, Saying
<1>4. host_state = MRSP_SENDING => c.op = "SEND"
  BY DEF FlowInv, Heads
<1> HIDE DEF c
<1>5. host_state # MRSP_SENDING => c.op # "SEND"
  BY <1>1 DEF FlowInv, HostMessage, NoMessage
<1>6. InSetup => c.op # "RECV_IMM"
  BY <1>1 DEF FlowInv, Setup, Answered
<1>7. ~InTransfer => c.op # "RDMA_WRITE"
  <2>1. Writes(cq["host"]) = {} => c.op \notin {"RDMA_WRITE"}
    BY <1>1, NoWriteHas
  <2> QED BY <2>1, HostIdle
<1>8. InTransfer => c.op # "RECV"
  <2>1. InTransfer => ~Unheard /\ ~InSetup
    BY DEF FlowInv, Setup, InTransfer, InSetup, MRSP_SENDING, MRSP_RECEIVING,
           DATA_SENDING, DATA_RECEIVING
  <2>2. InTransfer => ~Delivered
    BY <2>1 DEF FlowInv, Setup
  <2> QED BY <1>1, <2>2 DEF Delivered
<1>9. InSetup <=> host_state = MRSP_SENDING \/ host_state = MRSP_RECEIVING
  BY DEF InSetup
<1>10. c.op \in {"SEND", "RDMA_WRITE", "RECV", "RECV_IMM"}
  BY <1>1 DEF Completions
<1>11. host_state = MRSP_RECEIVING => ~InTransfer
  BY DEF InTransfer, MRSP_RECEIVING, DATA_SENDING, DATA_RECEIVING
<1>12. /\ host_state = MRSP_RECEIVING => c.op = "RECV"
       /\ InTransfer => c.op \in {"RDMA_WRITE", "RECV_IMM"}
  BY <1>5, <1>6, <1>7, <1>8, <1>9, <1>10, <1>11 DEF InTransfer, MRSP_SENDING,
     MRSP_RECEIVING, DATA_SENDING, DATA_RECEIVING
<1>13. InSetup \/ InTransfer
  BY HostIdle
<1>14. HostAccepts(c)
  BY <1>2, <1>3, <1>4, <1>9, <1>12, <1>13 DEF HostAccepts, InTransfer
<1> QED BY <1>1, <1>2, <1>3, <1>4, <1>12, <1>14 DEF c

LEMMA NaaHead ==
  ASSUME Known, FlowInv, naa_pc = "drain", cq["naa"] # <<>>
  PROVE  LET c == Head(cq["naa"])
         IN /\ c \in NaaCompletions
            /\ \A ops : c.op \in ops => Has(cq["naa"], ops)
            /\ NaaAt \in Polled
            /\ naa_state = MRSP_RECEIVING => c.op = "RECV" /\ c.msg = "AAR"
            /\ naa_state = MRSP_SENDING => c.op = "SEND"
            /\ naa_state = DATA_RECEIVING => c.op = "RECV_IMM"
            /\ naa_state = DATA_SENDING => c.op = "RDMA_WRITE"
            /\ NaaAccepts(c)
<1> DEFINE c == Head(cq["naa"])
<1>1. /\ c \in NaaCompletions /\ c = cq["naa"][1] /\ 1 \in 1..Len(cq["naa"])
      /\ \A ops : c.op \in ops => Has(cq["naa"], ops)
  BY HeadIn DEF Known, ExchangeInv, ShapeInv
<1>2. NaaAt \in Polled
  BY DEF Known, ExchangeInv, WorkerInv, NaaControl
<1>3. c.op = "RECV" => c.msg = "AAR"
  BY <1>1 DEF FlowInv, Sayings, Saying
<1>4. naa_state = MRSP_SENDING => c.op = "SEND"
  BY DEF FlowInv, Heads
<1>5. naa_state = DATA_SENDING => c.op # "RECV_IMM"
  <2> SUFFICES ASSUME naa_state = DATA_SENDING, c.op = "RECV_IMM" PROVE FALSE
    OBVIOUS
  <2>1. Asked
    BY <1>1 DEF Asked
  <2>2. Len(cq["naa"]) = 1
    BY <1>1 DEF FlowInv, NaaTally, OnlyLast
  <2>3. Len(sq["naa"]) = 0 /\ Len(unacked["naa"]) = 0
    BY <2>1 DEF FlowInv, NaaTally
  <2>4. naa_writes_done \in Nat /\ no_output_mrs \in Nat
    BY NaaTypes DEF Known
  <2> QED BY <2>1, <2>2, <2>3, <2>4 DEF FlowInv, NaaTally, AllOf, One
<1> HIDE DEF c
<1>6. naa_state # MRSP_SENDING => c.op # "SEND"
  BY <1>1 DEF Known, ExchangeInv, WorkerInv, NaaMessage, NoMessage
<1>7. naa_state # DATA_SENDING => c.op # "RDMA_WRITE"
  <2>1. Writes(cq["naa"]) = {} => c.op \notin {"RDMA_WRITE"}
    BY <1>1, NoWriteHas
  <2> QED BY <2>1, NaaQuiet DEF Known, ExchangeInv, WorkerInv
<1>8. ~Unheard => c.op # "RECV"
  BY <1>1 DEF FlowInv, Setup, Announced
<1>9. Unheard => c.op # "RECV_IMM"
  <2>1. Unheard => ~Asked
    BY DEF FlowInv, Setup, Known, ExchangeInv, Tokens
  <2> QED BY <1>1, <2>1 DEF Asked
<1>10. /\ c.op \in {"SEND", "RDMA_WRITE", "RECV", "RECV_IMM"} /\ c.ok
       /\ c.op = "RECV_IMM" => c.imm # 0
  BY <1>1 DEF NaaCompletions, Completions
<1>11. naa_state \in {MRSP_RECEIVING, MRSP_SENDING, DATA_RECEIVING, DATA_SENDING}
  BY <1>2 DEF NaaAt, Polled
<1>12. /\ naa_state = MRSP_RECEIVING => c.op = "RECV"
       /\ naa_state = DATA_RECEIVING => c.op = "RECV_IMM"
       /\ naa_state = DATA_SENDING => c.op = "RDMA_WRITE"
  BY <1>5, <1>6, <1>7, <1>8, <1>9, <1>10 DEF Unheard, CONNECTED, MRSP_RECEIVING,
     MRSP_SENDING, DATA_RECEIVING, DATA_SENDING
<1>13. NaaAccepts(c)
  BY <1>3, <1>4, <1>10, <1>11, <1>12 DEF NaaAccepts
<1> QED BY <1>1, <1>2, <1>3, <1>4, <1>12, <1>13 DEF c

-------------------------------------------------------------------------------
(***************************************************************************)
(* What can happen: nothing breaks.                                        *)
(***************************************************************************)
LEMMA NoFaults ==
  ASSUME FaultFree
  PROVE  /\ Persistent
         /\ Outcomes("post_recv") = {TRUE}
         /\ NaaOutcomes("post_recv") = {TRUE} /\ NaaOutcomes("mrsp") = {TRUE}
         /\ \A wrs : HostAccepted(wrs) = {wrs} /\ NaaAccepted(wrs) = {wrs}
         /\ \A state : AfterPoll(state) = {IF CallDone(state) THEN "app" ELSE "poll"}
         /\ NaaLoop = {IF NaaCallDone(naa_state) THEN NaaReturn(naa_state, TRUE)
                       ELSE "poll"}
  BY DEF FaultFree, Persistent, Outcomes, NaaOutcomes, HostAccepted, NaaAccepted,
         Accepted, AfterPoll, NaaLoop

(* Whatever waits for a receive finds one.                                 *)
LEMMA NothingBreaks ==
  ASSUME Known, FlowInv, NEW e \in Ends
  PROVE  ~FailSend(e) /\ ~FlushRecv(e)
<1>1. qp["host"] = "up" /\ qp["naa"] = "up" /\ qp[e] = "up" /\ qp[Peer(e)] = "up"
  BY DEF FlowInv, Serves, Alive, Ends, Peer
<1>2. recvs["host"] \in Nat /\ recvs["naa"] \in Nat
  BY QueueTypes DEF Known, Ends
<1>3. ASSUME sq["host"] # <<>>, Head(sq["host"]).op # "WRITE" PROVE recvs["naa"] # 0
  <2>1. /\ Head(sq["host"]) \in WorkRequests
        /\ \A ops : Head(sq["host"]).op \in ops => Has(sq["host"], ops)
    BY <1>3, HeadIn, QueueTypes DEF Known, Ends
  <2>2. Announcing \/ Requesting
    BY <1>3, <2>1 DEF WorkRequests, Announcing, Requesting, AnyWrite
  <2>3. Announcing => Unheard /\ ~Announced
    BY DEF FlowInv, Setup
  <2>4. Unheard => ~InTransfer
    BY DEF FlowInv, Setup
  <2>5. /\ Asked => InTransfer
        /\ Requesting => InTransfer /\ ~Asked
    BY DEF Known, ExchangeInv, Tokens
  <2>6. InTransfer => ~Announced
    BY <2>4 DEF FlowInv, Setup
  <2>7. ~Announced /\ ~Asked
    BY <2>2, <2>3, <2>4, <2>5, <2>6
  <2> QED BY <1>2, <2>7 DEF FlowInv, Receives, One
<1>4. ASSUME sq["naa"] # <<>>, Head(sq["naa"]).op # "WRITE" PROVE recvs["host"] # 0
  <2>1. /\ Head(sq["naa"]) \in WorkRequests
        /\ \A ops : Head(sq["naa"]).op \in ops => Has(sq["naa"], ops)
    BY <1>4, HeadIn, QueueTypes DEF Known, Ends
  <2>2. Answering \/ Returning
    BY <1>4, <2>1 DEF WorkRequests, Answering, Returning, AnyWrite
  <2>3. Answering => InSetup /\ ~Delivered
    BY DEF FlowInv, Setup
  <2>4. Returning => InTransfer /\ ~Answered
    BY DEF Known, ExchangeInv, Tokens
  <2> QED BY <2>2, <2>3, <2>4 DEF FlowInv, Receives, One
<1>5. ~FlushRecv(e)
  BY <1>1 DEF FlushRecv
<1>6. CASE e = "host"
  BY <1>1, <1>3, <1>5, <1>6 DEF FailSend, Peer
<1>7. CASE e = "naa"
  BY <1>1, <1>4, <1>5, <1>7 DEF FailSend, Peer
<1> QED BY <1>6, <1>7 DEF Ends

LEMMA QuietSteps ==
  ASSUME FaultFree, Known, FlowInv, [Next]_vars
  PROVE  /\ Alive'
         /\ \/ /\ DoMrsp \/ DoDataTransfer \/ HostDrain \/ HostBusy \/ HostWaits
               /\ UNCHANGED naaVars
            \/ NaaWorks /\ UNCHANGED hostVars
            \/ \E e \in Ends : Fabric(e) /\ UNCHANGED <<hostVars, naaVars>>
            \/ UNCHANGED vars
<1>1. Alive /\ naa_pc # "exit"
  BY DEF FlowInv, Serves, NobodyGivesUp
<1>2. Persistent
  BY NoFaults
<1>3. Alive'
  <2>1. CASE Host
    <3>1. ~WaitInterrupted /\ ~HostClose
      BY DEF FaultFree, WaitInterrupted, HostClose
    <3>2. UNCHANGED qp
      BY <2>1, <3>1 DEF Host, HostStep, HostPollStep, DoMrsp, DoDataTransfer,
                        HostGetEvent, HostArm, HostDrain, HostDrained, HostBusy,
                        HostTimeout, WaitAgain, verbsVars
    <3>3. CASE DoDataTransfer
      <4>1. host_fncode' = host_fncode
        <5>1. PICK posted \in Outcomes("post_recv") :
                host_fncode' = IF posted THEN host_fncode ELSE 0
          BY <3>3 DEF DoDataTransfer
        <5>2. Outcomes("post_recv") = {TRUE}
          BY NoFaults
        <5> QED BY <5>1, <5>2
      <4> QED BY <1>1, <3>2, <4>1 DEF Alive
    <3>4. CASE ~DoDataTransfer
      <4>1. host_fncode' = host_fncode
        BY <2>1, <3>1, <3>4
           DEF Host, HostStep, HostPollStep, DoMrsp, HostGetEvent, HostArm,
               HostDrain, HostDrained, HostBusy, HostTimeout, WaitAgain
      <4> QED BY <1>1, <3>2, <4>1 DEF Alive
    <3> QED BY <3>3, <3>4
  <2>2. CASE Naa
    <3>1. ~NaaRemoval /\ ~NaaExit /\ ~NaaTimeout
      BY <1>1 DEF FaultFree, NaaRemoval, NaaExit, NaaTimeout
    <3>2. UNCHANGED qp
      BY <2>2, <3>1 DEF Naa, NaaStep, NaaThread, NaaPollStep, NaaStart,
                        NaaReceive, NaaGetEvent, NaaDrain, NaaDrained, NaaArm,
                        RunRpc, NaaRespond, NaaNotices, verbsVars
    <3> QED BY <1>1, <2>2, <3>2 DEF Alive, Naa, hostVars
  <2>3. ASSUME NEW e \in Ends, Carry(e) PROVE Alive'
    BY <1>1, <2>3 DEF Carry, Fabric, ExecuteWrite, ExecuteReceived, Acknowledge,
                      Executed, Alive, hostVars
  <2>4. ASSUME NEW e \in Ends, Break(e) PROVE FALSE
    BY <2>4, NothingBreaks DEF Break
  <2>5. CASE UNCHANGED vars
    BY <1>1, <2>5 DEF vars, verbsVars, hostVars, Alive
  <2> QED BY <2>1, <2>2, <2>3, <2>4, <2>5 DEF Next
<1> QED BY <1>1, <1>2, <1>3, LiveSteps DEF Known, NaaLeaves, NaaExit

-------------------------------------------------------------------------------
(***************************************************************************)
(* The steps one by one.  Those that only move a thread come first.        *)
(***************************************************************************)
flowVars == <<sq, unacked, cq, recvs, qp, host_state, host_fncode,
              response_received, naa_state, naa_call, naa_writes_done>>

LEMMA SameFlow ==
  ASSUME FlowInv, UNCHANGED flowVars,
         host_pc' \notin {"failed", "closed"}, naa_pc' \notin {"exit", "gone"},
         naa_pc' = "receive" => naa_call # "receive_data_transfer"
  PROVE  FlowInv'
<1>1. HostMessage' /\ Sayings' /\ Heads'
  BY DEF FlowInv, flowVars, HostMessage, Sayings, Heads
<1>2. Setup' /\ NaaTally'
  BY DEF FlowInv, flowVars, Setup, NaaTally, Unheard, InSetup, InTransfer,
         Announcing, Announced, Answering, Delivered, Answered, Asked
<1>3. Receives'
  BY DEF FlowInv, flowVars, Receives, Spare, InSetup, InTransfer, Announced,
         Delivered, Answered, Asked
<1>4. Serves'
  BY DEF FlowInv, flowVars, Serves, NobodyGivesUp, Alive
<1> QED BY <1>1, <1>2, <1>3, <1>4 DEF FlowInv

LEMMA WaitFlow ==
  ASSUME FaultFree, Known, FlowInv, HostWaits, UNCHANGED naaVars
  PROVE  FlowInv'
<1>1. UNCHANGED flowVars
  BY DEF HostWaits, HostGetEvent, HostArm, HostDrained, HostTimeout, WaitAgain,
         verbsVars, naaVars, flowVars
<1>2. host_pc' \in {"arm", "drain", "app", "poll"}
  <2>1. ~HostTimeout
    BY DEF FaultFree, HostTimeout
  <2>2. HostDrained => host_pc' \in {"app", "poll"}
    BY NoFaults DEF HostDrained
  <2> QED BY <2>1, <2>2 DEF HostWaits, HostGetEvent, HostArm, WaitAgain
<1> QED BY <1>1, <1>2, SameFlow
        DEF naaVars, FlowInv, Serves, NobodyGivesUp, Receives

(* A call of the worker ends where its states say.                         *)
LEMMA LoopGoesOn ==
  ASSUME FaultFree, NaaAt \in Polled \cup Left
  PROVE  /\ NaaLoop \subseteq {"poll", "receive", "rpc"}
         /\ "receive" \in NaaLoop => naa_call # "receive_data_transfer"
<1>1. NaaLoop = {IF NaaCallDone(naa_state) THEN NaaReturn(naa_state, TRUE)
                 ELSE "poll"}
  BY NoFaults
<1>2. CASE NaaAt \in Polled
  <2>1. ~NaaCallDone(naa_state)
    BY <1>2 DEF NaaAt, Polled, NaaCallDone, MRSP_RECEIVING, MRSP_SENDING,
                MRSP_DONE, DATA_RECEIVING, DATA_SENDING
  <2> QED BY <1>1, <2>1
<1>3. CASE NaaAt \in Left
  <2>1. NaaReturn(naa_state, TRUE) =
          IF naa_call = "receive_data_transfer" THEN "rpc" ELSE "receive"
    BY <1>3 DEF NaaAt, Left, NaaReturn, MRSP_DONE, CALCULATING, DATA_RECEIVING,
                FINISHED
  <2> QED BY <1>1, <2>1
<1> QED BY <1>2, <1>3

LEMMA NaaMoves ==
  ASSUME FaultFree, Known, FlowInv, UNCHANGED hostVars,
         NaaGetEvent \/ NaaDrained \/ NaaArm \/ NaaNotices \/ RunRpc
  PROVE  FlowInv'
<1>1. UNCHANGED flowVars
  BY DEF NaaGetEvent, NaaDrained, NaaArm, NaaNotices, RunRpc, verbsVars,
         hostVars, flowVars
<1>2. CASE NaaArm \/ NaaNotices
  <2>1. NaaAt \in Polled \cup Left
    BY <1>2 DEF NaaArm, NaaNotices, Known, ExchangeInv, WorkerInv, NaaControl
  <2>2. naa_pc' \in NaaLoop
    BY <1>2 DEF NaaArm, NaaNotices
  <2> QED BY <1>1, <2>1, <2>2, LoopGoesOn, SameFlow
          DEF hostVars, FlowInv, Serves, NobodyGivesUp
<1>3. CASE NaaGetEvent \/ NaaDrained \/ RunRpc
  <2>1. naa_pc' \in {"drain", "arm", "respond"}
    BY <1>3 DEF NaaGetEvent, NaaDrained, RunRpc
  <2> QED BY <1>1, <2>1, SameFlow DEF hostVars, FlowInv, Serves, NobodyGivesUp
<1> QED BY <1>2, <1>3

-------------------------------------------------------------------------------
(***************************************************************************)
(* The host's calls.                                                       *)
(***************************************************************************)
LEMMA SayingMoves ==
  ASSUME NEW S, NEW q \in Seq(S), NEW op, NEW msg, Saying(q, op, msg)
  PROVE  /\ \A x \in S : (x.op = op => x.msg = msg) => Saying(Append(q, x), op, msg)
         /\ \A r \in Seq(S) : Saying(r, op, msg) => Saying(q \o r, op, msg)
         /\ q # <<>> => /\ Saying(Tail(q), op, msg)
                        /\ Head(q).op = op => Head(q).msg = msg
<1>1. ASSUME NEW x \in S, x.op = op => x.msg = msg
      PROVE  Saying(Append(q, x), op, msg)
  <2> DEFINE a == Append(q, x)
  <2>1. /\ Len(a) = Len(q) + 1 /\ Len(q) \in Nat
        /\ \A i \in 1..Len(q) : a[i] = q[i]
        /\ a[Len(q) + 1] = x
    OBVIOUS
  <2> HIDE DEF a
  <2>2. \A i \in 1..Len(a) : i \in 1..Len(q) \/ i = Len(q) + 1
    BY <2>1
  <2> QED BY <1>1, <2>1, <2>2 DEF Saying, a
<1>2. ASSUME NEW r \in Seq(S), Saying(r, op, msg) PROVE Saying(q \o r, op, msg)
  <2> DEFINE c == q \o r
  <2>1. /\ \A i \in 1..Len(q) : c[i] = q[i]
        /\ \A i \in 1..Len(c) : \/ i \in 1..Len(q)
                                \/ /\ i - Len(q) \in 1..Len(r)
                                   /\ c[i] = r[i - Len(q)]
    BY ConcatElements
  <2> HIDE DEF c
  <2> QED BY <1>2, <2>1 DEF Saying, c
<1>3. ASSUME q # <<>>
      PROVE  /\ Saying(Tail(q), op, msg)
             /\ Head(q).op = op => Head(q).msg = msg
  <2> DEFINE t == Tail(q)
  <2>1. /\ Len(t) = Len(q) - 1 /\ Len(q) \in Nat /\ Len(q) > 0
        /\ Head(q) = q[1]
        /\ \A i \in 1..Len(t) : t[i] = q[i + 1]
    BY <1>3
  <2> HIDE DEF t
  <2>2. \A i \in 1..Len(t) : i + 1 \in 1..Len(q)
    BY <2>1
  <2>3. 1 \in 1..Len(q)
    BY <2>1
  <2> QED BY <2>1, <2>2, <2>3 DEF Saying, t
<1> QED BY <1>1, <1>2, <1>3

(* A step of the host leaves the worker's side as it is.                   *)
LEMMA NaaSide ==
  ASSUME FlowInv, UNCHANGED naaVars, sq'["naa"] = sq["naa"],
         unacked'["naa"] = unacked["naa"], cq'["naa"] = cq["naa"]
  PROVE  /\ Unheard' <=> Unheard
         /\ Announced' <=> Announced
         /\ Answering' <=> Answering
         /\ Asked' <=> Asked
         /\ Spare' <=> Spare
         /\ NaaTally'
         /\ Saying(cq'["naa"], "RECV", "AAR") /\ Saying(sq'["naa"], "SEND", "A")
         /\ naa_state' = MRSP_SENDING /\ cq'["naa"] # <<>> =>
              Head(cq'["naa"]).op = "SEND"
         /\ naa_state' = MRSP_SENDING =>
              ~NoMessage(sq'["naa"], unacked'["naa"], cq'["naa"])
         /\ Once(cq'["naa"], {"RECV"})
         /\ naa_pc' \notin {"exit", "gone"}
         /\ naa_pc' = "receive" => naa_call' # "receive_data_transfer"
<1>1. /\ Unheard' <=> Unheard
      /\ Announced' <=> Announced
      /\ Answering' <=> Answering
      /\ Asked' <=> Asked
      /\ Spare' <=> Spare
  BY DEF naaVars, Unheard, Announced, Answering, Asked, Spare
<1>2. NaaTally'
  <2>1. One(Asked') = One(Asked)
    BY <1>1 DEF One
  <2>2. naa_state' = naa_state /\ naa_writes_done' = naa_writes_done
    BY DEF naaVars
  <2> QED BY <1>1, <2>1, <2>2 DEF FlowInv, NaaTally
<1>3. /\ Saying(cq'["naa"], "RECV", "AAR") /\ Saying(sq'["naa"], "SEND", "A")
      /\ naa_state' = MRSP_SENDING /\ cq'["naa"] # <<>> =>
           Head(cq'["naa"]).op = "SEND"
      /\ naa_state' = MRSP_SENDING =>
           ~NoMessage(sq'["naa"], unacked'["naa"], cq'["naa"])
      /\ Once(cq'["naa"], {"RECV"})
  BY DEF FlowInv, Sayings, Heads, Setup, naaVars
<1>4. /\ naa_pc' \notin {"exit", "gone"}
      /\ naa_pc' = "receive" => naa_call' # "receive_data_transfer"
  BY DEF FlowInv, Serves, NobodyGivesUp, Receives, naaVars
<1> QED BY <1>1, <1>2, <1>3, <1>4

LEMMA MrspFlow ==
  ASSUME FaultFree, Known, FlowInv, DoMrsp, UNCHANGED naaVars, Alive'
  PROVE  FlowInv'
<1> DEFINE list == <<AnnounceAndRequest>>
<1>1. /\ host_state = CONNECTED /\ host_state' = MRSP_SENDING /\ host_pc' = "poll"
      /\ UNCHANGED <<unacked, cq, response_received>>
  BY DEF DoMrsp
<1>2. recvs'["host"] = recvs["host"] + 1 /\ recvs'["naa"] = recvs["naa"]
  <2>1. PostRecvMrsp
    <3>1. PICK posted \in Outcomes("post_recv") :
            IF posted THEN PostRecvMrsp ELSE UNCHANGED recvs
      BY DEF DoMrsp
    <3>2. Outcomes("post_recv") = {TRUE}
      BY NoFaults
    <3> QED BY <3>1, <3>2
  <2> QED BY <2>1 DEF PostRecvMrsp, PostRecv, Known, TypeOK, VerbsTypeOK, Ends
<1>3. sq'["host"] = sq["host"] \o list /\ sq'["naa"] = sq["naa"]
  <2>1. PostSend("host", list)
    <3>1. PICK wrs \in HostAccepted(list) : PostSend("host", wrs)
      BY DEF DoMrsp
    <3>2. HostAccepted(list) = {list}
      BY NoFaults
    <3> QED BY <3>1, <3>2
  <2> QED BY <2>1, PostSendEffect DEF Known, Ends
<1>4. /\ list \in Seq(WorkRequests) /\ sq["host"] \in Seq(WorkRequests)
      /\ Has(list, {"SEND"}) /\ Once(list, {"SEND"}) /\ Saying(list, "SEND", "AAR")
  <2>1. AnnounceAndRequest \in WorkRequests
    BY DEF AnnounceAndRequest, WorkRequests, Messages
  <2>2. Len(list) = 1 /\ list[1] = AnnounceAndRequest
    OBVIOUS
  <2>3. AnnounceAndRequest.op = "SEND" /\ AnnounceAndRequest.msg = "AAR"
    BY DEF AnnounceAndRequest
  <2>4. list \in Seq(WorkRequests)
    BY <2>1
  <2> HIDE DEF list
  <2>5. Has(list, {"SEND"}) /\ Once(list, {"SEND"}) /\ Saying(list, "SEND", "AAR")
    BY <2>2, <2>3 DEF Has, Once, Saying
  <2> QED BY <2>4, <2>5, QueueTypes DEF Known, Ends
<1> HIDE DEF list
<1>5. /\ ~InSetup /\ ~InTransfer /\ Unheard
      /\ NoMessage(sq["host"], unacked["host"], cq["host"])
      /\ ~Announced /\ ~Delivered /\ ~Answering /\ ~Answered /\ recvs["host"] = 0
      /\ cq["host"] = <<>>
  <2>1. ~InSetup /\ ~InTransfer
    BY <1>1 DEF InSetup, InTransfer, CONNECTED, MRSP_SENDING, MRSP_RECEIVING,
                DATA_SENDING, DATA_RECEIVING
  <2>2. NoMessage(sq["host"], unacked["host"], cq["host"])
    BY <2>1 DEF FlowInv, HostMessage, InSetup
  <2>3. Unheard /\ ~Announced /\ ~Delivered /\ ~Answering
    BY <1>1, <2>1 DEF FlowInv, Setup
  <2>4. recvs["host"] = 0 /\ ~Answered
    BY <1>1 DEF Known, ResponseInv, NoResponse, Answered, Has, AnyReceive
  <2>5. cq["host"] = <<>>
    BY <2>1, HostIdle
  <2> QED BY <2>1, <2>2, <2>3, <2>4, <2>5
<1>6. Has(sq'["host"], {"SEND"}) /\ Once(sq'["host"], {"SEND"})
  BY <1>3, <1>4, <1>5, ConcatHas DEF NoMessage
<1>7. HostMessage'
  BY <1>1, <1>5, <1>6 DEF FlowInv, HostMessage, Message, NoMessage
<1>8. InSetup' /\ ~InTransfer' /\ ~Delivered' /\ ~Answered'
  BY <1>1, <1>5 DEF InSetup, InTransfer, MRSP_SENDING, MRSP_RECEIVING,
                    DATA_SENDING, DATA_RECEIVING, Delivered, Answered
<1>9. Sayings'
  <2>1. Saying(sq["host"], "SEND", "AAR")
    BY DEF FlowInv, Sayings
  <2>2. Saying(sq'["host"], "SEND", "AAR")
    BY <1>3, <1>4, <2>1, SayingMoves
  <2> QED BY <1>1, <1>3, <2>2 DEF FlowInv, Sayings
<1>10. Setup'
  BY <1>1, <1>3, <1>5, <1>6, <1>8, NaaSide DEF Setup, Announcing
<1>11. Heads'
  BY <1>1, <1>3, <1>5, NaaSide DEF Heads
<1>12. NaaTally'
  BY <1>1, <1>3, NaaSide
<1>13. Receives'
  BY <1>1, <1>2, <1>3, <1>5, <1>8, NaaSide DEF FlowInv, Receives, One
<1>14. Serves'
  BY <1>1, <1>3, NaaSide DEF FlowInv, Serves, NobodyGivesUp
<1> QED BY <1>7, <1>9, <1>10, <1>11, <1>12, <1>13, <1>14 DEF FlowInv

LEMMA CallFlow ==
  ASSUME FaultFree, Known, FlowInv, DoDataTransfer, UNCHANGED naaVars, Alive',
         ShapeInv'
  PROVE  FlowInv'
<1> DEFINE k == no_rpc_calls + 1
           list == WriteList(to_write', Immediate, k)
<1>1. /\ host_state \in {MRSP_DONE, FINISHED} /\ host_state' = DATA_SENDING
      /\ host_pc' = "poll" /\ response_received' = FALSE
      /\ UNCHANGED <<unacked, cq>>
  BY DEF DoDataTransfer, MayCall, WriteData, FaultFree
<1>2. recvs'["host"] = recvs["host"] + 1 /\ recvs'["naa"] = recvs["naa"]
  <2>1. PostRecvData
    <3>1. PICK posted \in Outcomes("post_recv") :
            IF posted THEN PostRecvData ELSE UNCHANGED recvs
      BY DEF DoDataTransfer
    <3>2. Outcomes("post_recv") = {TRUE}
      BY NoFaults
    <3> QED BY <3>1, <3>2
  <2> QED BY <2>1 DEF PostRecvData, PostRecv, Known, TypeOK, VerbsTypeOK, Ends
<1>3. sq'["host"] = sq["host"] \o list /\ sq'["naa"] = sq["naa"]
  <2>1. PostSend("host", list)
    <3>1. WriteData(host_fncode', k) /\ host_fncode' # 0
      BY DEF DoDataTransfer, Alive
    <3>2. PICK wrs \in HostAccepted(list) : PostSend("host", wrs)
      BY <3>1 DEF WriteData, Dropped
    <3>3. HostAccepted(list) = {list}
      BY NoFaults
    <3> QED BY <3>2, <3>3
  <2> QED BY <2>1, PostSendEffect DEF Known, Ends
<1>4. /\ list \in Seq(WorkRequests) /\ sq["host"] \in Seq(WorkRequests)
      /\ ~Has(list, {"SEND"})
  <2>1. to_write' \in Seq(Regions)
    BY HostAssumption DEF ShapeInv
  <2>2. k \in Nat
    BY DEF Known, TypeOK, HostTypeOK
  <2>3. list \in Seq(HostRequests(RegionsOf(to_write'), k))
    BY <2>1, <2>2, WriteListShape, ImmediateNonzero
  <2>4. ~Has(list, {"SEND"})
    BY WriteListPlain
  <2> HIDE DEF list, k
  <2>5. list \in Seq(WorkRequests)
    BY <2>3, SubRequests
  <2> QED BY <2>4, <2>5, QueueTypes DEF Known, Ends
<1> HIDE DEF list, k
<1>5. /\ ~InSetup /\ ~Unheard
      /\ NoMessage(sq["host"], unacked["host"], cq["host"])
      /\ ~Announcing /\ ~Announced /\ ~Delivered /\ ~Answering /\ recvs["host"] = 0
  <2>1. ~InSetup
    BY <1>1 DEF InSetup, MRSP_DONE, MRSP_SENDING, MRSP_RECEIVING, FINISHED
  <2>2. NoMessage(sq["host"], unacked["host"], cq["host"])
    BY <2>1 DEF FlowInv, HostMessage, InSetup
  <2>3. ~Unheard
    BY <1>1 DEF FlowInv, Setup, CONNECTED, MRSP_DONE, MRSP_SENDING,
                MRSP_RECEIVING, FINISHED
  <2>4. ~Announcing /\ ~Announced /\ ~Delivered /\ ~Answering
    BY <2>1, <2>3 DEF FlowInv, Setup
  <2>5. recvs["host"] = 0
    BY <1>1 DEF Known, ResponseInv, NoResponse
  <2> QED BY <2>1, <2>2, <2>3, <2>4, <2>5
<1>6. ~Has(sq'["host"], {"SEND"})
  BY <1>3, <1>4, <1>5, ConcatHas DEF NoMessage
<1>7. HostMessage'
  <2>1. NoMessage(sq'["host"], unacked'["host"], cq'["host"])
    BY <1>1, <1>5, <1>6 DEF NoMessage
  <2>2. host_state' # MRSP_SENDING
    BY <1>1 DEF DATA_SENDING, MRSP_SENDING
  <2> QED BY <2>1, <2>2 DEF HostMessage, Message, NoMessage, Has, Once
<1>8. ~InSetup' /\ InTransfer' /\ ~Delivered' /\ ~Announcing'
  BY <1>1, <1>5, <1>6
     DEF InSetup, InTransfer, MRSP_SENDING, MRSP_RECEIVING, DATA_SENDING,
         DATA_RECEIVING, Delivered, Announcing
<1>9. ~Answered'
  BY <1>1 DEF Known, ResponseInv, NoResponse, Answered, Has, AnyReceive
<1>10. Sayings'
  <2>1. Saying(sq["host"], "SEND", "AAR") /\ Saying(list, "SEND", "AAR")
    BY <1>4 DEF FlowInv, Sayings, Saying, Has
  <2>2. Saying(sq'["host"], "SEND", "AAR")
    BY <1>3, <1>4, <2>1, SayingMoves
  <2> QED BY <1>1, <1>3, <2>2 DEF FlowInv, Sayings
<1>11. Setup'
  <2>1. host_state' # CONNECTED
    BY <1>1 DEF CONNECTED, DATA_SENDING
  <2> QED BY <1>1, <1>3, <1>5, <1>8, <2>1, NaaSide DEF Setup
<1>12. Heads'
  BY <1>1, <1>3, NaaSide DEF Heads, DATA_SENDING, MRSP_SENDING
<1>13. NaaTally'
  BY <1>1, <1>3, NaaSide
<1>14. Receives'
  BY <1>1, <1>2, <1>3, <1>5, <1>8, <1>9, NaaSide DEF FlowInv, Receives, One
<1>15. Serves'
  BY <1>1, <1>3, NaaSide DEF FlowInv, Serves, NobodyGivesUp
<1> QED BY <1>7, <1>10, <1>11, <1>12, <1>13, <1>14, <1>15 DEF FlowInv

LEMMA TailOk ==
  ASSUME NEW S, NEW q \in Seq(S), q # <<>>, \A i \in 1..Len(q) : q[i].ok
  PROVE  \A i \in 1..Len(Tail(q)) : Tail(q)[i].ok
<1> DEFINE t == Tail(q)
<1>1. /\ Len(t) = Len(q) - 1 /\ Len(q) \in Nat
      /\ \A i \in 1..Len(t) : t[i] = q[i + 1]
  OBVIOUS
<1> HIDE DEF t
<1>2. \A i \in 1..Len(t) : i + 1 \in 1..Len(q)
  BY <1>1
<1> QED BY <1>1, <1>2 DEF t

(* The completion at the head is the one its state waits for.              *)
LEMMA HandleFlow ==
  ASSUME FaultFree, Known, FlowInv, HostDrain \/ HostBusy, UNCHANGED naaVars,
         Alive', ResponseInv'
  PROVE  FlowInv'
<1> DEFINE q == cq["host"]
           c == Head(q)
<1>1. /\ q \in Seq(Completions) /\ q # <<>> /\ cq'["host"] = Tail(q)
      /\ cq'["naa"] = cq["naa"] /\ UNCHANGED <<sq, unacked, recvs>>
  BY HostReceives DEF HostDrain, HostBusy, PollCq, Known, TypeOK, VerbsTypeOK, Ends
<1>2. /\ c \in Completions /\ c.ok
      /\ \A ops : c.op \in ops => Has(q, ops)
      /\ host_state = MRSP_SENDING => c.op = "SEND"
      /\ host_state = MRSP_RECEIVING => c.op = "RECV"
      /\ InTransfer => c.op \in {"RDMA_WRITE", "RECV_IMM"}
      /\ HostAccepts(c)
  BY <1>1, HostHead
<1>3. HostHandleMrsp(c) \/ HostHandleData(c)
  BY <1>2 DEF HostDrain, HostBusy, HostHandle, HostReject
<1>4. host_pc' \in {"app", "poll", "drain"}
  <2>1. HostDrain => HostHandle(c, {"drain"})
    BY DEF HostDrain
  <2>2. HostBusy => HostHandle(c, AfterPoll(host_state'))
    BY DEF HostBusy
  <2>3. AfterPoll(host_state') = {IF CallDone(host_state') THEN "app" ELSE "poll"}
    BY NoFaults
  <2> QED BY <1>2, <2>1, <2>2, <2>3 DEF HostHandle, HostReject
<1> HIDE DEF c, q
<1>5. \A ops : Has(q, ops) <=> Has(Tail(q), ops) \/ c.op \in ops
  BY <1>1, TailHas DEF c
<1>6. /\ host_state = MRSP_SENDING => host_state' = MRSP_RECEIVING
      /\ host_state = MRSP_RECEIVING => host_state' = MRSP_DONE
      /\ InSetup => UNCHANGED response_received
      /\ InTransfer => host_state' \in {DATA_SENDING, DATA_RECEIVING, FINISHED}
      /\ InSetup \/ InTransfer
  BY <1>2, <1>3 DEF HostHandleMrsp, HostHandleData, InSetup, InTransfer,
     MRSP_SENDING, MRSP_RECEIVING, DATA_SENDING, DATA_RECEIVING, FINISHED
<1>7. host_state' \notin {CONNECTED, MRSP_SENDING}
  BY <1>6 DEF InSetup, InTransfer, CONNECTED, MRSP_SENDING, MRSP_RECEIVING,
              MRSP_DONE, DATA_SENDING, DATA_RECEIVING, FINISHED
<1>8. HostMessage'
  <2>1. Message(sq["host"], unacked["host"], q)
    BY DEF FlowInv, HostMessage, q
  <2>2. NoMessage(sq["host"], unacked["host"], q) \/ c.op = "SEND"
    BY <1>2 DEF FlowInv, HostMessage, q
  <2>3. /\ Message(sq["host"], unacked["host"], Tail(q))
        /\ NoMessage(sq["host"], unacked["host"], Tail(q))
    BY <1>1, <2>1, <2>2, MessageDrop DEF c
  <2> QED BY <1>1, <1>7, <2>3 DEF HostMessage
<1>9. Heads'
  BY <1>1, <1>7, NaaSide DEF Heads
<1>10. Sayings'
  <2>1. Saying(Tail(q), "RECV", "A")
    BY <1>1, SayingMoves DEF FlowInv, Sayings, q
  <2> QED BY <1>1, <2>1 DEF FlowInv, Sayings
<1>11. Serves'
  <2>1. \A i \in 1..Len(Tail(q)) : Tail(q)[i].ok
    BY <1>1, TailOk DEF FlowInv, Serves, q
  <2> QED BY <1>1, <1>4, <2>1, NaaSide DEF Serves, NobodyGivesUp
<1>12. NaaTally'
  BY <1>1, NaaSide
<1>13. CASE host_state = MRSP_SENDING
  <2>1. c.op = "SEND" /\ InSetup /\ ~InTransfer /\ InSetup' /\ ~InTransfer'
    BY <1>2, <1>6, <1>13 DEF InSetup, InTransfer, MRSP_SENDING, MRSP_RECEIVING,
                             DATA_SENDING, DATA_RECEIVING
  <2>2. /\ Delivered' <=> Delivered
        /\ Answered' <=> Answered
    BY <1>1, <1>5, <1>6, <2>1 DEF Delivered, Answered, q
  <2>3. host_state' \in {CONNECTED, MRSP_SENDING, MRSP_RECEIVING}
    BY <1>6, <1>13
  <2>4. Setup'
    BY <1>1, <1>7, <2>1, <2>2, <2>3, NaaSide DEF FlowInv, Setup, Announcing
  <2>5. Receives'
    BY <1>1, <2>1, <2>2, NaaSide DEF FlowInv, Receives, One
  <2> QED BY <1>8, <1>9, <1>10, <1>11, <1>12, <2>4, <2>5 DEF FlowInv
<1>14. CASE host_state = MRSP_RECEIVING
  <2>1. c.op = "RECV" /\ InSetup /\ ~InSetup' /\ ~InTransfer'
    BY <1>2, <1>6, <1>14 DEF InSetup, InTransfer, MRSP_SENDING, MRSP_RECEIVING,
                             MRSP_DONE, DATA_SENDING, DATA_RECEIVING
  <2>2. Delivered
    BY <1>2, <2>1 DEF Delivered, q
  <2>3. ~Unheard /\ ~Answering
    BY <2>2 DEF FlowInv, Setup
  <2>4. ~Delivered'
    BY <1>6, <1>14 DEF ResponseInv, NoResponse, Delivered, Has, AnyReceive
  <2>5. Setup'
    BY <1>1, <1>7, <2>1, <2>3, <2>4, NaaSide DEF FlowInv, Setup, Announcing
  <2>6. Receives'
    BY <1>1, <2>1, NaaSide DEF FlowInv, Receives, One
  <2> QED BY <1>8, <1>9, <1>10, <1>11, <1>12, <2>5, <2>6 DEF FlowInv
<1>15. CASE InTransfer
  <2>1. ~InSetup /\ ~InSetup'
    BY <1>6, <1>15 DEF InSetup, InTransfer, MRSP_SENDING, MRSP_RECEIVING,
                       DATA_SENDING, DATA_RECEIVING, FINISHED
  <2>2. ~Unheard /\ ~Answering /\ ~Delivered
    BY <1>15, <2>1 DEF FlowInv, Setup
  <2>3. ~Delivered'
    BY <1>1, <1>5, <2>2 DEF Delivered, q
  <2>4. Setup'
    BY <1>1, <1>7, <2>1, <2>2, <2>3, NaaSide DEF FlowInv, Setup, Announcing
  <2>5. ASSUME InTransfer' PROVE Answered' <=> Answered
    <3>1. HostHandleData(c)
      BY <1>3, <1>15 DEF HostHandleMrsp, InTransfer, MRSP_SENDING,
                         MRSP_RECEIVING, DATA_SENDING, DATA_RECEIVING
    <3>2. response_received \in BOOLEAN
      BY DEF Known, TypeOK, HostTypeOK
    <3>3. response_received' = (response_received \/ c.op = "RECV_IMM")
      BY <2>5, <3>1, <3>2 DEF HostHandleData, InTransfer, DATA_SENDING,
                              DATA_RECEIVING, FINISHED
    <3> QED BY <1>1, <1>5, <3>3 DEF Answered, q
  <2>6. Receives'
    BY <1>1, <1>15, <2>1, <2>5, NaaSide DEF FlowInv, Receives, One
  <2> QED BY <1>8, <1>9, <1>10, <1>11, <1>12, <2>4, <2>6 DEF FlowInv
<1> QED BY <1>6, <1>13, <1>14, <1>15 DEF InSetup

-------------------------------------------------------------------------------
(***************************************************************************)
(* The worker's calls.                                                     *)
(***************************************************************************)
LEMMA HostSide ==
  ASSUME FlowInv, UNCHANGED hostVars, sq'["host"] = sq["host"],
         unacked'["host"] = unacked["host"], cq'["host"] = cq["host"],
         recvs'["host"] = recvs["host"]
  PROVE  /\ InSetup' <=> InSetup
         /\ InTransfer' <=> InTransfer
         /\ Announcing' <=> Announcing
         /\ Delivered' <=> Delivered
         /\ Answered' <=> Answered
         /\ host_state' = host_state
         /\ HostMessage'
         /\ Saying(sq'["host"], "SEND", "AAR") /\ Saying(cq'["host"], "RECV", "A")
         /\ host_state' = MRSP_SENDING /\ cq'["host"] # <<>> =>
              Head(cq'["host"]).op = "SEND"
         /\ InSetup' => recvs'["host"] = One(~Delivered')
         /\ InTransfer' => recvs'["host"] = One(~Answered')
         /\ host_pc' \notin {"failed", "closed"}
         /\ \A i \in 1..Len(cq'["host"]) : cq'["host"][i].ok
<1>1. /\ InSetup' <=> InSetup
      /\ InTransfer' <=> InTransfer
      /\ Announcing' <=> Announcing
      /\ Delivered' <=> Delivered
      /\ Answered' <=> Answered
      /\ host_state' = host_state
  BY DEF hostVars, InSetup, InTransfer, Announcing, Delivered, Answered
<1>2. HostMessage'
  BY <1>1 DEF FlowInv, HostMessage
<1>3. /\ Saying(sq'["host"], "SEND", "AAR") /\ Saying(cq'["host"], "RECV", "A")
      /\ host_state' = MRSP_SENDING /\ cq'["host"] # <<>> =>
           Head(cq'["host"]).op = "SEND"
  BY <1>1 DEF FlowInv, Sayings, Heads
<1>4. /\ InSetup' => recvs'["host"] = One(~Delivered')
      /\ InTransfer' => recvs'["host"] = One(~Answered')
  BY <1>1 DEF FlowInv, Receives, One
<1>5. /\ host_pc' \notin {"failed", "closed"}
      /\ \A i \in 1..Len(cq'["host"]) : cq'["host"][i].ok
  BY DEF FlowInv, Serves, NobodyGivesUp, hostVars
<1> QED BY <1>1, <1>2, <1>3, <1>4, <1>5

(* A receive is posted.                                                    *)
LEMMA NaaPosts ==
  ASSUME FaultFree, Known,
         \E posted \in NaaOutcomes("post_recv") :
           IF posted THEN PostRecv("naa") ELSE UNCHANGED recvs
  PROVE  recvs'["host"] = recvs["host"] /\ recvs'["naa"] = recvs["naa"] + 1
<1>1. PostRecv("naa")
  <2>1. NaaOutcomes("post_recv") = {TRUE}
    BY NoFaults
  <2> QED BY <2>1
<1> QED BY <1>1 DEF PostRecv, Known, TypeOK, VerbsTypeOK, Ends

LEMMA PostingFlow ==
  ASSUME FaultFree, Known, FlowInv, NaaStart \/ NaaReceive, UNCHANGED hostVars,
         Alive'
  PROVE  FlowInv'
<1> USE DEF CONNECTED, MRSP_RECEIVING, MRSP_SENDING, MRSP_DONE, DATA_SENDING,
            DATA_RECEIVING
<1>1. /\ UNCHANGED <<sq, unacked, cq, naa_writes_done>> /\ naa_pc' = "poll"
      /\ recvs'["host"] = recvs["host"] /\ recvs'["naa"] = recvs["naa"] + 1
  BY NaaPosts DEF NaaStart, NaaReceive
<1>2. /\ Unheard' <=> Unheard
      /\ ~Spare /\ Spare'
      /\ naa_state' \notin {MRSP_SENDING, DATA_SENDING}
  <2>1. CASE NaaStart
    <3>1. naa_state = CONNECTED /\ naa_call = "do_mrsp" /\ naa_state' = MRSP_RECEIVING
      BY <2>1 DEF NaaStart, Known, ExchangeInv, WorkerInv, NaaControl
    <3> QED BY <3>1 DEF Unheard, Spare
  <2>2. CASE NaaReceive
    <3>1. /\ naa_state \in {MRSP_DONE, DATA_RECEIVING}
          /\ naa_call # "receive_data_transfer"
          /\ naa_state' = DATA_RECEIVING /\ naa_call' = "receive_data_transfer"
      BY <2>2 DEF NaaReceive, Known, ExchangeInv, WorkerInv, NaaControl, FlowInv,
                  Receives
    <3> QED BY <3>1 DEF Unheard, Spare
  <2> QED BY <2>1, <2>2
<1>3. /\ Announced' <=> Announced
      /\ Answering' <=> Answering
      /\ Asked' <=> Asked
  BY <1>1 DEF Announced, Answering, Asked
<1>4. /\ sq'["host"] = sq["host"] /\ unacked'["host"] = unacked["host"]
      /\ cq'["host"] = cq["host"]
  BY <1>1
<1>5. HostMessage' /\ Sayings' /\ Heads'
  BY <1>1, <1>2, <1>4, HostSide DEF FlowInv, Sayings, Heads
<1>6. Setup'
  BY <1>1, <1>2, <1>3, <1>4, HostSide DEF FlowInv, Setup
<1>7. NaaTally'
  BY <1>2 DEF NaaTally
<1>8. Receives'
  <2>1. recvs["naa"] + One(Announced \/ Asked) = 1 + One(Spare)
    BY DEF FlowInv, Receives
  <2>2. One(Announced' \/ Asked') = One(Announced \/ Asked)
    BY <1>3 DEF One
  <2>3. One(Spare) = 0 /\ One(Spare') = 1
    BY <1>2 DEF One
  <2>4. recvs["naa"] \in Nat /\ One(Announced \/ Asked) \in Nat
    BY QueueTypes DEF Known, Ends, One
  <2>5. recvs'["naa"] + One(Announced' \/ Asked') = 1 + One(Spare')
    BY <1>1, <2>1, <2>2, <2>3, <2>4
  <2> QED BY <1>1, <1>4, <2>5, HostSide DEF Receives
<1>9. Serves'
  BY <1>1, <1>4, HostSide DEF Serves, NobodyGivesUp
<1> QED BY <1>5, <1>6, <1>7, <1>8, <1>9 DEF FlowInv

(* A queue that holds nothing of any kind is empty.                        *)
LEMMA NoRequests ==
  ASSUME NEW q \in Seq(WorkRequests), ~Has(q, {"SEND"}), ~Has(q, AnyWrite)
  PROVE  q = <<>>
<1> SUFFICES ASSUME q # <<>> PROVE FALSE
  OBVIOUS
<1>1. /\ Head(q) \in WorkRequests
      /\ \A ops : Head(q).op \in ops => Has(q, ops)
  BY HeadIn
<1> QED BY <1>1 DEF WorkRequests, AnyWrite

LEMMA NoCompletions ==
  ASSUME NEW q \in Seq(Completions),
         ~Has(q, {"SEND"}), ~Has(q, {"RDMA_WRITE"}),
         ~Has(q, {"RECV"}), ~Has(q, {"RECV_IMM"})
  PROVE  q = <<>>
<1> SUFFICES ASSUME q # <<>> PROVE FALSE
  OBVIOUS
<1>1. /\ Head(q) \in Completions
      /\ \A ops : Head(q).op \in ops => Has(q, ops)
  BY HeadIn
<1> QED BY <1>1 DEF Completions

(* While it computes, the worker has nothing under way.                    *)
LEMMA ServingEmpty ==
  ASSUME Known, FlowInv, Serving
  PROVE  sq["naa"] = <<>> /\ unacked["naa"] = <<>> /\ cq["naa"] = <<>>
<1> USE DEF CONNECTED, MRSP_RECEIVING, MRSP_SENDING, DATA_SENDING, CALCULATING
<1>1. /\ naa_state \notin {MRSP_SENDING, DATA_SENDING} /\ ~Unheard
  BY DEF Serving, Unheard
<1>2. NoMessage(sq["naa"], unacked["naa"], cq["naa"])
  BY <1>1 DEF Known, ExchangeInv, WorkerInv, NaaMessage
<1>3. /\ Writes(sq["naa"]) = {} /\ Writes(unacked["naa"]) = {}
      /\ Writes(cq["naa"]) = {}
  BY <1>1, NaaQuiet DEF Known, ExchangeInv, WorkerInv
<1>4. ~Announced /\ ~Asked
  BY <1>1 DEF FlowInv, Setup, Known, ExchangeInv, Tokens
<1>5. /\ sq["naa"] \in Seq(WorkRequests) /\ unacked["naa"] \in Seq(WorkRequests)
      /\ cq["naa"] \in Seq(Completions)
  BY NaaTypes DEF Known
<1>6. /\ ~Has(sq["naa"], AnyWrite) /\ ~Has(unacked["naa"], AnyWrite)
      /\ ~Has(cq["naa"], {"RDMA_WRITE"})
  BY <1>3, NoWriteHas
<1> QED BY <1>2, <1>4, <1>5, <1>6, NoRequests, NoCompletions DEF NoMessage, Announced, Asked

LEMMA RespondFlow ==
  ASSUME FaultFree, Known, FlowInv, NoError, NaaRespond, UNCHANGED hostVars,
         Alive'
  PROVE  FlowInv'
<1> USE DEF CONNECTED, MRSP_RECEIVING, MRSP_SENDING, DATA_SENDING,
            DATA_RECEIVING, CALCULATING
<1>1. /\ naa_state = CALCULATING /\ naa_state' = DATA_SENDING /\ Serving
      /\ naa_call' = "do_data_transfer" /\ naa_pc' = "poll"
      /\ UNCHANGED <<unacked, cq, recvs, naa_writes_done>>
  BY DEF NaaRespond, Known, ExchangeInv, WorkerInv, NaaControl, Serving
<1>2. /\ sq["naa"] = <<>> /\ unacked["naa"] = <<>> /\ cq["naa"] = <<>>
      /\ naa_writes_done = 0
  BY <1>1, ServingEmpty DEF Known, ExchangeInv, WorkerInv, NaaOrder
<1>3. /\ sq'["naa"] = ResponseList /\ sq'["host"] = sq["host"]
      /\ ~Has(ResponseList, {"SEND"}) /\ Len(ResponseList) = no_output_mrs
  <2>1. NaaAccepted(ResponseList) = {ResponseList}
    BY NoFaults
  <2>2. PostSend("naa", ResponseList)
    BY <2>1 DEF NaaRespond
  <2>3. ResponseList \in Seq(WorkRequests) /\ ~Has(ResponseList, {"SEND"})
    BY <2>1, ResponseListOrder DEF Known, TypeOK
  <2>4. Len(ResponseList) = no_output_mrs
    <3>1. no_output_mrs \in Nat
      BY NaaTypes DEF Known
    <3> QED BY <3>1 DEF ResponseList, NoError
  <2> HIDE DEF ResponseList
  <2>5. /\ sq'["naa"] = sq["naa"] \o ResponseList
        /\ sq'["host"] = sq["host"]
    BY <2>2, PostSendEffect DEF Known, Ends
  <2>6. <<>> \o ResponseList = ResponseList
    BY <2>3
  <2> QED BY <1>2, <2>3, <2>4, <2>5, <2>6
<1>4. /\ ~Unheard /\ ~Unheard' /\ ~Answering /\ ~Answering' /\ ~Spare /\ ~Spare'
  <2>1. ~Unheard /\ ~Unheard' /\ ~Spare /\ ~Spare'
    BY <1>1 DEF Unheard, Spare
  <2>2. ~Answering
    BY <1>2, HasNone DEF Answering
  <2> QED BY <1>3, <2>1, <2>2 DEF Answering
<1>5. /\ ~Announced /\ ~Asked /\ ~Announced' /\ ~Asked'
  BY <1>1, <1>2, HasNone DEF Announced, Asked
<1>6. /\ sq'["host"] = sq["host"] /\ unacked'["host"] = unacked["host"]
      /\ cq'["host"] = cq["host"] /\ recvs'["host"] = recvs["host"]
  BY <1>1, <1>3
<1>7. HostMessage' /\ Sayings' /\ Heads'
  <2>1. Saying(sq'["naa"], "SEND", "A")
    BY <1>4 DEF Saying, Answering, Has
  <2> QED BY <1>1, <1>6, <2>1, HostSide DEF FlowInv, Sayings, Heads
<1>8. Setup'
  BY <1>1, <1>4, <1>5, <1>6, HostSide DEF FlowInv, Setup
<1>9. NaaTally'
  <2>1. Len(<<>>) = 0 /\ OnlyLast(<<>>, {"RECV_IMM"})
    BY DEF OnlyLast
  <2>2. no_output_mrs \in Nat /\ no_output_mrs > 0
    BY NaaTypes DEF Known
  <2>3. One(Asked') = 0
    BY <1>5 DEF One
  <2>4. /\ Len(sq'["naa"]) = no_output_mrs /\ Len(unacked'["naa"]) = 0
        /\ Len(cq'["naa"]) = 0 /\ naa_writes_done' = 0
        /\ OnlyLast(cq'["naa"], {"RECV_IMM"})
    BY <1>1, <1>2, <1>3, <2>1
  <2>5. AllOf(naa_writes_done', sq'["naa"], unacked'["naa"], cq'["naa"])
          = no_output_mrs + One(Asked')
    BY <2>2, <2>3, <2>4 DEF AllOf
  <2> QED BY <1>5, <2>2, <2>4, <2>5 DEF NaaTally
<1>10. Receives'
  <2>1. One(Announced' \/ Asked') = One(Announced \/ Asked)
        /\ One(Spare') = One(Spare)
    BY <1>4, <1>5 DEF One
  <2> QED BY <1>1, <1>6, <2>1, HostSide DEF FlowInv, Receives
<1>11. Serves'
  BY <1>1, <1>6, HostSide DEF Serves, NobodyGivesUp
<1> QED BY <1>7, <1>8, <1>9, <1>10, <1>11 DEF FlowInv

(* What the handling of a completion does in each state, faults aside.     *)
LEMMA NaaDrainCases ==
  ASSUME FaultFree, Known, FlowInv, NaaDrain
  PROVE  LET c == Head(cq["naa"])
             t == Tail(cq["naa"])
         IN /\ cq["naa"] \in Seq(Completions) /\ cq["naa"] # <<>>
            /\ cq'["naa"] = t /\ cq'["host"] = cq["host"]
            /\ UNCHANGED <<naa_call, unacked, recvs>>
            /\ naa_pc' \in {"drain", "arm"}
            /\ \A ops : Has(cq["naa"], ops) <=> Has(t, ops) \/ c.op \in ops
            /\ \/ /\ naa_state = MRSP_RECEIVING /\ naa_state' = MRSP_SENDING
                  /\ naa_call = "do_mrsp" /\ c.op = "RECV" /\ PostMessage("A")
               \/ /\ naa_state = MRSP_SENDING /\ naa_state' = MRSP_DONE
                  /\ naa_call = "do_mrsp" /\ c.op = "SEND" /\ UNCHANGED sq
               \/ /\ naa_state = DATA_RECEIVING /\ naa_state' = CALCULATING
                  /\ naa_call = "receive_data_transfer" /\ c.op = "RECV_IMM"
                  /\ UNCHANGED <<sq, naa_writes_done>>
               \/ /\ naa_state = DATA_SENDING
                  /\ naa_call = "do_data_transfer" /\ c.op = "RDMA_WRITE"
                  /\ UNCHANGED sq
                  /\ \/ /\ naa_state' = DATA_SENDING
                        /\ naa_writes_done' = naa_writes_done + 1
                        /\ naa_writes_done + 1 # no_output_mrs
                     \/ naa_state' = DATA_RECEIVING
<1> USE DEF MRSP_RECEIVING, MRSP_SENDING, MRSP_DONE, DATA_SENDING,
            DATA_RECEIVING, CALCULATING
<1> DEFINE c == Head(cq["naa"])
           t == Tail(cq["naa"])
<1>1. /\ cq["naa"] # <<>> /\ cq'["naa"] = t /\ UNCHANGED <<naa_call, unacked, recvs>>
      /\ cq["naa"] \in Seq(Completions) /\ naa_pc = "drain"
      /\ \/ NaaHandleAnnounce(c) \/ NaaHandleAnswered(c) \/ NaaHandleData(c)
         \/ NaaHandleWritten(c) \/ NaaReject(c)
  BY NaaDrainEffect, NaaTypes DEF NaaDrain, Known
<1>2. cq'["host"] = cq["host"]
  BY DEF NaaDrain, PollCq, Known, TypeOK, VerbsTypeOK, Ends
<1>3. /\ NaaAt \in Polled /\ NaaAccepts(c)
      /\ naa_state = MRSP_RECEIVING => c.op = "RECV"
      /\ naa_state = MRSP_SENDING => c.op = "SEND"
      /\ naa_state = DATA_RECEIVING => c.op = "RECV_IMM"
      /\ naa_state = DATA_SENDING => c.op = "RDMA_WRITE"
  BY <1>1, NaaHead
<1>4. \A ops : Has(cq["naa"], ops) <=> Has(t, ops) \/ c.op \in ops
  BY <1>1, TailHas
<1> HIDE DEF c, t
<1>5. ~NaaReject(c)
  BY <1>3 DEF NaaReject
<1>6. CASE NaaHandleAnnounce(c)
  <2>1. NaaOutcomes("mrsp") = {TRUE}
    BY NoFaults
  <2>2. PostMessage("A") /\ naa_pc' = "drain"
    BY <1>6, <2>1 DEF NaaHandleAnnounce
  <2>3. /\ naa_state = MRSP_RECEIVING /\ naa_state' = MRSP_SENDING /\ c.op = "RECV"
        /\ naa_call = "do_mrsp"
    BY <1>3, <1>6 DEF NaaHandleAnnounce, NaaAt, Polled
  <2> QED BY <1>1, <1>2, <1>4, <2>2, <2>3 DEF c, t
<1>7. CASE NaaHandleAnswered(c)
  <2>1. /\ naa_state = MRSP_SENDING /\ naa_state' = MRSP_DONE /\ c.op = "SEND"
        /\ naa_call = "do_mrsp" /\ UNCHANGED sq /\ naa_pc' \in {"drain", "arm"}
    BY <1>3, <1>7 DEF NaaHandleAnswered, AfterCompletion, NaaAt, Polled
  <2> QED BY <1>1, <1>2, <1>4, <2>1 DEF c, t
<1>8. CASE NaaHandleData(c)
  <2>1. /\ naa_state = DATA_RECEIVING /\ c.op = "RECV_IMM"
        /\ naa_call = "receive_data_transfer"
    BY <1>3, <1>8 DEF NaaHandleData, NaaAt, Polled
  <2>2. /\ naa_state' = CALCULATING /\ UNCHANGED <<sq, naa_writes_done>>
        /\ naa_pc' \in {"drain", "arm"}
    BY <1>8, <2>1 DEF NaaHandleData, AfterCompletion
  <2> QED BY <1>1, <1>2, <1>4, <2>1, <2>2 DEF c, t
<1>9. CASE NaaHandleWritten(c)
  <2>1. /\ naa_state = DATA_SENDING /\ c.op = "RDMA_WRITE"
        /\ naa_call = "do_data_transfer" /\ UNCHANGED sq
    BY <1>3, <1>9 DEF NaaHandleWritten, NaaAt, Polled
  <2>2. naa_pc' \in {"drain", "arm"}
    BY <1>9 DEF NaaHandleWritten, AfterCompletion
  <2>3. \/ /\ naa_state' = DATA_SENDING
           /\ naa_writes_done' = naa_writes_done + 1
           /\ naa_writes_done + 1 # no_output_mrs
        \/ naa_state' = DATA_RECEIVING
    BY <1>9 DEF NaaHandleWritten
  <2> QED BY <1>1, <1>2, <1>4, <2>1, <2>2, <2>3 DEF c, t
<1> QED BY <1>1, <1>5, <1>6, <1>7, <1>8, <1>9

(* The worker answers the announcement.                                    *)
LEMMA AnswerPosted ==
  ASSUME FaultFree, Known, PostMessage("A")
  PROVE  /\ sq'["host"] = sq["host"] /\ Has(sq'["naa"], {"SEND"})
         /\ Saying(sq["naa"], "SEND", "A") => Saying(sq'["naa"], "SEND", "A")
<1> DEFINE m == [op |-> "SEND", id |-> 0, mr |-> NoRegion, imm |-> 0,
                 msg |-> "A", call |-> 0]
           list == <<m>>
<1>1. PostSend("naa", list)
  <2>1. NaaAccepted(list) = {list}
    BY NoFaults
  <2> QED BY <2>1 DEF PostMessage
<1>2. m \in WorkRequests
  <2>1. "A" \in Messages
    BY DEF Messages
  <2>2. m \in NaaRequests
    BY <2>1, MessageShape
  <2> QED BY <2>2, SubRequests
<1>3. Len(list) = 1 /\ list[1] = m /\ m.op = "SEND" /\ m.msg = "A"
  OBVIOUS
<1>4. list \in Seq(WorkRequests) /\ sq["naa"] \in Seq(WorkRequests)
  BY <1>2, NaaTypes DEF Known
<1>5. sq'["naa"] = sq["naa"] \o list /\ sq'["host"] = sq["host"]
  BY <1>1, PostSendEffect DEF Known, Ends
<1> HIDE DEF list, m
<1>6. Has(list, {"SEND"}) /\ Saying(list, "SEND", "A")
  BY <1>3 DEF Has, Saying
<1>7. Has(sq["naa"] \o list, {"SEND"})
  BY <1>4, <1>6, ConcatHas
<1>8. Saying(sq["naa"], "SEND", "A") => Saying(sq["naa"] \o list, "SEND", "A")
  BY <1>4, <1>6, SayingMoves
<1> QED BY <1>5, <1>7, <1>8

LEMMA AllMoves ==
  ASSUME NEW d \in Nat, NEW s \in Seq(WorkRequests), NEW u \in Seq(WorkRequests),
         NEW c \in Seq(Completions)
  PROVE  /\ AllOf(d, s, u, c) \in Nat
         /\ s # <<>> => AllOf(d, Tail(s), Append(u, Head(s)), c) = AllOf(d, s, u, c)
         /\ \A x \in Completions :
              /\ AllOf(d, s, u, Append(c, x)) = AllOf(d, s, u, c) + 1
              /\ u # <<>> => AllOf(d, s, Tail(u), Append(c, x)) = AllOf(d, s, u, c)
         /\ c # <<>> => AllOf(d + 1, s, u, Tail(c)) = AllOf(d, s, u, c)
<1>1. PICK a \in Nat, b \in Nat, e \in Nat : a = Len(s) /\ b = Len(u) /\ e = Len(c)
  OBVIOUS
<1>2. /\ s # <<>> => Len(Tail(s)) = a - 1 /\ Head(s) \in WorkRequests
      /\ u # <<>> => Len(Tail(u)) = b - 1
      /\ c # <<>> => Len(Tail(c)) = e - 1
  BY <1>1
<1>3. \A x \in WorkRequests : Len(Append(u, x)) = b + 1
  BY <1>1
<1>4. \A x \in Completions : Len(Append(c, x)) = e + 1
  BY <1>1
<1>5. AllOf(d, s, u, c) = d + a + b + e
  BY <1>1 DEF AllOf
<1>6. s # <<>> => AllOf(d, Tail(s), Append(u, Head(s)), c) = d + (a - 1) + (b + 1) + e
  BY <1>1, <1>2, <1>3 DEF AllOf
<1>7. \A x \in Completions : AllOf(d, s, u, Append(c, x)) = d + a + b + (e + 1)
  BY <1>1, <1>4 DEF AllOf
<1>8. \A x \in Completions :
        u # <<>> => AllOf(d, s, Tail(u), Append(c, x)) = d + a + (b - 1) + (e + 1)
  BY <1>1, <1>2, <1>4 DEF AllOf
<1>9. c # <<>> => AllOf(d + 1, s, u, Tail(c)) = d + 1 + a + b + (e - 1)
  BY <1>1, <1>2 DEF AllOf
<1> QED BY <1>5, <1>6, <1>7, <1>8, <1>9

LEMMA DrainFlow ==
  ASSUME FaultFree, Known, FlowInv, NaaDrain, UNCHANGED hostVars, Alive'
  PROVE  FlowInv'
<1> USE DEF CONNECTED, MRSP_RECEIVING, MRSP_SENDING, MRSP_DONE, DATA_SENDING,
            DATA_RECEIVING, CALCULATING
<1> DEFINE q == cq["naa"]
           c == Head(q)
           t == Tail(q)
           Announce == /\ naa_state = MRSP_RECEIVING /\ naa_state' = MRSP_SENDING
                       /\ naa_call = "do_mrsp" /\ c.op = "RECV" /\ PostMessage("A")
           Replied == /\ naa_state = MRSP_SENDING /\ naa_state' = MRSP_DONE
                      /\ naa_call = "do_mrsp" /\ c.op = "SEND" /\ UNCHANGED sq
           Called == /\ naa_state = DATA_RECEIVING /\ naa_state' = CALCULATING
                     /\ naa_call = "receive_data_transfer" /\ c.op = "RECV_IMM"
                     /\ UNCHANGED <<sq, naa_writes_done>>
           Written == /\ naa_state = DATA_SENDING
                      /\ naa_call = "do_data_transfer" /\ c.op = "RDMA_WRITE"
                      /\ UNCHANGED sq
                      /\ \/ /\ naa_state' = DATA_SENDING
                            /\ naa_writes_done' = naa_writes_done + 1
                            /\ naa_writes_done + 1 # no_output_mrs
                         \/ naa_state' = DATA_RECEIVING
<1>1. /\ q \in Seq(Completions) /\ q # <<>>
      /\ cq'["naa"] = t /\ cq'["host"] = cq["host"]
      /\ UNCHANGED <<naa_call, unacked, recvs>> /\ naa_pc' \in {"drain", "arm"}
      /\ \A ops : Has(q, ops) <=> Has(t, ops) \/ c.op \in ops
      /\ Announce \/ Replied \/ Called \/ Written
  BY NaaDrainCases
<1>2. /\ sq'["host"] = sq["host"]
      /\ Saying(sq'["naa"], "SEND", "A")
  <2>1. Saying(sq["naa"], "SEND", "A")
    BY DEF FlowInv, Sayings
  <2>2. Announce => sq'["host"] = sq["host"] /\ Saying(sq'["naa"], "SEND", "A")
    BY <2>1, AnswerPosted
  <2> QED BY <1>1, <2>1, <2>2
<1>3. /\ unacked'["host"] = unacked["host"] /\ recvs'["host"] = recvs["host"]
  BY <1>1
<1>4. /\ Once(q, {"RECV"}) => Once(t, {"RECV"}) /\ (c.op = "RECV" => ~Has(t, {"RECV"}))
      /\ Once(q, {"RECV_IMM"}) => (c.op = "RECV_IMM" => ~Has(t, {"RECV_IMM"}))
  BY <1>1, TailHas
<1>5. Once(t, {"RECV"}) /\ (c.op = "RECV" => ~Has(t, {"RECV"}))
  BY <1>4 DEF FlowInv, Setup
<1>6. c.op = "RECV_IMM" => ~Has(t, {"RECV_IMM"})
  BY <1>4 DEF Known, ExchangeInv, Tokens
<1>7. Saying(t, "RECV", "AAR")
  BY <1>1, SayingMoves DEF FlowInv, Sayings
<1>8. /\ Announced' <=> Has(t, {"RECV"})
      /\ Asked' <=> Has(t, {"RECV_IMM"})
  BY <1>1 DEF Announced, Asked
<1> HIDE DEF c, t
<1>9. Sayings'
  BY <1>1, <1>2, <1>3, <1>7, HostSide DEF Sayings
<1>10. Serves'
  BY <1>1, <1>2, <1>3, HostSide DEF Serves, NobodyGivesUp
<1>11. HostMessage'
  BY <1>1, <1>2, <1>3, HostSide
<1>12. ASSUME Setup', naa_state' = MRSP_SENDING => t = <<>>, NaaTally',
              recvs["naa"] + One(Announced' \/ Asked') = 1 + One(Spare')
       PROVE  FlowInv'
  <2>1. Heads'
    BY <1>1, <1>2, <1>3, <1>12, HostSide DEF Heads
  <2>2. Receives'
    BY <1>1, <1>2, <1>3, <1>12, HostSide DEF Receives
  <2> QED BY <1>9, <1>10, <1>11, <1>12, <2>1, <2>2 DEF FlowInv
<1>13. recvs["naa"] \in Nat /\ recvs["naa"] + One(Announced \/ Asked) = 1 + One(Spare)
  BY QueueTypes DEF FlowInv, Receives, Known, Ends
<1>14. CASE Announce
  <2>1. c.op = "RECV" /\ Unheard /\ Announced
    BY <1>1, <1>14 DEF Unheard, Announced
  <2>2. ~Announced' /\ ~Unheard' /\ InSetup /\ ~InTransfer /\ ~Announcing
        /\ ~Delivered /\ Spare /\ ~Spare' /\ ~Asked /\ ~Answered
    <3>1. InSetup /\ ~InTransfer /\ ~Announcing /\ ~Delivered /\ ~Answered
      BY <2>1 DEF FlowInv, Setup
    <3>2. ~Asked
      BY <3>1 DEF Known, ExchangeInv, Tokens
    <3>3. Spare /\ ~Spare' /\ ~Unheard' /\ ~Announced'
      BY <1>1, <1>5, <1>8, <1>14, <2>1 DEF Spare, Unheard
    <3> QED BY <3>1, <3>2, <3>3
  <2>3. Answering'
    BY <1>14, AnswerPosted DEF Answering
  <2>4. t = <<>>
    <3>1. ~Has(q, {"RDMA_WRITE"})
      BY <1>14, NaaQuiet, NoWriteHas DEF Known, ExchangeInv, WorkerInv
    <3>2. ~Has(q, {"SEND"})
      BY <1>14 DEF Known, ExchangeInv, WorkerInv, NaaMessage, NoMessage
    <3>3. ~Has(q, {"RECV_IMM"})
      BY <2>2 DEF Asked
    <3>4. t \in Seq(Completions)
      BY <1>1 DEF t
    <3>5. /\ ~Has(t, {"SEND"}) /\ ~Has(t, {"RDMA_WRITE"})
          /\ ~Has(t, {"RECV"}) /\ ~Has(t, {"RECV_IMM"})
      BY <1>1, <1>5, <2>1, <3>1, <3>2, <3>3
    <3> QED BY <3>4, <3>5, NoCompletions
  <2>5. ~Asked'
    BY <1>8, <2>4, HasNone
  <2>6. host_state # CONNECTED
    BY <2>2 DEF InSetup
  <2>7. Setup'
    <3>1. ~NoMessage(sq'["naa"], unacked'["naa"], cq'["naa"])
      BY <2>3 DEF NoMessage, Answering
    <3> QED BY <1>1, <1>2, <1>3, <1>5, <2>2, <2>3, <2>6, <3>1, HostSide
            DEF Setup
  <2>8. NaaTally'
    BY <1>14 DEF NaaTally
  <2>9. recvs["naa"] + One(Announced' \/ Asked') = 1 + One(Spare')
    BY <1>13, <2>1, <2>2, <2>5 DEF One
  <2> QED BY <1>12, <2>4, <2>7, <2>8, <2>9
<1>15. CASE Replied \/ Called \/ Written
  <2>1. /\ ~Unheard /\ ~Unheard' /\ UNCHANGED sq
        /\ naa_state' # MRSP_SENDING
    BY <1>15 DEF Unheard
  <2>2. ~Announced /\ ~Announcing /\ host_state # CONNECTED
    BY <2>1 DEF FlowInv, Setup
  <2>3. ~Announced'
    BY <1>1, <1>8, <2>2 DEF Announced
  <2>4. Answering' <=> Answering
    BY <2>1 DEF Answering
  <2>5. Setup'
    BY <1>1, <1>2, <1>3, <1>5, <2>1, <2>2, <2>3, <2>4, HostSide DEF FlowInv, Setup
  <2>6. CASE Replied
    <3>1. NaaTally'
      BY <2>6 DEF NaaTally
    <3>2. (Asked' <=> Asked) /\ ~Spare /\ ~Spare'
      BY <1>1, <1>8, <2>6 DEF Asked, Spare
    <3>3. recvs["naa"] + One(Announced' \/ Asked') = 1 + One(Spare')
      BY <1>13, <2>2, <2>3, <3>2 DEF One
    <3> QED BY <1>12, <2>1, <2>5, <3>1, <3>3
  <2>7. CASE Called
    <3>1. NaaTally'
      BY <2>7 DEF NaaTally
    <3>2. Asked /\ ~Asked' /\ Spare /\ ~Spare'
      BY <1>1, <1>6, <1>8, <2>7 DEF Asked, Spare
    <3>3. recvs["naa"] + One(Announced' \/ Asked') = 1 + One(Spare')
      BY <1>13, <2>2, <2>3, <3>2 DEF One
    <3> QED BY <1>12, <2>1, <2>5, <3>1, <3>3
  <2>8. CASE Written
    <3>1. (Asked' <=> Asked) /\ ~Spare /\ ~Spare'
      BY <1>1, <1>8, <2>8 DEF Asked, Spare
    <3>2. NaaTally'
      <4>1. SUFFICES ASSUME naa_state' = DATA_SENDING PROVE NaaTally'
        BY DEF NaaTally
      <4>2. /\ naa_writes_done' = naa_writes_done + 1
            /\ naa_writes_done + 1 # no_output_mrs
        BY <2>8, <4>1
      <4>3. naa_writes_done \in Nat /\ no_output_mrs \in Nat
        BY NaaTypes DEF Known
      <4>4. OnlyLast(t, {"RECV_IMM"})
        BY <1>1, <2>8, TailOnlyLast DEF FlowInv, NaaTally, t
      <4>5. /\ naa_writes_done < no_output_mrs
            /\ AllOf(naa_writes_done, sq["naa"], unacked["naa"], q)
                 = no_output_mrs + One(Asked)
            /\ Asked => sq["naa"] = <<>> /\ unacked["naa"] = <<>>
        BY <2>8 DEF FlowInv, NaaTally
      <4>6. AllOf(naa_writes_done + 1, sq["naa"], unacked["naa"], t)
              = AllOf(naa_writes_done, sq["naa"], unacked["naa"], q)
        <5>1. sq["naa"] \in Seq(WorkRequests) /\ unacked["naa"] \in Seq(WorkRequests)
          BY NaaTypes DEF Known
        <5>2. q \in Seq(Completions) /\ q # <<>>
          BY <1>1
        <5> HIDE DEF q
        <5>3. q # <<>> => AllOf(naa_writes_done + 1, sq["naa"], unacked["naa"], Tail(q))
                = AllOf(naa_writes_done, sq["naa"], unacked["naa"], q)
          BY <4>3, <5>1, <5>2, AllMoves
        <5> QED BY <5>2, <5>3 DEF t
      <4>7. One(Asked') = One(Asked)
        BY <3>1 DEF One
      <4>8. naa_writes_done' < no_output_mrs
        BY <4>2, <4>3, <4>5
      <4>9. AllOf(naa_writes_done', sq'["naa"], unacked'["naa"], cq'["naa"])
              = no_output_mrs + One(Asked')
        BY <1>1, <2>1, <4>2, <4>5, <4>6, <4>7
      <4> QED BY <1>1, <2>1, <3>1, <4>4, <4>5, <4>8, <4>9 DEF NaaTally
    <3>3. recvs["naa"] + One(Announced' \/ Asked') = 1 + One(Spare')
      BY <1>13, <2>2, <2>3, <3>1 DEF One
    <3> QED BY <1>12, <2>1, <2>5, <3>2, <3>3
  <2> QED BY <1>15, <2>6, <2>7, <2>8
<1> QED BY <1>1, <1>14, <1>15

-------------------------------------------------------------------------------
(***************************************************************************)
(* The adapters.                                                           *)
(***************************************************************************)
LEMMA MessageMoves ==
  ASSUME NEW s \in Seq(WorkRequests), NEW u \in Seq(WorkRequests),
         NEW c \in Seq(Completions), Message(s, u, c)
  PROVE  /\ s # <<>> =>
              /\ Message(Tail(s), Append(u, Head(s)), c)
              /\ NoMessage(Tail(s), Append(u, Head(s)), c) <=> NoMessage(s, u, c)
         /\ \A x \in Completions :
              /\ u # <<>> /\ (x.op = "SEND" <=> Head(u).op = "SEND") =>
                   /\ Message(s, Tail(u), Append(c, x))
                   /\ NoMessage(s, Tail(u), Append(c, x)) <=> NoMessage(s, u, c)
              /\ x.op # "SEND" =>
                   /\ Message(s, u, Append(c, x))
                   /\ NoMessage(s, u, Append(c, x)) <=> NoMessage(s, u, c)
<1> DEFINE sends == {"SEND"}
<1>1. ASSUME s # <<>>
      PROVE  /\ Message(Tail(s), Append(u, Head(s)), c)
             /\ NoMessage(Tail(s), Append(u, Head(s)), c) <=> NoMessage(s, u, c)
  <2>1. Head(s) \in WorkRequests
    BY <1>1
  <2>2. /\ Has(s, sends) <=> Has(Tail(s), sends) \/ Head(s).op \in sends
        /\ Has(Append(u, Head(s)), sends) <=> Has(u, sends) \/ Head(s).op \in sends
    BY <1>1, <2>1, TailHas, AppendHas
  <2> QED BY <1>1, <2>2, MessageExecute DEF NoMessage
<1>2. ASSUME NEW x \in Completions, u # <<>>, x.op = "SEND" <=> Head(u).op = "SEND"
      PROVE  /\ Message(s, Tail(u), Append(c, x))
             /\ NoMessage(s, Tail(u), Append(c, x)) <=> NoMessage(s, u, c)
  <2>1. /\ Has(u, sends) <=> Has(Tail(u), sends) \/ Head(u).op \in sends
        /\ Has(Append(c, x), sends) <=> Has(c, sends) \/ x.op \in sends
    BY <1>2, TailHas, AppendHas
  <2> QED BY <1>2, <2>1, MessageComplete DEF NoMessage
<1>3. ASSUME NEW x \in Completions, x.op # "SEND"
      PROVE  /\ Message(s, u, Append(c, x))
             /\ NoMessage(s, u, Append(c, x)) <=> NoMessage(s, u, c)
  <2>1. Has(Append(c, x), sends) <=> Has(c, sends) \/ x.op \in sends
    BY AppendHas
  <2> QED BY <1>3, <2>1, MessageOther DEF NoMessage
<1> QED BY <1>1, <1>2, <1>3

(* The adapters change neither program.                                    *)
LEMMA BothStill ==
  ASSUME UNCHANGED <<hostVars, naaVars>>
  PROVE  /\ InSetup' <=> InSetup
         /\ InTransfer' <=> InTransfer
         /\ Unheard' <=> Unheard
         /\ Spare' <=> Spare
         /\ UNCHANGED <<host_state, host_pc, response_received, naa_state,
                        naa_pc, naa_call, naa_writes_done>>
  BY DEF hostVars, naaVars, InSetup, InTransfer, Unheard, Spare

LEMMA AppendHead ==
  ASSUME NEW S, NEW q \in Seq(S), NEW x \in S
  PROVE  /\ q # <<>> => Head(Append(q, x)) = Head(q)
         /\ q = <<>> => Head(Append(q, x)) = x
  OBVIOUS

LEMMA AppendOk ==
  ASSUME NEW q \in Seq(Completions), NEW x \in Completions, x.ok,
         \A i \in 1..Len(q) : q[i].ok
  PROVE  \A i \in 1..Len(Append(q, x)) : Append(q, x)[i].ok
<1> DEFINE a == Append(q, x)
<1>1. /\ Len(a) = Len(q) + 1 /\ Len(q) \in Nat
      /\ \A i \in 1..Len(q) : a[i] = q[i]
      /\ a[Len(q) + 1] = x
  OBVIOUS
<1> HIDE DEF a
<1>2. \A i \in 1..Len(a) : i \in 1..Len(q) \/ i = Len(q) + 1
  BY <1>1
<1> QED BY <1>1, <1>2 DEF a

(* A request of the host is acknowledged.                                  *)
LEMMA HostAcknowledged ==
  ASSUME FaultFree, Known, FlowInv, Acknowledge("host"),
         UNCHANGED <<hostVars, naaVars>>, Alive'
  PROVE  FlowInv'
<1> DEFINE q == cq["host"]
           u == unacked["host"]
           w == Head(u)
           x == SendCompletion(w, TRUE)
<1>1. /\ u # <<>> /\ w \in WorkRequests /\ x \in Completions
      /\ unacked'["host"] = Tail(u) /\ cq'["host"] = Append(q, x)
      /\ unacked'["naa"] = unacked["naa"] /\ cq'["naa"] = cq["naa"]
      /\ UNCHANGED <<mem, sq, recvs, qp>>
  BY AcknowledgeEffect DEF Known, Ends
<1>2. /\ x.op \in {"SEND", "RDMA_WRITE"} /\ x.ok /\ (x.op = "SEND" <=> w.op = "SEND")
  BY <1>1, CompletionOfSend
<1>3. /\ sq["host"] \in Seq(WorkRequests) /\ u \in Seq(WorkRequests)
      /\ q \in Seq(Completions)
  BY QueueTypes DEF Known, Ends
<1> HIDE DEF x, w, q, u
<1>4. \A ops : Has(Append(q, x), ops) <=> Has(q, ops) \/ x.op \in ops
  BY <1>1, <1>3, CompletionEnters
<1>5. HostMessage'
  <2>1. Message(sq["host"], u, q) /\ (host_state = MRSP_SENDING <=>
           ~NoMessage(sq["host"], u, q))
    BY DEF FlowInv, HostMessage, q, u
  <2>2. /\ Message(sq["host"], Tail(u), Append(q, x))
        /\ NoMessage(sq["host"], Tail(u), Append(q, x)) <=> NoMessage(sq["host"], u, q)
    BY <1>1, <1>2, <1>3, <2>1, MessageMoves DEF w
  <2> QED BY <1>1, <2>1, <2>2, BothStill DEF HostMessage
<1>6. /\ Delivered' <=> Delivered
      /\ Answered' <=> Answered
      /\ Announcing' <=> Announcing
  BY <1>1, <1>2, <1>4, BothStill DEF Delivered, Answered, Announcing, q
<1>7. /\ UNCHANGED naaVars /\ sq'["naa"] = sq["naa"]
      /\ unacked'["naa"] = unacked["naa"] /\ cq'["naa"] = cq["naa"]
  BY <1>1
<1>8. Sayings'
  <2>1. Saying(Append(q, x), "RECV", "A")
    BY <1>1, <1>2, <1>3, SayingMoves DEF FlowInv, Sayings, q
  <2> QED BY <1>1, <1>7, <2>1, NaaSide DEF FlowInv, Sayings
<1>9. Setup'
  BY <1>1, <1>6, <1>7, BothStill, NaaSide DEF FlowInv, Setup
<1>10. Heads'
  <2>1. ASSUME host_state = MRSP_SENDING PROVE Head(Append(q, x)).op = "SEND"
    <3>1. q # <<>> => Head(q).op = "SEND"
      BY <2>1 DEF FlowInv, Heads, q
    <3>2. w.op = "SEND"
      <4>1. ~InTransfer
        BY <2>1 DEF InTransfer, MRSP_SENDING, DATA_SENDING, DATA_RECEIVING
      <4>2. ~Has(u, AnyWrite)
        BY <4>1, HostIdle, NoWriteHas DEF u
      <4>3. w.op \in AnyWrite => Has(u, AnyWrite)
        BY <1>1, <1>3, TailHas DEF w
      <4> QED BY <1>1, <4>2, <4>3 DEF WorkRequests, AnyWrite
    <3> QED BY <1>1, <1>2, <1>3, <3>1, <3>2, AppendHead
  <2> QED BY <1>1, <1>7, <2>1, BothStill, NaaSide DEF Heads
<1>11. Receives'
  BY <1>1, <1>6, <1>7, BothStill, NaaSide DEF FlowInv, Receives, One
<1>12. Serves'
  <2>1. \A i \in 1..Len(Append(q, x)) : Append(q, x)[i].ok
    BY <1>1, <1>2, <1>3, AppendOk DEF FlowInv, Serves, q
  <2> QED BY <1>1, <1>7, <2>1, BothStill, NaaSide DEF FlowInv, Serves, NobodyGivesUp
<1>13. NaaTally'
  BY <1>7, NaaSide
<1> QED BY <1>5, <1>8, <1>9, <1>10, <1>11, <1>12, <1>13 DEF FlowInv

(* So is one of the worker.                                                *)
LEMMA NaaAcknowledged ==
  ASSUME FaultFree, Known, FlowInv, Acknowledge("naa"),
         UNCHANGED <<hostVars, naaVars>>, Alive'
  PROVE  FlowInv'
<1> DEFINE q == cq["naa"]
           u == unacked["naa"]
           w == Head(u)
           x == SendCompletion(w, TRUE)
<1>1. /\ u # <<>> /\ w \in WorkRequests /\ x \in Completions
      /\ unacked'["naa"] = Tail(u) /\ cq'["naa"] = Append(q, x)
      /\ unacked'["host"] = unacked["host"] /\ cq'["host"] = cq["host"]
      /\ UNCHANGED <<mem, sq, recvs, qp>>
  BY AcknowledgeEffect DEF Known, Ends
<1>2. /\ x.op \in {"SEND", "RDMA_WRITE"} /\ (x.op = "SEND" <=> w.op = "SEND")
  BY <1>1, CompletionOfSend
<1>3. /\ sq["naa"] \in Seq(WorkRequests) /\ u \in Seq(WorkRequests)
      /\ q \in Seq(Completions) /\ naa_writes_done \in Nat
  BY NaaTypes DEF Known
<1> HIDE DEF x, w, q, u
<1>4. \A ops : /\ Has(Append(q, x), ops) <=> Has(q, ops) \/ x.op \in ops
               /\ Once(q, ops) /\ (Has(q, ops) => x.op \notin ops)
                    => Once(Append(q, x), ops)
  BY <1>1, <1>3, CompletionEnters
<1>5. /\ Announced' <=> Announced
      /\ Asked' <=> Asked
      /\ Answering' <=> Answering
      /\ Once(Append(q, x), {"RECV"})
  <2>1. Once(q, {"RECV"})
    BY DEF FlowInv, Setup, q
  <2> QED BY <1>1, <1>2, <1>4, <2>1 DEF Announced, Asked, Answering, q
<1>6. /\ UNCHANGED hostVars /\ sq'["host"] = sq["host"]
      /\ unacked'["host"] = unacked["host"] /\ cq'["host"] = cq["host"]
      /\ recvs'["host"] = recvs["host"]
  BY <1>1
<1>7. Sayings'
  <2>1. Saying(Append(q, x), "RECV", "AAR")
    BY <1>1, <1>2, <1>3, SayingMoves DEF FlowInv, Sayings, q
  <2> QED BY <1>1, <1>6, <2>1, HostSide DEF FlowInv, Sayings
<1>8. Setup'
  <2>1. naa_state = MRSP_SENDING =>
          ~NoMessage(sq["naa"], Tail(u), Append(q, x))
    <3>1. Message(sq["naa"], u, q)
      BY DEF Known, ExchangeInv, WorkerInv, NaaMessage, q, u
    <3>2. NoMessage(sq["naa"], Tail(u), Append(q, x)) <=> NoMessage(sq["naa"], u, q)
      BY <1>1, <1>2, <1>3, <3>1, MessageMoves DEF w
    <3> QED BY <3>2 DEF FlowInv, Setup, q, u
  <2> QED BY <1>1, <1>5, <1>6, <2>1, BothStill, HostSide DEF FlowInv, Setup
<1>9. Heads'
  <2>1. ASSUME naa_state = MRSP_SENDING PROVE Head(Append(q, x)).op = "SEND"
    <3>1. q # <<>> => Head(q).op = "SEND"
      BY <2>1 DEF FlowInv, Heads, q
    <3>2. w.op = "SEND"
      <4>1. ~Has(u, AnyWrite)
        BY <2>1, NaaQuiet, NoWriteHas
           DEF Known, ExchangeInv, WorkerInv, u, MRSP_SENDING, DATA_SENDING
      <4>2. w.op \in AnyWrite => Has(u, AnyWrite)
        BY <1>1, <1>3, TailHas DEF w
      <4> QED BY <1>1, <4>1, <4>2 DEF WorkRequests, AnyWrite
    <3> QED BY <1>1, <1>2, <1>3, <3>1, <3>2, AppendHead
  <2> QED BY <1>1, <1>6, <2>1, BothStill, HostSide DEF Heads
<1>10. NaaTally'
  <2>1. SUFFICES ASSUME naa_state = DATA_SENDING PROVE NaaTally'
    BY BothStill DEF NaaTally
  <2>2. /\ naa_writes_done < no_output_mrs
        /\ AllOf(naa_writes_done, sq["naa"], u, q) = no_output_mrs + One(Asked)
        /\ ~Asked
    BY <1>1, <2>1 DEF FlowInv, NaaTally, q, u
  <2>3. AllOf(naa_writes_done, sq["naa"], Tail(u), Append(q, x))
          = AllOf(naa_writes_done, sq["naa"], u, q)
    BY <1>1, <1>3, AllMoves
  <2>4. One(Asked') = One(Asked) /\ ~Asked'
    BY <1>5, <2>2 DEF One
  <2>5. OnlyLast(Append(q, x), {"RECV_IMM"})
    BY <1>1, <2>4 DEF OnlyLast, Asked, Has
  <2>6. AllOf(naa_writes_done', sq'["naa"], unacked'["naa"], cq'["naa"])
          = no_output_mrs + One(Asked')
    BY <1>1, <2>2, <2>3, <2>4, BothStill
  <2> QED BY <1>1, <2>2, <2>4, <2>5, <2>6, BothStill DEF NaaTally
<1>11. Receives'
  <2>1. /\ One(Announced' \/ Asked') = One(Announced \/ Asked)
        /\ One(Spare') = One(Spare)
    BY <1>5, BothStill DEF One
  <2> QED BY <1>1, <1>6, <2>1, BothStill, HostSide DEF FlowInv, Receives
<1>12. Serves'
  BY <1>1, <1>6, BothStill, HostSide DEF FlowInv, Serves, NobodyGivesUp
<1>13. HostMessage'
  BY <1>6, HostSide
<1> QED BY <1>7, <1>8, <1>9, <1>10, <1>11, <1>12, <1>13 DEF FlowInv

(* What a step of the adapters takes from the send queue.                  *)
LEMMA TakenFromHost ==
  ASSUME Known, FlowInv, CanExecute("host"), Executed("host"),
         UNCHANGED <<hostVars, naaVars>>
  PROVE  LET h == Head(sq["host"])
         IN /\ sq["host"] \in Seq(WorkRequests) /\ sq["host"] # <<>>
            /\ h \in WorkRequests /\ sq'["host"] = Tail(sq["host"])
            /\ unacked'["host"] = Append(unacked["host"], h)
            /\ sq'["naa"] = sq["naa"] /\ unacked'["naa"] = unacked["naa"]
            /\ Saying(sq'["host"], "SEND", "AAR")
            /\ h.op = "SEND" => h.msg = "AAR" /\ Announcing /\ ~Announcing'
            /\ h.op # "SEND" => (Announcing' <=> Announcing)
            /\ h.op \in AnyWrite => Requesting
            /\ cq'["host"] = cq["host"] => HostMessage'
<1> DEFINE h == Head(sq["host"])
<1>1. /\ sq["host"] # <<>> /\ h \in WorkRequests /\ sq'["host"] = Tail(sq["host"])
      /\ unacked'["host"] = Append(unacked["host"], h)
      /\ sq'["naa"] = sq["naa"] /\ unacked'["naa"] = unacked["naa"]
  BY ExecutedEffect DEF Known, Ends
<1>2. /\ sq["host"] \in Seq(WorkRequests) /\ unacked["host"] \in Seq(WorkRequests)
      /\ cq["host"] \in Seq(Completions)
  BY QueueTypes DEF Known, Ends
<1>3. /\ Saying(Tail(sq["host"]), "SEND", "AAR")
      /\ h.op = "SEND" => h.msg = "AAR"
  BY <1>1, <1>2, SayingMoves DEF FlowInv, Sayings
<1>4. Message(sq["host"], unacked["host"], cq["host"])
  BY DEF FlowInv, HostMessage
<1>5. /\ \A ops : Has(sq["host"], ops) <=> Has(Tail(sq["host"]), ops) \/ h.op \in ops
      /\ Once(sq["host"], {"SEND"}) => (h.op \in {"SEND"} => ~Has(Tail(sq["host"]), {"SEND"}))
  BY <1>1, <1>2, TailHas
<1> HIDE DEF h
<1>6. Once(sq["host"], {"SEND"})
  BY <1>4 DEF Message
<1>7. /\ h.op = "SEND" => Announcing /\ ~Announcing'
      /\ h.op # "SEND" => (Announcing' <=> Announcing)
      /\ h.op \in AnyWrite => Requesting
  BY <1>1, <1>5, <1>6 DEF Announcing, Requesting
<1>8. ASSUME cq'["host"] = cq["host"] PROVE HostMessage'
  <2>1. /\ Message(Tail(sq["host"]), Append(unacked["host"], h), cq["host"])
        /\ NoMessage(Tail(sq["host"]), Append(unacked["host"], h), cq["host"])
             <=> NoMessage(sq["host"], unacked["host"], cq["host"])
    BY <1>1, <1>2, <1>4, MessageMoves DEF h
  <2> QED BY <1>1, <1>8, <2>1, BothStill DEF FlowInv, HostMessage
<1> QED BY <1>1, <1>2, <1>3, <1>7, <1>8 DEF h

LEMMA TakenFromNaa ==
  ASSUME Known, FlowInv, CanExecute("naa"), Executed("naa"),
         UNCHANGED <<hostVars, naaVars>>, cq'["naa"] = cq["naa"],
         recvs'["naa"] = recvs["naa"]
  PROVE  LET h == Head(sq["naa"])
         IN /\ sq["naa"] \in Seq(WorkRequests) /\ sq["naa"] # <<>>
            /\ h \in WorkRequests
            /\ sq'["host"] = sq["host"] /\ unacked'["host"] = unacked["host"]
            /\ Saying(sq'["naa"], "SEND", "A") /\ Saying(cq'["naa"], "RECV", "AAR")
            /\ h.op = "SEND" => h.msg = "A" /\ Answering /\ ~Answering'
            /\ h.op # "SEND" => (Answering' <=> Answering)
            /\ h.op \in AnyWrite => Returning
            /\ Announced' <=> Announced
            /\ Asked' <=> Asked
            /\ Once(cq'["naa"], {"RECV"})
            /\ naa_state' = MRSP_SENDING =>
                 ~NoMessage(sq'["naa"], unacked'["naa"], cq'["naa"])
            /\ naa_state' = MRSP_SENDING /\ cq'["naa"] # <<>> =>
                 Head(cq'["naa"]).op = "SEND"
            /\ NaaTally'
            /\ recvs'["naa"] + One(Announced' \/ Asked') = 1 + One(Spare')
            /\ naa_pc' = "receive" => naa_call' # "receive_data_transfer"
<1> DEFINE h == Head(sq["naa"])
           s == sq["naa"]
           u == unacked["naa"]
           q == cq["naa"]
<1>1. /\ s # <<>> /\ h \in WorkRequests /\ sq'["naa"] = Tail(s)
      /\ unacked'["naa"] = Append(u, h)
      /\ sq'["host"] = sq["host"] /\ unacked'["host"] = unacked["host"]
  BY ExecutedEffect DEF Known, Ends
<1>2. /\ s \in Seq(WorkRequests) /\ u \in Seq(WorkRequests)
      /\ q \in Seq(Completions) /\ naa_writes_done \in Nat
  BY NaaTypes DEF Known
<1>3. /\ Saying(Tail(s), "SEND", "A")
      /\ h.op = "SEND" => h.msg = "A"
  BY <1>1, <1>2, SayingMoves DEF FlowInv, Sayings
<1>4. Message(s, u, q)
  BY DEF Known, ExchangeInv, WorkerInv, NaaMessage
<1>5. /\ \A ops : Has(s, ops) <=> Has(Tail(s), ops) \/ h.op \in ops
      /\ Once(s, {"SEND"}) => (h.op \in {"SEND"} => ~Has(Tail(s), {"SEND"}))
  BY <1>1, <1>2, TailHas
<1> HIDE DEF h, s, u, q
<1>6. /\ h.op = "SEND" => Answering /\ ~Answering'
      /\ h.op # "SEND" => (Answering' <=> Answering)
      /\ h.op \in AnyWrite => Returning
  <2>1. Once(s, {"SEND"})
    BY <1>4 DEF Message
  <2> QED BY <1>1, <1>5, <2>1 DEF Answering, Returning, s
<1>7. /\ Announced' <=> Announced
      /\ Asked' <=> Asked
  BY DEF Announced, Asked
<1>8. /\ Once(cq'["naa"], {"RECV"}) /\ Saying(cq'["naa"], "RECV", "AAR")
      /\ naa_state' = MRSP_SENDING /\ cq'["naa"] # <<>> =>
           Head(cq'["naa"]).op = "SEND"
      /\ naa_pc' = "receive" => naa_call' # "receive_data_transfer"
  BY BothStill DEF FlowInv, Setup, Sayings, Heads, Receives
<1>9. naa_state' = MRSP_SENDING =>
        ~NoMessage(sq'["naa"], unacked'["naa"], cq'["naa"])
  <2>1. NoMessage(Tail(s), Append(u, h), q) <=> NoMessage(s, u, q)
    BY <1>1, <1>2, <1>4, MessageMoves DEF h, s
  <2> QED BY <1>1, <2>1, BothStill DEF FlowInv, Setup, s, u, q
<1>10. NaaTally'
  <2>1. SUFFICES ASSUME naa_state = DATA_SENDING PROVE NaaTally'
    BY BothStill DEF NaaTally
  <2>2. /\ naa_writes_done < no_output_mrs
        /\ AllOf(naa_writes_done, s, u, q) = no_output_mrs + One(Asked)
        /\ ~Asked /\ OnlyLast(q, {"RECV_IMM"})
    BY <1>1, <2>1 DEF FlowInv, NaaTally, q, u, s
  <2>3. AllOf(naa_writes_done, Tail(s), Append(u, h), q)
          = AllOf(naa_writes_done, s, u, q)
    BY <1>1, <1>2, AllMoves DEF h, s
  <2>4. One(Asked') = One(Asked) /\ ~Asked'
    BY <1>7, <2>2 DEF One
  <2>5. AllOf(naa_writes_done', sq'["naa"], unacked'["naa"], cq'["naa"])
          = no_output_mrs + One(Asked')
    BY <1>1, <2>2, <2>3, <2>4, BothStill DEF q
  <2> QED BY <1>1, <2>2, <2>4, <2>5, BothStill DEF NaaTally, q
<1>11. recvs'["naa"] + One(Announced' \/ Asked') = 1 + One(Spare')
  <2>1. /\ One(Announced' \/ Asked') = One(Announced \/ Asked)
        /\ One(Spare') = One(Spare)
    BY <1>7, BothStill DEF One
  <2> QED BY <2>1 DEF FlowInv, Receives
<1> QED BY <1>1, <1>2, <1>3, <1>6, <1>7, <1>8, <1>9, <1>10, <1>11 DEF h, s

(* Plain writes.                                                           *)
LEMMA HostWrites ==
  ASSUME FaultFree, Known, FlowInv, ExecuteWrite("host"),
         UNCHANGED <<hostVars, naaVars>>, Alive'
  PROVE  FlowInv'
<1>1. /\ CanExecute("host") /\ Executed("host") /\ Head(sq["host"]).op = "WRITE"
      /\ UNCHANGED <<recvs, cq>>
  BY WriteEffect DEF Known, Ends
<1>2. /\ sq'["naa"] = sq["naa"] /\ unacked'["naa"] = unacked["naa"]
      /\ Saying(sq'["host"], "SEND", "AAR") /\ (Announcing' <=> Announcing)
      /\ HostMessage' /\ cq'["naa"] = cq["naa"] /\ UNCHANGED naaVars
  BY <1>1, TakenFromHost
<1>3. /\ Delivered' <=> Delivered
      /\ Answered' <=> Answered
  BY <1>1, BothStill DEF Delivered, Answered
<1>4. Sayings' /\ Heads' /\ NaaTally' /\ Serves'
  BY <1>1, <1>2, BothStill, NaaSide DEF FlowInv, Sayings, Heads, Serves, NobodyGivesUp
<1>5. Setup'
  BY <1>1, <1>2, <1>3, BothStill, NaaSide DEF FlowInv, Setup
<1>6. Receives'
  BY <1>1, <1>2, <1>3, BothStill, NaaSide DEF FlowInv, Receives, One
<1> QED BY <1>2, <1>4, <1>5, <1>6 DEF FlowInv

LEMMA NaaWrites ==
  ASSUME FaultFree, Known, FlowInv, ExecuteWrite("naa"),
         UNCHANGED <<hostVars, naaVars>>, Alive'
  PROVE  FlowInv'
<1>1. /\ CanExecute("naa") /\ Executed("naa") /\ Head(sq["naa"]).op = "WRITE"
      /\ UNCHANGED <<recvs, cq>>
  BY WriteEffect DEF Known, Ends
<1>2. /\ UNCHANGED hostVars /\ cq'["host"] = cq["host"] /\ recvs'["host"] = recvs["host"]
      /\ sq'["host"] = sq["host"] /\ unacked'["host"] = unacked["host"]
  BY <1>1, TakenFromNaa
<1>3. Sayings' /\ Heads' /\ NaaTally' /\ Serves' /\ HostMessage'
  BY <1>1, <1>2, TakenFromNaa, BothStill, HostSide
     DEF FlowInv, Sayings, Heads, Serves, NobodyGivesUp
<1>4. Setup'
  BY <1>1, <1>2, TakenFromNaa, BothStill, HostSide DEF FlowInv, Setup
<1>5. Receives'
  BY <1>1, <1>2, TakenFromNaa, HostSide DEF Receives
<1> QED BY <1>3, <1>4, <1>5 DEF FlowInv

(* The announcement or a call arrives.                                     *)
LEMMA ArrivesAtNaa ==
  ASSUME Known, FlowInv, ExecuteReceived("host"), UNCHANGED <<hostVars, naaVars>>
  PROVE  LET h == Head(sq["host"])
             x == Received(h)
         IN /\ CanExecute("host") /\ Executed("host")
            /\ h.op \in {"SEND", "WRITE_IMM"} /\ x \in Completions
            /\ x.op = IF h.op = "SEND" THEN "RECV" ELSE "RECV_IMM"
            /\ h.op = "SEND" => h.msg = "AAR" /\ Announcing /\ ~Announcing'
            /\ h.op = "WRITE_IMM" => Requesting /\ (Announcing' <=> Announcing)
            /\ cq["naa"] \in Seq(Completions)
            /\ cq'["naa"] = Append(cq["naa"], x) /\ cq'["host"] = cq["host"]
            /\ recvs'["host"] = recvs["host"]
            /\ recvs["naa"] \in Nat /\ recvs'["naa"] = recvs["naa"] - 1
            /\ sq'["naa"] = sq["naa"] /\ unacked'["naa"] = unacked["naa"]
            /\ HostMessage' /\ Sayings'
            /\ Delivered' <=> Delivered
            /\ Answered' <=> Answered
            /\ Answering' <=> Answering
            /\ Announced' <=> Announced \/ h.op = "SEND"
            /\ Asked' <=> Asked \/ h.op = "WRITE_IMM"
            /\ Once(cq["naa"], {"RECV"}) /\ ~(Announced /\ h.op = "SEND") =>
                 Once(cq'["naa"], {"RECV"})
<1> DEFINE h == Head(sq["host"])
           x == Received(h)
<1>1. /\ CanExecute("host") /\ Executed("host") /\ h.op \in {"SEND", "WRITE_IMM"}
      /\ x \in Completions
      /\ cq'["naa"] = Append(cq["naa"], x) /\ cq'["host"] = cq["host"]
      /\ recvs'["host"] = recvs["host"] /\ recvs'["naa"] = recvs["naa"] - 1
  BY ReceivedEffect DEF Known, Ends, Peer
<1>2. /\ sq'["naa"] = sq["naa"] /\ unacked'["naa"] = unacked["naa"]
      /\ Saying(sq'["host"], "SEND", "AAR") /\ HostMessage'
      /\ h.op = "SEND" => h.msg = "AAR" /\ Announcing /\ ~Announcing'
      /\ h.op # "SEND" => (Announcing' <=> Announcing)
      /\ h.op \in AnyWrite => Requesting
  BY <1>1, TakenFromHost
<1>3. x.op = (IF h.op = "SEND" THEN "RECV" ELSE "RECV_IMM") /\ x.msg = h.msg
  BY DEF Received
<1>4. cq["naa"] \in Seq(Completions) /\ recvs["naa"] \in Nat
  BY QueueTypes DEF Known, Ends
<1> HIDE DEF h, x
<1>5. \A ops : /\ Has(cq'["naa"], ops) <=> Has(cq["naa"], ops) \/ x.op \in ops
               /\ Once(cq["naa"], ops) /\ (Has(cq["naa"], ops) => x.op \notin ops)
                    => Once(cq'["naa"], ops)
  BY <1>1, <1>4, CompletionEnters
<1>6. /\ Delivered' <=> Delivered
      /\ Answered' <=> Answered
      /\ Answering' <=> Answering
  BY <1>1, <1>2, BothStill DEF Delivered, Answered, Answering
<1>7. /\ Announced' <=> Announced \/ h.op = "SEND"
      /\ Asked' <=> Asked \/ h.op = "WRITE_IMM"
      /\ Once(cq["naa"], {"RECV"}) /\ ~(Announced /\ h.op = "SEND") =>
           Once(cq'["naa"], {"RECV"})
  BY <1>1, <1>3, <1>5 DEF Announced, Asked
<1>8. Sayings'
  <2>1. x.op = "RECV" => x.msg = "AAR"
    BY <1>2, <1>3
  <2>2. Saying(cq["naa"], "RECV", "AAR")
    BY DEF FlowInv, Sayings
  <2>3. Saying(Append(cq["naa"], x), "RECV", "AAR")
    BY <1>1, <1>4, <2>1, <2>2, SayingMoves
  <2> QED BY <1>1, <1>2, <2>3 DEF FlowInv, Sayings
<1>9. h.op = "WRITE_IMM" => Requesting /\ (Announcing' <=> Announcing)
  BY <1>2 DEF AnyWrite
<1> QED BY <1>1, <1>2, <1>3, <1>4, <1>6, <1>7, <1>8, <1>9 DEF h, x

LEMMA HostReceived ==
  ASSUME FaultFree, Known, FlowInv, ExecuteReceived("host"),
         UNCHANGED <<hostVars, naaVars>>, Alive'
  PROVE  FlowInv'
<1> DEFINE h == Head(sq["host"])
           x == Received(h)
<1>1. /\ CanExecute("host") /\ h.op \in {"SEND", "WRITE_IMM"} /\ x \in Completions
      /\ x.op = IF h.op = "SEND" THEN "RECV" ELSE "RECV_IMM"
      /\ h.op = "SEND" => Announcing /\ ~Announcing'
      /\ h.op = "WRITE_IMM" => Requesting /\ (Announcing' <=> Announcing)
      /\ cq["naa"] \in Seq(Completions)
      /\ cq'["naa"] = Append(cq["naa"], x) /\ cq'["host"] = cq["host"]
      /\ recvs'["host"] = recvs["host"]
      /\ recvs["naa"] \in Nat /\ recvs'["naa"] = recvs["naa"] - 1
      /\ sq'["naa"] = sq["naa"] /\ unacked'["naa"] = unacked["naa"]
      /\ HostMessage' /\ Sayings'
  BY ArrivesAtNaa
<1>2. /\ Delivered' <=> Delivered
      /\ Answered' <=> Answered
      /\ Answering' <=> Answering
      /\ Announced' <=> Announced \/ h.op = "SEND"
      /\ Asked' <=> Asked \/ h.op = "WRITE_IMM"
      /\ Once(cq["naa"], {"RECV"}) /\ ~(Announced /\ h.op = "SEND") =>
           Once(cq'["naa"], {"RECV"})
  BY ArrivesAtNaa
<1> HIDE DEF h, x
<1>3. unacked["naa"] = <<>>
  BY <1>1 DEF CanExecute, FaultFree, Peer
<1>4. Serves'
  BY <1>1, BothStill DEF FlowInv, Serves, NobodyGivesUp
<1>5. /\ naa_state = MRSP_SENDING =>
           ~NoMessage(sq["naa"], unacked["naa"], cq["naa"])
      /\ Once(cq["naa"], {"RECV"})
      /\ recvs["naa"] + One(Announced \/ Asked) = 1 + One(Spare)
  BY DEF FlowInv, Setup, Receives
<1>6. ~(Announced /\ h.op = "SEND")
  BY <1>1 DEF FlowInv, Setup
<1>7. naa_state' = MRSP_SENDING =>
        ~NoMessage(sq'["naa"], unacked'["naa"], cq'["naa"])
  <2>1. Has(cq["naa"], {"SEND"}) => Has(cq'["naa"], {"SEND"})
    BY <1>1, CompletionEnters
  <2> QED BY <1>1, <1>5, <2>1, BothStill DEF NoMessage
<1>8. CASE h.op = "SEND"
  <2>1. /\ Announcing /\ Unheard /\ ~Announced /\ ~Announcing' /\ Announced'
        /\ InSetup /\ ~InTransfer /\ ~Asked /\ ~Asked'
    <3>1. Announcing /\ Unheard /\ ~Announced /\ InSetup /\ ~InTransfer
      BY <1>1, <1>8 DEF FlowInv, Setup
    <3>2. ~Asked
      BY <3>1 DEF Known, ExchangeInv, Tokens
    <3> QED BY <1>1, <1>2, <1>8, <3>1, <3>2
  <2>2. naa_state \notin {MRSP_SENDING, DATA_SENDING}
    BY <2>1 DEF Unheard, CONNECTED, MRSP_RECEIVING, MRSP_SENDING, DATA_SENDING
  <2>3. Setup'
    BY <1>2, <1>5, <1>6, <1>7, <2>1, BothStill DEF FlowInv, Setup
  <2>4. Heads' /\ NaaTally'
    BY <1>1, <2>2, BothStill DEF FlowInv, Heads, NaaTally
  <2>5. recvs'["naa"] + One(Announced' \/ Asked') = 1 + One(Spare')
    <3>1. One(Announced \/ Asked) = 0 /\ One(Announced' \/ Asked') = 1
          /\ One(Spare') = One(Spare)
      BY <2>1, BothStill DEF One
    <3>2. One(Spare) \in Nat
      BY DEF One
    <3> QED BY <1>1, <1>5, <3>1, <3>2
  <2>6. Receives'
    BY <1>1, <1>2, <2>5, BothStill DEF FlowInv, Receives, One
  <2> QED BY <1>1, <1>4, <2>3, <2>4, <2>6 DEF FlowInv
<1>9. CASE h.op = "WRITE_IMM"
  <2>1. /\ Requesting /\ InTransfer /\ ~Asked /\ ~Returning /\ ~Unheard
        /\ ~InSetup /\ ~Answering /\ ~Announced /\ ~Announced' /\ Asked'
    <3>1. Requesting /\ InTransfer /\ ~Asked /\ ~Returning
      BY <1>1, <1>9 DEF Known, ExchangeInv, Tokens
    <3>2. ~Unheard /\ ~InSetup
      BY <3>1 DEF FlowInv, Setup, InTransfer, InSetup, MRSP_SENDING,
                  MRSP_RECEIVING, DATA_SENDING, DATA_RECEIVING
    <3>3. ~Answering /\ ~Announced
      BY <3>2 DEF FlowInv, Setup
    <3> QED BY <1>2, <1>9, <3>1, <3>2, <3>3
  <2>2. sq["naa"] = <<>>
    BY <2>1, NaaTypes, NoRequests DEF Known, Returning, Answering
  <2>3. Setup'
    BY <1>1, <1>2, <1>5, <1>6, <1>7, <1>9, <2>1, BothStill DEF FlowInv, Setup
  <2>4. Heads'
    <3>1. ASSUME naa_state = MRSP_SENDING PROVE Head(cq'["naa"]).op = "SEND"
      <4>1. cq["naa"] # <<>>
        BY <1>3, <1>5, <2>2, <3>1, HasNone DEF NoMessage
      <4> QED BY <1>1, <3>1, <4>1, AppendHead DEF FlowInv, Heads
    <3> QED BY <1>1, <3>1, BothStill DEF FlowInv, Heads
  <2>5. NaaTally'
    <3>1. SUFFICES ASSUME naa_state = DATA_SENDING PROVE NaaTally'
      BY BothStill DEF NaaTally
    <3>2. /\ naa_writes_done < no_output_mrs
          /\ AllOf(naa_writes_done, sq["naa"], unacked["naa"], cq["naa"])
               = no_output_mrs + One(Asked)
      BY <3>1 DEF FlowInv, NaaTally
    <3>3. /\ sq["naa"] \in Seq(WorkRequests) /\ unacked["naa"] \in Seq(WorkRequests)
          /\ naa_writes_done \in Nat /\ no_output_mrs \in Nat
      BY NaaTypes DEF Known
    <3>4. AllOf(naa_writes_done, sq["naa"], unacked["naa"], Append(cq["naa"], x))
            = AllOf(naa_writes_done, sq["naa"], unacked["naa"], cq["naa"]) + 1
      BY <1>1, <3>3, AllMoves
    <3>5. One(Asked) = 0 /\ One(Asked') = 1
      BY <2>1 DEF One
    <3>6. no_output_mrs + One(Asked) + 1 = no_output_mrs + One(Asked')
      BY <3>3, <3>5
    <3>7. AllOf(naa_writes_done', sq'["naa"], unacked'["naa"], cq'["naa"])
            = no_output_mrs + One(Asked')
      BY <1>1, <3>2, <3>4, <3>6, BothStill
    <3>8. OnlyLast(Append(cq["naa"], x), {"RECV_IMM"})
      <4> DEFINE a == Append(cq["naa"], x)
      <4>1. /\ Len(a) = Len(cq["naa"]) + 1 /\ Len(cq["naa"]) \in Nat
            /\ \A i \in 1..Len(cq["naa"]) : a[i] = cq["naa"][i]
        BY <1>1
      <4> HIDE DEF a
      <4>2. \A i \in 1..Len(a) : i \in 1..Len(cq["naa"]) \/ i = Len(a)
        BY <4>1
      <4> QED BY <2>1, <4>1, <4>2 DEF OnlyLast, Asked, Has, a
    <3> QED BY <1>1, <1>3, <2>2, <3>2, <3>7, <3>8, BothStill DEF NaaTally
  <2>6. recvs'["naa"] + One(Announced' \/ Asked') = 1 + One(Spare')
    <3>1. One(Announced \/ Asked) = 0 /\ One(Announced' \/ Asked') = 1
          /\ One(Spare') = One(Spare)
      BY <2>1, BothStill DEF One
    <3>2. One(Spare) \in Nat
      BY DEF One
    <3> QED BY <1>1, <1>5, <3>1, <3>2
  <2>7. Receives'
    BY <1>1, <1>2, <2>6, BothStill DEF FlowInv, Receives, One
  <2> QED BY <1>1, <1>4, <2>3, <2>4, <2>5, <2>7 DEF FlowInv
<1> QED BY <1>1, <1>8, <1>9

(* The answer of the setup protocol or the response of a call arrives.     *)
LEMMA NaaReceived ==
  ASSUME FaultFree, Known, FlowInv, ExecuteReceived("naa"),
         UNCHANGED <<hostVars, naaVars>>, Alive'
  PROVE  FlowInv'
<1> DEFINE h == Head(sq["naa"])
           x == Received(h)
           q == cq["host"]
<1>1. /\ CanExecute("naa") /\ Executed("naa") /\ h.op \in {"SEND", "WRITE_IMM"}
      /\ x \in Completions
      /\ cq'["host"] = Append(q, x) /\ cq'["naa"] = cq["naa"]
      /\ recvs'["naa"] = recvs["naa"] /\ recvs'["host"] = recvs["host"] - 1
  BY ReceivedEffect DEF Known, Ends, Peer
<1>2. /\ sq'["host"] = sq["host"] /\ unacked'["host"] = unacked["host"]
      /\ Saying(sq'["naa"], "SEND", "A") /\ Saying(cq'["naa"], "RECV", "AAR")
      /\ h.op = "SEND" => h.msg = "A" /\ Answering /\ ~Answering'
      /\ h.op # "SEND" => (Answering' <=> Answering)
      /\ h.op \in AnyWrite => Returning
      /\ Announced' <=> Announced
      /\ Once(cq'["naa"], {"RECV"})
      /\ naa_state' = MRSP_SENDING =>
           ~NoMessage(sq'["naa"], unacked'["naa"], cq'["naa"])
      /\ naa_state' = MRSP_SENDING /\ cq'["naa"] # <<>> =>
           Head(cq'["naa"]).op = "SEND"
      /\ NaaTally'
      /\ recvs'["naa"] + One(Announced' \/ Asked') = 1 + One(Spare')
      /\ naa_pc' = "receive" => naa_call' # "receive_data_transfer"
  BY <1>1, TakenFromNaa
<1>3. /\ x.op = (IF h.op = "SEND" THEN "RECV" ELSE "RECV_IMM")
      /\ x.msg = h.msg /\ x.ok
  BY DEF Received
<1>4. /\ q \in Seq(Completions) /\ recvs["host"] \in Nat
      /\ sq["host"] \in Seq(WorkRequests) /\ unacked["host"] \in Seq(WorkRequests)
  BY QueueTypes DEF Known, Ends
<1>5. unacked["host"] = <<>>
  BY <1>1 DEF CanExecute, FaultFree, Peer
<1> HIDE DEF h, x, q
<1>6. \A ops : Has(Append(q, x), ops) <=> Has(q, ops) \/ x.op \in ops
  BY <1>1, <1>4, CompletionEnters
<1>7. /\ Delivered' <=> Delivered \/ h.op = "SEND"
      /\ Answered' <=> Answered \/ h.op = "WRITE_IMM"
      /\ Announcing' <=> Announcing
  BY <1>1, <1>2, <1>3, <1>6, BothStill DEF Delivered, Answered, Announcing, q
<1>8. HostMessage'
  <2>1. Message(sq["host"], unacked["host"], q) /\ (host_state = MRSP_SENDING <=>
           ~NoMessage(sq["host"], unacked["host"], q))
    BY DEF FlowInv, HostMessage, q
  <2>2. x.op # "SEND"
    BY <1>3
  <2>3. /\ Message(sq["host"], unacked["host"], Append(q, x))
        /\ NoMessage(sq["host"], unacked["host"], Append(q, x))
             <=> NoMessage(sq["host"], unacked["host"], q)
    BY <1>1, <1>4, <2>1, <2>2, MessageMoves
  <2> QED BY <1>1, <1>2, <2>1, <2>3, BothStill DEF HostMessage
<1>9. Sayings'
  <2>1. Saying(q, "RECV", "A")
    BY DEF FlowInv, Sayings, q
  <2>2. x.op = "RECV" => x.msg = "A"
    BY <1>2, <1>3
  <2>3. Saying(Append(q, x), "RECV", "A")
    BY <1>1, <1>4, <2>1, <2>2, SayingMoves
  <2> QED BY <1>1, <1>2, <2>3 DEF FlowInv, Sayings
<1>10. Serves'
  <2>1. \A i \in 1..Len(Append(q, x)) : Append(q, x)[i].ok
    BY <1>1, <1>3, <1>4, AppendOk DEF FlowInv, Serves, q
  <2> QED BY <1>1, <2>1, BothStill DEF FlowInv, Serves, NobodyGivesUp
<1>11. CASE h.op = "SEND"
  <2>1. /\ Answering /\ ~Unheard /\ InSetup /\ ~Delivered /\ ~Announcing
        /\ ~Announced /\ ~InTransfer
    <3>1. Answering /\ ~Unheard
      BY <1>2, <1>11 DEF FlowInv, Setup
    <3>2. InSetup /\ ~Delivered /\ ~Announcing /\ ~Announced
      BY <3>1 DEF FlowInv, Setup
    <3> QED BY <3>1, <3>2 DEF InSetup, InTransfer, MRSP_SENDING, MRSP_RECEIVING,
                              DATA_SENDING, DATA_RECEIVING
  <2>2. /\ ~Answering' /\ Delivered' /\ (Answered' <=> Answered)
    BY <1>2, <1>7, <1>11
  <2>3. Setup'
    BY <1>2, <1>7, <2>1, <2>2, BothStill DEF FlowInv, Setup
  <2>4. Heads'
    <3>1. ASSUME host_state = MRSP_SENDING PROVE Head(Append(q, x)).op = "SEND"
      <4>1. ~NoMessage(sq["host"], unacked["host"], q)
        BY <3>1 DEF FlowInv, HostMessage, q
      <4>2. q # <<>>
        BY <1>5, <2>1, <4>1, HasNone DEF NoMessage, Announcing
      <4>3. Head(q).op = "SEND"
        BY <3>1, <4>2 DEF FlowInv, Heads, q
      <4> QED BY <1>1, <1>4, <4>2, <4>3, AppendHead
    <3> QED BY <1>1, <1>2, <3>1, BothStill DEF Heads
  <2>5. Receives'
    <3>1. recvs["host"] = 1
      BY <2>1 DEF FlowInv, Receives, One
    <3>2. recvs'["host"] = 0
      BY <1>1, <3>1
    <3> QED BY <1>2, <2>1, <2>2, <3>2, BothStill DEF Receives, One
  <2> QED BY <1>2, <1>8, <1>9, <1>10, <2>3, <2>4, <2>5 DEF FlowInv
<1>12. CASE h.op = "WRITE_IMM"
  <2>1. /\ Returning /\ InTransfer /\ ~Answered /\ ~Unheard /\ ~InSetup
        /\ ~Announcing /\ ~Announced /\ ~Answering /\ ~Delivered
        /\ host_state # MRSP_SENDING
    <3>1. Returning
      BY <1>2, <1>12 DEF AnyWrite
    <3>2. InTransfer /\ ~Answered
      BY <3>1 DEF Known, ExchangeInv, Tokens
    <3>3. ~Unheard /\ ~InSetup /\ host_state # MRSP_SENDING
      BY <3>2 DEF FlowInv, Setup, InTransfer, InSetup, MRSP_SENDING,
                  MRSP_RECEIVING, DATA_SENDING, DATA_RECEIVING
    <3>4. ~Announcing /\ ~Announced /\ ~Answering /\ ~Delivered
      BY <3>3 DEF FlowInv, Setup
    <3> QED BY <3>1, <3>2, <3>3, <3>4
  <2>2. ~Answering' /\ ~Delivered' /\ Answered'
    BY <1>2, <1>7, <1>12, <2>1
  <2>3. Setup'
    BY <1>2, <1>7, <2>1, <2>2, BothStill DEF FlowInv, Setup
  <2>4. Heads'
    BY <1>2, <2>1, BothStill DEF Heads
  <2>5. Receives'
    <3>1. recvs["host"] = 1
      BY <2>1 DEF FlowInv, Receives, One
    <3>2. recvs'["host"] = 0
      BY <1>1, <3>1
    <3> QED BY <1>2, <2>1, <2>2, <3>2, BothStill DEF Receives, One
  <2> QED BY <1>2, <1>8, <1>9, <1>10, <2>3, <2>4, <2>5 DEF FlowInv
<1> QED BY <1>1, <1>11, <1>12

-------------------------------------------------------------------------------
(***************************************************************************)
(* Together.                                                               *)
(***************************************************************************)
LEMMA FlowNext ==
  ASSUME FaultFree, Known, FlowInv, NoError, [Next]_vars, ShapeInv', ResponseInv'
  PROVE  FlowInv'
<1>1. Alive'
  BY QuietSteps
<1>2. \/ /\ DoMrsp \/ DoDataTransfer \/ HostDrain \/ HostBusy \/ HostWaits
         /\ UNCHANGED naaVars
      \/ NaaWorks /\ UNCHANGED hostVars
      \/ \E e \in Ends : Fabric(e) /\ UNCHANGED <<hostVars, naaVars>>
      \/ UNCHANGED vars
  BY QuietSteps
<1>3. CASE /\ DoMrsp \/ DoDataTransfer \/ HostDrain \/ HostBusy \/ HostWaits
           /\ UNCHANGED naaVars
  BY <1>1, <1>3, MrspFlow, CallFlow, HandleFlow, WaitFlow
<1>4. CASE NaaWorks /\ UNCHANGED hostVars
  BY <1>1, <1>4, PostingFlow, NaaMoves, DrainFlow, RespondFlow
     DEF NaaWorks, NaaPollStep
<1>5. ASSUME NEW e \in Ends, Fabric(e), UNCHANGED <<hostVars, naaVars>>
      PROVE  FlowInv'
  BY <1>1, <1>5, HostWrites, NaaWrites, HostReceived, NaaReceived,
     HostAcknowledged, NaaAcknowledged DEF Fabric, Ends
<1>6. CASE UNCHANGED vars
  BY <1>6, SameFlow
     DEF vars, verbsVars, hostVars, naaVars, flowVars, FlowInv, Serves,
         NobodyGivesUp, Receives
<1> QED BY <1>2, <1>3, <1>4, <1>5, <1>6

LEMMA FlowInit == FaultFree /\ Init => FlowInv
<1> SUFFICES ASSUME FaultFree, Init PROVE FlowInv
  OBVIOUS
<1>1. /\ sq["host"] = <<>> /\ sq["naa"] = <<>> /\ cq["host"] = <<>>
      /\ cq["naa"] = <<>> /\ unacked["host"] = <<>> /\ unacked["naa"] = <<>>
      /\ qp["host"] = "up" /\ qp["naa"] = "up"
  BY DEF Init, Ends
<1>2. /\ host_state = CONNECTED /\ host_pc = "app" /\ host_fncode = Fncode
      /\ response_received = FALSE /\ naa_state = CONNECTED /\ naa_pc = "start"
      /\ naa_call = "do_mrsp"
  BY DEF Init, HostInit, NaaInit
<1>3. recvs["naa"] = 1
  <2>1. PICK posted \in NaaOutcomes("post_recv") :
          recvs = [e \in Ends |-> IF e = "naa" /\ posted THEN 1 ELSE 0]
    BY DEF Init
  <2>2. NaaOutcomes("post_recv") = {TRUE}
    BY NoFaults
  <2> QED BY <2>1, <2>2 DEF Ends
<1>4. Alive
  BY <1>1, <1>2, HostAssumption DEF Alive
<1>5. /\ ~Announcing /\ ~Announced /\ ~Answering /\ ~Delivered /\ ~Answered /\ ~Asked
      /\ Once(cq["naa"], {"RECV"})
  BY <1>1, <1>2, HasNone DEF Announcing, Announced, Answering, Delivered, Answered, Asked
<1>6. /\ Unheard /\ ~InSetup /\ ~InTransfer /\ ~Spare
      /\ naa_state \notin {MRSP_SENDING, DATA_SENDING}
      /\ host_state # MRSP_SENDING
  BY <1>2 DEF Unheard, InSetup, InTransfer, Spare, CONNECTED, MRSP_SENDING,
              MRSP_RECEIVING, DATA_SENDING, DATA_RECEIVING
<1>7. HostMessage
  BY <1>1, <1>6, HasNone DEF HostMessage, Message, NoMessage
<1>8. Sayings
  BY <1>1 DEF Sayings, Saying
<1>9. Setup
  BY <1>2, <1>5, <1>6 DEF Setup
<1>10. Heads /\ NaaTally
  BY <1>6 DEF Heads, NaaTally
<1>11. Receives
  BY <1>2, <1>3, <1>5, <1>6 DEF Receives, One
<1>12. Serves
  BY <1>1, <1>2, <1>4 DEF Serves, NobodyGivesUp
<1> QED BY <1>7, <1>8, <1>9, <1>10, <1>11, <1>12 DEF FlowInv

LEMMA FlowCorrect ==
  ASSUME FaultFree
  PROVE  Spec => [](Known /\ NoError /\ FlowInv)
<1>1. Persistent /\ "retry" \notin Faults /\ KernelErrors = {0}
  BY NoFaults DEF FaultFree, Persistent
<1>2. Init => FlowInv
  BY FlowInit
<1>3. /\ TypeOK /\ WritesInOrder /\ ResponseInv /\ AppInv /\ NoError
      /\ (Alive => ExchangeInv) /\ FlowInv
      => Known
  <2> SUFFICES ASSUME TypeOK, WritesInOrder, ResponseInv, AppInv,
                      Alive => ExchangeInv, FlowInv
               PROVE  Known
    OBVIOUS
  <2>1. HostOrder
    BY OrderIsWritesInOrder
  <2>2. Alive
    BY DEF FlowInv, Serves
  <2> QED BY <2>1, <2>2 DEF Known
<1>4. /\ TypeOK /\ WritesInOrder /\ ResponseInv /\ AppInv /\ NoError
      /\ (Alive => ExchangeInv) /\ FlowInv
      /\ ResponseInv' /\ (Alive => ExchangeInv)' /\ [Next]_vars
      => FlowInv'
  <2> SUFFICES ASSUME TypeOK, WritesInOrder, ResponseInv, AppInv, NoError,
                      Alive => ExchangeInv, FlowInv,
                      ResponseInv', (Alive => ExchangeInv)', [Next]_vars
               PROVE  FlowInv'
    OBVIOUS
  <2>1. Known
    BY <1>3
  <2>2. Alive'
    BY <2>1, QuietSteps
  <2>3. ShapeInv'
    BY <2>2 DEF ExchangeInv
  <2> QED BY <2>1, <2>3, FlowNext
<1>5. /\ Spec => []TypeOK
      /\ Spec => []WritesInOrder
      /\ Spec => []ResponseInv
      /\ Spec => []AppInv
      /\ Spec => []NoError
      /\ Spec => [](Alive => ExchangeInv)
  BY <1>1, TypeCorrect, OrderKept, OneResponse, AppCorrect, NoErrorCorrect,
     OneCallInOnePlace
<1> QED BY <1>2, <1>3, <1>4, <1>5, PTL DEF Spec

-------------------------------------------------------------------------------
(***************************************************************************)
(* The theorems.                                                           *)
(***************************************************************************)

(* Neither side accumulates receives, however many calls are made: the     *)
(* host has at most the one for its response, the worker one more, its     *)
(* spare, than what may still come needs.                                  *)
THEOREM ReceivesAreFew ==
  ASSUME FaultFree
  PROVE  Spec => []ReceivesBounded
<1>1. Known /\ FlowInv => ReceivesBounded
  <2> SUFFICES ASSUME Known, FlowInv PROVE ReceivesBounded
    OBVIOUS
  <2>1. recvs["host"] <= 1
    BY DEF Known, ResponseInv, Single
  <2>2. recvs["naa"] + One(Announced \/ Asked) = 1 + One(Spare)
    BY DEF FlowInv, Receives
  <2>3. recvs["naa"] \in Nat
    BY QueueTypes DEF Known, Ends
  <2>4. One(Announced \/ Asked) \in 0..1 /\ One(Spare) \in 0..1
    BY DEF One
  <2> QED BY <2>1, <2>2, <2>3, <2>4 DEF ReceivesBounded
<1> QED BY <1>1, FlowCorrect, PTL

(* While nothing fails the kernel always starts on the data of the call    *)
(* the application is in.                                                  *)
THEOREM KernelAlwaysGetsItsCall ==
  ASSUME FaultFree
  PROVE  Spec => []KernelSeesItsCall
<1>1. Persistent
  BY NoFaults
<1>2. FlowInv => Alive
  BY DEF FlowInv, Serves
<1> QED BY <1>1, <1>2, FlowCorrect, KernelGetsItsCall, PTL

-------------------------------------------------------------------------------
(***************************************************************************)
(* The kernel runs once for each call.                                     *)
(***************************************************************************)
LEMMA SamePending ==
  ASSUME Request' <=> Request, Asked' <=> Asked, Serving' <=> Serving,
         naa_pc' = "respond" <=> naa_pc = "respond",
         UNCHANGED <<naa_runs, no_rpc_calls>>, Runs
  PROVE  Runs'
<1>1. Pending' <=> Pending
  BY DEF Pending
<1>2. One(Pending') = One(Pending)
  BY <1>1 DEF One
<1> QED BY <1>2 DEF Runs

LEMMA CallRuns ==
  ASSUME FaultFree, Known, FlowInv, Runs, DoDataTransfer, UNCHANGED naaVars,
         Alive', ShapeInv'
  PROVE  Runs'
<1> DEFINE k == no_rpc_calls + 1
           list == WriteList(to_write', Immediate, k)
<1>1. ~InTransfer /\ ~Asked /\ ~Serving /\ no_rpc_calls' = k
  BY CallEffect DEF Known, ExchangeInv, FaultFree
<1>2. ~Pending
  BY <1>1, RequestRequests DEF Pending, Known, ExchangeInv, Tokens
<1>3. Has(list, {"WRITE_IMM"}) /\ list \in Seq(WorkRequests)
  <2>1. to_write' \in Seq(Regions) /\ Len(to_write') > 0
    BY HostAssumption DEF ShapeInv
  <2>2. k \in Nat
    BY DEF Known, TypeOK, HostTypeOK
  <2>3. list \in Seq(WorkRequests)
    BY <2>1, <2>2, VerbsAssumption, ImmediateType, WriteListType
  <2>4. Len(list) = Len(to_write') /\ Len(to_write') \in 1..Len(to_write')
    BY <2>1 DEF WriteList
  <2>5. list[Len(to_write')].op = "WRITE_IMM"
    BY <2>4 DEF WriteList, WriteRequest, CarriesImmediate
  <2> HIDE DEF list
  <2> QED BY <2>3, <2>4, <2>5 DEF Has
<1>4. sq'["host"] = sq["host"] \o list
  <2>1. WriteData(host_fncode', k) /\ host_fncode' # 0
    BY DEF DoDataTransfer, Alive
  <2>2. PICK wrs \in HostAccepted(list) : PostSend("host", wrs)
    BY <2>1 DEF WriteData, Dropped
  <2>3. HostAccepted(list) = {list}
    BY NoFaults
  <2>4. PostSend("host", list)
    BY <2>2, <2>3
  <2> HIDE DEF list
  <2> QED BY <2>4, PostSendEffect DEF Known, Ends
<1> HIDE DEF list
<1>5. Pending'
  BY <1>3, <1>4, ConcatHas, QueueTypes DEF Pending, Request, Known, Ends
<1>6. One(Pending) = 0 /\ One(Pending') = 1
  BY <1>2, <1>5 DEF One
<1>7. naa_runs' = naa_runs /\ Len(naa_runs) \in Nat
  BY DEF naaVars, Known, TypeOK, NaaTypeOK
<1> QED BY <1>1, <1>6, <1>7 DEF Runs

(* The run of a call is counted when it is made.                           *)
LEMMA RpcRuns ==
  ASSUME Known, Runs, RunRpc, UNCHANGED hostVars
  PROVE  Runs' /\ naa_runs' = Append(naa_runs, no_rpc_calls)
         /\ Len(naa_runs) + 1 = no_rpc_calls
<1>1. /\ UNCHANGED <<sq, cq, naa_state>> /\ naa_pc = "rpc" /\ naa_pc' = "respond"
      /\ naa_runs' = Append(naa_runs, naa_serving) /\ no_rpc_calls' = no_rpc_calls
  BY DEF RunRpc, hostVars
<1>2. Serving /\ ~Requesting /\ ~Asked /\ naa_serving = no_rpc_calls
  BY <1>1 DEF Known, ExchangeInv, WorkerInv, NaaControl, Serving, Tokens
<1>3. Pending /\ ~Pending'
  <2>1. ~Request' /\ ~Asked'
    BY <1>1, <1>2, RequestRequests DEF Request, Asked
  <2> QED BY <1>1, <1>2, <2>1 DEF Pending
<1>4. One(Pending) = 1 /\ One(Pending') = 0
  BY <1>3 DEF One
<1>5. naa_runs \in Seq(Nat) /\ naa_serving \in Nat
  BY DEF Known, TypeOK, NaaTypeOK
<1>6. Len(naa_runs) \in Nat /\ Len(naa_runs') = Len(naa_runs) + 1
  BY <1>1, <1>5
<1> QED BY <1>1, <1>2, <1>4, <1>6 DEF Runs

LEMMA WorksRuns ==
  ASSUME FaultFree, Known, FlowInv, Runs, NaaWorks, ~RunRpc, UNCHANGED hostVars
  PROVE  Runs'
<1> USE DEF MRSP_RECEIVING, MRSP_SENDING, MRSP_DONE, DATA_SENDING,
            DATA_RECEIVING, CALCULATING, CONNECTED
<1>1. /\ naa_pc' # "respond" /\ no_rpc_calls' = no_rpc_calls
      /\ sq'["host"] = sq["host"]
  BY WorksPc, WorksEffect DEF Known, ExchangeInv, hostVars
<1>2. naa_runs' = naa_runs
  BY DEF NaaWorks, NaaPollStep, NaaStart, NaaReceive, NaaGetEvent, NaaDrain,
         NaaDrained, NaaArm, NaaRespond, NaaNotices
<1>3. Request' <=> Request
  BY <1>1 DEF Request
<1>4. CASE NaaDrain
  <2>1. ~Serving /\ naa_pc = "drain"
    BY <1>4 DEF NaaDrain, Known, ExchangeInv, WorkerInv, NaaControl, Serving
  <2>2. (Asked' \/ Serving') <=> Asked
    <3> DEFINE c == Head(cq["naa"])
    <3>1. /\ Asked <=> Asked' \/ c.op = "RECV_IMM"
          /\ Serving' <=> c.op = "RECV_IMM"
      BY <1>4, NaaDrainCases DEF Asked, Serving
    <3> QED BY <3>1
  <2>3. Pending' <=> Pending
    BY <1>1, <1>3, <2>1, <2>2 DEF Pending
  <2>4. One(Pending') = One(Pending)
    BY <2>3 DEF One
  <2> QED BY <1>1, <1>2, <2>4 DEF Runs
<1>5. CASE NaaRespond
  <2>1. /\ naa_pc = "respond" /\ Serving /\ ~Serving' /\ UNCHANGED cq
    BY <1>5 DEF NaaRespond, Known, ExchangeInv, WorkerInv, NaaControl, Serving
  <2>2. Asked' <=> Asked
    BY <2>1 DEF Asked
  <2>3. Pending' <=> Pending
    BY <1>3, <2>1, <2>2 DEF Pending
  <2>4. One(Pending') = One(Pending)
    BY <2>3 DEF One
  <2> QED BY <1>1, <1>2, <2>4 DEF Runs
<1>6. CASE NaaStart \/ NaaReceive \/ NaaGetEvent \/ NaaDrained \/ NaaArm \/ NaaNotices
  <2>1. UNCHANGED cq /\ naa_pc # "respond"
    BY <1>6 DEF NaaStart, NaaReceive, NaaGetEvent, NaaDrained, NaaArm, NaaNotices,
                verbsVars
  <2>2. Asked' <=> Asked
    BY <2>1 DEF Asked
  <2>3. Serving' <=> Serving
    BY <1>6 DEF NaaStart, NaaReceive, NaaGetEvent, NaaDrained, NaaArm, NaaNotices,
                Known, ExchangeInv, WorkerInv, NaaControl, Serving
  <2> QED BY <1>1, <1>2, <1>3, <2>1, <2>2, <2>3, SamePending
<1> QED BY <1>4, <1>5, <1>6 DEF NaaWorks, NaaPollStep

LEMMA FabricRuns ==
  ASSUME Known, FlowInv, Runs, NEW e \in Ends, Fabric(e),
         UNCHANGED <<hostVars, naaVars>>
  PROVE  Runs'
<1>1. /\ Serving' <=> Serving
      /\ UNCHANGED <<naa_pc, naa_runs, no_rpc_calls>>
  BY DEF Serving, naaVars, hostVars
<1>2. cq["naa"] \in Seq(Completions) /\ sq["host"] \in Seq(WorkRequests) /\ TypeOK
  BY QueueTypes DEF Known, Ends
<1>3. CASE Acknowledge(e)
  <2>1. Request' <=> Request
    BY <1>2, <1>3, AcknowledgeEffect DEF Request
  <2>2. Asked' <=> Asked
    <3>1. CASE e = "host"
      BY <1>2, <1>3, <3>1, AcknowledgeEffect DEF Asked, Ends
    <3>2. CASE e = "naa"
      <4> DEFINE x == SendCompletion(Head(unacked["naa"]), TRUE)
      <4>1. /\ cq'["naa"] = Append(cq["naa"], x) /\ x \in Completions
            /\ Head(unacked["naa"]) \in WorkRequests
        BY <1>2, <1>3, <3>2, AcknowledgeEffect
      <4>2. x.op \notin {"RECV_IMM"}
        BY <4>1, CompletionOfSend
      <4> HIDE DEF x
      <4> QED BY <1>2, <4>1, <4>2, CompletionEnters DEF Asked
    <3> QED BY <3>1, <3>2 DEF Ends
  <2> QED BY <1>1, <2>1, <2>2, SamePending
<1>4. CASE e = "naa" /\ (ExecuteWrite(e) \/ ExecuteReceived(e))
  <2>1. sq'["host"] = sq["host"] /\ cq'["naa"] = cq["naa"]
    BY <1>2, <1>4, WriteEffect, ReceivedEffect, ExecutedEffect DEF Ends
  <2>2. /\ Request' <=> Request
        /\ Asked' <=> Asked
    BY <2>1 DEF Request, Asked
  <2> QED BY <1>1, <2>2, SamePending
<1>5. CASE e = "host" /\ ExecuteWrite(e)
  <2>1. /\ sq["host"] # <<>> /\ sq'["host"] = Tail(sq["host"])
        /\ Head(sq["host"]).op = "WRITE" /\ UNCHANGED cq
    BY <1>2, <1>5, WriteEffect, ExecutedEffect
  <2>2. /\ Request' <=> Request
        /\ Asked' <=> Asked
    BY <1>2, <2>1, TailHas DEF Request, Asked
  <2> QED BY <1>1, <2>2, SamePending
<1>6. CASE e = "host" /\ ExecuteReceived(e)
  <2> DEFINE h == Head(sq["host"])
  <2>1. /\ h.op \in {"SEND", "WRITE_IMM"}
        /\ Asked' <=> Asked \/ h.op = "WRITE_IMM"
    BY <1>6, ArrivesAtNaa
  <2>2. Request <=> Request' \/ h.op = "WRITE_IMM"
    <3>1. sq["host"] # <<>> /\ sq'["host"] = Tail(sq["host"])
      BY <1>2, <1>6, ReceivedEffect, ExecutedEffect
    <3> QED BY <1>2, <3>1, TailHas DEF Request
  <2> HIDE DEF h
  <2>3. Pending' <=> Pending
    BY <1>1, <2>1, <2>2 DEF Pending
  <2>4. One(Pending') = One(Pending)
    BY <2>3 DEF One
  <2> QED BY <1>1, <2>4 DEF Runs
<1> QED BY <1>3, <1>4, <1>5, <1>6 DEF Fabric, Ends

LEMMA RunsNext ==
  ASSUME FaultFree, Known, FlowInv, Runs, ShapeInv', [Next]_vars
  PROVE  Runs'
<1>1. Alive'
  BY QuietSteps
<1>2. CASE DoMrsp /\ UNCHANGED naaVars
  <2>1. ~InTransfer /\ ~Requesting' /\ ~Asked' /\ ~Serving' /\ no_rpc_calls' = no_rpc_calls
    BY <1>2, MrspEffect DEF Known, ExchangeInv
  <2>2. ~Pending /\ ~Pending'
    <3>1. ~Request'
      BY <2>1 DEF Request, Requesting, Has, AnyWrite
    <3> QED BY <2>1, <3>1, RequestRequests DEF Pending, Known, ExchangeInv, Tokens
  <2>3. One(Pending') = One(Pending)
    BY <2>2 DEF One
  <2> QED BY <1>2, <2>1, <2>3 DEF Runs, naaVars
<1>3. CASE DoDataTransfer /\ UNCHANGED naaVars
  BY <1>1, <1>3, CallRuns
<1>4. CASE (HostDrain \/ HostBusy) /\ UNCHANGED naaVars
  <2>1. UNCHANGED <<sq, no_rpc_calls>> /\ cq'["naa"] = cq["naa"]
    BY <1>4, HandleEffect DEF Known
  <2> QED BY <1>4, <2>1, SamePending DEF Request, Asked, Serving, naaVars
<1>5. CASE HostWaits /\ UNCHANGED naaVars
  <2>1. UNCHANGED <<sq, cq, no_rpc_calls>>
    BY <1>5, WaitsEffect
  <2> QED BY <1>5, <2>1, SamePending DEF Request, Asked, Serving, naaVars
<1>6. CASE NaaWorks /\ UNCHANGED hostVars
  BY <1>6, WorksRuns, RpcRuns
<1>7. ASSUME NEW e \in Ends, Fabric(e), UNCHANGED <<hostVars, naaVars>>
      PROVE  Runs'
  BY <1>7, FabricRuns
<1>8. CASE UNCHANGED vars
  BY <1>8, SamePending
     DEF vars, verbsVars, hostVars, naaVars, Request, Asked, Serving
<1> QED BY <1>2, <1>3, <1>4, <1>5, <1>6, <1>7, QuietSteps, <1>8

LEMMA RunsCorrect ==
  ASSUME FaultFree
  PROVE  Spec => []Runs
<1>1. Init => Runs
  <2> SUFFICES ASSUME Init PROVE Runs
    OBVIOUS
  <2>1. /\ sq["host"] = <<>> /\ cq["naa"] = <<>> /\ naa_state = CONNECTED
        /\ naa_runs = <<>> /\ no_rpc_calls = 0
    BY DEF Init, HostInit, NaaInit, Ends
  <2>2. ~Pending
    BY <2>1, HasNone DEF Pending, Request, Asked, Serving, CONNECTED, CALCULATING
  <2> QED BY <2>1, <2>2 DEF Runs, One
<1>2. Known /\ NoError /\ FlowInv /\ (Known /\ NoError /\ FlowInv)' /\ Runs
      /\ [Next]_vars => Runs'
  BY RunsNext DEF Known, ExchangeInv
<1> QED BY <1>1, <1>2, FlowCorrect, PTL DEF Spec

-------------------------------------------------------------------------------
(***************************************************************************)
(* The service.  An idle application holds the results of its last call.   *)
(***************************************************************************)
Answer == IF ~Busy /\ \A r \in OutputRegions :
                        mem["host"][r] = [by |-> "naa", call |-> no_rpc_calls]
          THEN no_rpc_calls ELSE 0

Held == Answer = IF Busy THEN 0 ELSE no_rpc_calls

LEMMA AnswerIsHeld ==
  ASSUME "naa_wait" \notin TransferCalls, TypeOK, AppInv, CallsCounted, HostResults
  PROVE  Held
<1>1. CASE Busy
  BY <1>1 DEF Held, Answer
<1>2. CASE ~Busy /\ no_rpc_calls = 0
  BY <1>2 DEF Held, Answer
<1>3. CASE ~Busy /\ no_rpc_calls # 0
  <2>1. host_state \in {DATA_SENDING, DATA_RECEIVING, FINISHED}
    BY <1>3 DEF CallsCounted
  <2>2. host_call \in TransferCalls
    BY <2>1 DEF AppInv, TypeOK, HostTypeOK, CONNECTED, MRSP_SENDING, MRSP_RECEIVING,
                MRSP_DONE, DATA_SENDING, DATA_RECEIVING, FINISHED
  <2>3. host_pc = "app" /\ ~Waiting
    BY <1>3, <2>2 DEF Busy, Waiting
  <2>4. host_state = FINISHED
    BY <2>1, <2>3 DEF AppInv, CONNECTED, MRSP_DONE, DATA_SENDING, DATA_RECEIVING,
                      FINISHED
  <2>5. HasResults
    BY <2>4 DEF HostResults, Completed
  <2> QED BY <1>3, <2>5 DEF Held, Answer, HasResults, Of
<1> QED BY <1>1, <1>2, <1>3

ServiceRequest == /\ ~Busy /\ Busy'
                  /\ no_rpc_calls' = no_rpc_calls + 1
                  /\ UNCHANGED naa_runs
ServiceExecute == /\ Len(naa_runs) < no_rpc_calls
                  /\ naa_runs' = Append(naa_runs, no_rpc_calls)
                  /\ Busy /\ Busy' /\ UNCHANGED no_rpc_calls
ServiceReturn  == /\ Busy /\ ~Busy' /\ Len(naa_runs) = no_rpc_calls
                  /\ UNCHANGED <<no_rpc_calls, naa_runs>>
ServiceWaits   == /\ (Busy' <=> Busy)
                  /\ UNCHANGED <<no_rpc_calls, naa_runs>>

(* A call returns finished, when its run has been counted.                 *)
LEMMA ReturnCounted ==
  ASSUME "naa_wait" \notin TransferCalls, Known, AppInv', Tokens', Runs,
         HostDrain \/ HostBusy \/ HostWaits, UNCHANGED naaVars, Runs',
         Busy, ~Busy'
  PROVE  ServiceReturn
<1>1. UNCHANGED <<no_rpc_calls, host_call, naa_runs>>
  BY DEF HostDrain, HostBusy, HostWaits, HostGetEvent, HostArm, HostDrained,
         HostTimeout, WaitAgain, naaVars
<1>2. host_call' \in TransferCalls /\ host_pc' = "app" /\ ~Waiting'
  BY <1>1 DEF Busy, Waiting
<1>3. ~InTransfer'
  BY <1>2 DEF AppInv, InTransfer, CONNECTED, MRSP_DONE, FINISHED, DATA_SENDING,
              DATA_RECEIVING
<1>4. ~Requesting' /\ ~Asked' /\ ~Serving'
  BY <1>3 DEF Tokens
<1>5. ~Request'
  BY <1>4 DEF Request, Requesting, Has, AnyWrite
<1>6. One(Pending') = 0
  BY <1>4, <1>5 DEF Pending, One
<1>7. Len(naa_runs) \in Nat
  BY DEF Known, TypeOK, NaaTypeOK
<1> QED BY <1>1, <1>6, <1>7 DEF Runs, ServiceReturn

LEMMA ServiceSteps ==
  ASSUME FaultFree, "naa_wait" \notin TransferCalls, Known, FlowInv, Runs,
         Known', Runs', [Next]_vars
  PROVE  ServiceRequest \/ ServiceExecute \/ ServiceReturn \/ ServiceWaits
<1>1. Tokens /\ Tokens' /\ AppInv /\ AppInv' /\ TypeOK
  BY DEF Known, ExchangeInv
<1>2. CASE DoMrsp /\ UNCHANGED naaVars
  <2>1. host_state = CONNECTED /\ no_rpc_calls' = no_rpc_calls /\ host_call' = "do_mrsp"
    BY <1>2 DEF DoMrsp
  <2>2. ~Busy
    BY <1>1, <2>1 DEF AppInv, Busy, CONNECTED, DATA_SENDING, DATA_RECEIVING, FINISHED
  <2>3. ~Busy'
    BY <2>1, CallNames DEF Busy
  <2> QED BY <1>2, <2>1, <2>2, <2>3 DEF ServiceWaits, naaVars
<1>3. CASE DoDataTransfer /\ UNCHANGED naaVars
  <2>1. host_pc = "app" /\ host_call' \in TransferCalls /\ host_pc' = "poll"
        /\ no_rpc_calls' = no_rpc_calls + 1
    BY <1>3 DEF DoDataTransfer, MayCall, FaultFree
  <2> QED BY <1>3, <2>1 DEF ServiceRequest, Busy, naaVars
<1>4. CASE (HostDrain \/ HostBusy \/ HostWaits) /\ UNCHANGED naaVars
  <2>1. UNCHANGED <<no_rpc_calls, host_call, naa_runs>>
    BY <1>4 DEF HostDrain, HostBusy, HostWaits, HostGetEvent, HostArm, HostDrained,
                HostTimeout, WaitAgain, naaVars
  <2>2. CASE Busy /\ ~Busy'
    BY <1>1, <1>4, <2>2, ReturnCounted
  <2>3. ASSUME ~Busy PROVE ~Busy'
    <3>1. host_call \in TransferCalls => host_pc = "app" /\ ~Waiting
      BY <2>3 DEF Busy, Waiting
    <3>2. CASE host_call \notin TransferCalls
      BY <2>1, <3>2 DEF Busy
    <3>3. CASE host_call \in TransferCalls
      BY <1>4, <3>1, <3>3
         DEF HostDrain, HostBusy, HostWaits, HostGetEvent, HostArm, HostDrained,
             HostTimeout, WaitAgain
    <3> QED BY <3>2, <3>3
  <2> QED BY <2>1, <2>2, <2>3 DEF ServiceWaits
<1>5. CASE RunRpc /\ UNCHANGED hostVars
  <2>1. naa_runs' = Append(naa_runs, no_rpc_calls) /\ Len(naa_runs) + 1 = no_rpc_calls
    BY <1>5, RpcRuns
  <2>2. Len(naa_runs) < no_rpc_calls
    <3>1. Len(naa_runs) \in Nat
      BY <1>1 DEF TypeOK, NaaTypeOK
    <3> QED BY <2>1, <3>1
  <2>3. Busy
    <3>1. Serving
      BY <1>5 DEF RunRpc, Known, ExchangeInv, WorkerInv, NaaControl, Serving
    <3>2. InTransfer
      BY <1>1, <3>1 DEF Tokens
    <3>3. host_call \in TransferCalls
      BY <1>1, <3>2 DEF AppInv, InTransfer, TypeOK, HostTypeOK, CONNECTED,
         MRSP_SENDING, MRSP_RECEIVING, MRSP_DONE, DATA_SENDING, DATA_RECEIVING
    <3>4. host_pc # "app"
      BY <1>1, <3>2, <3>3 DEF AppInv, Waiting, InTransfer, CONNECTED, MRSP_DONE,
         FINISHED, DATA_SENDING, DATA_RECEIVING
    <3> QED BY <3>3, <3>4 DEF Busy
  <2>4. Busy' /\ UNCHANGED no_rpc_calls
    BY <1>5, <2>3 DEF Busy, hostVars
  <2> QED BY <2>1, <2>2, <2>3, <2>4 DEF ServiceExecute
<1>6. CASE NaaWorks /\ ~RunRpc /\ UNCHANGED hostVars
  <2>1. naa_runs' = naa_runs
    BY <1>6 DEF NaaWorks, NaaPollStep, NaaStart, NaaReceive, NaaGetEvent, NaaDrain,
                NaaDrained, NaaArm, NaaRespond, NaaNotices
  <2> QED BY <1>6, <2>1 DEF ServiceWaits, Busy, hostVars
<1>7. CASE UNCHANGED <<hostVars, naaVars>>
  BY <1>7 DEF ServiceWaits, Busy, hostVars, naaVars
<1>8. CASE UNCHANGED vars
  BY <1>7, <1>8 DEF vars
<1> QED BY <1>2, <1>3, <1>4, <1>5, <1>6, <1>7, <1>8, QuietSteps

(* Every step of the link is one of the service, or none of its business:  *)
(* a call, the run of the kernel for this call - one, before it returns -  *)
(* and the return with its results.  (That every call returns is beyond    *)
(* this prover.)                                                           *)
THEOREM LinkServes ==
  ASSUME FaultFree, "naa_wait" \notin TransferCalls
  PROVE  Spec => Service!Init /\ [][Service!Next]_(Service!vars)
<1> DEFINE I == Known /\ NoError /\ FlowInv /\ Runs /\ Held
<1>1. Init => Service!Init
  <2> SUFFICES ASSUME Init PROVE Service!Init
    OBVIOUS
  <2>1. no_rpc_calls = 0 /\ naa_runs = <<>> /\ host_call = "none"
    BY DEF Init, HostInit, NaaInit
  <2> QED BY <2>1, CallNames DEF Service!Init, Busy
<1>2. I /\ I' /\ [Next]_vars => [Service!Next]_(Service!vars)
  <2> SUFFICES ASSUME I, I', [Next]_vars PROVE [Service!Next]_(Service!vars)
    OBVIOUS
  <2>1. ServiceRequest \/ ServiceExecute \/ ServiceReturn \/ ServiceWaits
    BY ServiceSteps
  <2>2. /\ Answer = IF Busy THEN 0 ELSE no_rpc_calls
        /\ Answer' = IF Busy' THEN 0 ELSE no_rpc_calls'
    BY DEF Held
  <2>3. CASE ServiceRequest
    <3>1. Service!Request
      BY <2>2, <2>3 DEF Service!Request, ServiceRequest, Answer
    <3> QED BY <3>1 DEF Service!Next
  <2>4. CASE ServiceExecute
    <3>1. Service!Execute
      BY <2>2, <2>4 DEF Service!Execute, ServiceExecute, Answer
    <3> QED BY <3>1 DEF Service!Next
  <2>5. CASE ServiceReturn
    <3>1. Service!Return
      BY <2>2, <2>5 DEF Service!Return, ServiceReturn, Answer
    <3> QED BY <3>1 DEF Service!Next
  <2>6. CASE ServiceWaits
    BY <2>2, <2>6 DEF Service!vars, ServiceWaits, Answer
  <2> QED BY <2>1, <2>3, <2>4, <2>5, <2>6
<1>3. Spec => []I
  <2>1. Persistent /\ "retry" \notin Faults /\ KernelErrors = {0}
    BY NoFaults DEF FaultFree, Persistent
  <2>2. Known /\ CallsCounted /\ HostResults => Held
    BY AnswerIsHeld DEF Known
  <2> QED BY <2>1, <2>2, FlowCorrect, RunsCorrect, CountedCorrect, ResultsCorrect, PTL
<1> QED BY <1>1, <1>2, <1>3, PTL DEF Spec
===============================================================================
