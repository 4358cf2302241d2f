--------------------------- MODULE NaaiceLinkProofs ---------------------------
(***************************************************************************)
(* Theorems about NaaiceLink, for every set of regions, every list of      *)
(* inputs and outputs, any number of calls, whatever the adapters promise  *)
(* and whichever faults occur, unless a theorem says otherwise.            *)
(***************************************************************************)
EXTENDS NaaiceLink, SequenceTheorems, TLAPS

-------------------------------------------------------------------------------
(* The lists handed to the verbs calls have the right type.                *)

LEMMA AcceptedType ==
  ASSUME NEW S, NEW wrs \in Seq(S), NEW mayFail,
         NEW s \in Accepted(wrs, mayFail)
  PROVE  s \in Seq(S)
  BY DEF Accepted

LEMMA WriteListType ==
  ASSUME VerbsAssumption,
         NEW rs \in Seq(Regions), NEW imm \in Nat, NEW k \in Nat
  PROVE  WriteList(rs, imm, k) \in Seq(WorkRequests)
  BY DEF WriteList, WriteRequest, WorkRequests, Messages

LEMMA ErrorWriteType ==
  ASSUME NEW k \in Nat
  PROVE  ErrorWrite(k) \in Seq(WorkRequests)
  BY DEF ErrorWrite, WriteRequest, WorkRequests, Messages

LEMMA ImmediateType == Immediate \in Nat
  BY HostAssumption DEF Immediate, START_RPC_MASK

LEMMA ResponseListType ==
  ASSUME NaaTypeOK
  PROVE  ResponseList \in Seq(WorkRequests)
<1>1. CASE naa_errorcode # 0
  BY <1>1 DEF NaaTypeOK, ResponseList, WorkRequests, Messages, NoRegion
<1>2. CASE naa_errorcode = 0
  BY <1>2, WorkerAssumption
     DEF NaaTypeOK, ResponseList, WorkRequests, Messages, no_output_mrs
<1> QED BY <1>1, <1>2

-------------------------------------------------------------------------------
(* Each verbs call, and each step of an adapter, keeps the types of what   *)
(* it changes.                                                             *)

LEMMA PostSendType ==
  ASSUME VerbsTypeOK, NEW e \in Ends, NEW wrs \in Seq(WorkRequests),
         PostSend(e, wrs)
  PROVE  sq' \in [Ends -> Seq(WorkRequests)]
  BY DEF VerbsTypeOK, PostSend

LEMMA PostRecvType ==
  ASSUME VerbsTypeOK, NEW e \in Ends, PostRecv(e)
  PROVE  recvs' \in [Ends -> Nat]
  BY DEF VerbsTypeOK, PostRecv

LEMMA GetCqEventType ==
  ASSUME VerbsTypeOK, NEW e \in Ends, GetCqEvent(e)
  PROVE  evts' \in [Ends -> Nat]
  BY DEF VerbsTypeOK, GetCqEvent

LEMMA PollCqType ==
  ASSUME VerbsTypeOK, NEW e \in Ends, PollCq(e), cq[e] # <<>>
  PROVE  /\ cq' \in [Ends -> Seq(Completions)]
         /\ Head(cq[e]) \in Completions
  BY DEF VerbsTypeOK, PollCq

LEMMA ReqNotifyType ==
  ASSUME VerbsTypeOK, NEW e \in Ends,
         NEW arming \in {"solicited", "all"}, ReqNotify(e, arming)
  PROVE  /\ armed' \in [Ends -> {"none", "solicited", "all"}]
         /\ evts' \in [Ends -> Nat]
<1> DEFINE pending == \E i \in 1..Len(cq[e]) : Raises(arming, cq[e][i])
<1>1. CASE ArmSeesPending /\ pending
  <2>1. /\ armed' = [armed EXCEPT ![e] = "none"]
        /\ evts' = [evts EXCEPT ![e] = @ + 1]
    BY <1>1 DEF ReqNotify
  <2> QED BY <2>1 DEF VerbsTypeOK
<1>2. CASE ~(ArmSeesPending /\ pending)
  <2>1. armed' = [armed EXCEPT ![e] = arming] /\ evts' = evts
    BY <1>2 DEF ReqNotify
  <2> QED BY <2>1 DEF VerbsTypeOK
<1> QED BY <1>1, <1>2

LEMMA DestroyQpType ==
  ASSUME VerbsTypeOK, NEW e \in Ends, DestroyQp(e), UNCHANGED <<mem, armed>>
  PROVE  VerbsTypeOK'
  BY DEF VerbsTypeOK, DestroyQp

LEMMA CompleteType ==
  ASSUME VerbsTypeOK, NEW e \in Ends, NEW c \in Completions, Complete(e, c)
  PROVE  /\ cq' \in [Ends -> Seq(Completions)]
         /\ armed' \in [Ends -> {"none", "solicited", "all"}]
         /\ evts' \in [Ends -> Nat]
<1>1. cq' \in [Ends -> Seq(Completions)]
  BY DEF VerbsTypeOK, Complete
<1>2. CASE Raises(armed[e], c)
  <2>1. /\ armed' = [armed EXCEPT ![e] = "none"]
        /\ evts' = [evts EXCEPT ![e] = @ + 1]
    BY <1>2 DEF Complete
  <2> QED BY <1>1, <2>1 DEF VerbsTypeOK
<1>3. CASE ~Raises(armed[e], c)
  <2>1. armed' = armed /\ evts' = evts
    BY <1>3 DEF Complete
  <2> QED BY <1>1, <2>1 DEF VerbsTypeOK
<1> QED BY <1>2, <1>3

LEMMA PeerType == \A e \in Ends : Peer(e) \in Ends /\ Peer(e) # e
  BY DEF Ends, Peer

LEMMA LandType ==
  ASSUME VerbsTypeOK, NEW e \in Ends, NEW wr \in WorkRequests, Land(e, wr)
  PROVE  mem' \in [Ends -> [Regions -> Contents]]
  BY PeerType DEF VerbsTypeOK, Land, WorkRequests

LEMMA ExecutedType ==
  ASSUME VerbsTypeOK, NEW e \in Ends, CanExecute(e), Executed(e)
  PROVE  /\ mem' \in [Ends -> [Regions -> Contents]]
         /\ sq' \in [Ends -> Seq(WorkRequests)]
         /\ unacked' \in [Ends -> Seq(WorkRequests)]
         /\ Head(sq[e]) \in WorkRequests
<1>1. Head(sq[e]) \in WorkRequests
  BY DEF VerbsTypeOK, CanExecute
<1>2. mem' \in [Ends -> [Regions -> Contents]]
  BY <1>1, LandType DEF Executed
<1>3. sq' \in [Ends -> Seq(WorkRequests)]
  BY DEF VerbsTypeOK, Executed, CanExecute
<1>4. unacked' \in [Ends -> Seq(WorkRequests)]
  BY <1>1 DEF VerbsTypeOK, Executed
<1> QED BY <1>1, <1>2, <1>3, <1>4

LEMMA SendCompletionType ==
  ASSUME NEW wr \in WorkRequests, NEW ok \in BOOLEAN
  PROVE  SendCompletion(wr, ok) \in Completions
  BY DEF SendCompletion, WorkRequests, Completions, Messages

LEMMA FabricType ==
  ASSUME VerbsTypeOK, NEW e \in Ends,
         Fabric(e) \/ FailSend(e) \/ FlushRecv(e)
  PROVE  VerbsTypeOK'
<1>1. CASE ExecuteWrite(e)
  BY <1>1, ExecutedType DEF ExecuteWrite, Executed, VerbsTypeOK
<1>2. CASE ExecuteReceived(e)
  <2> DEFINE c == [op |-> IF Head(sq[e]).op = "SEND" THEN "RECV" ELSE "RECV_IMM",
                   id |-> 0, ok |-> TRUE, sol |-> TRUE,
                   imm |-> Head(sq[e]).imm,
                   msg |-> Head(sq[e]).msg, call |-> Head(sq[e]).call]
  <2>1. Executed(e) /\ CanExecute(e) /\ Complete(Peer(e), c)
        /\ recvs' = [recvs EXCEPT ![Peer(e)] = @ - 1] /\ recvs[Peer(e)] > 0
    BY <1>2 DEF ExecuteReceived
  <2>2. Head(sq[e]) \in WorkRequests
    BY <2>1, ExecutedType
  <2>3. c \in Completions
    BY <2>2 DEF WorkRequests, Completions
  <2>4. recvs' \in [Ends -> Nat]
    BY <2>1, PeerType DEF VerbsTypeOK
  <2> HIDE DEF c
  <2>5. /\ cq' \in [Ends -> Seq(Completions)]
        /\ armed' \in [Ends -> {"none", "solicited", "all"}]
        /\ evts' \in [Ends -> Nat]
    BY <2>1, <2>3, PeerType, CompleteType
  <2> QED BY <2>1, <2>4, <2>5, ExecutedType DEF VerbsTypeOK, Executed
<1>3. CASE Acknowledge(e)
  <2>1. Head(unacked[e]) \in WorkRequests
    BY <1>3 DEF Acknowledge, VerbsTypeOK
  <2>2. SendCompletion(Head(unacked[e]), TRUE) \in Completions
    BY <2>1, SendCompletionType
  <2>3. /\ cq' \in [Ends -> Seq(Completions)]
        /\ armed' \in [Ends -> {"none", "solicited", "all"}]
        /\ evts' \in [Ends -> Nat]
    BY <1>3, <2>2, CompleteType DEF Acknowledge
  <2>4. unacked' \in [Ends -> Seq(WorkRequests)]
    BY <1>3 DEF Acknowledge, VerbsTypeOK
  <2> QED BY <1>3, <2>3, <2>4 DEF Acknowledge, VerbsTypeOK
<1>4. CASE FailSend(e)
  <2>1. Head(sq[e]) \in WorkRequests
    BY <1>4 DEF FailSend, VerbsTypeOK
  <2>2. SendCompletion(Head(sq[e]), FALSE) \in Completions
    BY <2>1, SendCompletionType
  <2>3. /\ cq' \in [Ends -> Seq(Completions)]
        /\ armed' \in [Ends -> {"none", "solicited", "all"}]
        /\ evts' \in [Ends -> Nat]
    BY <1>4, <2>2, CompleteType DEF FailSend
  <2>4. sq' \in [Ends -> Seq(WorkRequests)]
    BY <1>4 DEF FailSend, VerbsTypeOK
  <2>5. qp' \in [Ends -> {"up", "err", "gone"}]
    BY <1>4 DEF FailSend, VerbsTypeOK
  <2> QED BY <1>4, <2>3, <2>4, <2>5 DEF FailSend, VerbsTypeOK
<1>5. CASE FlushRecv(e)
  <2> DEFINE c == [op |-> "RECV", id |-> 0, ok |-> FALSE, sol |-> FALSE,
                   imm |-> 0, msg |-> "none", call |-> 0]
  <2>1. c \in Completions
    BY DEF Completions, Messages
  <2>2. Complete(e, c)
    BY <1>5 DEF FlushRecv
  <2> HIDE DEF c
  <2>3. /\ cq' \in [Ends -> Seq(Completions)]
        /\ armed' \in [Ends -> {"none", "solicited", "all"}]
        /\ evts' \in [Ends -> Nat]
    BY <2>1, <2>2, CompleteType
  <2>4. /\ qp' \in [Ends -> {"up", "err", "gone"}]
        /\ recvs' \in [Ends -> Nat]
    BY <1>5 DEF FlushRecv, VerbsTypeOK
  <2> QED BY <1>5, <2>3, <2>4 DEF FlushRecv, VerbsTypeOK
<1> QED BY <1>1, <1>2, <1>3, <1>4, <1>5 DEF Fabric

-------------------------------------------------------------------------------
(* Type correctness of the host.                                           *)

LEMMA DoMrspType ==
  ASSUME TypeOK, DoMrsp
  PROVE  VerbsTypeOK' /\ HostTypeOK'
<1>1. recvs' \in [Ends -> Nat]
  BY PostRecvType DEF TypeOK, VerbsTypeOK, DoMrsp, PostRecvMrsp, Ends
<1>2. <<AnnounceAndRequest>> \in Seq(WorkRequests)
  BY DEF AnnounceAndRequest, WorkRequests, Messages, NoRegion
<1>3. PICK wrs \in HostAccepted(<<AnnounceAndRequest>>) : PostSend("host", wrs)
  BY DEF DoMrsp
<1>4. wrs \in Seq(WorkRequests)
  BY <1>2, <1>3, AcceptedType DEF HostAccepted
<1>5. sq' \in [Ends -> Seq(WorkRequests)]
  BY <1>3, <1>4, PostSendType DEF TypeOK, Ends
<1>6. VerbsTypeOK'
  BY <1>1, <1>5 DEF TypeOK, VerbsTypeOK, DoMrsp
<1>7. HostTypeOK'
  BY DEF TypeOK, HostTypeOK, DoMrsp, CommunicationStates
<1> QED BY <1>6, <1>7

LEMMA WriteDataType ==
  ASSUME TypeOK, NEW fncode \in {0, Fncode}, NEW k \in Nat,
         WriteData(fncode, k)
  PROVE  /\ sq' \in [Ends -> Seq(WorkRequests)]
         /\ to_write' \in {Inputs, RepeatInputs}
         /\ rdma_writes_done' \in Nat
         /\ response_received' \in BOOLEAN
         /\ host_state' \in CommunicationStates
<1>1. to_write' \in {Inputs, RepeatInputs}
  BY DEF Dropped, WriteData, TypeOK, HostTypeOK
<1>2. ErrorWrite(k) \in Seq(WorkRequests)
  BY ErrorWriteType
<1>3. WriteList(to_write', Immediate, k) \in Seq(WorkRequests)
  BY <1>1, WriteListType, ImmediateType, HostAssumption, VerbsAssumption
<1>4. \E wrs \in Seq(WorkRequests) : PostSend("host", wrs)
  BY <1>2, <1>3, AcceptedType DEF Dropped, WriteData, HostAccepted
<1>5. sq' \in [Ends -> Seq(WorkRequests)]
  BY <1>4, PostSendType DEF TypeOK, Ends
<1> QED BY <1>1, <1>5 DEF Dropped, WriteData, CommunicationStates

LEMMA DoDataTransferType ==
  ASSUME TypeOK, DoDataTransfer
  PROVE  VerbsTypeOK' /\ HostTypeOK'
<1> DEFINE k == no_rpc_calls + 1
<1>1. k \in Nat
  BY DEF TypeOK, HostTypeOK
<1>2. /\ recvs' \in [Ends -> Nat]
      /\ host_fncode' \in {0, Fncode}
  BY PostRecvType
     DEF TypeOK, VerbsTypeOK, HostTypeOK, DoDataTransfer, PostRecvData, Ends
<1>3. /\ sq' \in [Ends -> Seq(WorkRequests)]
      /\ to_write' \in {Inputs, RepeatInputs}
      /\ rdma_writes_done' \in Nat
      /\ response_received' \in BOOLEAN
      /\ host_state' \in CommunicationStates
  BY <1>1, <1>2, WriteDataType DEF DoDataTransfer
<1>4. mem' \in [Ends -> [Regions -> Contents]]
  <2> DEFINE f == [r \in Regions |-> IF r \in InputRegions
                                     THEN [by |-> "host", call |-> k]
                                     ELSE mem["host"][r]]
  <2>1. mem' = [mem EXCEPT !["host"] = f]
    BY DEF DoDataTransfer, TypeOK, VerbsTypeOK, Ends
  <2>2. f \in [Regions -> Contents]
    BY <1>1 DEF TypeOK, VerbsTypeOK, Contents, Ends
  <2> HIDE DEF f
  <2> QED BY <2>1, <2>2 DEF TypeOK, VerbsTypeOK
<1> HIDE DEF k
<1>5. VerbsTypeOK'
  BY <1>2, <1>3, <1>4 DEF TypeOK, VerbsTypeOK, DoDataTransfer
<1>6. no_rpc_calls' \in Nat
  BY <1>1 DEF DoDataTransfer, k
<1>7. HostTypeOK'
  BY <1>2, <1>3, <1>6 DEF TypeOK, HostTypeOK, DoDataTransfer
<1> QED BY <1>5, <1>7

(* Handling a completion changes no more than the state, the tally, the    *)
(* response and the place of the thread.                                   *)
LEMMA HostHandleType ==
  ASSUME TypeOK, NEW c \in Completions, NEW after, HostHandle(c, after)
  PROVE  /\ host_pc' \in after \cup {"failed"}
         /\ host_state' \in CommunicationStates
         /\ rdma_writes_done' \in Nat
         /\ response_received' \in BOOLEAN
         /\ response_imm' \in Nat
<1>1. CASE HostHandleMrsp(c)
  BY <1>1 DEF HostHandle, HostHandleMrsp, HostHandleData, HostReject,
              HostAccepts, TypeOK, HostTypeOK, CommunicationStates,
              MRSP_SENDING, MRSP_RECEIVING, DATA_SENDING, DATA_RECEIVING
<1>2. CASE HostHandleData(c)
  <2>1. c.imm \div IMMEDIATE_BASE \in Nat
    BY DEF Completions, IMMEDIATE_BASE
  <2>2. response_imm' \in Nat
    BY <1>2, <2>1 DEF HostHandleData, TypeOK, HostTypeOK
  <2>3. response_received' \in BOOLEAN
    BY <1>2 DEF HostHandleData
  <2>4. rdma_writes_done' \in Nat
    BY <1>2 DEF HostHandleData, TypeOK, HostTypeOK
  <2>5. host_state' \in CommunicationStates
    BY <1>2 DEF HostHandleData, TypeOK, HostTypeOK, CommunicationStates
  <2>6. host_pc' \in after \cup {"failed"}
    BY DEF HostHandle
  <2> QED BY <2>2, <2>3, <2>4, <2>5, <2>6
<1>3. CASE HostReject(c)
  BY <1>3 DEF HostHandle, HostReject, TypeOK, HostTypeOK
<1> QED BY <1>1, <1>2, <1>3 DEF HostHandle

LEMMA HostStepType ==
  ASSUME TypeOK, HostStep
  PROVE  VerbsTypeOK' /\ HostTypeOK'
<1>1. CASE DoMrsp
  BY <1>1, DoMrspType
<1>2. CASE DoDataTransfer
  BY <1>2, DoDataTransferType
<1>3. CASE HostGetEvent
  BY <1>3, GetCqEventType
     DEF HostGetEvent, TypeOK, VerbsTypeOK, HostTypeOK, Ends
<1>4. CASE HostArm
  BY <1>4, ReqNotifyType
     DEF HostArm, TypeOK, VerbsTypeOK, HostTypeOK, Ends
<1>5. CASE HostDrain
  <2>1. /\ cq' \in [Ends -> Seq(Completions)]
        /\ Head(cq["host"]) \in Completions
    BY <1>5, PollCqType DEF HostDrain, TypeOK, Ends
  <2>2. /\ host_pc' \in {"drain", "failed"}
        /\ host_state' \in CommunicationStates
        /\ rdma_writes_done' \in Nat
        /\ response_received' \in BOOLEAN
        /\ response_imm' \in Nat
    BY <1>5, <2>1, HostHandleType DEF HostDrain
  <2> QED BY <1>5, <2>1, <2>2 DEF HostDrain, TypeOK, VerbsTypeOK, HostTypeOK
<1>6. CASE HostDrained
  BY <1>6 DEF HostDrained, AfterPoll, TypeOK, VerbsTypeOK, HostTypeOK, verbsVars
<1>7. CASE HostBusy
  <2>1. /\ cq' \in [Ends -> Seq(Completions)]
        /\ Head(cq["host"]) \in Completions
    BY <1>7, PollCqType DEF HostBusy, TypeOK, Ends
  <2>2. /\ host_pc' \in AfterPoll(host_state') \cup {"failed"}
        /\ host_state' \in CommunicationStates
        /\ rdma_writes_done' \in Nat
        /\ response_received' \in BOOLEAN
        /\ response_imm' \in Nat
    BY <1>7, <2>1, HostHandleType DEF HostBusy
  <2>3. host_pc' \in {"app", "poll", "failed"}
    BY <2>2 DEF AfterPoll
  <2> QED BY <1>7, <2>1, <2>2, <2>3
          DEF HostBusy, TypeOK, VerbsTypeOK, HostTypeOK
<1>8. CASE HostTimeout
  BY <1>8 DEF HostTimeout, TypeOK, VerbsTypeOK, HostTypeOK, verbsVars
<1>9. CASE HostClose
  BY <1>9, DestroyQpType DEF HostClose, TypeOK, HostTypeOK, Ends
<1>10. CASE WaitInterrupted
  BY <1>10, DestroyQpType DEF WaitInterrupted, TypeOK, HostTypeOK, Ends
<1>11. CASE WaitAgain
  BY <1>11 DEF WaitAgain, TypeOK, VerbsTypeOK, HostTypeOK, verbsVars
<1> QED BY <1>1, <1>2, <1>3, <1>4, <1>5, <1>6, <1>7, <1>8, <1>9, <1>10, <1>11
        DEF HostStep, HostPollStep

-------------------------------------------------------------------------------
(* Type correctness of the worker.                                         *)

NaaPcs == {"start", "receive", "poll", "drain", "arm", "rpc", "respond",
           "exit", "gone"}

LEMMA NaaReturnType ==
  ASSUME TypeOK, NEW state, NEW ok
  PROVE  NaaReturn(state, ok) \in NaaPcs
  BY DEF NaaReturn, TypeOK, NaaTypeOK, NaaPcs

LEMMA NaaStartType ==
  ASSUME TypeOK, NaaStart
  PROVE  VerbsTypeOK' /\ NaaTypeOK'
<1>1. recvs' \in [Ends -> Nat] /\ naa_pc' \in {"poll", "exit"}
  BY PostRecvType DEF TypeOK, VerbsTypeOK, NaaStart, Ends
<1>2. VerbsTypeOK'
  BY <1>1 DEF TypeOK, VerbsTypeOK, NaaStart
<1>3. NaaTypeOK'
  BY <1>1 DEF TypeOK, NaaTypeOK, NaaStart, CommunicationStates
<1> QED BY <1>2, <1>3

LEMMA NaaReceiveType ==
  ASSUME TypeOK, NaaReceive
  PROVE  VerbsTypeOK' /\ NaaTypeOK'
<1>1. recvs' \in [Ends -> Nat]
  BY PostRecvType DEF TypeOK, VerbsTypeOK, NaaReceive, Ends
<1>2. VerbsTypeOK'
  BY <1>1 DEF TypeOK, VerbsTypeOK, NaaReceive
<1>3. NaaTypeOK'
  BY DEF TypeOK, NaaTypeOK, NaaReceive, CommunicationStates
<1> QED BY <1>2, <1>3

LEMMA PostMessageType ==
  ASSUME TypeOK, NEW msg \in Messages, PostMessage(msg)
  PROVE  sq' \in [Ends -> Seq(WorkRequests)]
<1> DEFINE list == <<[op |-> "SEND", id |-> 0, mr |-> NoRegion, imm |-> 0,
                      msg |-> msg, call |-> 0]>>
<1>1. list \in Seq(WorkRequests)
  BY DEF WorkRequests, NoRegion
<1>2. PICK wrs \in NaaAccepted(list) : PostSend("naa", wrs)
  BY DEF PostMessage
<1>3. wrs \in Seq(WorkRequests)
  BY <1>1, <1>2, AcceptedType DEF NaaAccepted
<1> QED BY <1>2, <1>3, PostSendType DEF TypeOK, Ends

LEMMA NaaDrainType ==
  ASSUME TypeOK, NaaDrain
  PROVE  VerbsTypeOK' /\ NaaTypeOK'
<1> DEFINE c == Head(cq["naa"])
<1>1. cq' \in [Ends -> Seq(Completions)] /\ c \in Completions
  BY PollCqType DEF NaaDrain, TypeOK, Ends
<1>2. SUFFICES /\ sq' \in [Ends -> Seq(WorkRequests)]
               /\ naa_pc' \in NaaPcs
               /\ naa_state' \in CommunicationStates
               /\ naa_writes_done' \in Nat
               /\ naa_fncode' \in Nat /\ naa_immediate' \in Nat
               /\ naa_arrived' \in BOOLEAN /\ naa_serving' \in Nat
  BY <1>1 DEF NaaDrain, TypeOK, VerbsTypeOK, NaaTypeOK, NaaPcs
<1>3. \A state : AfterCompletion(state) \in NaaPcs
  BY DEF AfterCompletion, NaaPcs
<1>4. CASE NaaHandleAnnounce(c)
  <2>1. \/ PostMessage("A") /\ naa_pc' = "drain"
        \/ PostMessage("ERR") /\ naa_pc' = NaaReturn(MRSP_SENDING, FALSE)
    BY <1>4 DEF NaaHandleAnnounce
  <2>2. sq' \in [Ends -> Seq(WorkRequests)] /\ naa_pc' \in NaaPcs
    BY <2>1, PostMessageType, NaaReturnType DEF NaaPcs, Messages
  <2> QED BY <1>4, <2>2
          DEF NaaHandleAnnounce, TypeOK, NaaTypeOK, CommunicationStates
<1>5. CASE NaaHandleAnswered(c)
  BY <1>3, <1>5 DEF NaaHandleAnswered, TypeOK, VerbsTypeOK, NaaTypeOK,
                    CommunicationStates
<1>6. CASE NaaHandleData(c)
  <2>1. c.imm % 128 \in Nat /\ c.imm \div 256 \in Nat /\ c.call \in Nat
    BY <1>1 DEF Completions
  <2>2. naa_fncode' \in Nat /\ naa_immediate' \in Nat /\ naa_serving' \in Nat
    BY <1>6, <2>1 DEF NaaHandleData, TypeOK, NaaTypeOK
  <2>3. naa_state' \in CommunicationStates /\ naa_arrived' \in BOOLEAN
    BY <1>6 DEF NaaHandleData, TypeOK, NaaTypeOK, CommunicationStates
  <2> QED BY <1>3, <1>6, <2>2, <2>3
          DEF NaaHandleData, TypeOK, VerbsTypeOK, NaaTypeOK
<1>7. CASE NaaHandleWritten(c)
  <2>1. naa_writes_done' \in Nat
    BY <1>7 DEF NaaHandleWritten, TypeOK, NaaTypeOK
  <2>2. naa_state' \in CommunicationStates
    BY <1>7 DEF NaaHandleWritten, CommunicationStates
  <2> QED BY <1>3, <1>7, <2>1, <2>2
          DEF NaaHandleWritten, TypeOK, VerbsTypeOK, NaaTypeOK
<1>8. CASE NaaReject(c)
  BY <1>8, NaaReturnType DEF NaaReject, TypeOK, VerbsTypeOK, NaaTypeOK
<1> QED BY <1>4, <1>5, <1>6, <1>7, <1>8 DEF NaaDrain

LEMMA RunRpcType ==
  ASSUME TypeOK, RunRpc
  PROVE  VerbsTypeOK' /\ NaaTypeOK'
<1> DEFINE f == [r \in Regions |-> IF r \in OutputRegions
                                   THEN [by |-> "naa", call |-> naa_serving]
                                   ELSE mem["naa"][r]]
<1>1. mem' = [mem EXCEPT !["naa"] = f]
  BY DEF RunRpc, TypeOK, VerbsTypeOK, Ends
<1>2. f \in [Regions -> Contents]
  BY DEF TypeOK, VerbsTypeOK, NaaTypeOK, Contents, Ends
<1> HIDE DEF f
<1>3. mem' \in [Ends -> [Regions -> Contents]]
  BY <1>1, <1>2 DEF TypeOK, VerbsTypeOK
<1>4. VerbsTypeOK'
  BY <1>3 DEF RunRpc, TypeOK, VerbsTypeOK
<1>5. naa_errorcode' \in 0..255
  BY WorkerAssumption DEF RunRpc
<1>6. NaaTypeOK'
  BY <1>5 DEF RunRpc, TypeOK, NaaTypeOK
<1> QED BY <1>4, <1>6

LEMMA NaaRespondType ==
  ASSUME TypeOK, NaaRespond
  PROVE  VerbsTypeOK' /\ NaaTypeOK'
<1>1. PICK wrs \in NaaAccepted(ResponseList) : PostSend("naa", wrs)
  BY DEF NaaRespond
<1>2. wrs \in Seq(WorkRequests)
  BY <1>1, ResponseListType, AcceptedType DEF NaaAccepted, TypeOK
<1>3. sq' \in [Ends -> Seq(WorkRequests)]
  BY <1>1, <1>2, PostSendType DEF TypeOK, Ends
<1>4. VerbsTypeOK'
  BY <1>3 DEF NaaRespond, TypeOK, VerbsTypeOK
<1>5. NaaTypeOK'
  BY DEF NaaRespond, TypeOK, NaaTypeOK, CommunicationStates
<1> QED BY <1>4, <1>5

LEMMA NaaStepType ==
  ASSUME TypeOK, NaaStep
  PROVE  VerbsTypeOK' /\ NaaTypeOK'
<1>1. CASE NaaGetEvent
  BY <1>1, GetCqEventType
     DEF NaaGetEvent, TypeOK, VerbsTypeOK, NaaTypeOK, Ends
<1>2. CASE NaaDrained
  BY <1>2 DEF NaaDrained, TypeOK, VerbsTypeOK, NaaTypeOK, verbsVars
<1>3. CASE NaaArm
  <2>1. naa_pc' \in NaaPcs
    BY <1>3, NaaReturnType DEF NaaArm, NaaLoop, NaaPcs
  <2> QED BY <1>3, <2>1, ReqNotifyType
          DEF NaaArm, NaaArming, TypeOK, VerbsTypeOK, NaaTypeOK, NaaPcs, Ends
<1>4. CASE NaaTimeout
  BY <1>4, NaaReturnType
     DEF NaaTimeout, TypeOK, VerbsTypeOK, NaaTypeOK, NaaPcs, verbsVars
<1>5. CASE NaaExit
  <2>1. VerbsTypeOK'
    <3>1. CASE DestroyQp("naa")
      <4>1. VerbsTypeOK /\ UNCHANGED <<mem, armed>> /\ "naa" \in Ends
        BY <1>5 DEF NaaExit, TypeOK, Ends
      <4> QED BY <3>1, <4>1, DestroyQpType
    <3>2. CASE ~DestroyQp("naa")
      BY <1>5, <3>2 DEF NaaExit, TypeOK, VerbsTypeOK, Ends
    <3> QED BY <3>1, <3>2
  <2> QED BY <1>5, <2>1 DEF NaaExit, TypeOK, NaaTypeOK
<1>6. CASE NaaNotices
  <2>1. naa_pc' \in NaaPcs
    BY <1>6, NaaReturnType DEF NaaNotices, NaaLoop, NaaPcs
  <2> QED BY <1>6, <2>1
          DEF NaaNotices, TypeOK, VerbsTypeOK, NaaTypeOK, NaaPcs, verbsVars
<1>7. CASE NaaRemoval
  BY <1>7 DEF NaaRemoval, TypeOK, VerbsTypeOK, NaaTypeOK, CommunicationStates,
              Ends
<1> QED BY <1>1, <1>2, <1>3, <1>4, <1>5, <1>6, <1>7, NaaStartType, NaaReceiveType,
           NaaDrainType, RunRpcType, NaaRespondType
        DEF NaaStep, NaaThread, NaaPollStep

-------------------------------------------------------------------------------
LEMMA InitType == Init => TypeOK
<1> SUFFICES ASSUME Init PROVE TypeOK
  OBVIOUS
<1>1. VerbsTypeOK
  BY DEF Init, VerbsTypeOK, Contents, Ends
<1>2. HostTypeOK
  BY DEF Init, HostInit, HostTypeOK, CommunicationStates
<1>3. naa_runs \in Seq(Nat) /\ naa_errorcode \in 0..255
  BY DEF Init, NaaInit
<1>4. NaaTypeOK
  BY <1>3 DEF Init, NaaInit, NaaTypeOK, CommunicationStates
<1> QED BY <1>1, <1>2, <1>4 DEF TypeOK

LEMMA NextType == TypeOK /\ [Next]_vars => TypeOK'
<1> SUFFICES ASSUME TypeOK, [Next]_vars PROVE TypeOK'
  OBVIOUS
<1>1. CASE Host
  BY <1>1, HostStepType DEF Host, TypeOK, NaaTypeOK, naaVars
<1>2. CASE Naa
  BY <1>2, NaaStepType DEF Naa, TypeOK, HostTypeOK, hostVars
<1>3. ASSUME NEW e \in Ends, Carry(e) \/ Break(e) PROVE TypeOK'
  <2>1. VerbsTypeOK'
    BY <1>3, FabricType DEF Carry, Break, TypeOK
  <2>2. UNCHANGED <<hostVars, naaVars>>
    BY <1>3 DEF Carry, Break
  <2>3. HostTypeOK'
    BY <2>2 DEF TypeOK, HostTypeOK, hostVars
  <2>4. NaaTypeOK'
    BY <2>2 DEF TypeOK, NaaTypeOK, naaVars
  <2> QED BY <2>1, <2>3, <2>4 DEF TypeOK
<1>4. CASE UNCHANGED vars
  BY <1>4 DEF vars, verbsVars, hostVars, naaVars, TypeOK, VerbsTypeOK,
              HostTypeOK, NaaTypeOK
<1> QED BY <1>1, <1>2, <1>3, <1>4 DEF Next

(* Type correctness of the link, in every environment.                     *)
THEOREM TypeCorrect == Spec => []TypeOK
  BY InitType, NextType, PTL DEF Spec

-------------------------------------------------------------------------------
(***************************************************************************)
(* The tally of the host.  Every action but the handling of a data         *)
(* completion and the start of a call leaves the variables of the tally    *)
(* alone or moves between states the invariant says nothing about.         *)
(***************************************************************************)
tallyVars == <<host_state, to_write, rdma_writes_done, response_received>>

LEMMA TallyHandle ==
  ASSUME TypeOK, TransferTally, NEW c, NEW after, HostHandle(c, after),
         UNCHANGED to_write
  PROVE  TransferTally'
<1> USE DEF MRSP_SENDING, MRSP_RECEIVING, MRSP_DONE, DATA_SENDING,
            DATA_RECEIVING, FINISHED
<1>0. Len(to_write) \in Nat /\ rdma_writes_done \in Nat
  BY HostAssumption DEF TypeOK, HostTypeOK
<1>1. CASE HostHandleMrsp(c)
  BY <1>1 DEF HostHandleMrsp, TransferTally
<1>2. CASE HostHandleData(c)
  <2> DEFINE writes == rdma_writes_done + (IF c.op = "RDMA_WRITE" THEN 1 ELSE 0)
             response == response_received \/ c.op = "RECV_IMM"
  <2>1. writes \in Nat /\ writes >= rdma_writes_done
    BY <1>0
  <2>2. /\ host_state \in {DATA_SENDING, DATA_RECEIVING}
        /\ rdma_writes_done' = IF Retired(writes) /\ response THEN 0 ELSE writes
        /\ response_received' = (response /\ ~Retired(writes))
        /\ host_state' = IF ~Retired(writes) THEN host_state
                         ELSE IF response THEN FINISHED ELSE DATA_RECEIVING
    BY <1>2 DEF HostHandleData
  <2> HIDE DEF writes, response
  <2>3. CASE ~Retired(writes)
    BY <1>0, <2>1, <2>2, <2>3 DEF Retired, TransferTally
  <2>4. CASE Retired(writes) /\ response
    <3>1. host_state' = FINISHED /\ rdma_writes_done' = 0
      BY <2>2, <2>4
    <3>2. response_received' = FALSE
      BY <2>2, <2>4
    <3> QED BY <3>1, <3>2 DEF TransferTally
  <2>5. CASE Retired(writes) /\ ~response
    <3>1. host_state' = DATA_RECEIVING /\ rdma_writes_done' = writes
      BY <2>2, <2>5
    <3>2. response_received' = FALSE
      BY <2>2, <2>5
    <3>3. rdma_writes_done' >= Len(to_write')
      BY <2>5, <3>1 DEF Retired
    <3> QED BY <3>1, <3>2, <3>3 DEF TransferTally
  <2> QED BY <2>3, <2>4, <2>5
<1>3. CASE HostReject(c)
  BY <1>3 DEF HostReject, TransferTally
<1> QED BY <1>1, <1>2, <1>3 DEF HostHandle

LEMMA TallyNext == TypeOK /\ TransferTally /\ [Next]_vars => TransferTally'
<1> SUFFICES ASSUME TypeOK, TransferTally, [Next]_vars PROVE TransferTally'
  OBVIOUS
<1>1. ASSUME UNCHANGED tallyVars PROVE TransferTally'
  BY <1>1 DEF tallyVars, TransferTally
<1>2. CASE DoMrsp
  BY <1>2 DEF DoMrsp, TransferTally, MRSP_SENDING, DATA_SENDING,
              DATA_RECEIVING, FINISHED
<1>3. CASE DoDataTransfer
  <2>1. /\ host_state' = DATA_SENDING /\ rdma_writes_done' = 0
        /\ to_write' \in {Inputs, RepeatInputs}
    BY <1>3, DoDataTransferType
           DEF DoDataTransfer, Dropped, WriteData, HostTypeOK
  <2> QED BY <2>1, HostAssumption
          DEF TransferTally, DATA_SENDING, DATA_RECEIVING, FINISHED
<1>4. CASE HostDrain
  BY <1>4, TallyHandle DEF HostDrain
<1>5. CASE HostBusy
  BY <1>5, TallyHandle DEF HostBusy
<1>6. CASE \/ HostGetEvent \/ HostArm \/ HostDrained \/ HostTimeout
           \/ WaitInterrupted \/ WaitAgain \/ HostClose
  BY <1>1, <1>6 DEF HostGetEvent, HostArm, HostDrained, HostTimeout,
                    WaitInterrupted, WaitAgain, HostClose, tallyVars
<1>7. CASE Naa \/ UNCHANGED vars \/ \E e \in Ends : Carry(e) \/ Break(e)
  BY <1>1, <1>7 DEF Naa, Carry, Break, vars, hostVars, tallyVars
<1> QED BY <1>2, <1>3, <1>4, <1>5, <1>6, <1>7
        DEF Next, Host, HostStep, HostPollStep

(* A transfer ends when its writes are retired and its response received,  *)
(* in whichever order they come, and leaves nothing counted for the next.  *)
THEOREM TallyCorrect == Spec => []TransferTally
<1>1. Init => TransferTally
  BY DEF Init, HostInit, TransferTally, CONNECTED, DATA_SENDING,
         DATA_RECEIVING, FINISHED
<1> QED BY <1>1, TallyNext, TypeCorrect, PTL DEF Spec

-------------------------------------------------------------------------------
(***************************************************************************)
(* When the host is FINISHED the adapter no longer needs the application's *)
(* regions, provided the application does not start a call on top of one   *)
(* that failed.  The library counts completions without looking at which   *)
(* write they are for; what makes the count enough is that the writes of a *)
(* transfer stay in order on their way from the send queue to the          *)
(* completion queue (WritesInOrder).                                       *)
(***************************************************************************)

(* Where the writes of a sequence are when its head leaves, and when an    *)
(* element or a list is appended.                                          *)

LEMMA TailWrites ==
  ASSUME NEW S, NEW q \in Seq(S), q # <<>>, NEW i \in Writes(Tail(q))
  PROVE  /\ i \in Nat /\ i >= 1
         /\ i + 1 \in Writes(q)
         /\ Tail(q)[i] = q[i + 1]
<1>1. Len(Tail(q)) = Len(q) - 1 /\ Len(q) \in Nat /\ Len(q) > 0
  OBVIOUS
<1>2. i \in 1..Len(Tail(q)) /\ IsWrite(Tail(q)[i])
  BY DEF Writes
<1>3. Tail(q)[i] = q[i + 1]
  BY <1>1, <1>2
<1> QED BY <1>1, <1>2, <1>3 DEF Writes

LEMMA HeadWrites ==
  ASSUME NEW S, NEW q \in Seq(S), q # <<>>
  PROVE  /\ Head(q) = q[1]
         /\ IsWrite(Head(q)) => 1 \in Writes(q)
  BY DEF Writes

LEMMA AppendWrites ==
  ASSUME NEW S, NEW q \in Seq(S), NEW x \in S, NEW i \in Writes(Append(q, x))
  PROVE  \/ i \in Writes(q) /\ Append(q, x)[i] = q[i]
         \/ i = Len(q) + 1 /\ IsWrite(x) /\ Append(q, x)[i] = x
<1>1. Len(Append(q, x)) = Len(q) + 1 /\ Len(q) \in Nat
  OBVIOUS
<1>2. i \in 1..(Len(q) + 1) /\ IsWrite(Append(q, x)[i])
  BY <1>1 DEF Writes
<1>3. CASE i = Len(q) + 1
  BY <1>2, <1>3
<1>4. CASE i # Len(q) + 1
  <2>1. i \in 1..Len(q)
    BY <1>1, <1>2, <1>4
  <2>2. Append(q, x)[i] = q[i]
    BY <2>1
  <2> QED BY <1>2, <2>1, <2>2 DEF Writes
<1> QED BY <1>3, <1>4

LEMMA AppendCompletion ==
  ASSUME NEW q \in Seq(Completions), NEW x \in Completions
  PROVE  \A i \in Writes(Append(q, x)) :
           \/ i \in Writes(q) /\ Append(q, x)[i] = q[i]
           \/ i = Len(q) + 1 /\ IsWrite(x) /\ Append(q, x)[i] = x
  BY AppendWrites

LEMMA ConcatWrites ==
  ASSUME NEW q \in Seq(WorkRequests), NEW r \in Seq(WorkRequests),
         Writes(q) = {}, NEW i \in Writes(q \o r)
  PROVE  /\ i - Len(q) \in 1..Len(r)
         /\ i - Len(q) \in Writes(r)
         /\ (q \o r)[i] = r[i - Len(q)]
<1>1. Len(q \o r) = Len(q) + Len(r) /\ Len(q) \in Nat /\ Len(r) \in Nat
  OBVIOUS
<1>2. i \in 1..(Len(q) + Len(r)) /\ IsWrite((q \o r)[i])
  BY <1>1 DEF Writes
<1>3. ~(i \in 1..Len(q))
  <2>1. SUFFICES ASSUME i \in 1..Len(q) PROVE FALSE
    OBVIOUS
  <2>2. (q \o r)[i] = q[i]
    BY <2>1
  <2> QED BY <1>2, <2>1, <2>2 DEF Writes
<1>4. i - Len(q) \in 1..Len(r)
  BY <1>1, <1>2, <1>3
<1>5. (q \o r)[i] = r[i - Len(q)]
  BY <1>1, <1>2, <1>3, <1>4
<1> QED BY <1>2, <1>4, <1>5 DEF Writes

-------------------------------------------------------------------------------
(***************************************************************************)
(* WritesInOrder for three sequences on their own, d writes counted of n.  *)
(* Outside of a transfer n is 0, and there is no write.                    *)
(***************************************************************************)
InRange(q, d, n) ==
  /\ \A i \in Writes(q) : d < q[i].id /\ q[i].id <= n
  /\ \A i, j \in Writes(q) : i < j => q[i].id < q[j].id

Ordered(s, u, c, d, n) ==
  /\ InRange(s, d, n) /\ InRange(u, d, n) /\ InRange(c, d, n)
  /\ Before(c, u) /\ Before(c, s) /\ Before(u, s)

LEMMA IdType ==
  /\ \A q \in Seq(WorkRequests) : \A i \in Writes(q) : q[i].id \in Nat
  /\ \A q \in Seq(Completions) : \A i \in Writes(q) : q[i].id \in Nat
<1>1. ASSUME NEW q \in Seq(WorkRequests), NEW i \in Writes(q)
      PROVE  q[i].id \in Nat
  <2>1. q[i] \in WorkRequests
    BY DEF Writes
  <2> QED BY <2>1 DEF WorkRequests
<1>2. ASSUME NEW q \in Seq(Completions), NEW i \in Writes(q)
      PROVE  q[i].id \in Nat
  <2>1. q[i] \in Completions
    BY DEF Writes
  <2> QED BY <2>1 DEF Completions
<1> QED BY <1>1, <1>2

LEMMA WritesNat == \A q : \A i \in Writes(q) : i \in Int
  BY DEF Writes

LEMMA TailInRange ==
  ASSUME NEW q, NEW t, NEW d, NEW n, InRange(q, d, n),
         \A i \in Writes(t) : i >= 1 /\ i + 1 \in Writes(q) /\ t[i] = q[i + 1]
  PROVE  InRange(t, d, n)
<1>1. ASSUME NEW i \in Writes(t) PROVE d < t[i].id /\ t[i].id <= n
  BY DEF InRange
<1>2. ASSUME NEW i \in Writes(t), NEW j \in Writes(t), i < j
      PROVE  t[i].id < t[j].id
  <2>1. i + 1 < j + 1
    BY <1>2, WritesNat
  <2>2. /\ i + 1 \in Writes(q) /\ t[i] = q[i + 1]
        /\ j + 1 \in Writes(q) /\ t[j] = q[j + 1]
    OBVIOUS
  <2> QED BY <2>1, <2>2 DEF InRange
<1> QED BY <1>1, <1>2 DEF InRange

(* A request is executed at the peer.                                      *)
LEMMA OrderedExecute ==
  ASSUME NEW s \in Seq(WorkRequests), NEW u \in Seq(WorkRequests),
         NEW c \in Seq(Completions), NEW d \in Nat, NEW n \in Nat,
         Ordered(s, u, c, d, n), s # <<>>
  PROVE  Ordered(Tail(s), Append(u, Head(s)), c, d, n)
<1> DEFINE t == Tail(s)
           a == Append(u, Head(s))
<1>0. Head(s) \in WorkRequests /\ Len(u) \in Nat
  OBVIOUS
<1>1. \A i \in Writes(t) : i >= 1 /\ i + 1 \in Writes(s) /\ t[i] = s[i + 1]
  BY TailWrites
<1>2. Head(s) = s[1] /\ (IsWrite(Head(s)) => 1 \in Writes(s))
  BY HeadWrites
<1>3. \A i \in Writes(a) : \/ i \in Writes(u) /\ a[i] = u[i]
                           \/ /\ i = Len(u) + 1 /\ 1 \in Writes(s)
                              /\ a[i] = s[1]
  <2>0. \A x \in WorkRequests : \A i \in Writes(Append(u, x)) :
          \/ i \in Writes(u) /\ Append(u, x)[i] = u[i]
          \/ i = Len(u) + 1 /\ IsWrite(x) /\ Append(u, x)[i] = x
    BY AppendWrites
  <2>1. ASSUME NEW i \in Writes(a)
        PROVE  \/ i \in Writes(u) /\ a[i] = u[i]
               \/ i = Len(u) + 1 /\ IsWrite(Head(s)) /\ a[i] = Head(s)
    BY <1>0, <2>0, Zenon
  <2> HIDE DEF a
  <2> QED BY <1>2, <2>1
<1>4. \A i \in Writes(u) : i <= Len(u)
  BY DEF Writes
<1> HIDE DEF t, a
<1>5. InRange(t, d, n)
  BY <1>1, TailInRange DEF Ordered
<1>6. InRange(a, d, n)
  <2>1. \A i \in Writes(a) : d < a[i].id /\ a[i].id <= n
    BY <1>3 DEF Ordered, InRange
  <2>2. ASSUME NEW i \in Writes(a), NEW j \in Writes(a), i < j
        PROVE  a[i].id < a[j].id
    <3>1. i \in Writes(u) /\ a[i] = u[i]
      BY <1>0, <1>3, <1>4, <2>2, WritesNat
    <3> QED BY <1>3, <2>2, <3>1 DEF Ordered, InRange, Before
  <2> QED BY <2>1, <2>2 DEF InRange
<1>7. Before(c, a)
  BY <1>3 DEF Ordered, Before
<1>8. Before(c, t)
  BY <1>1 DEF Ordered, Before
<1>9. Before(a, t)
  <2>1. ASSUME NEW i \in Writes(a), NEW j \in Writes(t)
        PROVE  a[i].id < t[j].id
    <3>1. j >= 1 /\ j + 1 \in Writes(s) /\ t[j] = s[j + 1] /\ j \in Int
      BY <1>1, WritesNat
    <3>2. CASE i \in Writes(u) /\ a[i] = u[i]
      BY <3>1, <3>2 DEF Ordered, Before
    <3>3. CASE 1 \in Writes(s) /\ a[i] = s[1]
      <4>1. 1 < j + 1
        BY <3>1
      <4> QED BY <3>1, <3>3, <4>1 DEF Ordered, InRange
    <3> QED BY <1>3, <3>2, <3>3
  <2> QED BY <2>1 DEF Before
<1> QED BY <1>5, <1>6, <1>7, <1>8, <1>9 DEF Ordered, t, a

(* The completion x of an executed request enters the completion queue.    *)
LEMMA OrderedComplete ==
  ASSUME NEW s \in Seq(WorkRequests), NEW u \in Seq(WorkRequests),
         NEW c \in Seq(Completions), NEW d \in Nat, NEW n \in Nat,
         Ordered(s, u, c, d, n), u # <<>>,
         NEW x \in Completions,
         x.id = Head(u).id, IsWrite(x) => IsWrite(Head(u))
  PROVE  Ordered(s, Tail(u), Append(c, x), d, n)
<1> DEFINE t == Tail(u)
           a == Append(c, x)
<1>0. Len(c) \in Nat
  OBVIOUS
<1>1. \A i \in Writes(t) : i >= 1 /\ i + 1 \in Writes(u) /\ t[i] = u[i + 1]
  BY TailWrites
<1>2. Head(u) = u[1] /\ (IsWrite(Head(u)) => 1 \in Writes(u))
  BY HeadWrites
<1>3. \A i \in Writes(a) : \/ i \in Writes(c) /\ a[i].id = c[i].id
                           \/ /\ i = Len(c) + 1 /\ 1 \in Writes(u)
                              /\ a[i].id = u[1].id
  <2>1. ASSUME NEW i \in Writes(a)
        PROVE  \/ i \in Writes(c) /\ a[i] = c[i]
               \/ i = Len(c) + 1 /\ IsWrite(x) /\ a[i] = x
    BY AppendCompletion
  <2> HIDE DEF a
  <2> QED BY <1>2, <2>1
<1>4. \A i \in Writes(c) : i <= Len(c)
  BY DEF Writes
<1> HIDE DEF t, a
<1>5. InRange(t, d, n)
  BY <1>1, TailInRange DEF Ordered
<1>6. InRange(a, d, n)
  <2>1. \A i \in Writes(a) : d < a[i].id /\ a[i].id <= n
    BY <1>3 DEF Ordered, InRange
  <2>2. ASSUME NEW i \in Writes(a), NEW j \in Writes(a), i < j
        PROVE  a[i].id < a[j].id
    <3>1. i \in Writes(c) /\ a[i].id = c[i].id
      BY <1>0, <1>3, <1>4, <2>2, WritesNat
    <3> QED BY <1>3, <2>2, <3>1 DEF Ordered, InRange, Before
  <2> QED BY <2>1, <2>2 DEF InRange
<1>7. Before(a, s)
  BY <1>3 DEF Ordered, Before
<1>8. Before(t, s)
  BY <1>1 DEF Ordered, Before
<1>9. Before(a, t)
  <2>1. ASSUME NEW i \in Writes(a), NEW j \in Writes(t)
        PROVE  a[i].id < t[j].id
    <3>1. j >= 1 /\ j + 1 \in Writes(u) /\ t[j] = u[j + 1] /\ j \in Int
      BY <1>1, WritesNat
    <3>2. CASE i \in Writes(c) /\ a[i].id = c[i].id
      BY <3>1, <3>2 DEF Ordered, Before
    <3>3. CASE 1 \in Writes(u) /\ a[i].id = u[1].id
      <4>1. 1 < j + 1
        BY <3>1
      <4> QED BY <3>1, <3>3, <4>1 DEF Ordered, InRange
    <3> QED BY <1>3, <3>2, <3>3
  <2> QED BY <2>1 DEF Before
<1> QED BY <1>5, <1>6, <1>7, <1>8, <1>9 DEF Ordered, t, a

(* A completion that is not one of a write enters the completion queue.    *)
LEMMA OrderedOther ==
  ASSUME NEW s, NEW u, NEW c \in Seq(Completions), NEW d, NEW n,
         Ordered(s, u, c, d, n), NEW x \in Completions, ~IsWrite(x)
  PROVE  Ordered(s, u, Append(c, x), d, n)
<1> DEFINE a == Append(c, x)
<1>1. \A i \in Writes(a) : i \in Writes(c) /\ a[i] = c[i]
  BY AppendWrites
<1> HIDE DEF a
<1>2. InRange(a, d, n)
  <2>1. InRange(c, d, n)
    BY DEF Ordered
  <2> QED BY <1>1, <2>1 DEF InRange
<1>3. Before(a, u) /\ Before(a, s)
  BY <1>1 DEF Ordered, Before
<1> QED BY <1>2, <1>3 DEF Ordered, a

(* A request fails before it is executed; nothing is unacknowledged.       *)
LEMMA OrderedFail ==
  ASSUME NEW s \in Seq(WorkRequests), NEW c \in Seq(Completions),
         NEW d \in Nat, NEW n \in Nat,
         Ordered(s, <<>>, c, d, n), s # <<>>,
         NEW x \in Completions,
         x.id = Head(s).id, IsWrite(x) => IsWrite(Head(s))
  PROVE  Ordered(Tail(s), <<>>, Append(c, x), d, n)
<1>1. Ordered(Tail(s), Append(<<>>, Head(s)), c, d, n)
  <2>1. <<>> \in Seq(WorkRequests)
    OBVIOUS
  <2> QED BY <2>1, OrderedExecute
<1> DEFINE u == Append(<<>>, Head(s))
<1>2. /\ u \in Seq(WorkRequests) /\ u # <<>>
      /\ Head(u) = Head(s) /\ Tail(u) = <<>>
      /\ Tail(s) \in Seq(WorkRequests)
  OBVIOUS
<1> HIDE DEF u
<1> QED BY <1>1, <1>2, OrderedComplete DEF u

(* A completion that is not one of a write is taken from the queue.        *)
LEMMA OrderedDrop ==
  ASSUME NEW s, NEW u, NEW c \in Seq(Completions), NEW d, NEW n,
         Ordered(s, u, c, d, n), c # <<>>
  PROVE  Ordered(s, u, Tail(c), d, n)
<1> DEFINE t == Tail(c)
<1>1. \A i \in Writes(t) : i >= 1 /\ i + 1 \in Writes(c) /\ t[i] = c[i + 1]
  BY TailWrites
<1> HIDE DEF t
<1>2. InRange(t, d, n)
  BY <1>1, TailInRange DEF Ordered
<1>3. Before(t, u) /\ Before(t, s)
  BY <1>1 DEF Ordered, Before
<1> QED BY <1>2, <1>3 DEF Ordered, t

(* The completion of a write is taken from the queue and counted.          *)
LEMMA OrderedCount ==
  ASSUME NEW s \in Seq(WorkRequests), NEW u \in Seq(WorkRequests),
         NEW c \in Seq(Completions), NEW d \in Nat, NEW n \in Nat,
         Ordered(s, u, c, d, n), c # <<>>, IsWrite(Head(c))
  PROVE  Ordered(s, u, Tail(c), d + 1, n)
<1>1. Ordered(s, u, Tail(c), d, n)
  BY OrderedDrop
<1>2. 1 \in Writes(c) /\ d < c[1].id /\ c[1].id \in Nat
  BY HeadWrites, IdType DEF Ordered, InRange
<1> DEFINE t == Tail(c)
<1>3. \A i \in Writes(t) : d + 1 < t[i].id
  <2>1. ASSUME NEW i \in Writes(t) PROVE d + 1 < t[i].id
    <3>1. i \in Nat /\ i >= 1 /\ i + 1 \in Writes(c) /\ t[i] = c[i + 1]
      BY TailWrites
    <3>2. c[1].id < c[i + 1].id /\ c[i + 1].id \in Nat
      BY <1>2, <3>1, IdType DEF Ordered, InRange
    <3> HIDE DEF t
    <3>3. t[i].id = c[i + 1].id
      BY <3>1
    <3> QED BY <1>2, <3>2, <3>3
  <2> QED BY <2>1
<1>4. \A i \in Writes(u) : d + 1 < u[i].id
  BY <1>2, IdType DEF Ordered, Before
<1>5. \A i \in Writes(s) : d + 1 < s[i].id
  BY <1>2, IdType DEF Ordered, Before
<1> HIDE DEF t
<1> QED BY <1>1, <1>3, <1>4, <1>5 DEF Ordered, InRange, t

-------------------------------------------------------------------------------
(***************************************************************************)
(* The host's queues.  WritesInOrder is Ordered of them, whatever the      *)
(* state of the transfer.                                                  *)
(***************************************************************************)
InTransfer == host_state \in {DATA_SENDING, DATA_RECEIVING}
Counted == IF InTransfer THEN rdma_writes_done ELSE 0
Total == IF InTransfer THEN Len(to_write) ELSE 0

HostOrder == Ordered(sq["host"], unacked["host"], cq["host"], Counted, Total)

HostQueueTypes ==
  /\ sq["host"] \in Seq(WorkRequests)
  /\ unacked["host"] \in Seq(WorkRequests)
  /\ cq["host"] \in Seq(Completions)
  /\ Counted \in Nat /\ Total \in Nat

LEMMA HostTypes == TypeOK => HostQueueTypes
<1> SUFFICES ASSUME TypeOK PROVE HostQueueTypes
  OBVIOUS
<1>1. Len(to_write) \in Nat /\ rdma_writes_done \in Nat
  BY HostAssumption DEF TypeOK, HostTypeOK
<1>2. Counted \in Nat /\ Total \in Nat
  BY <1>1 DEF Counted, Total
<1>3. "host" \in Ends
  BY DEF Ends
<1> QED BY <1>2, <1>3 DEF TypeOK, VerbsTypeOK, HostQueueTypes

(* Nothing is in range when all is counted, and the other way round.       *)
LEMMA NoneLeft ==
  ASSUME NEW q \in Seq(WorkRequests) \cup Seq(Completions),
         NEW d \in Nat, NEW n \in Nat, InRange(q, d, n), d >= n
  PROVE  Writes(q) = {}
<1>1. \A i \in Writes(q) : q[i].id \in Nat
  BY IdType
<1>2. \A i \in Writes(q) : d < q[i].id /\ q[i].id <= n
  BY DEF InRange
<1>3. SUFFICES ASSUME NEW i \in Writes(q) PROVE FALSE
  OBVIOUS
<1> QED BY <1>1, <1>2, <1>3

LEMMA NoWrites ==
  ASSUME NEW s, NEW u, NEW c, NEW d, NEW n,
         Writes(s) = {}, Writes(u) = {}, Writes(c) = {}
  PROVE  Ordered(s, u, c, d, n)
  BY DEF Ordered, InRange, Before

LEMMA AllCounted ==
  ASSUME NEW s \in Seq(WorkRequests), NEW u \in Seq(WorkRequests),
         NEW c \in Seq(Completions), NEW d \in Nat, NEW n \in Nat,
         Ordered(s, u, c, d, n), d >= n
  PROVE  Writes(s) = {} /\ Writes(u) = {} /\ Writes(c) = {}
  BY NoneLeft DEF Ordered

LEMMA OrderIsWritesInOrder ==
  ASSUME TypeOK
  PROVE  WritesInOrder <=> HostOrder
<1>1. HostQueueTypes
  BY HostTypes
<1>2. CASE InTransfer
  BY <1>2 DEF WritesInOrder, HostOrder, Ordered, InRange, Outstanding,
              HostQueues, InTransfer, Counted, Total
<1>3. CASE ~InTransfer
  <2>1. Counted = 0 /\ Total = 0
    BY <1>3 DEF Counted, Total
  <2>2. HostOrder => \A q \in HostQueues : Writes(q) = {}
    BY <1>1, <2>1, AllCounted DEF HostOrder, HostQueueTypes, HostQueues
  <2>3. (\A q \in HostQueues : Writes(q) = {}) => HostOrder
    BY NoWrites DEF HostOrder, HostQueues
  <2> QED BY <1>3, <2>2, <2>3 DEF WritesInOrder, InTransfer
<1> QED BY <1>2, <1>3

-------------------------------------------------------------------------------
(* The lists that are posted: a message is no write; the writes of a       *)
(* transfer are numbered from 1 to at most Len(to_write).                  *)

LEMMA AcceptedElements ==
  ASSUME NEW S, NEW wrs \in Seq(S), NEW mayFail, NEW r \in Accepted(wrs, mayFail)
  PROVE  /\ r \in Seq(S) /\ Len(r) <= Len(wrs)
         /\ \A i \in 1..Len(r) : r[i] = wrs[i]
<1>1. CASE mayFail
  <2>1. PICK n \in 0..Len(wrs) : r = SubSeq(wrs, 1, n)
    BY <1>1 DEF Accepted
  <2>2. r \in Seq(S) /\ Len(r) = n
    BY <2>1
  <2>3. \A i \in 1..n : r[i] = wrs[i]
    BY <2>1
  <2> QED BY <2>2, <2>3
<1>2. CASE ~mayFail
  BY <1>2 DEF Accepted
<1> QED BY <1>1, <1>2

\* The requests of r are those of a transfer of n writes.
Numbered(r, n) == Len(r) <= n /\ \A i \in 1..Len(r) : r[i].id = i

LEMMA WriteListNumbered ==
  ASSUME NEW rs \in Seq(Regions), NEW imm, NEW k,
         WriteList(rs, imm, k) \in Seq(WorkRequests),
         NEW r \in HostAccepted(WriteList(rs, imm, k))
  PROVE  r \in Seq(WorkRequests) /\ Numbered(r, Len(rs))
<1> DEFINE list == WriteList(rs, imm, k)
<1>1. Len(list) = Len(rs) /\ \A i \in 1..Len(rs) : list[i].id = i
  BY DEF WriteList, WriteRequest
<1> HIDE DEF list
<1>2. /\ r \in Seq(WorkRequests) /\ Len(r) <= Len(list)
      /\ \A i \in 1..Len(r) : r[i] = list[i]
  BY AcceptedElements DEF HostAccepted, list
<1> QED BY <1>1, <1>2 DEF Numbered

LEMMA ErrorWriteNumbered ==
  ASSUME NEW k \in Nat, NEW r \in HostAccepted(ErrorWrite(k)), NEW n \in Nat, n > 0
  PROVE  r \in Seq(WorkRequests) /\ Numbered(r, n)
<1> DEFINE list == ErrorWrite(k)
<1>1. list \in Seq(WorkRequests) /\ Len(list) = 1 /\ list[1].id = 1
  BY ErrorWriteType DEF ErrorWrite, WriteRequest
<1> HIDE DEF list
<1>2. /\ r \in Seq(WorkRequests) /\ Len(r) <= Len(list)
      /\ \A i \in 1..Len(r) : r[i] = list[i]
  BY <1>1, AcceptedElements DEF HostAccepted, list
<1> QED BY <1>1, <1>2 DEF Numbered

(* A new transfer: its writes are the only ones.                           *)
LEMMA OrderedTransfer ==
  ASSUME NEW s \in Seq(WorkRequests), NEW r \in Seq(WorkRequests),
         NEW u, NEW c, NEW n \in Nat,
         Writes(s) = {}, Writes(u) = {}, Writes(c) = {}, Numbered(r, n)
  PROVE  Ordered(s \o r, u, c, 0, n)
<1> DEFINE a == s \o r
<1>1. \A i \in Writes(a) : i - Len(s) \in 1..Len(r) /\ a[i] = r[i - Len(s)]
  BY ConcatWrites
<1>2. Len(s) \in Int /\ Len(r) \in Nat
  OBVIOUS
<1> HIDE DEF a
<1>3. \A i \in Writes(a) : a[i].id = i - Len(s) /\ i - Len(s) \in 1..Len(r)
  BY <1>1 DEF Numbered
<1>4. \A i \in Writes(a) : 0 < a[i].id /\ a[i].id <= n
  BY <1>2, <1>3 DEF Numbered
<1>5. \A i, j \in Writes(a) : i < j => a[i].id < a[j].id
  BY <1>2, <1>3, WritesNat
<1>6. InRange(a, 0, n)
  BY <1>4, <1>5 DEF InRange
<1>7. InRange(u, 0, n) /\ InRange(c, 0, n)
  BY DEF InRange
<1>8. Before(c, u) /\ Before(c, a) /\ Before(u, a)
  BY DEF Before
<1> QED BY <1>6, <1>7, <1>8 DEF Ordered, a

(* Outside of a transfer there are no writes.                              *)
LEMMA Quiet ==
  ASSUME TypeOK, HostOrder, ~InTransfer
  PROVE  Writes(sq["host"]) = {} /\ Writes(unacked["host"]) = {} /\ Writes(cq["host"]) = {}
<1>1. Counted = 0 /\ Total = 0
  BY DEF Counted, Total
<1> QED BY <1>1, HostTypes, AllCounted DEF HostOrder, HostQueueTypes

-------------------------------------------------------------------------------
(* The steps of the host.                                                  *)

LEMMA DoMrspOrder ==
  ASSUME TypeOK, HostOrder, DoMrsp
  PROVE  HostOrder'
<1> USE DEF MRSP_SENDING, CONNECTED, DATA_SENDING, DATA_RECEIVING
<1>1. ~InTransfer /\ ~InTransfer'
  BY DEF DoMrsp, InTransfer
<1>2. Writes(sq["host"]) = {} /\ Writes(unacked["host"]) = {} /\ Writes(cq["host"]) = {}
  BY <1>1, Quiet
<1> DEFINE list == <<AnnounceAndRequest>>
<1>3. /\ list \in Seq(WorkRequests) /\ Len(list) = 1
      /\ list[1].op = "SEND"
  BY DEF AnnounceAndRequest, WorkRequests, Messages, NoRegion
<1> HIDE DEF list
<1>4. PICK wrs \in HostAccepted(list) : PostSend("host", wrs)
  BY DEF DoMrsp, list
<1>5. /\ wrs \in Seq(WorkRequests) /\ Len(wrs) <= 1
      /\ \A i \in 1..Len(wrs) : wrs[i] = list[i]
  BY <1>3, <1>4, AcceptedElements DEF HostAccepted
<1>6. Writes(wrs) = {}
  <2>1. \A i \in 1..Len(wrs) : i = 1
    BY <1>5
  <2> QED BY <1>3, <1>5, <2>1 DEF Writes, IsWrite
<1>7. sq["host"] \in Seq(WorkRequests) /\ sq'["host"] = sq["host"] \o wrs
  BY <1>4, HostTypes DEF PostSend, TypeOK, VerbsTypeOK, HostQueueTypes, Ends
<1>8. Writes(sq["host"] \o wrs) = {}
  BY <1>2, <1>5, <1>6, <1>7, ConcatWrites
<1>9. unacked' = unacked /\ cq' = cq
  BY DEF DoMrsp
<1> QED BY <1>2, <1>7, <1>8, <1>9, NoWrites DEF HostOrder

LEMMA DoDataTransferOrder ==
  ASSUME TypeOK, HostOrder, DoDataTransfer, "retry" \notin Faults
  PROVE  HostOrder'
<1> USE DEF MRSP_DONE, FINISHED, DATA_SENDING, DATA_RECEIVING
<1> DEFINE k == no_rpc_calls + 1
<1>1. ~InTransfer
  BY DEF DoDataTransfer, MayCall, InTransfer
<1>2. Writes(sq["host"]) = {} /\ Writes(unacked["host"]) = {} /\ Writes(cq["host"]) = {}
  BY <1>1, Quiet
<1>3. /\ VerbsTypeOK' /\ HostTypeOK'
      /\ k \in Nat
  BY DoDataTransferType DEF TypeOK, HostTypeOK
<1>4. /\ to_write' \in Seq(Regions) /\ Len(to_write') \in Nat
      /\ Len(to_write') > 0
  BY <1>3, HostAssumption DEF HostTypeOK
<1>5. WriteData(host_fncode', k)
  BY DEF DoDataTransfer
<1>6. PICK wrs \in HostAccepted(ErrorWrite(k)) \cup
                   HostAccepted(WriteList(to_write', Immediate, k)) :
             PostSend("host", wrs)
  BY <1>5 DEF Dropped, WriteData
<1>7. wrs \in Seq(WorkRequests) /\ Numbered(wrs, Len(to_write'))
  <2>1. CASE wrs \in HostAccepted(ErrorWrite(k))
    BY <1>3, <1>4, <2>1, ErrorWriteNumbered
  <2>2. CASE wrs \in HostAccepted(WriteList(to_write', Immediate, k))
    <3>1. WriteList(to_write', Immediate, k) \in Seq(WorkRequests)
      BY <1>3, <1>4, WriteListType, ImmediateType, VerbsAssumption
    <3> QED BY <1>4, <2>2, <3>1, WriteListNumbered
  <2> QED BY <1>6, <2>1, <2>2
<1>8. sq["host"] \in Seq(WorkRequests) /\ sq'["host"] = sq["host"] \o wrs
  BY <1>6, HostTypes DEF PostSend, TypeOK, VerbsTypeOK, HostQueueTypes, Ends
<1>9. unacked' = unacked /\ cq' = cq
  BY DEF DoDataTransfer
<1>10. Counted' = 0 /\ Total' = Len(to_write')
  BY <1>5 DEF Dropped, WriteData, Counted, Total, InTransfer
<1> QED BY <1>2, <1>4, <1>7, <1>8, <1>9, <1>10, OrderedTransfer DEF HostOrder

(* A completion is taken from the queue: counted if it is one of a write   *)
(* and accepted, dropped if not.                                           *)
LEMMA HandleOrder ==
  ASSUME TypeOK, HostOrder, cq["host"] # <<>>, PollCq("host"),
         NEW after, HostHandle(Head(cq["host"]), after),
         UNCHANGED <<to_write, sq, unacked>>
  PROVE  HostOrder'
<1> USE DEF MRSP_SENDING, MRSP_RECEIVING, MRSP_DONE, DATA_SENDING,
            DATA_RECEIVING, FINISHED
<1> DEFINE c == Head(cq["host"])
<1>1. HostQueueTypes
  BY HostTypes
<1>2. cq'["host"] = Tail(cq["host"])
  BY DEF PollCq, TypeOK, VerbsTypeOK, Ends
<1>3. Ordered(sq["host"], unacked["host"], Tail(cq["host"]), Counted, Total)
  BY <1>1, OrderedDrop DEF HostOrder, HostQueueTypes
<1>4. CASE Counted' = Counted /\ Total' = Total
  BY <1>2, <1>3, <1>4 DEF HostOrder
<1>5. CASE HostHandleMrsp(c)
  BY <1>4, <1>5 DEF HostHandleMrsp, Counted, Total, InTransfer
<1>6. CASE HostReject(c)
  BY <1>4, <1>6 DEF HostReject, Counted, Total, InTransfer
<1>7. CASE HostHandleData(c)
  <2> DEFINE writes == rdma_writes_done + (IF c.op = "RDMA_WRITE" THEN 1 ELSE 0)
             response == response_received \/ c.op = "RECV_IMM"
  <2>1. /\ InTransfer
        /\ rdma_writes_done' = IF Retired(writes) /\ response THEN 0 ELSE writes
        /\ host_state' = IF ~Retired(writes) THEN host_state
                         ELSE IF response THEN FINISHED ELSE DATA_RECEIVING
        /\ c.op \in {"RDMA_WRITE", "RECV", "RECV_IMM"}
    BY <1>7 DEF HostHandleData, HostAccepts, InTransfer
  <2>2. Counted = rdma_writes_done /\ Total = Len(to_write)
    BY <2>1 DEF Counted, Total
  <2>3. /\ writes \in Nat
        /\ Ordered(sq["host"], unacked["host"], Tail(cq["host"]), writes, Total)
    <3>1. CASE c.op = "RDMA_WRITE"
      BY <1>1, <2>2, <3>1, OrderedCount
         DEF HostOrder, HostQueueTypes, IsWrite
    <3>2. CASE c.op # "RDMA_WRITE"
      BY <1>1, <1>3, <2>2, <3>2 DEF HostQueueTypes
    <3> QED BY <3>1, <3>2
  <2> HIDE DEF writes, response, c
  <2>4. CASE Retired(writes) /\ response
    <3>1. Counted' = 0 /\ Total' = 0
      BY <2>1, <2>4 DEF Counted, Total, InTransfer
    <3>2. writes >= Total
      BY <2>2, <2>4 DEF Retired
    <3>3. Tail(cq["host"]) \in Seq(Completions)
      BY <1>1 DEF HostQueueTypes
    <3>4. /\ Writes(sq["host"]) = {} /\ Writes(unacked["host"]) = {}
          /\ Writes(Tail(cq["host"])) = {}
      BY <1>1, <2>3, <3>2, <3>3, AllCounted DEF HostQueueTypes
    <3> QED BY <1>2, <3>1, <3>4, NoWrites DEF HostOrder
  <2>5. CASE ~(Retired(writes) /\ response)
    <3>1. rdma_writes_done' = writes /\ host_state' \in {DATA_SENDING, DATA_RECEIVING}
      BY <2>1, <2>5 DEF InTransfer
    <3>2. Counted' = writes /\ Total' = Total
      BY <2>2, <3>1 DEF Counted, Total, InTransfer
    <3> QED BY <1>2, <2>3, <3>2 DEF HostOrder
  <2> QED BY <2>4, <2>5
<1> QED BY <1>5, <1>6, <1>7 DEF HostHandle

-------------------------------------------------------------------------------
(* The worker and the traffic of the worker leave the host's own requests  *)
(* alone.                                                                  *)
hostQueueVars == <<sq["host"], unacked["host"], cq["host"], host_state,
                   rdma_writes_done, to_write>>

LEMMA SameOrder == HostOrder /\ UNCHANGED hostQueueVars => HostOrder'
  BY DEF hostQueueVars, HostOrder, Counted, Total, InTransfer

LEMMA NaaKeepsHost ==
  ASSUME TypeOK, NaaStep
  PROVE  UNCHANGED <<sq["host"], unacked["host"], cq["host"]>>
<1>1. ASSUME NEW wrs, PostSend("naa", wrs) PROVE sq'["host"] = sq["host"]
  BY <1>1 DEF PostSend, TypeOK, VerbsTypeOK, Ends
<1>2. CASE NaaDrain
  <2>1. cq'["host"] = cq["host"] /\ unacked' = unacked
    BY <1>2 DEF NaaDrain, PollCq, TypeOK, VerbsTypeOK, Ends
  <2>2. sq'["host"] = sq["host"]
    BY <1>1, <1>2 DEF NaaDrain, NaaHandleAnnounce, NaaHandleAnswered,
       NaaHandleData, NaaHandleWritten, NaaReject, PostMessage
  <2> QED BY <2>1, <2>2
<1>3. CASE NaaRespond
  BY <1>1, <1>3 DEF NaaRespond
<1>4. CASE NaaExit
  BY <1>4 DEF NaaExit, DestroyQp, TypeOK, VerbsTypeOK, Ends
<1>5. CASE \/ NaaStart \/ NaaReceive \/ NaaGetEvent \/ NaaDrained
           \/ NaaArm \/ RunRpc \/ NaaTimeout \/ NaaNotices \/ NaaRemoval
  BY <1>5 DEF NaaStart, NaaReceive, NaaGetEvent, NaaDrained, NaaArm, RunRpc,
              NaaTimeout, NaaNotices, NaaRemoval, verbsVars
<1> QED BY <1>2, <1>3, <1>4, <1>5 DEF NaaStep, NaaThread, NaaPollStep

(* The steps of the adapters.                                              *)

LEMMA FabricOrder ==
  ASSUME TypeOK, HostOrder, NEW e \in Ends,
         Fabric(e) \/ FailSend(e) \/ FlushRecv(e),
         UNCHANGED <<host_state, rdma_writes_done, to_write>>
  PROVE  HostOrder'
<1> USE DEF Ends
<1> DEFINE s == sq["host"]
           u == unacked["host"]
           c == cq["host"]
<1>1. HostQueueTypes
  BY HostTypes
<1>2. Counted' = Counted /\ Total' = Total
  BY DEF Counted, Total, InTransfer
<1>3. /\ s \in Seq(WorkRequests)
      /\ u \in Seq(WorkRequests) /\ c \in Seq(Completions)
      /\ Counted \in Nat /\ Total \in Nat
      /\ Ordered(s, u, c, Counted, Total)
  BY <1>1 DEF HostQueueTypes, HostOrder
<1>4. ASSUME NEW p \in Ends, NEW x, Complete(p, x)
      PROVE  cq'["host"] = IF p = "host" THEN Append(c, x) ELSE c
  BY <1>4 DEF Complete, TypeOK, VerbsTypeOK
<1>5. ASSUME Executed(e)
      PROVE  /\ sq'["host"] = IF e = "host" THEN Tail(s) ELSE s
             /\ unacked'["host"] = IF e = "host" THEN Append(u, Head(s)) ELSE u
  BY <1>5 DEF Executed, TypeOK, VerbsTypeOK
<1>6. CASE ExecuteWrite(e)
  <2>1. cq' = cq /\ Executed(e) /\ sq[e] # <<>>
    BY <1>6 DEF ExecuteWrite, CanExecute
  <2> QED BY <1>2, <1>3, <1>5, <2>1, OrderedExecute DEF HostOrder
<1>7. CASE ExecuteReceived(e)
  <2> DEFINE x == [op |-> IF Head(sq[e]).op = "SEND" THEN "RECV" ELSE "RECV_IMM",
                   id |-> 0, ok |-> TRUE, sol |-> TRUE,
                   imm |-> Head(sq[e]).imm,
                   msg |-> Head(sq[e]).msg, call |-> Head(sq[e]).call]
  <2>1. /\ Executed(e) /\ CanExecute(e) /\ Complete(Peer(e), x)
        /\ sq[e] # <<>>
    BY <1>7 DEF ExecuteReceived, CanExecute
  <2>2. Head(sq[e]) \in WorkRequests
    BY <2>1, ExecutedType DEF TypeOK
  <2>3. x \in Completions /\ ~IsWrite(x)
    BY <2>2 DEF WorkRequests, Completions, IsWrite
  <2> HIDE DEF x
  <2>4. CASE e = "host"
    <3>1. cq'["host"] = c
      BY <1>4, <2>1, <2>4 DEF Peer
    <3> QED BY <1>2, <1>3, <1>5, <2>1, <2>4, <3>1, OrderedExecute DEF HostOrder
  <2>5. CASE e = "naa"
    <3>1. cq'["host"] = Append(c, x)
      BY <1>4, <2>1, <2>5 DEF Peer
    <3>2. sq'["host"] = s /\ unacked'["host"] = u
      BY <1>5, <2>1, <2>5
    <3>3. Ordered(s, u, Append(c, x), Counted, Total)
      BY <1>3, <2>3, OrderedOther
    <3> QED BY <1>2, <3>1, <3>2, <3>3 DEF HostOrder
  <2> QED BY <2>4, <2>5
<1>8. ASSUME NEW wr \in WorkRequests, NEW ok \in BOOLEAN
      PROVE  /\ SendCompletion(wr, ok) \in Completions
             /\ SendCompletion(wr, ok).id = wr.id
             /\ IsWrite(SendCompletion(wr, ok)) => IsWrite(wr)
  <2>1. SendCompletion(wr, ok) \in Completions
    BY SendCompletionType
  <2>2. wr.op \in {"SEND", "WRITE", "WRITE_IMM"}
    BY DEF WorkRequests
  <2> QED BY <2>1, <2>2 DEF SendCompletion, IsWrite
<1>9. CASE Acknowledge(e)
  <2> DEFINE x == SendCompletion(Head(unacked[e]), TRUE)
  <2>1. /\ unacked[e] # <<>> /\ sq' = sq /\ Complete(e, x)
        /\ unacked' = [unacked EXCEPT ![e] = Tail(@)]
    BY <1>9 DEF Acknowledge
  <2>2. CASE e = "host"
    <3>1. /\ x \in Completions /\ x.id = Head(u).id
          /\ IsWrite(x) => IsWrite(Head(u))
      <4>1. Head(u) \in WorkRequests
        BY <1>3, <2>1, <2>2
      <4> QED BY <1>8, <2>2, <4>1
    <3> HIDE DEF x
    <3>2. cq'["host"] = Append(c, x) /\ unacked'["host"] = Tail(u)
      BY <1>4, <2>1, <2>2 DEF TypeOK, VerbsTypeOK
    <3>3. Ordered(s, Tail(u), Append(c, x), Counted, Total)
      BY <1>3, <2>1, <2>2, <3>1, OrderedComplete
    <3> QED BY <1>2, <2>1, <3>2, <3>3 DEF HostOrder
  <2>3. CASE e = "naa"
    BY <1>2, <1>3, <1>4, <2>1, <2>3 DEF TypeOK, VerbsTypeOK, HostOrder
  <2> QED BY <2>2, <2>3
<1>10. CASE FailSend(e)
  <2> DEFINE x == SendCompletion(Head(sq[e]), FALSE)
  <2>1. /\ sq[e] # <<>> /\ unacked[e] = <<>> /\ unacked' = unacked
        /\ Complete(e, x) /\ sq' = [sq EXCEPT ![e] = Tail(@)]
    BY <1>10 DEF FailSend
  <2>2. CASE e = "host"
    <3>1. /\ x \in Completions /\ x.id = Head(s).id
          /\ IsWrite(x) => IsWrite(Head(s))
      <4>1. Head(s) \in WorkRequests
        BY <1>3, <2>1, <2>2
      <4> QED BY <1>8, <2>2, <4>1
    <3> HIDE DEF x
    <3>2. cq'["host"] = Append(c, x) /\ sq'["host"] = Tail(s)
      BY <1>4, <2>1, <2>2 DEF TypeOK, VerbsTypeOK
    <3>3. Ordered(Tail(s), <<>>, Append(c, x), Counted, Total)
      BY <1>3, <2>1, <2>2, <3>1, OrderedFail
    <3> QED BY <1>2, <2>1, <2>2, <3>2, <3>3 DEF HostOrder
  <2>3. CASE e = "naa"
    BY <1>2, <1>3, <1>4, <2>1, <2>3 DEF TypeOK, VerbsTypeOK, HostOrder
  <2> QED BY <2>2, <2>3
<1>11. CASE FlushRecv(e)
  <2> DEFINE x == [op |-> "RECV", id |-> 0, ok |-> FALSE, sol |-> FALSE,
                   imm |-> 0, msg |-> "none", call |-> 0]
  <2>1. Complete(e, x) /\ sq' = sq /\ unacked' = unacked
    BY <1>11 DEF FlushRecv
  <2>2. x \in Completions /\ ~IsWrite(x)
    BY DEF Completions, Messages, IsWrite
  <2> HIDE DEF x
  <2>3. Ordered(s, u, Append(c, x), Counted, Total)
    BY <1>3, <2>2, OrderedOther
  <2> QED BY <1>2, <1>3, <1>4, <2>1, <2>3 DEF HostOrder
<1> QED BY <1>6, <1>7, <1>9, <1>10, <1>11 DEF Fabric

-------------------------------------------------------------------------------
LEMMA OrderNext ==
  TypeOK /\ HostOrder /\ "retry" \notin Faults /\ [Next]_vars => HostOrder'
<1> SUFFICES ASSUME TypeOK, HostOrder, "retry" \notin Faults, [Next]_vars
             PROVE  HostOrder'
  OBVIOUS
<1>1. CASE DoMrsp
  BY <1>1, DoMrspOrder
<1>2. CASE DoDataTransfer
  BY <1>2, DoDataTransferOrder
<1>3. CASE HostDrain
  BY <1>3, HandleOrder DEF HostDrain
<1>4. CASE HostBusy
  BY <1>4, HandleOrder DEF HostBusy
<1>5. CASE HostGetEvent \/ HostArm \/ HostDrained \/ HostTimeout \/ WaitAgain
  BY <1>5, SameOrder DEF HostGetEvent, HostArm, HostDrained, HostTimeout,
                         WaitAgain, verbsVars, hostQueueVars
<1>6. CASE HostClose \/ WaitInterrupted
  <2>1. sq'["host"] = <<>> /\ unacked'["host"] = <<>> /\ cq'["host"] = <<>>
    BY <1>6 DEF HostClose, WaitInterrupted, DestroyQp, TypeOK, VerbsTypeOK, Ends
  <2>2. Writes(<<>>) = {}
    BY DEF Writes
  <2> QED BY <2>1, <2>2, NoWrites DEF HostOrder
<1>7. CASE Naa
  BY <1>7, NaaKeepsHost, SameOrder DEF Naa, hostVars, hostQueueVars
<1>8. ASSUME NEW e \in Ends, Carry(e) \/ Break(e) PROVE HostOrder'
  BY <1>8, FabricOrder DEF Carry, Break, hostVars
<1>9. CASE UNCHANGED vars
  BY <1>9, SameOrder DEF vars, verbsVars, hostVars, hostQueueVars
<1> QED BY <1>1, <1>2, <1>3, <1>4, <1>5, <1>6, <1>7, <1>8, <1>9
        DEF Next, Host, HostStep, HostPollStep

(* The writes of a transfer stay in order from queue to queue.             *)
THEOREM OrderKept ==
  ASSUME "retry" \notin Faults
  PROVE  Spec => []WritesInOrder
<1>1. Init => HostOrder
  <2> SUFFICES ASSUME Init PROVE HostOrder
    OBVIOUS
  <2>1. sq["host"] = <<>> /\ unacked["host"] = <<>> /\ cq["host"] = <<>>
    BY DEF Init, Ends
  <2>2. Writes(<<>>) = {}
    BY DEF Writes
  <2> QED BY <2>1, <2>2, NoWrites DEF HostOrder
<1>2. TypeOK /\ HostOrder /\ [Next]_vars => HostOrder'
  BY OrderNext
<1>3. TypeOK /\ HostOrder => WritesInOrder
  BY OrderIsWritesInOrder
<1> QED BY <1>1, <1>2, <1>3, TypeCorrect, PTL DEF Spec

===============================================================================
