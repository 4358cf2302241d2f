------------------------------ MODULE NaaiceHost ------------------------------
(***************************************************************************)
(* The host side of one connection (lib/naaice.c): the memory region setup *)
(* protocol, RPC calls and the polling of the completion queue, run by the *)
(* application's thread.  One action is one step between two places where  *)
(* the adapter or the NAA can act: a call that posts work, the retrieval   *)
(* of an event, the arming of the queue, the handling of one completion.   *)
(***************************************************************************)
EXTENDS Verbs, NaaiceStates

CONSTANTS Inputs,        \* input regions, in the order they are written
          RepeatInputs,  \* the same without the single-send regions
          Fncode,        \* function code of the RPC
          UserImm,       \* the three user bytes of the immediate
          TransferCalls, \* the ways the application calls, see DoDataTransfer
          MaxCalls,      \* bound: RPC calls the application makes
          Faults         \* which failures the environment may produce

ASSUME HostAssumption ==
  /\ Inputs \in Seq(Regions) /\ RepeatInputs \in Seq(Regions)
  /\ Len(Inputs) > 0 /\ Len(RepeatInputs) > 0
  /\ Fncode \in 1..127 /\ UserImm \in Nat
  /\ TransferCalls \subseteq {"do_data_transfer", "poll_cq_busy", "naa_wait"}
  /\ MaxCalls \in Nat
  /\ Faults \subseteq {"post_recv", "post_send", "host_timeout", "retry",
                       "close"}

VARIABLES host_pc,            \* where the application's thread is
          host_call,          \* the library call it is in
          host_state,         \* comm_ctx->state
          to_write,           \* regions still flagged to_write, in order
          rdma_writes_done,
          response_received,
          response_imm,       \* comm_ctx->response_user_immediate
          no_rpc_calls,       \* also the number of the current call
          host_fncode         \* comm_ctx->fncode

hostVars == <<host_pc, host_call, host_state, to_write, rdma_writes_done,
              response_received, response_imm, no_rpc_calls, host_fncode>>

InputRegions == {Inputs[i] : i \in 1..Len(Inputs)}
SingleSend == InputRegions \ {RepeatInputs[i] : i \in 1..Len(RepeatInputs)}

HostTypeOK ==
  /\ host_pc \in {"app", "poll", "arm", "drain", "failed", "closed"}
  /\ host_call \in {"none", "do_mrsp"} \cup TransferCalls
  /\ host_state \in CommunicationStates
  /\ to_write \in {Inputs, RepeatInputs}
  /\ rdma_writes_done \in Nat
  /\ response_received \in BOOLEAN
  /\ response_imm \in Nat
  /\ no_rpc_calls \in Nat
  /\ host_fncode \in {0, Fncode}

\* naaice_init_communication_context, after the connection is set up.
HostInit ==
  /\ host_pc = "app" /\ host_call = "none"
  /\ host_state = CONNECTED
  /\ to_write = Inputs
  /\ rdma_writes_done = 0 /\ response_received = FALSE
  /\ response_imm = 0 /\ no_rpc_calls = 0
  /\ host_fncode = Fncode

Outcomes(fault) == IF fault \in Faults THEN BOOLEAN ELSE {TRUE}

HostAccepted(wrs) == Accepted(wrs, "post_send" \in Faults)

(***************************************************************************)
(* naaice_do_mrsp: post the receive for the answer, send the announcement  *)
(* and request, then poll.  Failures to post are ignored.                  *)
(***************************************************************************)
AnnounceAndRequest ==
  [op |-> "SEND", id |-> 0, mr |-> NoRegion, imm |-> 0, msg |-> "AAR",
   call |-> 0]

PostRecvMrspTwice == recvs' = [recvs EXCEPT !["host"] = @ + 2]  \* mutant
PostRecvMrsp == PostRecv("host")

DoMrsp ==
  /\ host_pc = "app" /\ host_state = CONNECTED
  /\ \E posted \in Outcomes("post_recv") :
       IF posted THEN PostRecvMrsp ELSE UNCHANGED recvs
  /\ \E wrs \in HostAccepted(<<AnnounceAndRequest>>) : PostSend("host", wrs)
  /\ host_state' = MRSP_SENDING
  /\ host_call' = "do_mrsp" /\ host_pc' = "poll"
  /\ UNCHANGED <<to_write, rdma_writes_done, response_received, response_imm,
                 no_rpc_calls, host_fncode,
                 mem, unacked, cq, armed, evts, qp>>

(***************************************************************************)
(* naaice_write_data.  The immediate holds the function code in its lowest *)
(* byte, marked with START_RPC_MASK (the eighth bit), and three user bytes *)
(* above it.                                                               *)
(***************************************************************************)
START_RPC_MASK == 128
Immediate == (Fncode + START_RPC_MASK) + 256 * UserImm

\* The write of region r for call k; the last one carries the immediate.
WriteRequest(r, id, last, imm, k) ==
  [op |-> IF last THEN "WRITE_IMM" ELSE "WRITE", id |-> id, mr |-> r,
   imm |-> IF last THEN imm ELSE 0, msg |-> "none", call |-> k]

\* Of n writes the last one carries the immediate.
CarriesImmediateFirst(i, n) == i = 1    \* mutant: the first
CarriesImmediateAll(i, n) == TRUE       \* mutant: every one
CarriesImmediate(i, n) == i = n

WriteList(rs, imm, k) ==
  [i \in 1..Len(rs) |->
     WriteRequest(rs[i], i, CarriesImmediate(i, Len(rs)), imm, k)]

\* Function code 0 tells the NAA of a failure: nothing but a zero immediate.
ErrorWrite(k) == <<WriteRequest(NoRegion, 1, TRUE, 0, k)>>

\* After the first RPC the single-send regions are no longer flagged.
DroppedFromCount(rs) == SubSeq(rs, 1, Len(rs) - 1)  \* mutant: still flagged
Dropped(rs) == RepeatInputs

WriteData(fncode, k) ==
  /\ rdma_writes_done' = 0 /\ response_received' = FALSE
  /\ host_state' = DATA_SENDING
  /\ IF fncode = 0
     THEN /\ UNCHANGED to_write
          /\ \E wrs \in HostAccepted(ErrorWrite(k)) : PostSend("host", wrs)
     ELSE /\ to_write' = IF no_rpc_calls > 0 THEN Dropped(to_write) ELSE to_write
          /\ \E wrs \in HostAccepted(WriteList(to_write', Immediate, k)) :
               PostSend("host", wrs)

(***************************************************************************)
(* The application refreshes its inputs and starts a call with             *)
(* naaice_init_data_transfer: as the first part of                         *)
(* naaice_do_data_transfer, or itself, to go on with naaice_poll_cq_busy,  *)
(* or as naa_invoke, to go on with naa_wait.                               *)
(* A failure to post the receive clears the function code for good; a      *)
(* failure to post the writes is ignored.  After a call that failed (timed *)
(* out) it may call again if it retries.                                   *)
(***************************************************************************)
MayCall == \/ host_pc = "app" /\ host_state \in {MRSP_DONE, FINISHED}
           \/ /\ host_pc = "failed" /\ host_call \in TransferCalls
              /\ "retry" \in Faults

\* naaice_post_recv_data: the response is the only completion it needs.
PostRecvDataTwice == recvs' = [recvs EXCEPT !["host"] = @ + 2]  \* mutant
PostRecvData == PostRecv("host")

DoDataTransfer ==
  LET k == no_rpc_calls + 1
  IN /\ MayCall
     /\ no_rpc_calls < MaxCalls
     /\ mem' = [mem EXCEPT !["host"] =
                  [r \in Regions |-> IF r \in InputRegions
                                     THEN [by |-> "host", call |-> k]
                                     ELSE @[r]]]
     /\ \E posted \in Outcomes("post_recv") :
          /\ IF posted THEN PostRecvData ELSE UNCHANGED recvs
          /\ host_fncode' = IF posted THEN host_fncode ELSE 0
     /\ WriteData(host_fncode', k)
     /\ no_rpc_calls' = k
     /\ host_call' \in TransferCalls /\ host_pc' = "poll"
     /\ UNCHANGED <<response_imm, unacked, cq, armed, evts, qp>>

(***************************************************************************)
(* naaice_handle_work_completion: which completions a state accepts, and   *)
(* what they change.  `after' is where the caller may go on.               *)
(***************************************************************************)
HostAcceptsInOrder(c) ==   \* mutant: the response only after the own writes
  /\ c.ok
  /\ \/ host_state = MRSP_SENDING /\ c.op = "SEND"
     \/ host_state = MRSP_RECEIVING /\ c.op = "RECV" /\ c.msg = "A"
     \/ host_state = DATA_SENDING /\ c.op = "RDMA_WRITE"
     \/ host_state = DATA_RECEIVING /\ c.op \in {"RECV", "RECV_IMM"}
HostAccepts(c) ==
  /\ c.ok
  /\ \/ host_state = MRSP_SENDING /\ c.op = "SEND"
     \/ host_state = MRSP_RECEIVING /\ c.op = "RECV" /\ c.msg = "A"
     \/ /\ host_state \in {DATA_SENDING, DATA_RECEIVING}
        /\ c.op \in {"RDMA_WRITE", "RECV", "RECV_IMM"}

HostHandleMrsp(c) ==
  /\ HostAccepts(c)
  /\ host_state \in {MRSP_SENDING, MRSP_RECEIVING}
  /\ host_state' = IF host_state = MRSP_SENDING THEN MRSP_RECEIVING
                   ELSE MRSP_DONE
  /\ UNCHANGED <<rdma_writes_done, response_received, response_imm>>

\* The immediate's upper bytes are the user's.
IMMEDIATE_BASE == 256

\* All writes of the transfer are retired.
RetiredLate(writes) == writes > Len(to_write)   \* mutant: off by one
RetiredAlways(writes) == TRUE                   \* mutant: the response ends it
Retired(writes) == writes >= Len(to_write)

HostHandleData(c) ==
  LET writes   == rdma_writes_done + (IF c.op = "RDMA_WRITE" THEN 1 ELSE 0)
      response == response_received \/ c.op = "RECV_IMM"
      retired  == Retired(writes)
  IN /\ HostAccepts(c)
     /\ host_state \in {DATA_SENDING, DATA_RECEIVING}
     /\ rdma_writes_done' = IF retired /\ response THEN 0 ELSE writes
     /\ response_received' = (response /\ ~retired)
     /\ host_state' = IF ~retired THEN host_state
                      ELSE IF response THEN FINISHED ELSE DATA_RECEIVING
     /\ response_imm' = IF c.op = "RECV_IMM" THEN c.imm \div IMMEDIATE_BASE
                        ELSE response_imm

HostReject(c) ==
  /\ ~HostAccepts(c)
  /\ UNCHANGED <<host_state, rdma_writes_done, response_received, response_imm>>

HostHandle(c, after) ==
  \/ HostHandleMrsp(c) /\ host_pc' \in after
  \/ HostHandleData(c) /\ host_pc' \in after
  \/ HostReject(c) /\ host_pc' = "failed"

Waiting == host_call = "naa_wait"

\* The loop condition of naaice_do_mrsp, and of the ways to call; naa_wait
\* polls once and does not look at the state.
CallDone(state) == \/ host_call = "do_mrsp" /\ state >= MRSP_DONE
                   \/ host_call \in TransferCalls /\ state >= FINISHED
                   \/ Waiting

\* After a poll the call looks at the clock first: it gives up once it has
\* lasted comm_ctx->timeout (POLLING_TIMEOUT when busy), even if it is done.
AfterPoll(state) ==
  {IF CallDone(state) THEN "app" ELSE "poll"}
    \cup (IF "host_timeout" \in Faults /\ ~Waiting THEN {"failed"} ELSE {})

BusyPolling == host_call = "poll_cq_busy"

(***************************************************************************)
(* naaice_poll_cq_nonblocking and naaice_poll_cq_blocking: take an event,  *)
(* arm the queue for solicited completions, drain the queue.  Without an   *)
(* event the first returns and is called again, which changes nothing, and *)
(* the second waits.                                                       *)
(***************************************************************************)
HostGetEvent ==
  /\ host_pc = "poll" /\ ~BusyPolling
  /\ GetCqEvent("host")
  /\ host_pc' = "arm"
  /\ UNCHANGED <<host_call, host_state, to_write, rdma_writes_done,
                 response_received, response_imm, no_rpc_calls, host_fncode,
                 mem, sq, unacked, recvs, cq, armed, qp>>

HostArm ==
  /\ host_pc = "arm"
  /\ ReqNotify("host", "solicited")
  /\ host_pc' = "drain"
  /\ UNCHANGED <<host_call, host_state, to_write, rdma_writes_done,
                 response_received, response_imm, no_rpc_calls, host_fncode,
                 mem, sq, unacked, recvs, cq, qp>>

HostDrain ==
  /\ host_pc = "drain" /\ cq["host"] # <<>>
  /\ PollCq("host")
  /\ HostHandle(Head(cq["host"]), {"drain"})
  /\ UNCHANGED <<host_call, to_write, no_rpc_calls, host_fncode,
                 mem, sq, unacked, recvs, armed, evts, qp>>

HostDrained ==
  /\ host_pc = "drain" /\ cq["host"] = <<>>
  /\ host_pc' \in AfterPoll(host_state)
  /\ UNCHANGED <<host_call, host_state, to_write, rdma_writes_done,
                 response_received, response_imm, no_rpc_calls, host_fncode,
                 verbsVars>>

(***************************************************************************)
(* naaice_poll_cq_busy: no events, one completion per turn until FINISHED. *)
(***************************************************************************)
HostBusy ==
  /\ host_pc = "poll" /\ BusyPolling
  /\ cq["host"] # <<>>
  /\ PollCq("host")
  /\ HostHandle(Head(cq["host"]), AfterPoll(host_state'))
  /\ UNCHANGED <<host_call, to_write, no_rpc_calls, host_fncode,
                 mem, sq, unacked, recvs, armed, evts, qp>>

\* A poll finds nothing, and the call gives up.
HostTimeout ==
  /\ "host_timeout" \in Faults
  /\ host_pc = "poll" /\ ~Waiting
  /\ host_pc' = "failed"
  /\ UNCHANGED <<host_call, host_state, to_write, rdma_writes_done,
                 response_received, response_imm, no_rpc_calls, host_fncode,
                 verbsVars>>

\* naaice_poll_cq_blocking is interrupted by its alarm while it waits for an
\* event: it disconnects and cleans up before it fails.
WaitInterrupted ==
  /\ "host_timeout" \in Faults
  /\ host_pc = "poll" /\ Waiting /\ evts["host"] = 0
  /\ DestroyQp("host")
  /\ host_pc' = "closed"
  /\ UNCHANGED <<host_call, host_state, to_write, rdma_writes_done,
                 response_received, response_imm, no_rpc_calls, host_fncode,
                 mem, armed>>

\* The application sees in the status of naa_wait that the call is not done,
\* and waits once more.
WaitAgain ==
  /\ host_pc = "app" /\ Waiting
  /\ host_state < FINISHED
  /\ host_pc' = "poll"
  /\ UNCHANGED <<host_call, host_state, to_write, rdma_writes_done,
                 response_received, response_imm, no_rpc_calls, host_fncode,
                 verbsVars>>

(***************************************************************************)
(* naaice_disconnect_and_cleanup, called by the application when it is     *)
(* done or a call has failed.                                              *)
(***************************************************************************)
HostClose ==
  /\ "close" \in Faults
  /\ host_pc \in {"app", "failed"}
  /\ DestroyQp("host")
  /\ host_pc' = "closed"
  /\ UNCHANGED <<host_call, host_state, to_write, rdma_writes_done,
                 response_received, response_imm, no_rpc_calls, host_fncode,
                 mem, armed>>

HostPollStep == HostGetEvent \/ HostArm \/ HostDrain \/ HostDrained \/ HostBusy

HostStep == \/ DoMrsp \/ DoDataTransfer \/ HostPollStep
            \/ HostTimeout \/ WaitInterrupted \/ WaitAgain \/ HostClose

===============================================================================
