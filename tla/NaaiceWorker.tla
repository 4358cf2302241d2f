----------------------------- MODULE NaaiceWorker -----------------------------
(***************************************************************************)
(* One connection of the software NAA (lib/naaice_swnaa.c): the thread     *)
(* worker_procedure, from the established connection to its end.  It       *)
(* answers the memory region setup protocol, then repeats: wait for a data *)
(* transfer, run the RPC kernel, write the outputs back.                   *)
(***************************************************************************)
EXTENDS Verbs, NaaiceStates

CONSTANTS Outputs,       \* output regions, in the order they are written back
          KernelErrors,  \* values ctx->rpc_func may return
          NaaFaults      \* which failures the environment may produce

ASSUME WorkerAssumption ==
  /\ Outputs \in Seq(Regions) /\ Len(Outputs) > 0
  /\ KernelErrors \subseteq 0..255 /\ KernelErrors # {}
  /\ NaaFaults \subseteq {"post_recv", "post_send", "mrsp", "naa_timeout",
                          "removal", "cleanup"}

VARIABLES naa_pc,           \* where the worker thread is
          naa_call,         \* the library call it is in
          naa_state,        \* comm_ctx->state
          naa_saved,        \* the state when the current poll began
          naa_writes_done,  \* comm_ctx->rdma_writes_done
          naa_fncode, naa_immediate,
          naa_errorcode,    \* what the kernel returned last
          naa_arrived,      \* history: data of a call has arrived for this RPC
          naa_serving,      \* history: that call
          naa_runs          \* history: the calls the kernel was run for

naaVars == <<naa_pc, naa_call, naa_state, naa_saved, naa_writes_done,
             naa_fncode, naa_immediate, naa_errorcode,
             naa_arrived, naa_serving, naa_runs>>

OutputRegions == {Outputs[i] : i \in 1..Len(Outputs)}
no_output_mrs == Len(Outputs)

NaaTypeOK ==
  /\ naa_pc \in {"start", "receive", "poll", "drain", "arm", "rpc", "respond",
                 "exit", "gone"}
  /\ naa_call \in {"do_mrsp", "receive_data_transfer", "do_data_transfer"}
  /\ naa_state \in CommunicationStates
  /\ naa_saved \in CommunicationStates
  /\ naa_writes_done \in Nat
  /\ naa_fncode \in Nat /\ naa_immediate \in Nat
  /\ naa_errorcode \in 0..255
  /\ naa_arrived \in BOOLEAN /\ naa_serving \in Nat
  /\ naa_runs \in Seq(Nat)

\* After naaice_swnaa_handle_connection_established; the receive of the
\* announcement was posted before the connection was accepted.
NaaInit ==
  /\ naa_pc = "start" /\ naa_call = "do_mrsp"
  /\ naa_state = CONNECTED /\ naa_saved = CONNECTED
  /\ naa_writes_done = 0
  /\ naa_fncode = 0 /\ naa_immediate = 0 /\ naa_errorcode = 0
  /\ naa_arrived = FALSE /\ naa_serving = 0
  /\ naa_runs = <<>>

NaaOutcomes(fault) == IF fault \in NaaFaults THEN BOOLEAN ELSE {TRUE}
NaaAccepted(wrs) == Accepted(wrs, "post_send" \in NaaFaults)

(***************************************************************************)
(* Where worker_procedure goes on when the library call it is in returns;  *)
(* a failure of naaice_swnaa_do_mrsp or of                                 *)
(* naaice_swnaa_receive_data_transfer is not looked at, only the state is. *)
(***************************************************************************)
NaaReturn(state, ok) ==
  CASE naa_call = "do_mrsp" ->
         IF state >= MRSP_DONE THEN "receive" ELSE "exit"
    [] naa_call = "receive_data_transfer" ->
         IF state < MRSP_DONE \/ state = FINISHED THEN "exit" ELSE "rpc"
    [] naa_call = "do_data_transfer" ->
         IF ok /\ state >= MRSP_DONE THEN "receive" ELSE "exit"

\* The loop condition of the three calls.
NaaCallDone(state) ==
  \/ naa_call = "do_mrsp" /\ state >= MRSP_DONE
  \/ naa_call = "receive_data_transfer" /\ state # DATA_RECEIVING
  \/ naa_call = "do_data_transfer" /\ state # DATA_SENDING

\* After a poll the call looks at the clock first: it gives up once it has
\* lasted comm_ctx->timeout, even if it is done.
NaaLoop ==
  {IF NaaCallDone(naa_state) THEN NaaReturn(naa_state, TRUE) ELSE "poll"}
    \cup (IF "naa_timeout" \in NaaFaults THEN {NaaReturn(naa_state, FALSE)} ELSE {})

(***************************************************************************)
(* naaice_swnaa_do_mrsp, up to its loop, posts a receive in addition to    *)
(* the one posted with the connection; a failure to post is ignored.       *)
(***************************************************************************)
NaaStart ==
  /\ naa_pc = "start"
  /\ naa_state' = MRSP_RECEIVING
  /\ \E posted \in NaaOutcomes("post_recv") :
       IF posted THEN PostRecv("naa") ELSE UNCHANGED recvs
  /\ naa_call' = "do_mrsp" /\ naa_pc' = "poll"
  /\ UNCHANGED <<naa_saved, naa_writes_done, naa_fncode, naa_immediate,
                 naa_errorcode, naa_arrived, naa_serving, naa_runs,
                 mem, sq, unacked, cq, armed, evts, qp>>

\* naaice_swnaa_receive_data_transfer, up to its loop; a failure to post the
\* receive is ignored.
NaaReceive ==
  /\ naa_pc = "receive"
  /\ naa_state' = DATA_RECEIVING
  /\ \E posted \in NaaOutcomes("post_recv") :
       IF posted THEN PostRecv("naa") ELSE UNCHANGED recvs
  /\ naa_call' = "receive_data_transfer" /\ naa_pc' = "poll"
  /\ naa_arrived' = FALSE
  /\ UNCHANGED <<naa_saved, naa_writes_done, naa_fncode, naa_immediate,
                 naa_errorcode, naa_serving, naa_runs,
                 mem, sq, unacked, cq, armed, evts, qp>>

(***************************************************************************)
(* naaice_swnaa_handle_work_completion, one action per case.  Each leaves  *)
(* the caller to decide where to go on.                                    *)
(***************************************************************************)
PostMessage(msg) ==
  \E wrs \in NaaAccepted(<<[op |-> "SEND", id |-> 0, mr |-> NoRegion,
                            imm |-> 0, msg |-> msg, call |-> 0]>>) : PostSend("naa", wrs)

\* The announcement and request: allocate and register the regions, answer.
NaaHandleAnnounce(c) ==
  /\ c.ok /\ naa_state = MRSP_RECEIVING /\ c.op = "RECV" /\ c.msg = "AAR"
  /\ naa_state' = MRSP_SENDING
  /\ \E registered \in NaaOutcomes("mrsp") :
       IF registered THEN PostMessage("A") /\ naa_pc' = "drain"
       ELSE PostMessage("ERR") /\ naa_pc' = NaaReturn(MRSP_SENDING, FALSE)
  /\ UNCHANGED <<naa_writes_done, naa_fncode, naa_immediate,
                 naa_arrived, naa_serving>>

\* The loop over the completions ends when one has changed the state.
AfterCompletionDrainAll(state) == "drain"   \* mutant: no such break
AfterCompletion(state) ==
  IF state # naa_saved /\ state > MRSP_SENDING THEN "arm" ELSE "drain"

NaaHandleAnswered(c) ==
  /\ c.ok /\ naa_state = MRSP_SENDING /\ c.op = "SEND"
  /\ naa_state' = MRSP_DONE
  /\ naa_pc' = AfterCompletion(MRSP_DONE)
  /\ UNCHANGED <<naa_writes_done, naa_fncode, naa_immediate,
                 naa_arrived, naa_serving, sq>>

\* Data from the host: a write with immediate is a call.  A plain receive
\* "shouldn't happen" and is ignored.
NaaHandleData(c) ==
  LET isCall == c.op = "RECV_IMM"
  IN /\ c.ok /\ naa_state = DATA_RECEIVING
     /\ c.op = "RECV" \/ (isCall /\ c.imm # 0)
     /\ naa_state' = IF isCall THEN CALCULATING ELSE naa_state
     /\ naa_fncode' = IF isCall THEN c.imm % 128 ELSE naa_fncode
     /\ naa_immediate' = IF isCall THEN c.imm \div 256 ELSE naa_immediate
     /\ naa_arrived' = (naa_arrived \/ isCall)
     /\ naa_serving' = IF isCall THEN c.call ELSE naa_serving
     /\ naa_pc' = AfterCompletion(naa_state')
     /\ UNCHANGED <<naa_writes_done, sq>>

\* Once the last output is written the tally starts again.
NaaHandleWritten(c) ==
  LET writes == naa_writes_done + 1
      all    == writes = no_output_mrs
  IN /\ c.ok /\ naa_state = DATA_SENDING /\ c.op = "RDMA_WRITE"
     /\ naa_writes_done' = IF all THEN 0 ELSE writes
     /\ naa_state' = IF all THEN DATA_RECEIVING ELSE DATA_SENDING
     /\ naa_pc' = AfterCompletion(naa_state')
     /\ UNCHANGED <<naa_fncode, naa_immediate, naa_arrived, naa_serving, sq>>

\* A failed completion, a zero immediate, another message, or an operation
\* the state does not expect: the poll fails.
NaaAccepts(c) ==
  /\ c.ok
  /\ \/ naa_state = MRSP_RECEIVING /\ c.op = "RECV" /\ c.msg = "AAR"
     \/ naa_state = MRSP_SENDING /\ c.op = "SEND"
     \/ naa_state = DATA_RECEIVING /\ c.op = "RECV"
     \/ naa_state = DATA_RECEIVING /\ c.op = "RECV_IMM" /\ c.imm # 0
     \/ naa_state = DATA_SENDING /\ c.op = "RDMA_WRITE"

NaaReject(c) ==
  /\ ~NaaAccepts(c)
  /\ naa_pc' = NaaReturn(naa_state, FALSE)
  /\ UNCHANGED <<naa_state, naa_writes_done, naa_fncode, naa_immediate,
                 naa_arrived, naa_serving, sq>>

(***************************************************************************)
(* naaice_swnaa_poll_cq_nonblocking: take an event, handle completions     *)
(* until the queue is empty or the state has changed, then arm the queue   *)
(* for any completion.                                                     *)
(***************************************************************************)
NaaGetEvent ==
  /\ naa_pc = "poll"
  /\ GetCqEvent("naa")
  /\ naa_saved' = naa_state
  /\ naa_pc' = "drain"
  /\ UNCHANGED <<naa_call, naa_state, naa_writes_done, naa_fncode,
                 naa_immediate, naa_errorcode, naa_arrived, naa_serving,
                 naa_runs, mem, sq, unacked, recvs, cq, armed, qp>>

NaaDrain ==
  LET c == Head(cq["naa"])
  IN /\ naa_pc = "drain" /\ cq["naa"] # <<>>
     /\ PollCq("naa")
     /\ \/ NaaHandleAnnounce(c) \/ NaaHandleAnswered(c)
        \/ NaaHandleData(c) \/ NaaHandleWritten(c)
        \/ NaaReject(c)
     /\ UNCHANGED <<naa_call, naa_saved, naa_errorcode, naa_runs,
                    mem, unacked, recvs, armed, evts, qp>>

NaaDrained ==
  /\ naa_pc = "drain" /\ cq["naa"] = <<>>
  /\ naa_pc' = "arm"
  /\ UNCHANGED <<naa_call, naa_state, naa_saved, naa_writes_done, naa_fncode,
                 naa_immediate, naa_errorcode, naa_arrived, naa_serving,
                 naa_runs, verbsVars>>

NaaArmingSolicited == "solicited"   \* mutant: as the host does
NaaArming == "all"

NaaArm ==
  /\ naa_pc = "arm"
  /\ ReqNotify("naa", NaaArming)
  /\ naa_pc' \in NaaLoop
  /\ UNCHANGED <<naa_call, naa_state, naa_saved, naa_writes_done, naa_fncode,
                 naa_immediate, naa_errorcode, naa_arrived, naa_serving,
                 naa_runs, mem, sq, unacked, recvs, cq, qp>>

\* A poll finds nothing, and the call gives up.
NaaTimeout ==
  /\ "naa_timeout" \in NaaFaults
  /\ naa_pc = "poll"
  /\ naa_pc' = NaaReturn(naa_state, FALSE)
  /\ UNCHANGED <<naa_call, naa_state, naa_saved, naa_writes_done, naa_fncode,
                 naa_immediate, naa_errorcode, naa_arrived, naa_serving,
                 naa_runs, verbsVars>>

\* A poll finds nothing, and the loop sees the state the master has set.
NaaNotices ==
  /\ naa_pc = "poll" /\ NaaCallDone(naa_state)
  /\ naa_pc' \in NaaLoop
  /\ UNCHANGED <<naa_call, naa_state, naa_saved, naa_writes_done, naa_fncode,
                 naa_immediate, naa_errorcode, naa_arrived, naa_serving,
                 naa_runs, verbsVars>>

\* naaice_swnaa_handle_error, in the master's thread and without a lock: the
\* device is removed, and the queue pair with it; the state becomes ERROR.
NaaRemoval ==
  /\ "removal" \in NaaFaults
  /\ qp["naa"] = "up"
  /\ naa_state' = ERROR
  /\ qp' = [qp EXCEPT !["naa"] = "err"]
  /\ UNCHANGED <<naa_pc, naa_call, naa_saved, naa_writes_done, naa_fncode,
                 naa_immediate, naa_errorcode, naa_arrived, naa_serving,
                 naa_runs, mem, sq, unacked, recvs, cq, armed, evts>>

(***************************************************************************)
(* ctx->rpc_func, a kernel of the application (external): it reads the     *)
(* regions and leaves its results in the output regions.                   *)
(***************************************************************************)
RunRpc ==
  /\ naa_pc = "rpc"
  /\ \E errorcode \in KernelErrors : naa_errorcode' = errorcode
  /\ mem' = [mem EXCEPT !["naa"] =
               [r \in Regions |-> IF r \in OutputRegions
                                  THEN [by |-> "naa", call |-> naa_serving]
                                  ELSE @[r]]]
  /\ naa_runs' = Append(naa_runs, naa_serving)
  /\ naa_pc' = "respond"
  /\ UNCHANGED <<naa_call, naa_state, naa_saved, naa_writes_done, naa_fncode,
                 naa_immediate, naa_arrived, naa_serving,
                 sq, unacked, recvs, cq, armed, evts, qp>>

(***************************************************************************)
(* naaice_swnaa_write_data, called by naaice_swnaa_do_data_transfer, which *)
(* ignores its result: the output regions, the last with a zero immediate; *)
(* after a computation error a single write with the error code as its     *)
(* immediate.                                                              *)
(***************************************************************************)
RespondsWithFirst(i) == i = 1   \* mutant
RespondsWith(i) == i = no_output_mrs

ResponseList ==
  IF naa_errorcode # 0
  THEN <<[op |-> "WRITE_IMM", id |-> 1, mr |-> NoRegion, imm |-> naa_errorcode,
          msg |-> "none", call |-> naa_serving]>>
  ELSE [i \in 1..no_output_mrs |->
          [op |-> IF RespondsWith(i) THEN "WRITE_IMM" ELSE "WRITE",
           id |-> i, mr |-> Outputs[i], imm |-> 0, msg |-> "none",
           call |-> naa_serving]]

NaaRespond ==
  /\ naa_pc = "respond"
  /\ naa_state' = DATA_SENDING
  /\ \E wrs \in NaaAccepted(ResponseList) : PostSend("naa", wrs)
  /\ naa_call' = "do_data_transfer" /\ naa_pc' = "poll"
  /\ UNCHANGED <<naa_saved, naa_writes_done, naa_fncode, naa_immediate,
                 naa_errorcode, naa_arrived, naa_serving, naa_runs,
                 mem, unacked, recvs, cq, armed, evts, qp>>

\* naaice_swnaa_disconnect_and_cleanup, the end of worker_procedure.  If it
\* gives up before it comes to the queue pair, that goes on without a worker,
\* until a write finds its region deregistered.  The crash on a region whose
\* registration failed destroys the queue pair as well (ServerPool).
NaaExit ==
  /\ naa_pc = "exit"
  /\ \/ DestroyQp("naa")
     \/ /\ "cleanup" \in NaaFaults
        /\ qp' \in {qp, [qp EXCEPT !["naa"] = "err"]}
        /\ UNCHANGED <<sq, unacked, recvs, cq, evts>>
  /\ naa_pc' = "gone"
  /\ UNCHANGED <<naa_call, naa_state, naa_saved, naa_writes_done, naa_fncode,
                 naa_immediate, naa_errorcode, naa_arrived, naa_serving,
                 naa_runs, mem, armed>>

NaaPollStep == NaaGetEvent \/ NaaDrain \/ NaaDrained \/ NaaArm

NaaThread == NaaStart \/ NaaReceive \/ NaaPollStep \/ RunRpc \/ NaaRespond
             \/ NaaNotices \/ NaaExit

NaaStep == NaaThread \/ NaaTimeout \/ NaaRemoval

===============================================================================
