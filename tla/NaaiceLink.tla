------------------------------ MODULE NaaiceLink ------------------------------
(***************************************************************************)
(* One host and one worker of the software NAA over one reliable           *)
(* connection: the two threads and the adapters between them interleave    *)
(* freely.  The connection has just been established at both ends.         *)
(***************************************************************************)
EXTENDS NaaiceHost, NaaiceWorker, FiniteSets

vars == <<verbsVars, hostVars, naaVars>>

Init ==
  /\ HostInit /\ NaaInit
  /\ mem = [e \in Ends |-> [r \in Regions |-> [by |-> e, call |-> 0]]]
  /\ sq = [e \in Ends |-> <<>>]
  /\ unacked = [e \in Ends |-> <<>>]
  /\ cq = [e \in Ends |-> <<>>]
  \* naaice_swnaa_handle_connection_requests posts one receive, and accepts
  \* the connection even if it cannot.
  /\ \E posted \in NaaOutcomes("post_recv") :
       recvs = [e \in Ends |-> IF e = "naa" /\ posted THEN 1 ELSE 0]
  \* naaice_init_rdma_resources arms both queues for solicited completions.
  /\ armed = [e \in Ends |-> "solicited"]
  /\ evts = [e \in Ends |-> 0]
  /\ qp = [e \in Ends |-> "up"]

Host == HostStep /\ UNCHANGED naaVars
Naa == NaaStep /\ UNCHANGED hostVars
Carry(e) == Fabric(e) /\ UNCHANGED <<hostVars, naaVars>>
Break(e) == (FailSend(e) \/ FlushRecv(e)) /\ UNCHANGED <<hostVars, naaVars>>

Next == \/ Host \/ Naa
        \/ \E e \in Ends : Carry(e) \/ Break(e)

Spec == Init /\ [][Next]_vars

(***************************************************************************)
(* Fairness.  Both threads run their polling loops without waiting for     *)
(* anything but the queue, and the adapters carry what was posted.  The    *)
(* application need not make a call, and no failure need happen.           *)
(***************************************************************************)
Fairness ==
  /\ WF_vars(HostPollStep /\ UNCHANGED naaVars)
  /\ WF_vars(NaaThread /\ UNCHANGED hostVars)
  /\ \A e \in Ends : WF_vars(Carry(e))

FairSpec == Spec /\ Fairness

-------------------------------------------------------------------------------
(* Every variable has the type its declaration in the code gives it.       *)
TypeOK == VerbsTypeOK /\ HostTypeOK /\ NaaTypeOK

(* The tally of naaice_handle_work_completion: a transfer is DATA_SENDING  *)
(* exactly while own writes are outstanding, DATA_RECEIVING exactly while  *)
(* only the response is, and FINISHED leaves nothing counted for the next  *)
(* call.  So it ends when both hold, in whichever order they come.         *)
TransferTally ==
  /\ host_state = DATA_SENDING => rdma_writes_done < Len(to_write)
  /\ host_state = DATA_RECEIVING => /\ rdma_writes_done >= Len(to_write)
                                    /\ ~response_received
  /\ host_state = FINISHED => rdma_writes_done = 0 /\ ~response_received

(* When the kernel starts, the data it was called for is in place: every   *)
(* input region holds what the host wrote for this call, a single-send     *)
(* region what it wrote for the first (worker_procedure, "Now that all     *)
(* data has arrived").                                                     *)
KernelSeesItsCall ==
  naa_pc = "rpc" =>
    /\ naa_serving = no_rpc_calls
    /\ \A r \in InputRegions :
         r \in SingleSend \cap OutputRegions \/
         mem["naa"][r] = [by |-> "host",
                          call |-> IF r \in SingleSend THEN 1 ELSE naa_serving]

(* A call that returns success to the application has all its outputs in   *)
(* the host's regions, each computed for this very call.                   *)
FinishedHasResults ==
  host_pc = "app" /\ host_state = FINISHED =>
    \A r \in OutputRegions :
      mem["host"][r] = [by |-> "naa", call |-> no_rpc_calls]

(* "Posting more would overflow the receive queue ... over many RPC        *)
(* calls" (naaice_post_recv_data): neither side accumulates receives.  The *)
(* worker always has the spare one naaice_swnaa_do_mrsp posts.             *)
ReceivesBounded == recvs["host"] <= 1 /\ recvs["naa"] <= 2

(* The writes of a transfer keep the order of the list from queue to queue *)
(* (queued, then unacknowledged, then completed), are all still to be      *)
(* counted, and there are none outside of a transfer.  This is what makes  *)
(* counting them enough: when a call ends, the adapter is done with the    *)
(* application's regions.                                                  *)
IsWrite(x) == x.op \in {"WRITE", "WRITE_IMM", "RDMA_WRITE"}
Writes(q) == {i \in 1..Len(q) : IsWrite(q[i])}
Outstanding(q) ==
  /\ \A i \in Writes(q) : /\ rdma_writes_done < q[i].id
                          /\ q[i].id <= Len(to_write)
  /\ \A i, j \in Writes(q) : i < j => q[i].id < q[j].id
Before(q1, q2) ==
  \A i \in Writes(q1), j \in Writes(q2) : q1[i].id < q2[j].id

HostQueues == {sq["host"], unacked["host"], cq["host"]}

WritesInOrder ==
  IF host_state \in {DATA_SENDING, DATA_RECEIVING}
  THEN /\ \A q \in HostQueues : Outstanding(q)
       /\ Before(cq["host"], unacked["host"])
       /\ Before(cq["host"], sq["host"])
       /\ Before(unacked["host"], sq["host"])
  ELSE \A q \in HostQueues : Writes(q) = {}

(* A call for which the host could not post its receive is never reported  *)
(* as successful (naaice_init_data_transfer, "On error, send fncode 0").   *)
HostErrorNotSuccess ==
  host_fncode = 0 => ~(host_call \in TransferCalls /\ host_pc = "app")

(* "Both are recorded; the transfer ends when both hold": in a call the     *)
(* host takes the completions of its writes and the response in whichever  *)
(* order they come, and each that is not a failure counts; none is         *)
(* rejected, ignored, or left over from before the call.                   *)
CompletionsRecorded ==
  [][/\ host_call \in TransferCalls /\ host_pc' # "closed"
     /\ cq["host"] # <<>> /\ cq["host"]' = Tail(cq["host"])
     /\ Head(cq["host"]).ok
     => <<host_state, rdma_writes_done, response_received>>'
          # <<host_state, rdma_writes_done, response_received>>]_vars

-------------------------------------------------------------------------------
(* While the application owns the regions - no call in progress - no write *)
(* of the NAA lands in them.                                               *)
RegionsQuietBetweenCalls ==
  [][host_pc = "app" /\ host_pc' = "app" => mem'["host"] = mem["host"]]_vars

(* While the kernel is due to run, no write of the host changes its        *)
(* inputs under it.                                                        *)
InputsQuietDuringRpc ==
  [][naa_pc = "rpc" /\ naa_pc' = "rpc" => mem'["naa"] = mem["naa"]]_vars

-------------------------------------------------------------------------------
(* Every call returns.                                                     *)
Busy == host_call \in TransferCalls /\ host_pc # "app"
CallsReturn == Busy ~> ~Busy

(* The memory region setup protocol completes at both ends.                *)
MrspCompletes ==
  (host_call = "do_mrsp") ~> (host_state >= MRSP_DONE /\ naa_state >= MRSP_DONE)

-------------------------------------------------------------------------------
(* The link provides the service: a call is busy until the library call    *)
(* returns to the application; the answer is what the output regions hold. *)
Service == INSTANCE RpcService WITH
  requested <- no_rpc_calls,
  busy <- Busy,
  runs <- naa_runs,
  answer <- IF ~Busy /\ \A r \in OutputRegions :
                          mem["host"][r] = [by |-> "naa", call |-> no_rpc_calls]
            THEN no_rpc_calls ELSE 0

(* The kernel runs exactly once per call, for that call, before it         *)
(* returns with its results; and every call returns.                       *)
ExactlyOnce == Service!Spec

-------------------------------------------------------------------------------
(***************************************************************************)
(* What comments and headers of the code say, and the code does not do.    *)
(***************************************************************************)

(* "Now that all data has arrived, perform the RPC" (worker_procedure): a  *)
(* kernel runs only for data that arrived since the last response.         *)
RpcOnArrivedData == naa_pc = "rpc" => naa_arrived

(* "With a nonzero immediate marking the error" (naaice_swnaa_write_data): *)
(* a call whose kernel reported an error does not look like a success.     *)
ErrorReported ==
  host_pc = "app" /\ host_state = FINISHED /\ naa_errorcode # 0
    => response_imm # 0

(* "Once all writes are done, wait for the next request"                   *)
(* (naaice_swnaa_handle_work_completion), error replies included.          *)
ServesAgain == (naa_call = "do_data_transfer" /\ naa_pc = "poll") ~>
                 naa_call = "receive_data_transfer"

(* Completions "are not ordered against each other, so the queue can hold  *)
(* them either way round" (naaice_handle_work_completion): as nothing      *)
(* fails, the setup protocol and the calls succeed in either order, and    *)
(* the worker serves until it is told otherwise.                           *)
NobodyGivesUp == host_pc # "failed" /\ naa_pc \notin {"exit", "gone"}

(* "Once all writes are done, wait for the next request"                   *)
(* (naaice_swnaa_handle_work_completion): as nothing fails, a worker that  *)
(* has sent its results does not give up before it has waited.             *)
NextRequestAwaited ==
  naa_call = "do_data_transfer" => naa_pc \notin {"exit", "gone"}

(* "The transfer ends when both hold" (naaice_handle_work_completion): a   *)
(* host that waits for an event when the response and the completions of   *)
(* all its writes are there is woken for them.                             *)
Taken(op) == Cardinality({i \in 1..Len(cq["host"]) : cq["host"][i].op = op})

WokenWhenBothHold ==
  /\ host_pc = "poll" /\ host_call \in TransferCalls /\ ~BusyPolling
  /\ host_state < FINISHED
  /\ rdma_writes_done + Taken("RDMA_WRITE") >= Len(to_write)
  /\ response_received \/ Taken("RECV_IMM") > 0
  => evts["host"] > 0

(* A single-send region is "written exactly once during the first RPC on   *)
(* the connection" (naaice_set_singlesend_mr): no kernel runs without it,  *)
(* also when the first call had to be repeated.                            *)
SingleSendWritten ==
  naa_pc = "rpc" =>
    \A r \in SingleSend \ OutputRegions : mem["naa"][r].by = "host"

(* "Blocking wait for a completed receive ... returns once data has been   *)
(* written back" (naa_wait): when it returns success, the call is done.    *)
WaitReturnsResults ==
  host_pc = "app" /\ host_call = "naa_wait" => host_state = FINISHED

===============================================================================
