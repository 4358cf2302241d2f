-------------------------------- MODULE Verbs --------------------------------
(***************************************************************************)
(* The part of the RDMA verbs interface (libibverbs and the network        *)
(* adapters below it) that both sides of the library are written against:  *)
(* one reliable connected queue pair between a host and an NAA, a          *)
(* completion queue with an event channel at either end, and the           *)
(* registered memory regions.  It is external code, modelled from the way  *)
(* lib/naaice.c and lib/naaice_swnaa.c use it:                             *)
(*   - a work request posted to the send queue is executed at the peer in  *)
(*     order; later its acknowledgement puts a completion in the sender's  *)
(*     own queue;                                                          *)
(*   - SEND and RDMA write with immediate consume a posted receive and     *)
(*     complete at the peer too, a plain RDMA write only changes memory;   *)
(*   - a completion raises an event only if the queue is armed for it, and *)
(*     one event disarms the queue.                                        *)
(*                                                                         *)
(* Two constants separate what the interface promises from what the usual  *)
(* adapter does.  AckFirst: traffic of a peer reaches an end only after    *)
(* the acknowledgements of what that end sent before.  ArmSeesPending:     *)
(* arming a queue that already holds a completion raises the event.  The   *)
(* interface promises neither.                                             *)
(***************************************************************************)
EXTENDS Naturals, Sequences

CONSTANTS Regions,         \* the symmetric (parameter) memory regions
          AckFirst,
          ArmSeesPending

ASSUME VerbsAssumption ==
  /\ Regions \subseteq (Nat \ {0})
  /\ AckFirst \in BOOLEAN
  /\ ArmSeesPending \in BOOLEAN

Ends == {"host", "naa"}
Peer(e) == IF e = "host" THEN "naa" ELSE "host"

VARIABLES mem,      \* contents of the regions, at either end
          sq,       \* work requests posted and not yet executed at the peer
          unacked,  \* executed at the peer, completion still outstanding
          recvs,    \* number of posted receives
          cq,       \* completion queue
          armed,    \* which completion raises the next event
          evts,     \* events waiting in the completion channel
          qp        \* the queue pair: up, in the error state, or destroyed

verbsVars == <<mem, sq, unacked, recvs, cq, armed, evts, qp>>

NoRegion == 0
Messages == {"none", "AAR", "A", "ERR"}   \* enum message_id

(* A request: the operation, its wr_id, the region written, the immediate  *)
(* or the MRSP message it carries, and the call it belongs to (history).   *)
(* A region holds what a side wrote for an RPC call.                       *)
Contents == [by : Ends, call : Nat]

WorkRequests ==
  [op : {"SEND", "WRITE", "WRITE_IMM"}, id : Nat, mr : Regions \cup {NoRegion},
   imm : Nat, msg : Messages, call : Nat]

Completions ==
  [op : {"SEND", "RDMA_WRITE", "RECV", "RECV_IMM"}, id : Nat, ok : BOOLEAN,
   sol : BOOLEAN, imm : Nat, msg : Messages, call : Nat]

VerbsTypeOK ==
  /\ mem \in [Ends -> [Regions -> Contents]]
  /\ sq \in [Ends -> Seq(WorkRequests)]
  /\ unacked \in [Ends -> Seq(WorkRequests)]
  /\ recvs \in [Ends -> Nat]
  /\ cq \in [Ends -> Seq(Completions)]
  /\ armed \in [Ends -> {"none", "solicited", "all"}]
  /\ evts \in [Ends -> Nat]
  /\ qp \in [Ends -> {"up", "err", "gone"}]

(***************************************************************************)
(* Calls of the library.  Each changes one variable, ibv_req_notify_cq     *)
(* two.                                                                    *)
(***************************************************************************)

\* What ibv_post_send may accept of a list: all of it or, if it fails, the
\* requests before bad_wr.
Accepted(wrs, mayFail) ==
  IF mayFail THEN {SubSeq(wrs, 1, n) : n \in 0..Len(wrs)} ELSE {wrs}

PostSend(e, wrs) == sq' = [sq EXCEPT ![e] = @ \o wrs]

PostRecv(e) == recvs' = [recvs EXCEPT ![e] = @ + 1]

\* ibv_get_cq_event and ibv_ack_cq_events.
GetCqEvent(e) == /\ evts[e] > 0
                 /\ evts' = [evts EXCEPT ![e] = @ - 1]

PollCq(e) == cq' = [cq EXCEPT ![e] = Tail(@)]

Raises(arming, c) == \/ arming = "all"
                     \/ arming = "solicited" /\ (c.sol \/ ~c.ok)

\* ibv_req_notify_cq(cq, solicited_only).
ReqNotify(e, arming) ==
  IF ArmSeesPending /\ \E i \in 1..Len(cq[e]) : Raises(arming, cq[e][i])
  THEN /\ evts' = [evts EXCEPT ![e] = @ + 1]
       /\ armed' = [armed EXCEPT ![e] = "none"]
  ELSE /\ armed' = [armed EXCEPT ![e] = arming]
       /\ UNCHANGED evts

\* rdma_disconnect and ibv_destroy_qp: what the end still had queued is gone.
DestroyQp(e) ==
  /\ qp' = [qp EXCEPT ![e] = "gone"]
  /\ sq' = [sq EXCEPT ![e] = <<>>]
  /\ unacked' = [unacked EXCEPT ![e] = <<>>]
  /\ recvs' = [recvs EXCEPT ![e] = 0]
  /\ cq' = [cq EXCEPT ![e] = <<>>]
  /\ evts' = [evts EXCEPT ![e] = 0]

(***************************************************************************)
(* Steps of the adapters.                                                  *)
(***************************************************************************)

\* A completion enters the queue of e, and wakes its owner if it is armed.
Complete(e, c) ==
  /\ cq' = [cq EXCEPT ![e] = Append(@, c)]
  /\ IF Raises(armed[e], c)
     THEN /\ evts' = [evts EXCEPT ![e] = @ + 1]
          /\ armed' = [armed EXCEPT ![e] = "none"]
     ELSE UNCHANGED <<evts, armed>>

\* The payload of wr, posted by e, lands at the peer.
Land(e, wr) ==
  mem' = IF wr.mr = NoRegion THEN mem
         ELSE [mem EXCEPT ![Peer(e)][wr.mr] = mem[e][wr.mr]]

CanExecute(e) ==
  /\ qp[e] = "up" /\ qp[Peer(e)] = "up"
  /\ sq[e] # <<>>
  /\ AckFirst => unacked[Peer(e)] = <<>>

Executed(e) ==
  /\ sq' = [sq EXCEPT ![e] = Tail(@)]
  /\ unacked' = [unacked EXCEPT ![e] = Append(@, Head(sq[e]))]
  /\ Land(e, Head(sq[e]))
  /\ UNCHANGED qp

\* IBV_WR_RDMA_WRITE: no trace at the peer but the data.
ExecuteWrite(e) ==
  /\ CanExecute(e)
  /\ Head(sq[e]).op = "WRITE"
  /\ Executed(e)
  /\ UNCHANGED <<recvs, cq, armed, evts>>

\* IBV_WR_SEND and IBV_WR_RDMA_WRITE_WITH_IMM wait for a posted receive.
\* Both sides post them with IBV_SEND_SOLICITED.
ExecuteReceived(e) ==
  LET wr == Head(sq[e])
      p  == Peer(e)
  IN /\ CanExecute(e)
     /\ wr.op # "WRITE"
     /\ recvs[p] > 0
     /\ recvs' = [recvs EXCEPT ![p] = @ - 1]
     /\ Executed(e)
     /\ Complete(p, [op |-> IF wr.op = "SEND" THEN "RECV" ELSE "RECV_IMM",
                     id |-> 0, ok |-> TRUE, sol |-> TRUE, imm |-> wr.imm,
                     msg |-> wr.msg, call |-> wr.call])

\* The completion of a work request of e (sq_sig_all is set).
SendCompletion(wr, success) ==
  [op |-> IF wr.op = "SEND" THEN "SEND" ELSE "RDMA_WRITE",
   id |-> wr.id, ok |-> success, sol |-> FALSE, imm |-> 0, msg |-> "none", call |-> wr.call]

Acknowledge(e) ==
  /\ qp[e] # "gone"
  /\ unacked[e] # <<>>
  /\ unacked' = [unacked EXCEPT ![e] = Tail(@)]
  /\ Complete(e, SendCompletion(Head(unacked[e]), TRUE))
  /\ UNCHANGED <<mem, sq, recvs, qp>>

\* A request fails: the peer does not answer, has no receive posted for
\* longer than the retries last (rnr_retry_count is 6, not "indefinite"), or
\* an earlier failure has put the queue pair in the error state.
FailSend(e) ==
  /\ qp[e] # "gone"
  /\ sq[e] # <<>> /\ unacked[e] = <<>>
  /\ \/ qp[e] = "err" \/ qp[Peer(e)] # "up"
     \/ Head(sq[e]).op # "WRITE" /\ recvs[Peer(e)] = 0
  /\ qp' = [qp EXCEPT ![e] = "err"]
  /\ sq' = [sq EXCEPT ![e] = Tail(@)]
  /\ Complete(e, SendCompletion(Head(sq[e]), FALSE))
  /\ UNCHANGED <<mem, unacked, recvs>>

\* A posted receive is flushed: the queue pair is, or on the departure of the
\* peer is put, in the error state.
FlushRecv(e) ==
  /\ \/ qp[e] = "err"
     \/ qp[e] = "up" /\ qp[Peer(e)] = "gone"
  /\ recvs[e] > 0
  /\ qp' = [qp EXCEPT ![e] = "err"]
  /\ recvs' = [recvs EXCEPT ![e] = @ - 1]
  /\ Complete(e, [op |-> "RECV", id |-> 0, ok |-> FALSE, sol |-> FALSE,
                  imm |-> 0, msg |-> "none", call |-> 0])
  /\ UNCHANGED <<mem, sq, unacked>>

Fabric(e) == ExecuteWrite(e) \/ ExecuteReceived(e) \/ Acknowledge(e)

=============================================================================
