------------------------- MODULE NaaiceResponseProofs -------------------------
(***************************************************************************)
(* The host posts one receive for one response and looks no further: it    *)
(* compares neither calls nor identifiers.  What makes that enough is that *)
(* a receive, its completion and response_received are one thing in three  *)
(* places, and there is never a second one, as long as the application     *)
(* does not call again on top of a call that failed.  So a call for which  *)
(* no receive could be posted is never taken for a successful one.         *)
(***************************************************************************)
EXTENDS NaaiceLinkProofs

-------------------------------------------------------------------------------
(***************************************************************************)
(* Which operations a queue holds, in terms that do not need its indices.  *)
(***************************************************************************)
Has(q, ops) == \E i \in 1..Len(q) : q[i].op \in ops
Once(q, ops) ==
  \A i, j \in 1..Len(q) : q[i].op \in ops /\ q[j].op \in ops => i = j

LEMMA HasNone == \A ops : ~Has(<<>>, ops) /\ Once(<<>>, ops)
  BY DEF Has, Once

LEMMA AppendHas ==
  ASSUME NEW S, NEW q \in Seq(S), NEW x \in S, NEW ops
  PROVE  /\ Has(Append(q, x), ops) <=> Has(q, ops) \/ x.op \in ops
         /\ Once(q, ops) /\ (Has(q, ops) => x.op \notin ops)
              => Once(Append(q, x), ops)
<1> DEFINE a == Append(q, x)
<1>1. /\ Len(a) = Len(q) + 1 /\ Len(q) \in Nat
      /\ \A i \in 1..Len(q) : a[i] = q[i]
      /\ a[Len(q) + 1] = x
  OBVIOUS
<1> HIDE DEF a
<1>2. \A i \in 1..Len(a) : i \in 1..Len(q) \/ i = Len(q) + 1
  BY <1>1
<1>3. Has(a, ops) => Has(q, ops) \/ x.op \in ops
  BY <1>1, <1>2 DEF Has
<1>4. Has(q, ops) => Has(a, ops)
  <2>1. \A i \in 1..Len(q) : i \in 1..Len(a)
    BY <1>1
  <2> QED BY <1>1, <2>1 DEF Has
<1>5. x.op \in ops => Has(a, ops)
  <2>1. Len(q) + 1 \in 1..Len(a)
    BY <1>1
  <2> QED BY <1>1, <2>1 DEF Has
<1>6. ASSUME Once(q, ops), Has(q, ops) => x.op \notin ops
      PROVE  Once(a, ops)
  <2>1. ASSUME NEW i \in 1..Len(a), NEW j \in 1..Len(a),
               a[i].op \in ops, a[j].op \in ops
        PROVE  i = j
    <3>1. CASE x.op \in ops
      <4>1. i \notin 1..Len(q) /\ j \notin 1..Len(q)
        BY <1>1, <1>6, <2>1, <3>1 DEF Has
      <4> QED BY <1>2, <4>1
    <3>2. CASE x.op \notin ops
      <4>1. i \in 1..Len(q) /\ j \in 1..Len(q)
        BY <1>1, <1>2, <2>1, <3>2
      <4> QED BY <1>1, <1>6, <2>1, <4>1 DEF Once
    <3> QED BY <3>1, <3>2
  <2> QED BY <2>1 DEF Once
<1> QED BY <1>3, <1>4, <1>5, <1>6 DEF a

LEMMA TailHas ==
  ASSUME NEW S, NEW q \in Seq(S), q # <<>>, NEW ops
  PROVE  /\ Has(q, ops) <=> Has(Tail(q), ops) \/ Head(q).op \in ops
         /\ Once(q, ops) => /\ Once(Tail(q), ops)
                            /\ Head(q).op \in ops => ~Has(Tail(q), ops)
<1> DEFINE t == Tail(q)
<1>1. /\ Len(t) = Len(q) - 1 /\ Len(q) \in Nat /\ Len(q) > 0
      /\ Head(q) = q[1]
      /\ \A i \in 1..Len(t) : t[i] = q[i + 1]
  OBVIOUS
<1> HIDE DEF t
<1>2. \A i \in 1..Len(t) : i + 1 \in 1..Len(q) /\ i + 1 # 1 /\ i \in Int
  BY <1>1
<1>3. \A i \in 1..Len(q) : i = 1 \/ (i - 1 \in 1..Len(t) /\ (i - 1) + 1 = i)
  BY <1>1
<1>4. 1 \in 1..Len(q)
  BY <1>1
<1>5. Has(q, ops) => Has(t, ops) \/ Head(q).op \in ops
  <2>1. ASSUME NEW i \in 1..Len(q), q[i].op \in ops, i # 1
        PROVE  Has(t, ops)
    <3>1. i - 1 \in 1..Len(t) /\ (i - 1) + 1 = i
      BY <1>3, <2>1
    <3>2. t[i - 1] = q[i]
      BY <1>1, <3>1
    <3> QED BY <2>1, <3>1, <3>2 DEF Has
  <2> QED BY <1>1, <2>1 DEF Has
<1>6. Has(t, ops) => Has(q, ops)
  BY <1>1, <1>2 DEF Has
<1>7. Head(q).op \in ops => Has(q, ops)
  BY <1>1, <1>4 DEF Has
<1>8. ASSUME Once(q, ops)
      PROVE  Once(t, ops) /\ (Head(q).op \in ops => ~Has(t, ops))
  <2>1. ASSUME NEW i \in 1..Len(t), NEW j \in 1..Len(t),
               t[i].op \in ops, t[j].op \in ops
        PROVE  i = j
    <3>1. i + 1 = j + 1
      BY <1>1, <1>2, <1>8, <2>1 DEF Once
    <3> QED BY <1>2, <3>1
  <2>2. ASSUME NEW i \in 1..Len(t), t[i].op \in ops, Head(q).op \in ops
        PROVE  FALSE
    <3>1. i + 1 = 1
      BY <1>1, <1>2, <1>4, <1>8, <2>2 DEF Once
    <3> QED BY <1>2, <3>1
  <2> QED BY <2>1, <2>2 DEF Once, Has
<1> QED BY <1>5, <1>6, <1>7, <1>8 DEF t

(* The same for the two kinds of queue, in the form the steps use.         *)
LEMMA CompletionEnters ==
  ASSUME NEW q \in Seq(Completions), NEW x \in Completions
  PROVE  \A ops : /\ Has(Append(q, x), ops) <=> Has(q, ops) \/ x.op \in ops
                  /\ Once(q, ops) /\ (Has(q, ops) => x.op \notin ops)
                       => Once(Append(q, x), ops)
  BY AppendHas

LEMMA CompletionLeaves ==
  ASSUME NEW q \in Seq(Completions), q # <<>>
  PROVE  \A ops : /\ Has(q, ops) <=> Has(Tail(q), ops) \/ Head(q).op \in ops
                  /\ Once(q, ops) => /\ Once(Tail(q), ops)
                                     /\ Head(q).op \in ops => ~Has(Tail(q), ops)
  BY TailHas

-------------------------------------------------------------------------------
(***************************************************************************)
(* The one response: n receives posted, q the completion queue, r the flag *)
(* response_received.                                                      *)
(***************************************************************************)
AnyReceive == {"RECV", "RECV_IMM"}

Single(n, q, r) ==
  /\ n <= 1
  /\ Once(q, AnyReceive)
  /\ n = 1 => ~Has(q, AnyReceive) /\ ~r
  /\ Has(q, AnyReceive) => ~r

(* A receive completes.                                                    *)
LEMMA ReceiveArrives ==
  ASSUME NEW n \in Nat, n > 0, NEW q \in Seq(Completions), NEW r,
         NEW x \in Completions, Single(n, q, r)
  PROVE  Single(n - 1, Append(q, x), r)
<1>1. n = 1 /\ n - 1 = 0 /\ ~Has(q, AnyReceive) /\ ~r
  BY DEF Single
<1>2. Once(Append(q, x), AnyReceive)
  BY <1>1, CompletionEnters DEF Single
<1> QED BY <1>1, <1>2 DEF Single

(* Something else completes.                                               *)
LEMMA OtherArrives ==
  ASSUME NEW n, NEW q \in Seq(Completions), NEW r,
         NEW x \in Completions, x.op \notin AnyReceive, Single(n, q, r)
  PROVE  /\ Single(n, Append(q, x), r)
         /\ Has(Append(q, x), AnyReceive) <=> Has(q, AnyReceive)
<1>1. Has(Append(q, x), AnyReceive) <=> Has(q, AnyReceive)
  BY CompletionEnters
<1>2. Once(Append(q, x), AnyReceive)
  BY CompletionEnters DEF Single
<1> QED BY <1>1, <1>2 DEF Single

(* A completion is taken from the queue; if it is the receive's, there is  *)
(* none left anywhere, and if it is the response the flag may be set.      *)
LEMMA CompletionTaken ==
  ASSUME NEW n, NEW q \in Seq(Completions), q # <<>>, NEW r, Single(n, q, r),
         n = 0 \/ n = 1
  PROVE  /\ Single(n, Tail(q), r)
         /\ Has(Tail(q), AnyReceive) => Has(q, AnyReceive)
         /\ Head(q).op \in AnyReceive =>
              /\ n = 0 /\ ~r /\ ~Has(Tail(q), AnyReceive)
              /\ \A r2 : Single(n, Tail(q), r2)
<1>1. Has(q, AnyReceive) <=> Has(Tail(q), AnyReceive) \/ Head(q).op \in AnyReceive
  BY CompletionLeaves
<1>2. /\ Once(Tail(q), AnyReceive)
      /\ Head(q).op \in AnyReceive => ~Has(Tail(q), AnyReceive)
  BY CompletionLeaves DEF Single
<1> QED BY <1>1, <1>2 DEF Single

-------------------------------------------------------------------------------
NoResponse == /\ recvs["host"] = 0
              /\ ~Has(cq["host"], AnyReceive)
              /\ ~response_received

(* Between calls nothing is left of the last response, and a host that has *)
(* told the NAA of its failure (function code 0) can get none.             *)
ResponseInv ==
  /\ Single(recvs["host"], cq["host"], response_received)
  /\ host_state \in {CONNECTED, MRSP_DONE, FINISHED} => NoResponse
  /\ ~InTransfer => ~response_received
  /\ host_fncode = 0 => InTransfer /\ NoResponse

responseVars == <<recvs["host"], cq["host"], host_state, response_received,
                  host_fncode>>

LEMMA SameResponse == ResponseInv /\ UNCHANGED responseVars => ResponseInv'
  BY DEF responseVars, ResponseInv, NoResponse, InTransfer

LEMMA HostReceives ==
  TypeOK => recvs["host"] \in Nat /\ cq["host"] \in Seq(Completions)
  BY DEF TypeOK, VerbsTypeOK, Ends

(* A call, of either kind, posts one receive where there is none.          *)
LEMMA PostedResponse ==
  ASSUME TypeOK, ResponseInv,
         NoResponse, UNCHANGED cq, response_received' = FALSE,
         UNCHANGED recvs \/ PostRecv("host")
  PROVE  /\ Single(recvs'["host"], cq'["host"], response_received')
         /\ UNCHANGED recvs => NoResponse'
<1>1. recvs'["host"] = 0 \/ recvs'["host"] = 1
  BY DEF NoResponse, PostRecv, TypeOK, VerbsTypeOK, Ends
<1>2. UNCHANGED recvs => recvs'["host"] = 0
  BY DEF NoResponse
<1>3. Once(cq["host"], AnyReceive)
  BY DEF ResponseInv, Single
<1> QED BY <1>1, <1>2, <1>3 DEF NoResponse, Single

LEMMA DoMrspResponse ==
  ASSUME TypeOK, ResponseInv, DoMrsp
  PROVE  ResponseInv'
<1> USE DEF CONNECTED, MRSP_SENDING, MRSP_DONE, FINISHED, DATA_SENDING,
            DATA_RECEIVING
<1>1. /\ host_state = CONNECTED /\ host_state' = MRSP_SENDING
      /\ UNCHANGED cq /\ UNCHANGED response_received
      /\ UNCHANGED host_fncode
      /\ UNCHANGED recvs \/ PostRecv("host")
  BY DEF DoMrsp, PostRecvMrsp
<1>2. NoResponse /\ ~InTransfer
  BY <1>1 DEF ResponseInv, InTransfer
<1>3. response_received' = FALSE
  BY <1>1, <1>2 DEF NoResponse, TypeOK, HostTypeOK
<1>4. Single(recvs'["host"], cq'["host"], response_received')
  BY <1>1, <1>2, <1>3, PostedResponse
<1>5. host_fncode' # 0
  BY <1>1, <1>2 DEF ResponseInv
<1> QED BY <1>1, <1>3, <1>4, <1>5 DEF ResponseInv, InTransfer

LEMMA DoDataTransferResponse ==
  ASSUME TypeOK, ResponseInv, DoDataTransfer, "retry" \notin Faults
  PROVE  ResponseInv'
<1> USE DEF CONNECTED, MRSP_DONE, FINISHED, DATA_SENDING, DATA_RECEIVING
<1>1. /\ host_state \in {MRSP_DONE, FINISHED} /\ host_state' = DATA_SENDING
      /\ UNCHANGED cq /\ response_received' = FALSE
  BY DEF DoDataTransfer, MayCall, WriteData
<1>2. PICK posted \in Outcomes("post_recv") :
        /\ IF posted THEN PostRecvData ELSE UNCHANGED recvs
        /\ host_fncode' = IF posted THEN host_fncode ELSE 0
  BY DEF DoDataTransfer
<1>3. NoResponse /\ host_fncode # 0
  BY <1>1 DEF ResponseInv, InTransfer
<1>4. /\ UNCHANGED recvs \/ PostRecv("host")
      /\ host_fncode' = 0 => UNCHANGED recvs
  BY <1>2, <1>3 DEF PostRecvData
<1>5. /\ Single(recvs'["host"], cq'["host"], response_received')
      /\ UNCHANGED recvs => NoResponse'
  BY <1>1, <1>3, <1>4, PostedResponse
<1> QED BY <1>1, <1>4, <1>5 DEF ResponseInv, InTransfer

(* A completion is handled: only the receive's own ends a setup or a call. *)
LEMMA HandleResponse ==
  ASSUME TypeOK, ResponseInv, cq["host"] # <<>>, PollCq("host"),
         NEW after, HostHandle(Head(cq["host"]), after),
         UNCHANGED <<recvs, host_fncode>>
  PROVE  ResponseInv'
<1> USE DEF CONNECTED, MRSP_SENDING, MRSP_RECEIVING, MRSP_DONE, DATA_SENDING,
            DATA_RECEIVING, FINISHED
<1> DEFINE c == Head(cq["host"])
           n == recvs["host"]
           q == cq["host"]
<1>1. n \in Nat /\ q \in Seq(Completions) /\ q # <<>>
  BY HostReceives
<1>2. cq'["host"] = Tail(q) /\ recvs'["host"] = n
  BY DEF PollCq, TypeOK, VerbsTypeOK, Ends
<1>3. n = 0 \/ n = 1
  BY <1>1 DEF ResponseInv, Single
<1>4. /\ Single(n, Tail(q), response_received)
      /\ Has(Tail(q), AnyReceive) => Has(q, AnyReceive)
      /\ c.op \in AnyReceive =>
           /\ n = 0 /\ ~response_received /\ ~Has(Tail(q), AnyReceive)
           /\ \A r2 : Single(n, Tail(q), r2)
  BY <1>1, <1>3, CompletionTaken DEF ResponseInv
<1> HIDE DEF c, n, q
<1>5. CASE HostHandleMrsp(c)
  <2>1. /\ host_state \in {MRSP_SENDING, MRSP_RECEIVING}
        /\ host_state' = IF host_state = MRSP_SENDING THEN MRSP_RECEIVING
                         ELSE MRSP_DONE
        /\ UNCHANGED response_received
        /\ host_state = MRSP_RECEIVING => c.op = "RECV"
    BY <1>5 DEF HostHandleMrsp, HostAccepts
  <2>2. ~response_received /\ host_fncode # 0
    BY <2>1 DEF ResponseInv, InTransfer
  <2>3. host_state' = MRSP_DONE => n = 0 /\ ~Has(Tail(q), AnyReceive)
    BY <1>4, <2>1 DEF AnyReceive
  <2>4. Single(n, Tail(q), response_received')
    BY <1>4, <2>1
  <2> QED BY <1>2, <2>1, <2>2, <2>3, <2>4 DEF ResponseInv, NoResponse, InTransfer
<1>6. CASE HostReject(c)
  <2>1. UNCHANGED <<host_state, response_received>>
    BY <1>6 DEF HostReject
  <2>2. NoResponse => NoResponse'
    BY <1>2, <1>4, <2>1 DEF NoResponse, n, q
  <2> QED BY <1>2, <1>4, <2>1, <2>2 DEF ResponseInv, InTransfer
<1>7. CASE HostHandleData(c)
  <2> DEFINE writes == rdma_writes_done + (IF c.op = "RDMA_WRITE" THEN 1 ELSE 0)
             response == response_received \/ c.op = "RECV_IMM"
  <2>1. /\ InTransfer
        /\ response_received' = (response /\ ~Retired(writes))
        /\ host_state' = IF ~Retired(writes) THEN host_state
                         ELSE IF response THEN FINISHED ELSE DATA_RECEIVING
    BY <1>7 DEF HostHandleData, InTransfer
  <2> HIDE DEF writes
  <2>2. /\ host_state' \in {DATA_SENDING, DATA_RECEIVING, FINISHED}
        /\ ~InTransfer' => host_state' = FINISHED
    BY <2>1 DEF InTransfer
  <2>3. response_received \in BOOLEAN
    BY DEF TypeOK, HostTypeOK
  <2>4. response_received' => response
    BY <2>1
  <2>5. host_state' = FINISHED => response /\ ~response_received'
    <3>1. CASE ~Retired(writes)
      BY <2>1, <3>1 DEF InTransfer
    <3>2. CASE Retired(writes)
      <4>1. ~response_received'
        BY <2>1, <3>2
      <4>2. host_state' = FINISHED => response
        BY <2>1, <3>2
      <4> QED BY <4>1, <4>2
    <3> QED BY <3>1, <3>2
  <2>6. response => n = 0 /\ ~Has(Tail(q), AnyReceive)
    <3>1. CASE c.op = "RECV_IMM"
      BY <1>4, <3>1 DEF AnyReceive
    <3>2. CASE response_received
      BY <1>3, <1>4, <3>2 DEF Single
    <3> QED BY <3>1, <3>2
  <2>7. Single(n, Tail(q), response_received')
    <3>1. CASE response
      BY <1>4, <2>6, <3>1 DEF Single
    <3>2. CASE ~response
      <4>1. ~response_received' /\ ~response_received
        BY <2>4, <3>2
      <4> QED BY <1>4, <4>1 DEF Single
    <3> QED BY <3>1, <3>2
  <2>8. host_state' = FINISHED => NoResponse'
    BY <1>2, <2>5, <2>6 DEF NoResponse
  <2>9. host_fncode = 0 => InTransfer' /\ NoResponse'
    <3>1. SUFFICES ASSUME host_fncode = 0 PROVE InTransfer' /\ NoResponse'
      OBVIOUS
    <3>2. /\ n = 0 /\ ~Has(q, AnyReceive) /\ ~response_received
      BY <3>1 DEF ResponseInv, NoResponse, n, q
    <3>3. c.op \notin AnyReceive
      BY <1>1, <3>2, CompletionLeaves DEF c, q
    <3>4. ~response
      BY <3>2, <3>3 DEF AnyReceive
    <3> QED BY <1>2, <1>4, <2>2, <2>4, <2>5, <3>2, <3>4 DEF NoResponse
  <2> QED BY <1>2, <2>2, <2>5, <2>7, <2>8, <2>9 DEF ResponseInv
<1> QED BY <1>5, <1>6, <1>7 DEF HostHandle, c

-------------------------------------------------------------------------------
(***************************************************************************)
(* What a step of the adapters does, queue by queue.                       *)
(***************************************************************************)
Received(wr) ==
  [op |-> IF wr.op = "SEND" THEN "RECV" ELSE "RECV_IMM", id |-> 0, ok |-> TRUE,
   sol |-> TRUE, imm |-> wr.imm, msg |-> wr.msg, call |-> wr.call]

Flushed == [op |-> "RECV", id |-> 0, ok |-> FALSE, sol |-> FALSE, imm |-> 0,
            msg |-> "none", call |-> 0]

LEMMA QueueTypes ==
  TypeOK => \A e \in Ends : /\ sq[e] \in Seq(WorkRequests)
                            /\ unacked[e] \in Seq(WorkRequests)
                            /\ cq[e] \in Seq(Completions)
                            /\ recvs[e] \in Nat
  BY DEF TypeOK, VerbsTypeOK

LEMMA CompleteEffect ==
  ASSUME TypeOK, NEW e \in Ends, NEW x, Complete(e, x)
  PROVE  /\ cq'[e] = Append(cq[e], x)
         /\ \A f \in Ends : f # e => cq'[f] = cq[f]
  BY DEF Complete, TypeOK, VerbsTypeOK

LEMMA ExecutedEffect ==
  ASSUME TypeOK, NEW e \in Ends, CanExecute(e), Executed(e)
  PROVE  /\ sq[e] # <<>> /\ Head(sq[e]) \in WorkRequests
         /\ qp["host"] = "up" /\ qp["naa"] = "up" /\ UNCHANGED qp
         /\ sq'[e] = Tail(sq[e])
         /\ unacked'[e] = Append(unacked[e], Head(sq[e]))
         /\ \A f \in Ends : f # e => sq'[f] = sq[f] /\ unacked'[f] = unacked[f]
         /\ Land(e, Head(sq[e]))
<1>1. sq[e] # <<>> /\ Head(sq[e]) \in WorkRequests
  BY DEF CanExecute, TypeOK, VerbsTypeOK
<1>2. qp["host"] = "up" /\ qp["naa"] = "up"
  BY DEF CanExecute, Ends, Peer
<1>3. /\ sq'[e] = Tail(sq[e])
      /\ unacked'[e] = Append(unacked[e], Head(sq[e]))
      /\ \A f \in Ends : f # e => sq'[f] = sq[f] /\ unacked'[f] = unacked[f]
  BY DEF Executed, TypeOK, VerbsTypeOK
<1> QED BY <1>1, <1>2, <1>3 DEF Executed

LEMMA WriteEffect ==
  ASSUME TypeOK, NEW e \in Ends, ExecuteWrite(e)
  PROVE  /\ CanExecute(e) /\ Executed(e)
         /\ Head(sq[e]).op = "WRITE"
         /\ UNCHANGED <<recvs, cq>>
  BY DEF ExecuteWrite

LEMMA ReceivedEffect ==
  ASSUME TypeOK, NEW e \in Ends, ExecuteReceived(e)
  PROVE  /\ CanExecute(e) /\ Executed(e)
         /\ Head(sq[e]).op \in {"SEND", "WRITE_IMM"}
         /\ Received(Head(sq[e])) \in Completions
         /\ cq'[Peer(e)] = Append(cq[Peer(e)], Received(Head(sq[e])))
         /\ cq'[e] = cq[e] /\ recvs'[e] = recvs[e]
         /\ recvs[Peer(e)] > 0 /\ recvs'[Peer(e)] = recvs[Peer(e)] - 1
<1> DEFINE wr == Head(sq[e])
           p == Peer(e)
<1>1. /\ CanExecute(e) /\ Executed(e) /\ wr.op # "WRITE"
      /\ recvs[p] > 0 /\ recvs' = [recvs EXCEPT ![p] = @ - 1]
      /\ Complete(p, Received(wr))
  BY DEF ExecuteReceived, Received
<1>2. wr \in WorkRequests
  BY <1>1, ExecutedEffect
<1>3. p \in Ends /\ p # e
  BY PeerType
<1> HIDE DEF wr, p
<1>4. Received(wr) \in Completions /\ wr.op \in {"SEND", "WRITE_IMM"}
  BY <1>1, <1>2 DEF WorkRequests, Completions, Received
<1>5. recvs'[e] = recvs[e] /\ recvs'[p] = recvs[p] - 1
  BY <1>1, <1>3 DEF TypeOK, VerbsTypeOK
<1>6. cq'[p] = Append(cq[p], Received(wr)) /\ cq'[e] = cq[e]
  BY <1>1, <1>3, CompleteEffect
<1> QED BY <1>1, <1>4, <1>5, <1>6 DEF wr, p

LEMMA CompletionOfSend ==
  ASSUME NEW wr \in WorkRequests, NEW ok \in BOOLEAN
  PROVE  /\ SendCompletion(wr, ok) \in Completions
         /\ SendCompletion(wr, ok).op \in {"SEND", "RDMA_WRITE"}
         /\ SendCompletion(wr, ok).op = "SEND" <=> wr.op = "SEND"
         /\ SendCompletion(wr, ok).ok = ok
         /\ SendCompletion(wr, ok).id = wr.id
  BY SendCompletionType DEF SendCompletion

LEMMA AcknowledgeEffect ==
  ASSUME TypeOK, NEW e \in Ends, Acknowledge(e)
  PROVE  LET x == SendCompletion(Head(unacked[e]), TRUE)
         IN /\ unacked[e] # <<>> /\ Head(unacked[e]) \in WorkRequests
            /\ x \in Completions
            /\ unacked'[e] = Tail(unacked[e])
            /\ cq'[e] = Append(cq[e], x)
            /\ \A f \in Ends : f # e => unacked'[f] = unacked[f] /\ cq'[f] = cq[f]
            /\ UNCHANGED <<mem, sq, recvs, qp>>
<1> DEFINE wr == Head(unacked[e])
           x == SendCompletion(wr, TRUE)
<1>1. /\ unacked[e] # <<>> /\ unacked' = [unacked EXCEPT ![e] = Tail(@)]
      /\ Complete(e, x)
      /\ UNCHANGED <<mem, sq, recvs, qp>>
  BY DEF Acknowledge
<1>2. wr \in WorkRequests
  BY <1>1 DEF TypeOK, VerbsTypeOK
<1>3. x \in Completions
  BY <1>2, CompletionOfSend
<1>4. /\ unacked'[e] = Tail(unacked[e])
      /\ \A f \in Ends : f # e => unacked'[f] = unacked[f]
  BY <1>1 DEF TypeOK, VerbsTypeOK
<1> HIDE DEF x
<1>5. /\ cq'[e] = Append(cq[e], x)
      /\ \A f \in Ends : f # e => cq'[f] = cq[f]
  BY <1>1, CompleteEffect
<1> QED BY <1>1, <1>2, <1>3, <1>4, <1>5 DEF x

(* A failure takes the queue pair down, for good.                          *)
LEMMA BreakEffect ==
  ASSUME TypeOK, NEW e \in Ends, FailSend(e) \/ FlushRecv(e)
  PROVE  /\ qp'[e] = "err"
         /\ \E x \in Completions :
              /\ cq'[e] = Append(cq[e], x) /\ x.op # "RECV_IMM"
              /\ \/ x.op \notin AnyReceive /\ UNCHANGED recvs
                 \/ /\ x.op \in AnyReceive
                    /\ recvs[e] > 0 /\ recvs'[e] = recvs[e] - 1
         /\ \A f \in Ends : f # e => cq'[f] = cq[f] /\ recvs'[f] = recvs[f]
         /\ UNCHANGED mem
<1>1. CASE FailSend(e)
  <2> DEFINE x == SendCompletion(Head(sq[e]), FALSE)
  <2>1. /\ sq[e] # <<>> /\ Complete(e, x) /\ UNCHANGED <<mem, recvs>>
        /\ qp' = [qp EXCEPT ![e] = "err"]
    BY <1>1 DEF FailSend
  <2>2. Head(sq[e]) \in WorkRequests
    BY <2>1 DEF TypeOK, VerbsTypeOK
  <2>3. x \in Completions /\ x.op \in {"SEND", "RDMA_WRITE"}
    BY <2>2, CompletionOfSend
  <2> HIDE DEF x
  <2>4. x.op \notin AnyReceive
    BY <2>3 DEF AnyReceive
  <2>5. /\ cq'[e] = Append(cq[e], x)
        /\ \A f \in Ends : f # e => cq'[f] = cq[f]
    BY <2>1, CompleteEffect
  <2>6. qp'[e] = "err"
    BY <2>1 DEF TypeOK, VerbsTypeOK
  <2> QED BY <2>1, <2>3, <2>4, <2>5, <2>6
<1>2. CASE FlushRecv(e)
  <2>1. /\ recvs[e] > 0 /\ recvs' = [recvs EXCEPT ![e] = @ - 1]
        /\ Complete(e, Flushed) /\ UNCHANGED mem
        /\ qp' = [qp EXCEPT ![e] = "err"]
    BY <1>2 DEF FlushRecv, Flushed
  <2>2. Flushed \in Completions /\ Flushed.op = "RECV" /\ "RECV" \in AnyReceive
    BY DEF Flushed, Completions, Messages, AnyReceive
  <2>3. /\ cq'[e] = Append(cq[e], Flushed)
        /\ \A f \in Ends : f # e => cq'[f] = cq[f]
    BY <2>1, CompleteEffect
  <2>4. /\ qp'[e] = "err" /\ recvs'[e] = recvs[e] - 1
        /\ \A f \in Ends : f # e => recvs'[f] = recvs[f]
    BY <2>1 DEF TypeOK, VerbsTypeOK
  <2> QED BY <2>1, <2>2, <2>3, <2>4
<1> QED BY <1>1, <1>2

-------------------------------------------------------------------------------
(* The worker does not touch what the host receives with.                  *)
LEMMA NaaKeepsReceives ==
  ASSUME TypeOK, NaaStep
  PROVE  recvs'["host"] = recvs["host"] /\ cq'["host"] = cq["host"]
<1>1. cq'["host"] = cq["host"]
  BY NaaKeepsHost
<1>2. CASE NaaStart \/ NaaReceive
  BY <1>2 DEF NaaStart, NaaReceive, PostRecv, TypeOK, VerbsTypeOK, Ends
<1>3. CASE NaaExit
  BY <1>3 DEF NaaExit, DestroyQp, TypeOK, VerbsTypeOK, Ends
<1>4. CASE \/ NaaGetEvent \/ NaaDrain \/ NaaDrained \/ NaaArm \/ RunRpc
           \/ NaaRespond \/ NaaTimeout \/ NaaNotices \/ NaaRemoval
  BY <1>1, <1>4 DEF NaaGetEvent, NaaDrain, NaaDrained, NaaArm, RunRpc, NaaRespond,
              NaaTimeout, NaaNotices, NaaRemoval, verbsVars
<1> QED BY <1>1, <1>2, <1>3, <1>4 DEF NaaStep, NaaThread, NaaPollStep

(* What the adapters may do to what the host receives with: nothing, add   *)
(* a completion that is no receive's, or complete a receive.               *)
LEMMA FabricReceives ==
  ASSUME TypeOK, NEW e \in Ends, Fabric(e) \/ FailSend(e) \/ FlushRecv(e)
  PROVE  \/ recvs'["host"] = recvs["host"] /\ cq'["host"] = cq["host"]
         \/ \E x \in Completions :
              /\ cq'["host"] = Append(cq["host"], x)
              /\ \/ x.op \notin AnyReceive /\ recvs'["host"] = recvs["host"]
                 \/ /\ x.op \in AnyReceive
                    /\ recvs["host"] > 0 /\ recvs'["host"] = recvs["host"] - 1
<1>0. e = "host" \/ e = "naa"
  BY DEF Ends
<1>1. CASE ExecuteWrite(e)
  BY <1>1, WriteEffect
<1>2. CASE ExecuteReceived(e)
  <2>1. CASE e = "host"
    BY <1>2, <2>1, ReceivedEffect
  <2>2. CASE e = "naa"
    <3> DEFINE x == Received(Head(sq["naa"]))
    <3>1. /\ x \in Completions /\ cq'["host"] = Append(cq["host"], x)
          /\ recvs["host"] > 0 /\ recvs'["host"] = recvs["host"] - 1
      BY <1>2, <2>2, ReceivedEffect DEF Peer
    <3>2. x.op \in AnyReceive
      BY DEF Received, AnyReceive
    <3> QED BY <3>1, <3>2
  <2> QED BY <1>0, <2>1, <2>2
<1>3. CASE Acknowledge(e)
  <2> DEFINE x == SendCompletion(Head(unacked[e]), TRUE)
  <2>1. /\ Head(unacked[e]) \in WorkRequests
        /\ x \in Completions
        /\ cq'[e] = Append(cq[e], x)
        /\ \A f \in Ends : f # e => cq'[f] = cq[f]
        /\ UNCHANGED recvs
    BY <1>3, AcknowledgeEffect
  <2>2. x.op \notin AnyReceive
    BY <2>1, CompletionOfSend DEF AnyReceive
  <2> HIDE DEF x
  <2> QED BY <1>0, <2>1, <2>2 DEF Ends
<1>4. CASE FailSend(e) \/ FlushRecv(e)
  BY <1>0, <1>4, BreakEffect DEF Ends
<1> QED BY <1>1, <1>2, <1>3, <1>4 DEF Fabric

LEMMA FabricResponse ==
  ASSUME TypeOK, ResponseInv, NEW e \in Ends,
         Fabric(e) \/ FailSend(e) \/ FlushRecv(e),
         UNCHANGED <<host_state, response_received, host_fncode>>
  PROVE  ResponseInv'
<1> DEFINE n == recvs["host"]
           q == cq["host"]
<1>1. n \in Nat /\ q \in Seq(Completions)
  BY HostReceives
<1>2. CASE recvs'["host"] = n /\ cq'["host"] = q
  BY <1>2, SameResponse DEF responseVars
<1>3. ASSUME NEW x \in Completions, cq'["host"] = Append(q, x),
             x.op \notin AnyReceive, recvs'["host"] = n
      PROVE  ResponseInv'
  <2>1. /\ Single(n, Append(q, x), response_received)
        /\ Has(Append(q, x), AnyReceive) <=> Has(q, AnyReceive)
    BY <1>1, <1>3, OtherArrives DEF ResponseInv
  <2> HIDE DEF n, q
  <2>2. NoResponse => NoResponse'
    BY <1>3, <2>1 DEF NoResponse, n, q
  <2> QED BY <1>3, <2>1, <2>2 DEF ResponseInv, InTransfer
<1>4. ASSUME NEW x \in Completions, cq'["host"] = Append(q, x),
             n > 0, recvs'["host"] = n - 1
      PROVE  ResponseInv'
  <2>1. Single(n - 1, Append(q, x), response_received)
    BY <1>1, <1>4, ReceiveArrives DEF ResponseInv
  <2>2. ~NoResponse
    BY <1>4 DEF NoResponse
  <2> HIDE DEF n, q
  <2> QED BY <1>4, <2>1, <2>2 DEF ResponseInv, InTransfer
<1>5. \/ recvs'["host"] = n /\ cq'["host"] = q
      \/ \E x \in Completions :
           /\ cq'["host"] = Append(q, x)
           /\ \/ x.op \notin AnyReceive /\ recvs'["host"] = n
              \/ x.op \in AnyReceive /\ n > 0 /\ recvs'["host"] = n - 1
  BY FabricReceives
<1> HIDE DEF n, q
<1> QED BY <1>2, <1>3, <1>4, <1>5

LEMMA ResponseNext ==
  TypeOK /\ ResponseInv /\ "retry" \notin Faults /\ [Next]_vars => ResponseInv'
<1> SUFFICES ASSUME TypeOK, ResponseInv, "retry" \notin Faults, [Next]_vars
             PROVE  ResponseInv'
  OBVIOUS
<1>1. CASE DoMrsp
  BY <1>1, DoMrspResponse
<1>2. CASE DoDataTransfer
  BY <1>2, DoDataTransferResponse
<1>3. CASE HostDrain
  BY <1>3, HandleResponse DEF HostDrain
<1>4. CASE HostBusy
  BY <1>4, HandleResponse DEF HostBusy
<1>5. CASE HostGetEvent \/ HostArm \/ HostDrained \/ HostTimeout \/ WaitAgain
  BY <1>5, SameResponse DEF HostGetEvent, HostArm, HostDrained, HostTimeout,
                            WaitAgain, verbsVars, responseVars
<1>6. CASE HostClose \/ WaitInterrupted
  <2>1. recvs'["host"] = 0 /\ cq'["host"] = <<>>
    BY <1>6 DEF HostClose, WaitInterrupted, DestroyQp, TypeOK, VerbsTypeOK, Ends
  <2>2. UNCHANGED <<host_state, response_received, host_fncode>>
    BY <1>6 DEF HostClose, WaitInterrupted
  <2>3. Single(recvs'["host"], cq'["host"], response_received')
    BY <2>1, HasNone DEF Single
  <2>4. NoResponse => NoResponse'
    BY <2>1, <2>2, HasNone DEF NoResponse
  <2> QED BY <2>2, <2>3, <2>4 DEF ResponseInv, InTransfer
<1>7. CASE Naa
  BY <1>7, NaaKeepsReceives, SameResponse DEF Naa, hostVars, responseVars
<1>8. ASSUME NEW e \in Ends, Carry(e) \/ Break(e) PROVE ResponseInv'
  BY <1>8, FabricResponse DEF Carry, Break, hostVars
<1>9. CASE UNCHANGED vars
  BY <1>9, SameResponse DEF vars, verbsVars, hostVars, responseVars
<1> QED BY <1>1, <1>2, <1>3, <1>4, <1>5, <1>6, <1>7, <1>8, <1>9
        DEF Next, Host, HostStep, HostPollStep

LEMMA ResponseInit == Init => ResponseInv
<1> SUFFICES ASSUME Init PROVE ResponseInv
  OBVIOUS
<1>1. recvs["host"] = 0 /\ cq["host"] = <<>> /\ response_received = FALSE
  BY DEF Init, HostInit, Ends
<1>2. host_fncode # 0
  BY HostAssumption DEF Init, HostInit
<1>3. Single(recvs["host"], cq["host"], response_received) /\ NoResponse
  BY <1>1, HasNone DEF Single, NoResponse
<1> QED BY <1>1, <1>2, <1>3 DEF ResponseInv

(* The response of a call is one thing in one of three places - a receive  *)
(* posted for it, its completion, the flag that it has come - and between  *)
(* calls, and once the host has told the NAA of its failure, in none.      *)
THEOREM OneResponse ==
  ASSUME "retry" \notin Faults
  PROVE  Spec => []ResponseInv
  BY ResponseInit, ResponseNext, TypeCorrect, PTL DEF Spec

-------------------------------------------------------------------------------
(***************************************************************************)
(* Where the application's thread is.                                      *)
(***************************************************************************)
AppInv ==
  /\ host_call = "none" => host_state = CONNECTED
  /\ host_call = "do_mrsp" =>
       host_state \in {MRSP_SENDING, MRSP_RECEIVING, MRSP_DONE}
  /\ host_call \in TransferCalls =>
       host_state \in {DATA_SENDING, DATA_RECEIVING, FINISHED}
  /\ host_pc = "app" /\ ~Waiting =>
       host_state \in {CONNECTED, MRSP_DONE, FINISHED}

LEMMA CallNames ==
  /\ "none" \notin TransferCalls /\ "do_mrsp" \notin TransferCalls
  BY HostAssumption

LEMMA AfterPollApp ==
  ASSUME HostTypeOK, NEW state,
         host_call = "none" => state = CONNECTED,
         host_call = "do_mrsp" =>
           state \in {MRSP_SENDING, MRSP_RECEIVING, MRSP_DONE},
         host_call \in TransferCalls =>
           state \in {DATA_SENDING, DATA_RECEIVING, FINISHED},
         "app" \in AfterPoll(state), ~Waiting
  PROVE  state \in {CONNECTED, MRSP_DONE, FINISHED}
<1>1. CallDone(state)
  BY DEF AfterPoll
<1> QED BY <1>1, CallNames
        DEF CallDone, HostTypeOK, CONNECTED, MRSP_SENDING, MRSP_RECEIVING,
            MRSP_DONE, DATA_SENDING, DATA_RECEIVING, FINISHED

(* A completion changes the state only within the call.                    *)
LEMMA HandleApp ==
  ASSUME TypeOK, AppInv, NEW c, NEW after, HostHandle(c, after),
         UNCHANGED host_call,
         after = {"drain"} \/ after = AfterPoll(host_state')
  PROVE  AppInv'
<1> USE DEF MRSP_SENDING, MRSP_RECEIVING, MRSP_DONE, DATA_SENDING,
            DATA_RECEIVING, FINISHED, CONNECTED
<1>1. HostTypeOK
  BY DEF TypeOK
<1>2. /\ host_call = "none" => host_state' = CONNECTED
      /\ host_call = "do_mrsp" =>
           host_state' \in {MRSP_SENDING, MRSP_RECEIVING, MRSP_DONE}
      /\ host_call \in TransferCalls =>
           host_state' \in {DATA_SENDING, DATA_RECEIVING, FINISHED}
  <2>1. CASE HostHandleMrsp(c)
    BY <2>1, CallNames DEF HostHandleMrsp, AppInv
  <2>2. CASE HostHandleData(c)
    <3>1. /\ host_state \in {DATA_SENDING, DATA_RECEIVING}
          /\ host_state' \in {host_state, FINISHED, DATA_RECEIVING}
      BY <2>2 DEF HostHandleData
    <3> QED BY <3>1 DEF AppInv
  <2>3. CASE HostReject(c)
    BY <2>3 DEF HostReject, AppInv
  <2> QED BY <2>1, <2>2, <2>3 DEF HostHandle
<1>3. host_pc' = "app" => "app" \in AfterPoll(host_state')
  BY DEF HostHandle
<1>4. host_pc' = "app" /\ ~Waiting =>
        host_state' \in {CONNECTED, MRSP_DONE, FINISHED}
  BY <1>1, <1>2, <1>3, AfterPollApp
<1> QED BY <1>2, <1>4 DEF AppInv, Waiting

LEMMA AppNext == TypeOK /\ AppInv /\ [Next]_vars => AppInv'
<1> SUFFICES ASSUME TypeOK, AppInv, [Next]_vars PROVE AppInv'
  OBVIOUS
<1> USE DEF MRSP_SENDING, MRSP_DONE, DATA_SENDING, CONNECTED
<1>0. HostTypeOK
  BY DEF TypeOK
<1>1. CASE DoMrsp
  BY <1>1, CallNames DEF DoMrsp, AppInv
<1>2. CASE DoDataTransfer
  <2>1. host_state' = DATA_SENDING /\ host_call' \in TransferCalls /\ host_pc' = "poll"
    BY <1>2 DEF DoDataTransfer, WriteData
  <2> QED BY <2>1, CallNames DEF AppInv
<1>3. CASE HostDrain
  BY <1>3, HandleApp DEF HostDrain
<1>4. CASE HostBusy
  BY <1>4, HandleApp DEF HostBusy
<1>5. CASE HostDrained
  <2>1. UNCHANGED <<host_call, host_state>> /\ host_pc' \in AfterPoll(host_state)
    BY <1>5 DEF HostDrained
  <2>2. host_pc' = "app" /\ ~Waiting => host_state \in {CONNECTED, MRSP_DONE, FINISHED}
    BY <1>0, <2>1, AfterPollApp DEF AppInv
  <2> QED BY <2>1, <2>2 DEF AppInv, Waiting
<1>6. CASE HostGetEvent \/ HostArm \/ HostTimeout \/ HostClose \/ WaitInterrupted
           \/ WaitAgain
  BY <1>6 DEF HostGetEvent, HostArm, HostTimeout, HostClose, WaitInterrupted,
              WaitAgain, AppInv, Waiting
<1>7. CASE Naa \/ UNCHANGED vars \/ \E e \in Ends : Carry(e) \/ Break(e)
  BY <1>7 DEF Naa, Carry, Break, vars, hostVars, AppInv, Waiting
<1> QED BY <1>1, <1>2, <1>3, <1>4, <1>5, <1>6, <1>7
        DEF Next, Host, HostStep, HostPollStep

LEMMA AppCorrect == Spec => []AppInv
<1>1. Init => AppInv
  BY CallNames DEF Init, HostInit, AppInv
<1> QED BY <1>1, AppNext, TypeCorrect, PTL DEF Spec

(* A call for which the host could not post its receive never returns      *)
(* success to the application, unless this waits with naa_wait, which      *)
(* does not look at the state.                                             *)
THEOREM ErrorIsNoSuccess ==
  ASSUME "retry" \notin Faults, "naa_wait" \notin TransferCalls
  PROVE  Spec => []HostErrorNotSuccess
<1>1. ResponseInv /\ AppInv => HostErrorNotSuccess
  <2> SUFFICES ASSUME ResponseInv, AppInv, host_fncode = 0, host_pc = "app",
                      host_call \in TransferCalls
               PROVE  FALSE
    BY DEF HostErrorNotSuccess
  <2>1. InTransfer
    BY DEF ResponseInv
  <2>2. host_state \in {CONNECTED, MRSP_DONE, FINISHED}
    BY DEF AppInv, Waiting
  <2> QED BY <2>1, <2>2 DEF InTransfer, CONNECTED, MRSP_DONE, FINISHED,
                            DATA_SENDING, DATA_RECEIVING
<1> QED BY <1>1, OneResponse, AppCorrect, PTL

===============================================================================
