------------------------- MODULE NaaiceExchangeProofs -------------------------
(***************************************************************************)
(* A call goes once around the link: request, kernel, answer.  While the   *)
(* connection is up and the application does not retry, at most one of the *)
(* two sides is at work, and what each needs of the other is in place:     *)
(* the kernel sees the inputs of its call, the application its results,    *)
(* and nothing is written while the application owns the regions.          *)
(***************************************************************************)
EXTENDS NaaiceResponseProofs

-------------------------------------------------------------------------------
(***************************************************************************)
(* More about queues: lists posted behind others, operations that only     *)
(* come last, regions still on their way.                                  *)
(***************************************************************************)
OnlyLast(q, ops) == \A i \in 1..Len(q) : q[i].op \in ops => i = Len(q)
InFlight(q, r) == \E i \in 1..Len(q) : q[i].mr = r

LEMMA ConcatElements ==
  ASSUME NEW S, NEW q \in Seq(S), NEW r \in Seq(S)
  PROVE  /\ Len(q \o r) = Len(q) + Len(r) /\ Len(q) \in Nat /\ Len(r) \in Nat
         /\ \A i \in 1..Len(q) : i \in 1..Len(q \o r) /\ (q \o r)[i] = q[i]
         /\ \A i \in 1..Len(r) : /\ Len(q) + i \in 1..Len(q \o r)
                                 /\ (q \o r)[Len(q) + i] = r[i]
         /\ \A i \in 1..Len(q \o r) :
              \/ i \in 1..Len(q)
              \/ /\ i - Len(q) \in 1..Len(r) /\ i \notin 1..Len(q)
                 /\ (q \o r)[i] = r[i - Len(q)]
<1>1. Len(q \o r) = Len(q) + Len(r) /\ Len(q) \in Nat /\ Len(r) \in Nat
  OBVIOUS
<1>2. \A i \in 1..Len(q) : i \in 1..Len(q \o r) /\ (q \o r)[i] = q[i]
  BY <1>1
<1>3. ASSUME NEW i \in 1..Len(r)
      PROVE  Len(q) + i \in 1..Len(q \o r) /\ (q \o r)[Len(q) + i] = r[i]
  BY <1>1
<1>4. ASSUME NEW i \in 1..Len(q \o r), i \notin 1..Len(q)
      PROVE  i - Len(q) \in 1..Len(r) /\ (q \o r)[i] = r[i - Len(q)]
  BY <1>1, <1>4
<1> QED BY <1>1, <1>2, <1>3, <1>4

LEMMA ConcatHas ==
  ASSUME NEW S, NEW q \in Seq(S), NEW r \in Seq(S), NEW ops
  PROVE  /\ Has(q \o r, ops) <=> Has(q, ops) \/ Has(r, ops)
         /\ ~Has(q, ops) /\ Once(r, ops) => Once(q \o r, ops)
         /\ ~Has(r, ops) /\ Once(q, ops) => Once(q \o r, ops)
         /\ ~Has(q, ops) /\ OnlyLast(r, ops) => OnlyLast(q \o r, ops)
<1> DEFINE c == q \o r
           n == Len(q)
<1>1. /\ Len(c) = n + Len(r) /\ n \in Nat /\ Len(r) \in Nat
      /\ \A i \in 1..n : i \in 1..Len(c) /\ c[i] = q[i]
      /\ \A i \in 1..Len(r) : n + i \in 1..Len(c) /\ c[n + i] = r[i]
      /\ \A i \in 1..Len(c) : \/ i \in 1..n
                              \/ /\ i - n \in 1..Len(r) /\ i \notin 1..n
                                 /\ c[i] = r[i - n]
  BY ConcatElements
<1>0. n = Len(q)
  OBVIOUS
<1> HIDE DEF c, n
<1>2. Has(c, ops) <=> Has(q, ops) \/ Has(r, ops)
  <2>1. Has(c, ops) => Has(q, ops) \/ Has(r, ops)
    <3>1. ASSUME NEW i \in 1..Len(c), c[i].op \in ops
          PROVE  Has(q, ops) \/ Has(r, ops)
      <4>1. CASE i \in 1..n
        BY <1>0, <1>1, <3>1, <4>1 DEF Has
      <4>2. CASE i - n \in 1..Len(r) /\ c[i] = r[i - n]
        BY <3>1, <4>2 DEF Has
      <4> QED BY <1>1, <4>1, <4>2
    <3> QED BY <3>1 DEF Has
  <2>2. Has(q, ops) => Has(c, ops)
    BY <1>0, <1>1 DEF Has
  <2>3. Has(r, ops) => Has(c, ops)
    <3>1. ASSUME NEW i \in 1..Len(r), r[i].op \in ops
          PROVE  Has(c, ops)
      <4>1. n + i \in 1..Len(c) /\ c[n + i] = r[i]
        BY <1>1
      <4> QED BY <3>1, <4>1 DEF Has
    <3> QED BY <3>1 DEF Has
  <2> QED BY <2>1, <2>2, <2>3
<1>3. ASSUME ~Has(q, ops), NEW i \in 1..Len(c), c[i].op \in ops
      PROVE  i - n \in 1..Len(r) /\ r[i - n].op \in ops
  <2>1. i \notin 1..n
    BY <1>0, <1>1, <1>3 DEF Has
  <2> QED BY <1>1, <1>3, <2>1
<1>4. ASSUME ~Has(r, ops), NEW i \in 1..Len(c), c[i].op \in ops
      PROVE  i \in 1..n /\ q[i].op \in ops
  <2>1. ~(i - n \in 1..Len(r) /\ c[i] = r[i - n])
    BY <1>4 DEF Has
  <2> QED BY <1>1, <1>4, <2>1
<1>5. ~Has(q, ops) /\ Once(r, ops) => Once(c, ops)
  <2>1. ASSUME ~Has(q, ops), Once(r, ops),
               NEW i \in 1..Len(c), NEW j \in 1..Len(c),
               c[i].op \in ops, c[j].op \in ops
        PROVE  i = j
    <3>1. i - n = j - n
      BY <1>3, <2>1 DEF Once
    <3> QED BY <1>1, <3>1
  <2> QED BY <2>1 DEF Once
<1>6. ~Has(r, ops) /\ Once(q, ops) => Once(c, ops)
  BY <1>0, <1>4 DEF Once
<1>7. ~Has(q, ops) /\ OnlyLast(r, ops) => OnlyLast(c, ops)
  <2>1. ASSUME ~Has(q, ops), OnlyLast(r, ops), NEW i \in 1..Len(c), c[i].op \in ops
        PROVE  i = Len(c)
    <3>1. i - n = Len(r)
      BY <1>3, <2>1 DEF OnlyLast
    <3> QED BY <1>1, <3>1
  <2> QED BY <2>1 DEF OnlyLast
<1> QED BY <1>2, <1>5, <1>6, <1>7 DEF c

LEMMA TailOnlyLast ==
  ASSUME NEW S, NEW q \in Seq(S), q # <<>>, NEW ops, OnlyLast(q, ops)
  PROVE  /\ OnlyLast(Tail(q), ops)
         /\ Head(q).op \in ops => Tail(q) = <<>>
<1> DEFINE t == Tail(q)
<1>1. /\ Len(t) = Len(q) - 1 /\ Len(q) \in Nat /\ Len(q) > 0
      /\ Head(q) = q[1]
      /\ \A i \in 1..Len(t) : t[i] = q[i + 1]
  OBVIOUS
<1>2. ASSUME Len(t) = 0 PROVE t = <<>>
  <2>1. t \in Seq(S)
    OBVIOUS
  <2> HIDE DEF t
  <2> QED BY <1>2, <2>1, EmptySeq
<1> HIDE DEF t
<1>3. 1 \in 1..Len(q)
  BY <1>1
<1>4. Head(q).op \in ops => Len(t) = 0
  <2>1. Head(q).op \in ops => 1 = Len(q)
    BY <1>1, <1>3 DEF OnlyLast
  <2> QED BY <1>1, <2>1
<1>5. \A i \in 1..Len(t) : i + 1 \in 1..Len(q) /\ i \in Int
  BY <1>1
<1>6. ASSUME NEW i \in 1..Len(t), t[i].op \in ops PROVE i = Len(t)
  <2>1. i + 1 = Len(q)
    BY <1>1, <1>5, <1>6 DEF OnlyLast
  <2> QED BY <1>1, <1>5, <2>1
<1>7. OnlyLast(t, ops)
  BY <1>6 DEF OnlyLast
<1> QED BY <1>2, <1>4, <1>7 DEF t

LEMMA TailInFlight ==
  ASSUME NEW S, NEW q \in Seq(S), q # <<>>, NEW r, InFlight(q, r)
  PROVE  InFlight(Tail(q), r) \/ Head(q).mr = r
<1> DEFINE t == Tail(q)
<1>1. /\ Len(t) = Len(q) - 1 /\ Len(q) \in Nat /\ Len(q) > 0
      /\ Head(q) = q[1]
      /\ \A i \in 1..Len(t) : t[i] = q[i + 1]
  OBVIOUS
<1> HIDE DEF t
<1>2. PICK i \in 1..Len(q) : q[i].mr = r
  BY DEF InFlight
<1>3. CASE i # 1
  <2>1. i - 1 \in 1..Len(t) /\ (i - 1) + 1 = i
    BY <1>1, <1>3
  <2>2. t[i - 1] = q[i]
    BY <1>1, <2>1
  <2> QED BY <1>2, <2>1, <2>2 DEF InFlight, t
<1> QED BY <1>1, <1>2, <1>3

LEMMA ConcatInFlight ==
  ASSUME NEW S, NEW q \in Seq(S), NEW s \in Seq(S), NEW r, InFlight(s, r)
  PROVE  InFlight(q \o s, r)
<1>1. PICK i \in 1..Len(s) : s[i].mr = r
  BY DEF InFlight
<1>2. Len(q) + i \in 1..Len(q \o s) /\ (q \o s)[Len(q) + i] = s[i]
  BY ConcatElements
<1> QED BY <1>1, <1>2 DEF InFlight

-------------------------------------------------------------------------------
(***************************************************************************)
(* Neither side starts again what it has given up: the application does    *)
(* not retry and the worker does not time out.                             *)
(***************************************************************************)
Persistent == "retry" \notin Faults /\ "naa_timeout" \notin NaaFaults

(* The connection is up, and the host has not told the NAA of a failure.   *)
(* Once this is lost it is lost for good.                                  *)
Alive == qp["host"] = "up" /\ qp["naa"] = "up" /\ host_fncode # 0

HostWaits == HostGetEvent \/ HostArm \/ HostDrained \/ HostTimeout \/ WaitAgain

NaaWorks == NaaStart \/ NaaReceive \/ NaaPollStep \/ RunRpc \/ NaaRespond
            \/ NaaNotices

\* A worker that gives up in its cleanup leaves the connection as it is.
NaaLeaves == NaaExit /\ UNCHANGED verbsVars

LEMMA DestroyEnds ==
  ASSUME TypeOK, NEW e \in Ends, DestroyQp(e)
  PROVE  qp'[e] = "gone"
  BY DEF DestroyQp, TypeOK, VerbsTypeOK

(* The steps that leave the link alive.                                    *)
LEMMA LiveSteps ==
  ASSUME TypeOK, Persistent, [Next]_vars, Alive'
  PROVE  /\ Alive
         /\ \/ /\ DoMrsp \/ DoDataTransfer \/ HostDrain \/ HostBusy \/ HostWaits
               /\ UNCHANGED naaVars
            \/ NaaWorks /\ UNCHANGED hostVars
            \/ NaaLeaves /\ UNCHANGED hostVars
            \/ \E e \in Ends : Fabric(e) /\ UNCHANGED <<hostVars, naaVars>>
            \/ UNCHANGED vars
<1> USE DEF Alive
<1>0. "host" \in Ends /\ "naa" \in Ends
  BY DEF Ends
<1>1. CASE HostClose \/ WaitInterrupted
  BY <1>0, <1>1, DestroyEnds DEF HostClose, WaitInterrupted
<1>2. CASE NaaExit /\ UNCHANGED hostVars
  <2>1. ~DestroyQp("naa")
    BY <1>0, DestroyEnds
  <2>2. /\ UNCHANGED <<mem, armed, sq, unacked, recvs, cq, evts>>
        /\ qp' \in {qp, [qp EXCEPT !["naa"] = "err"]}
    BY <1>2, <2>1 DEF NaaExit
  <2>3. qp' = qp
    BY <1>0, <2>2 DEF TypeOK, VerbsTypeOK
  <2> QED BY <1>2, <2>2, <2>3 DEF NaaLeaves, verbsVars, hostVars
<1>3. CASE NaaRemoval
  BY <1>0, <1>3 DEF NaaRemoval, TypeOK, VerbsTypeOK
<1>4. ASSUME NEW e \in Ends, FailSend(e) \/ FlushRecv(e) PROVE FALSE
  <2>1. qp'[e] = "err"
    BY <1>4, BreakEffect
  <2> QED BY <2>1 DEF Ends
<1>5. CASE NaaTimeout
  BY <1>5 DEF NaaTimeout, Persistent
<1>6. CASE DoDataTransfer /\ UNCHANGED naaVars
  <2>1. UNCHANGED qp /\ \E posted \in Outcomes("post_recv") :
                           host_fncode' = IF posted THEN host_fncode ELSE 0
    BY <1>6 DEF DoDataTransfer
  <2>2. host_fncode # 0
    BY <2>1
  <2> QED BY <1>6, <2>1, <2>2
<1>7. CASE /\ DoMrsp \/ HostDrain \/ HostBusy \/ HostWaits
           /\ UNCHANGED naaVars
  BY <1>7 DEF DoMrsp, HostDrain, HostBusy, HostWaits, HostGetEvent, HostArm,
              HostDrained, HostTimeout, WaitAgain, verbsVars
<1>8. CASE NaaWorks /\ UNCHANGED hostVars
  BY <1>8 DEF NaaWorks, NaaStart, NaaReceive, NaaPollStep, NaaGetEvent,
              NaaDrain, NaaDrained, NaaArm, RunRpc, NaaRespond, NaaNotices,
              verbsVars, hostVars
<1>9. ASSUME NEW e \in Ends, Fabric(e), UNCHANGED <<hostVars, naaVars>>
      PROVE  Alive
  <2>1. UNCHANGED qp
    BY <1>9 DEF Fabric, ExecuteWrite, ExecuteReceived, Acknowledge, Executed
  <2> QED BY <1>9, <2>1 DEF hostVars
<1>10. CASE UNCHANGED vars
  BY <1>10 DEF vars, verbsVars, hostVars
<1>11. CASE Host
  BY <1>1, <1>6, <1>7, <1>11 DEF Host, HostStep, HostPollStep, HostWaits
<1>12. CASE Naa
  BY <1>2, <1>3, <1>5, <1>8, <1>12 DEF Naa, NaaStep, NaaThread, NaaWorks
<1>13. ASSUME NEW e \in Ends, Carry(e) \/ Break(e)
       PROVE  /\ Fabric(e) /\ UNCHANGED <<hostVars, naaVars>>
              /\ Alive
  BY <1>4, <1>9, <1>13 DEF Carry, Break
<1> QED BY <1>10, <1>11, <1>12, <1>13 DEF Next

-------------------------------------------------------------------------------
(***************************************************************************)
(* What is in the queues while the link is alive: the host writes only     *)
(* regions flagged for this call and starts it with a nonzero immediate,   *)
(* the worker writes only output regions (none with an error code).        *)
(***************************************************************************)
AnyWrite == {"WRITE", "WRITE_IMM"}

RegionsOf(rs) == {rs[i] : i \in 1..Len(rs)}
Flagged == RegionsOf(to_write)

HostRequests(flagged, k) ==
  {wr \in WorkRequests :
     /\ wr.op = "SEND" => wr.mr = NoRegion
     /\ wr.op \in AnyWrite => wr.mr \in flagged
     /\ wr.op = "WRITE_IMM" => wr.imm # 0 /\ wr.call = k}

NaaRequests ==
  {wr \in WorkRequests :
     /\ wr.op = "SEND" => wr.mr = NoRegion
     /\ wr.op \in AnyWrite => wr.mr \in OutputRegions \cup {NoRegion}}

NaaCompletions ==
  {c \in Completions : c.ok /\ (c.op = "RECV_IMM" => c.imm # 0)}

ShapeInv ==
  /\ sq["host"] \in Seq(HostRequests(Flagged, no_rpc_calls))
  /\ OnlyLast(sq["host"], {"WRITE_IMM"})
  /\ sq["naa"] \in Seq(NaaRequests)
  /\ cq["naa"] \in Seq(NaaCompletions)
  /\ to_write = IF no_rpc_calls > 1 THEN RepeatInputs ELSE Inputs

shapeVars == <<sq["host"], sq["naa"], cq["naa"], to_write, no_rpc_calls>>

LEMMA SameShape == ShapeInv /\ UNCHANGED shapeVars => ShapeInv'
  BY DEF shapeVars, ShapeInv, Flagged

LEMMA SubRequests ==
  /\ \A f, k : HostRequests(f, k) \subseteq WorkRequests
  /\ NaaRequests \subseteq WorkRequests
  /\ NaaCompletions \subseteq Completions
  BY DEF HostRequests, NaaRequests, NaaCompletions

LEMMA NoWriteHas ==
  ASSUME NEW q, Writes(q) = {}
  PROVE  ~Has(q, AnyWrite) /\ ~Has(q, {"WRITE_IMM"}) /\ ~Has(q, {"RDMA_WRITE"})
<1>1. \A i \in 1..Len(q) : ~IsWrite(q[i])
  BY DEF Writes
<1> QED BY <1>1 DEF Has, IsWrite, AnyWrite

(* A prefix of a list is of the same shape.                                *)
LEMMA AcceptedShape ==
  ASSUME NEW S, NEW wrs \in Seq(S), NEW mayFail,
         NEW r \in Accepted(wrs, mayFail), OnlyLast(wrs, {"WRITE_IMM"})
  PROVE  r \in Seq(S) /\ OnlyLast(r, {"WRITE_IMM"})
<1>1. /\ r \in Seq(S) /\ Len(r) <= Len(wrs)
      /\ \A i \in 1..Len(r) : r[i] = wrs[i]
  BY AcceptedElements
<1>2. Len(r) \in Nat /\ Len(wrs) \in Nat
  BY <1>1
<1>3. ASSUME NEW i \in 1..Len(r), r[i].op \in {"WRITE_IMM"} PROVE i = Len(r)
  <2>1. i \in 1..Len(wrs) /\ wrs[i].op \in {"WRITE_IMM"}
    BY <1>1, <1>2, <1>3
  <2>2. i = Len(wrs)
    BY <2>1 DEF OnlyLast
  <2> QED BY <1>1, <1>2, <2>2
<1> QED BY <1>1, <1>3 DEF OnlyLast

LEMMA WriteListShape ==
  ASSUME NEW rs \in Seq(Regions), NEW imm \in Nat, imm # 0, NEW k \in Nat
  PROVE  /\ WriteList(rs, imm, k) \in Seq(HostRequests(RegionsOf(rs), k))
         /\ OnlyLast(WriteList(rs, imm, k), {"WRITE_IMM"})
<1> DEFINE list == WriteList(rs, imm, k)
           S == HostRequests(RegionsOf(rs), k)
<1>1. list \in Seq(WorkRequests)
  BY VerbsAssumption, WriteListType
<1>2. Len(list) = Len(rs) /\ Len(rs) \in Nat
  BY DEF WriteList
<1>3. ASSUME NEW i \in 1..Len(rs)
      PROVE  /\ list[i].op = IF i = Len(rs) THEN "WRITE_IMM" ELSE "WRITE"
             /\ list[i].mr = rs[i] /\ list[i].call = k
             /\ i = Len(rs) => list[i].imm = imm
             /\ rs[i] \in RegionsOf(rs)
  BY DEF WriteList, WriteRequest, CarriesImmediate, RegionsOf
<1>4. ASSUME NEW i \in 1..Len(rs) PROVE list[i] \in S
  <2>1. list[i] \in WorkRequests
    BY <1>1, <1>2
  <2> HIDE DEF list
  <2> QED BY <1>3, <2>1 DEF HostRequests
<1>5. ASSUME NEW i \in 1..Len(rs), list[i].op \in {"WRITE_IMM"}
      PROVE  i = Len(rs)
  <2> HIDE DEF list
  <2> QED BY <1>3, <1>5
<1>6. list \in Seq(S)
  <2> HIDE DEF list, S
  <2> QED BY <1>1, <1>2, <1>4
<1> HIDE DEF list
<1> QED BY <1>2, <1>5, <1>6 DEF OnlyLast, list

LEMMA ImmediateNonzero == Immediate \in Nat /\ Immediate # 0
<1>1. Fncode \in Nat /\ UserImm \in Nat
  BY HostAssumption
<1> QED BY <1>1 DEF Immediate, START_RPC_MASK

LEMMA MessageShape ==
  ASSUME NEW msg \in Messages
  PROVE  LET m == [op |-> "SEND", id |-> 0, mr |-> NoRegion, imm |-> 0,
                   msg |-> msg, call |-> 0]
         IN m \in NaaRequests /\ \A f, k : m \in HostRequests(f, k)
  BY DEF NaaRequests, HostRequests, WorkRequests, AnyWrite, NoRegion

(* Posting at either end.                                                  *)
LEMMA PostSendEffect ==
  ASSUME TypeOK, NEW e \in Ends, NEW wrs, PostSend(e, wrs)
  PROVE  /\ sq'[e] = sq[e] \o wrs
         /\ \A f \in Ends : f # e => sq'[f] = sq[f]
  BY DEF PostSend, TypeOK, VerbsTypeOK

LEMMA DoMrspShape ==
  ASSUME TypeOK, HostOrder, ShapeInv, DoMrsp
  PROVE  ShapeInv'
<1> DEFINE S == HostRequests(Flagged, no_rpc_calls)
           list == <<AnnounceAndRequest>>
<1>1. PICK wrs \in HostAccepted(list) : PostSend("host", wrs)
  BY DEF DoMrsp
<1>2. list \in Seq(S) /\ OnlyLast(list, {"WRITE_IMM"})
  <2>1. AnnounceAndRequest \in S
    BY MessageShape DEF AnnounceAndRequest, Messages
  <2> HIDE DEF S
  <2> QED BY <2>1 DEF AnnounceAndRequest, OnlyLast
<1>3. ~Has(sq["host"], {"WRITE_IMM"})
  <2>1. ~InTransfer
    BY DEF DoMrsp, InTransfer, CONNECTED, DATA_SENDING, DATA_RECEIVING
  <2> QED BY <2>1, Quiet, NoWriteHas
<1>4. /\ sq'["host"] = sq["host"] \o wrs /\ sq'["naa"] = sq["naa"]
      /\ UNCHANGED <<cq, to_write, no_rpc_calls>>
  BY <1>1, PostSendEffect DEF DoMrsp, Ends
<1> HIDE DEF S, list
<1>5. wrs \in Seq(S) /\ OnlyLast(wrs, {"WRITE_IMM"})
  BY <1>1, <1>2, AcceptedShape DEF HostAccepted
<1>6. sq["host"] \in Seq(S)
  BY DEF ShapeInv, S
<1>7. OnlyLast(sq["host"] \o wrs, {"WRITE_IMM"}) /\ sq["host"] \o wrs \in Seq(S)
  BY <1>3, <1>5, <1>6, ConcatHas
<1> QED BY <1>4, <1>7 DEF ShapeInv, Flagged, S

(* Without writes the requests are those of any call.                      *)
LEMMA OtherRequests ==
  ASSUME NEW f, NEW k, NEW q \in Seq(HostRequests(f, k)), Writes(q) = {},
         NEW f2, NEW k2
  PROVE  q \in Seq(HostRequests(f2, k2))
<1> DEFINE S == HostRequests(f, k)
           S2 == HostRequests(f2, k2)
<1>1. \A i \in 1..Len(q) : q[i] \in S /\ ~IsWrite(q[i])
  BY DEF Writes
<1>2. \A i \in 1..Len(q) : q[i] \in S2
  BY <1>1 DEF HostRequests, IsWrite, AnyWrite
<1> HIDE DEF S, S2
<1>3. q \in Seq(S)
  BY DEF S
<1>4. q \in Seq(S2)
  BY <1>2, <1>3
<1> QED BY <1>4 DEF S2

LEMMA DoDataTransferShape ==
  ASSUME TypeOK, HostOrder, ShapeInv, DoDataTransfer, "retry" \notin Faults,
         Alive'
  PROVE  ShapeInv'
<1> DEFINE k == no_rpc_calls + 1
           S == HostRequests(Flagged', k)
           list == WriteList(to_write', Immediate, k)
<1>1. k \in Nat /\ no_rpc_calls \in Nat
  BY DEF TypeOK, HostTypeOK
<1>2. WriteData(host_fncode', k) /\ host_fncode' # 0 /\ no_rpc_calls' = k
  BY DEF DoDataTransfer, Alive
<1>3. /\ to_write' = IF no_rpc_calls > 0 THEN RepeatInputs ELSE to_write
      /\ \E wrs \in HostAccepted(list) : PostSend("host", wrs)
  BY <1>2 DEF WriteData, Dropped
<1>4. to_write' = IF k > 1 THEN RepeatInputs ELSE Inputs
  BY <1>1, <1>3 DEF ShapeInv
<1>5. to_write' \in Seq(Regions)
  BY <1>4, HostAssumption
<1>6. list \in Seq(S) /\ OnlyLast(list, {"WRITE_IMM"})
  BY <1>1, <1>5, WriteListShape, ImmediateNonzero DEF Flagged
<1>7. PICK wrs \in HostAccepted(list) : PostSend("host", wrs)
  BY <1>3
<1>8. /\ sq'["host"] = sq["host"] \o wrs /\ sq'["naa"] = sq["naa"]
      /\ UNCHANGED cq
  BY <1>7, PostSendEffect DEF DoDataTransfer, Ends
<1>9. Writes(sq["host"]) = {}
  <2>1. ~InTransfer
    BY DEF DoDataTransfer, MayCall, InTransfer, MRSP_DONE, FINISHED,
           DATA_SENDING, DATA_RECEIVING
  <2> QED BY <2>1, Quiet
<1>10. sq["host"] \in Seq(S) /\ ~Has(sq["host"], {"WRITE_IMM"})
  BY <1>9, OtherRequests, NoWriteHas DEF ShapeInv
<1> HIDE DEF S, list, k
<1>11. wrs \in Seq(S) /\ OnlyLast(wrs, {"WRITE_IMM"})
  BY <1>6, <1>7, AcceptedShape DEF HostAccepted
<1>12. OnlyLast(sq["host"] \o wrs, {"WRITE_IMM"}) /\ sq["host"] \o wrs \in Seq(S)
  BY <1>10, <1>11, ConcatHas
<1> QED BY <1>2, <1>4, <1>8, <1>12 DEF ShapeInv, S

LEMMA NaaPostShape ==
  ASSUME TypeOK, ShapeInv, NEW list \in Seq(NaaRequests),
         NEW wrs \in NaaAccepted(list), PostSend("naa", wrs)
  PROVE  sq'["naa"] \in Seq(NaaRequests) /\ sq'["host"] = sq["host"]
<1>1. sq'["naa"] = sq["naa"] \o wrs /\ sq'["host"] = sq["host"]
  BY PostSendEffect DEF Ends
<1>2. wrs \in Seq(NaaRequests)
  BY AcceptedElements DEF NaaAccepted
<1> QED BY <1>1, <1>2 DEF ShapeInv

LEMMA ResponseListShape ==
  ASSUME NaaTypeOK
  PROVE  ResponseList \in Seq(NaaRequests)
<1>1. CASE naa_errorcode # 0
  <2> DEFINE wr == [op |-> "WRITE_IMM", id |-> 1, mr |-> NoRegion,
                    imm |-> naa_errorcode, msg |-> "none", call |-> naa_serving]
  <2>1. wr \in NaaRequests
    BY DEF NaaTypeOK, NaaRequests, WorkRequests, Messages, NoRegion
  <2>2. ResponseList = <<wr>>
    BY <1>1 DEF ResponseList
  <2> HIDE DEF wr
  <2> QED BY <2>1, <2>2
<1>2. CASE naa_errorcode = 0
  <2> DEFINE n == no_output_mrs
             wr(i) == [op |-> IF RespondsWith(i) THEN "WRITE_IMM" ELSE "WRITE",
                       id |-> i, mr |-> Outputs[i], imm |-> 0, msg |-> "none",
                       call |-> naa_serving]
  <2>1. n \in Nat
    BY WorkerAssumption DEF no_output_mrs
  <2>2. ASSUME NEW i \in 1..n PROVE wr(i) \in NaaRequests
    <3>1. Outputs[i] \in OutputRegions /\ Outputs[i] \in Regions /\ i \in Nat
      BY <2>1, WorkerAssumption DEF OutputRegions, no_output_mrs
    <3>2. wr(i) \in WorkRequests
      BY <3>1 DEF NaaTypeOK, WorkRequests, Messages
    <3>3. wr(i).mr \in OutputRegions /\ wr(i).op # "SEND"
      BY <3>1
    <3> HIDE DEF wr
    <3> QED BY <3>2, <3>3 DEF NaaRequests
  <2>3. ResponseList = [i \in 1..n |-> wr(i)]
    BY <1>2 DEF ResponseList
  <2> HIDE DEF wr, n
  <2> QED BY <2>1, <2>2, <2>3
<1> QED BY <1>1, <1>2

LEMMA NaaWorksShape ==
  ASSUME TypeOK, ShapeInv, NaaWorks, UNCHANGED hostVars
  PROVE  ShapeInv'
<1>1. UNCHANGED <<to_write, no_rpc_calls>>
  BY DEF hostVars
<1>2. ASSUME NEW msg \in {"A", "ERR"}, PostMessage(msg)
      PROVE  sq'["naa"] \in Seq(NaaRequests) /\ sq'["host"] = sq["host"]
  <2> DEFINE m == [op |-> "SEND", id |-> 0, mr |-> NoRegion, imm |-> 0,
                   msg |-> msg, call |-> 0]
  <2>1. m \in NaaRequests
    BY MessageShape DEF Messages
  <2>2. PICK wrs \in NaaAccepted(<<m>>) : PostSend("naa", wrs)
    BY <1>2 DEF PostMessage
  <2> HIDE DEF m
  <2>3. <<m>> \in Seq(NaaRequests)
    BY <2>1
  <2> QED BY <2>2, <2>3, NaaPostShape
<1>3. CASE NaaDrain
  <2>1. cq["naa"] # <<>> /\ cq'["naa"] = Tail(cq["naa"])
    BY <1>3 DEF NaaDrain, PollCq, TypeOK, VerbsTypeOK, Ends
  <2>2. cq'["naa"] \in Seq(NaaCompletions)
    BY <2>1 DEF ShapeInv
  <2>3. sq'["naa"] \in Seq(NaaRequests) /\ sq'["host"] = sq["host"]
    <3>1. CASE sq' = sq
      BY <3>1 DEF ShapeInv
    <3>2. CASE \E msg \in {"A", "ERR"} : PostMessage(msg)
      BY <1>2, <3>2
    <3> QED BY <1>3, <3>1, <3>2
            DEF NaaDrain, NaaHandleAnnounce, NaaHandleAnswered, NaaHandleData,
                NaaHandleWritten, NaaReject
  <2> QED BY <1>1, <2>2, <2>3 DEF ShapeInv, Flagged
<1>4. CASE NaaRespond
  <2>1. sq'["naa"] \in Seq(NaaRequests) /\ sq'["host"] = sq["host"]
    BY <1>4, NaaPostShape, ResponseListShape DEF NaaRespond, TypeOK
  <2> QED BY <1>1, <1>4, <2>1 DEF ShapeInv, Flagged, NaaRespond
<1>5. CASE NaaStart \/ NaaReceive \/ NaaGetEvent \/ NaaDrained \/ NaaArm
           \/ RunRpc \/ NaaNotices
  BY <1>1, <1>5, SameShape
     DEF NaaStart, NaaReceive, NaaGetEvent, NaaDrained, NaaArm, RunRpc,
         NaaNotices, verbsVars, shapeVars
<1> QED BY <1>3, <1>4, <1>5 DEF NaaWorks, NaaPollStep

(* The two ways a queue moves, for elements of any kind.                   *)
LEMMA QueueMoves ==
  ASSUME NEW S, NEW q \in Seq(S)
  PROVE  /\ \A x \in S : Append(q, x) \in Seq(S)
         /\ q # <<>> => Tail(q) \in Seq(S) /\ Head(q) \in S
  OBVIOUS

LEMMA FabricShape ==
  ASSUME TypeOK, ShapeInv, NEW e \in Ends, Fabric(e), UNCHANGED hostVars
  PROVE  ShapeInv'
<1> DEFINE S == HostRequests(Flagged, no_rpc_calls)
<1>1. UNCHANGED <<to_write, no_rpc_calls>>
  BY DEF hostVars
<1>2. ASSUME Executed(e), CanExecute(e)
      PROVE  /\ sq'["host"] \in Seq(S) /\ OnlyLast(sq'["host"], {"WRITE_IMM"})
             /\ sq'["naa"] \in Seq(NaaRequests)
  <2>1. /\ sq[e] # <<>> /\ sq'[e] = Tail(sq[e])
        /\ \A f \in Ends : f # e => sq'[f] = sq[f]
    BY <1>2, ExecutedEffect
  <2>2. CASE e = "host"
    <3>1. OnlyLast(Tail(sq["host"]), {"WRITE_IMM"})
      BY <2>1, <2>2, TailOnlyLast DEF ShapeInv
    <3>2. Tail(sq["host"]) \in Seq(S)
      <4> HIDE DEF S
      <4> QED BY <2>1, <2>2 DEF ShapeInv, S
    <3> QED BY <2>1, <2>2, <3>1, <3>2 DEF ShapeInv, Ends
  <2>3. CASE e = "naa"
    <3>1. Tail(sq["naa"]) \in Seq(NaaRequests)
      BY <2>1, <2>3, QueueMoves DEF ShapeInv
    <3>2. sq'["naa"] = Tail(sq["naa"]) /\ sq'["host"] = sq["host"]
      BY <2>1, <2>3 DEF Ends
    <3> QED BY <3>1, <3>2 DEF ShapeInv
  <2> QED BY <2>2, <2>3 DEF Ends
<1>3. CASE ExecuteWrite(e)
  <2>1. UNCHANGED cq /\ Executed(e) /\ CanExecute(e)
    BY <1>3, WriteEffect
  <2> QED BY <1>1, <1>2, <2>1 DEF ShapeInv, Flagged
<1>4. CASE ExecuteReceived(e)
  <2> DEFINE wr == Head(sq[e])
  <2>1. /\ Executed(e) /\ CanExecute(e)
        /\ Received(wr) \in Completions
        /\ cq'[Peer(e)] = Append(cq[Peer(e)], Received(wr))
        /\ cq'[e] = cq[e]
        /\ sq[e] # <<>> /\ wr.op \in {"SEND", "WRITE_IMM"}
    BY <1>4, ReceivedEffect, ExecutedEffect
  <2>2. cq'["naa"] \in Seq(NaaCompletions)
    <3>1. CASE e = "host"
      <4>1. wr \in S
        <5> HIDE DEF S
        <5> QED BY <2>1, <3>1 DEF ShapeInv, S
      <4>2. wr.op = "WRITE_IMM" => wr.imm # 0
        BY <4>1 DEF HostRequests
      <4>3. Received(wr) \in NaaCompletions
        BY <2>1, <4>2 DEF NaaCompletions, Received
      <4>4. cq'["naa"] = Append(cq["naa"], Received(wr))
        BY <2>1, <3>1 DEF Peer
      <4> HIDE DEF wr
      <4> QED BY <4>3, <4>4, QueueMoves DEF ShapeInv
    <3>2. CASE e = "naa"
      BY <2>1, <3>2 DEF ShapeInv
    <3> QED BY <3>1, <3>2 DEF Ends
  <2> QED BY <1>1, <1>2, <2>1, <2>2 DEF ShapeInv, Flagged
<1>5. CASE Acknowledge(e)
  <2> DEFINE x == SendCompletion(Head(unacked[e]), TRUE)
  <2>1. /\ Head(unacked[e]) \in WorkRequests /\ x \in Completions
        /\ cq'[e] = Append(cq[e], x)
        /\ \A f \in Ends : f # e => cq'[f] = cq[f]
        /\ UNCHANGED sq
    BY <1>5, AcknowledgeEffect
  <2>2. x \in NaaCompletions
    BY <2>1, CompletionOfSend DEF NaaCompletions
  <2> HIDE DEF x
  <2>3. cq'["naa"] \in Seq(NaaCompletions)
    <3>1. CASE e = "naa"
      BY <2>1, <2>2, <3>1, QueueMoves DEF ShapeInv
    <3>2. CASE e = "host"
      BY <2>1, <3>2 DEF ShapeInv, Ends
    <3> QED BY <3>1, <3>2 DEF Ends
  <2> QED BY <1>1, <2>1, <2>3 DEF ShapeInv, Flagged
<1> QED BY <1>3, <1>4, <1>5 DEF Fabric

LEMMA ShapeNext ==
  ASSUME TypeOK, HostOrder, Persistent, Alive => ShapeInv, [Next]_vars
  PROVE  (Alive => ShapeInv)'
<1> SUFFICES ASSUME Alive' PROVE ShapeInv'
  OBVIOUS
<1>1. Alive /\ ShapeInv
  BY LiveSteps
<1>2. CASE DoMrsp
  BY <1>1, <1>2, DoMrspShape
<1>3. CASE DoDataTransfer
  BY <1>1, <1>3, DoDataTransferShape DEF Persistent
<1>4. CASE HostDrain \/ HostBusy
  <2>1. cq'["naa"] = cq["naa"]
    BY <1>4 DEF HostDrain, HostBusy, PollCq, TypeOK, VerbsTypeOK, Ends
  <2> QED BY <1>1, <1>4, <2>1, SameShape DEF HostDrain, HostBusy, shapeVars
<1>5. CASE HostWaits
  BY <1>1, <1>5, SameShape DEF HostWaits, HostGetEvent, HostArm, HostDrained,
        HostTimeout, WaitAgain, verbsVars, shapeVars
<1>6. CASE NaaWorks /\ UNCHANGED hostVars
  BY <1>1, <1>6, NaaWorksShape
<1>7. ASSUME NEW e \in Ends, Fabric(e), UNCHANGED <<hostVars, naaVars>>
      PROVE  ShapeInv'
  BY <1>1, <1>7, FabricShape
<1>8. CASE UNCHANGED vars \/ (NaaLeaves /\ UNCHANGED hostVars)
  BY <1>1, <1>8, SameShape DEF vars, NaaLeaves, verbsVars, hostVars, shapeVars
<1> QED BY <1>2, <1>3, <1>4, <1>5, <1>6, <1>7, <1>8, LiveSteps

LEMMA ShapeInit == Init => ShapeInv
<1> SUFFICES ASSUME Init PROVE ShapeInv
  OBVIOUS
<1>1. /\ sq["host"] = <<>> /\ sq["naa"] = <<>> /\ cq["naa"] = <<>>
      /\ to_write = Inputs /\ no_rpc_calls = 0
  BY DEF Init, HostInit, Ends
<1> QED BY <1>1 DEF ShapeInv, OnlyLast

-------------------------------------------------------------------------------
(***************************************************************************)
(* The worker.  Its message of the setup protocol is one thing in three    *)
(* queues, like the host's receive; its writes are in order, like the      *)
(* host's, and there are none but while it is sending; and where its       *)
(* thread is tells the state it is in.                                     *)
(***************************************************************************)
Message(s, u, c) ==
  /\ Once(s, {"SEND"}) /\ Once(u, {"SEND"}) /\ Once(c, {"SEND"})
  /\ Has(s, {"SEND"}) => ~Has(u, {"SEND"}) /\ ~Has(c, {"SEND"})
  /\ Has(u, {"SEND"}) => ~Has(c, {"SEND"})

NoMessage(s, u, c) ==
  ~Has(s, {"SEND"}) /\ ~Has(u, {"SEND"}) /\ ~Has(c, {"SEND"})

LEMMA MessageExecute ==
  ASSUME NEW s \in Seq(WorkRequests), NEW u \in Seq(WorkRequests), NEW c,
         s # <<>>, Message(s, u, c)
  PROVE  /\ Message(Tail(s), Append(u, Head(s)), c)
         /\ NoMessage(s, u, c) => NoMessage(Tail(s), Append(u, Head(s)), c)
<1> DEFINE h == Head(s)
           t == Tail(s)
           a == Append(u, h)
           sends == {"SEND"}
<1>1. h \in WorkRequests
  OBVIOUS
<1>2. /\ Has(s, sends) <=> Has(t, sends) \/ h.op \in sends
      /\ Once(s, sends) => /\ Once(t, sends)
                           /\ h.op \in sends => ~Has(t, sends)
  BY TailHas
<1>3. /\ Has(a, sends) <=> Has(u, sends) \/ h.op \in sends
      /\ Once(u, sends) /\ (Has(u, sends) => h.op \notin sends) => Once(a, sends)
  BY <1>1, AppendHas
<1> HIDE DEF h, t, a
<1>4. Message(t, a, c)
  BY <1>2, <1>3 DEF Message
<1>5. NoMessage(s, u, c) => NoMessage(t, a, c)
  BY <1>2, <1>3 DEF NoMessage
<1> QED BY <1>4, <1>5 DEF h, t, a

LEMMA MessageComplete ==
  ASSUME NEW s, NEW u \in Seq(WorkRequests), NEW c \in Seq(Completions),
         u # <<>>, NEW x \in Completions, Message(s, u, c),
         x.op = "SEND" <=> Head(u).op = "SEND"
  PROVE  /\ Message(s, Tail(u), Append(c, x))
         /\ NoMessage(s, u, c) => NoMessage(s, Tail(u), Append(c, x))
<1> DEFINE h == Head(u)
           t == Tail(u)
           a == Append(c, x)
           sends == {"SEND"}
<1>1. h \in WorkRequests
  OBVIOUS
<1>2. /\ Has(u, sends) <=> Has(t, sends) \/ h.op \in sends
      /\ Once(u, sends) => /\ Once(t, sends)
                           /\ h.op \in sends => ~Has(t, sends)
  BY TailHas
<1>3. /\ Has(a, sends) <=> Has(c, sends) \/ x.op \in sends
      /\ Once(c, sends) /\ (Has(c, sends) => x.op \notin sends) => Once(a, sends)
  BY AppendHas
<1>4. x.op \in sends <=> h.op \in sends
  OBVIOUS
<1> HIDE DEF h, t, a
<1>5. Message(s, t, a)
  BY <1>2, <1>3, <1>4 DEF Message
<1>6. NoMessage(s, u, c) => NoMessage(s, t, a)
  BY <1>2, <1>3, <1>4 DEF NoMessage
<1> QED BY <1>5, <1>6 DEF t, a

LEMMA MessageOther ==
  ASSUME NEW s, NEW u, NEW c \in Seq(Completions), NEW x \in Completions,
         x.op # "SEND", Message(s, u, c)
  PROVE  /\ Message(s, u, Append(c, x))
         /\ NoMessage(s, u, c) => NoMessage(s, u, Append(c, x))
<1> DEFINE a == Append(c, x)
           sends == {"SEND"}
<1>1. /\ Has(a, sends) <=> Has(c, sends) \/ x.op \in sends
      /\ Once(c, sends) /\ (Has(c, sends) => x.op \notin sends) => Once(a, sends)
  BY AppendHas
<1>2. x.op \notin sends
  OBVIOUS
<1> HIDE DEF a
<1>3. Message(s, u, a) /\ (NoMessage(s, u, c) => NoMessage(s, u, a))
  BY <1>1, <1>2 DEF Message, NoMessage
<1> QED BY <1>3 DEF a

LEMMA MessageDrop ==
  ASSUME NEW s, NEW u, NEW c \in Seq(Completions), c # <<>>, Message(s, u, c)
  PROVE  /\ Message(s, u, Tail(c))
         /\ NoMessage(s, u, c) => Head(c).op # "SEND"
         /\ NoMessage(s, u, c) \/ Head(c).op = "SEND" => NoMessage(s, u, Tail(c))
<1> DEFINE h == Head(c)
           t == Tail(c)
           sends == {"SEND"}
<1>1. /\ Has(c, sends) <=> Has(t, sends) \/ h.op \in sends
      /\ Once(c, sends) => /\ Once(t, sends)
                           /\ h.op \in sends => ~Has(t, sends)
  BY TailHas
<1> HIDE DEF h, t
<1>2. h.op \in sends <=> h.op = "SEND"
  OBVIOUS
<1>3. Message(s, u, t)
  BY <1>1 DEF Message
<1>4. NoMessage(s, u, c) => h.op # "SEND" /\ NoMessage(s, u, t)
  BY <1>1, <1>2 DEF NoMessage
<1>5. h.op = "SEND" => NoMessage(s, u, t)
  BY <1>1, <1>2 DEF NoMessage, Message
<1> QED BY <1>3, <1>4, <1>5 DEF h, t

Polled == {<<"do_mrsp", MRSP_RECEIVING>>, <<"do_mrsp", MRSP_SENDING>>,
           <<"receive_data_transfer", DATA_RECEIVING>>,
           <<"do_data_transfer", DATA_SENDING>>}
Left == {<<"do_mrsp", MRSP_DONE>>, <<"receive_data_transfer", CALCULATING>>,
         <<"do_data_transfer", DATA_RECEIVING>>}
NaaAt == <<naa_call, naa_state>>

NaaControl ==
  /\ naa_pc = "start" => naa_state = CONNECTED /\ naa_call = "do_mrsp"
  /\ naa_pc = "receive" => naa_state \in {MRSP_DONE, DATA_RECEIVING}
  /\ naa_pc \in {"poll", "drain"} => NaaAt \in Polled
  /\ naa_pc = "drain" => \/ naa_saved = naa_state
                         \/ naa_state = MRSP_SENDING /\ naa_saved = MRSP_RECEIVING
  /\ naa_pc = "arm" => NaaAt \in Polled \cup Left
  /\ naa_pc \in {"rpc", "respond"} => naa_state = CALCULATING
  /\ naa_state = CALCULATING => /\ naa_pc \in {"arm", "rpc", "respond"}
                                /\ naa_call = "receive_data_transfer"

NaaMessage ==
  /\ Message(sq["naa"], unacked["naa"], cq["naa"])
  /\ naa_state # MRSP_SENDING =>
       NoMessage(sq["naa"], unacked["naa"], cq["naa"])

NaaOrder ==
  /\ Ordered(sq["naa"], unacked["naa"], cq["naa"], naa_writes_done,
             IF naa_state = DATA_SENDING THEN no_output_mrs ELSE 0)
  /\ naa_state # DATA_SENDING => naa_writes_done = 0
  /\ OnlyLast(sq["naa"], {"WRITE_IMM"})

WorkerInv == NaaControl /\ NaaMessage /\ NaaOrder

workerVars == <<naaVars, sq["naa"], unacked["naa"], cq["naa"]>>

LEMMA SameWorker == WorkerInv /\ UNCHANGED workerVars => WorkerInv'
  BY DEF workerVars, naaVars, WorkerInv, NaaControl, NaaAt, NaaMessage, NaaOrder

LEMMA NaaTypes ==
  TypeOK => /\ sq["naa"] \in Seq(WorkRequests)
            /\ unacked["naa"] \in Seq(WorkRequests)
            /\ cq["naa"] \in Seq(Completions)
            /\ naa_writes_done \in Nat
            /\ no_output_mrs \in Nat /\ no_output_mrs > 0
<1> SUFFICES ASSUME TypeOK
             PROVE  /\ sq["naa"] \in Seq(WorkRequests)
                    /\ unacked["naa"] \in Seq(WorkRequests)
                    /\ cq["naa"] \in Seq(Completions)
                    /\ naa_writes_done \in Nat
                    /\ no_output_mrs \in Nat /\ no_output_mrs > 0
  OBVIOUS
<1>1. no_output_mrs \in Nat /\ no_output_mrs > 0
  BY WorkerAssumption DEF no_output_mrs
<1>2. naa_writes_done \in Nat
  BY DEF TypeOK, NaaTypeOK
<1> QED BY <1>1, <1>2, QueueTypes DEF Ends

(* Outside of DATA_SENDING the worker has no write anywhere.               *)
LEMMA NaaQuiet ==
  ASSUME TypeOK, NaaOrder, naa_state # DATA_SENDING
  PROVE  /\ Writes(sq["naa"]) = {} /\ Writes(unacked["naa"]) = {}
         /\ Writes(cq["naa"]) = {}
<1>1. Ordered(sq["naa"], unacked["naa"], cq["naa"], naa_writes_done, 0)
  BY DEF NaaOrder
<1>2. naa_writes_done = 0
  BY DEF NaaOrder
<1> QED BY <1>1, <1>2, NaaTypes, AllCounted

LEMMA HeadNoWrite ==
  ASSUME NEW q \in Seq(Completions), q # <<>>, Writes(q) = {}
  PROVE  Head(q).op # "RDMA_WRITE"
<1>1. ~IsWrite(Head(q))
  BY HeadWrites
<1> QED BY <1>1 DEF IsWrite

(* Waiting for a call the worker accepts whatever completes.               *)
LEMMA ReceivingAccepts ==
  ASSUME TypeOK, ShapeInv, NaaMessage, NaaOrder, naa_state = DATA_RECEIVING,
         cq["naa"] # <<>>
  PROVE  NaaAccepts(Head(cq["naa"]))
<1> USE DEF DATA_RECEIVING, DATA_SENDING, MRSP_SENDING
<1> DEFINE c == Head(cq["naa"])
<1>1. c \in NaaCompletions
  BY QueueMoves DEF ShapeInv
<1>2. c.op # "RDMA_WRITE"
  <2>1. Writes(cq["naa"]) = {}
    BY NaaQuiet
  <2> QED BY <2>1, NaaTypes, HeadNoWrite
<1>3. c.op # "SEND"
  <2>1. /\ Message(sq["naa"], unacked["naa"], cq["naa"])
        /\ NoMessage(sq["naa"], unacked["naa"], cq["naa"])
    BY DEF NaaMessage
  <2> QED BY <2>1, NaaTypes, MessageDrop
<1> HIDE DEF c
<1>4. c.ok /\ c.op \in {"RECV", "RECV_IMM"} /\ (c.op = "RECV_IMM" => c.imm # 0)
  BY <1>1, <1>2, <1>3 DEF NaaCompletions, Completions
<1>5. NaaAccepts(c)
  BY <1>4 DEF NaaAccepts
<1> QED BY <1>5 DEF c

(* What is left of the queue when a completion is taken from it.           *)
LEMMA NaaDrainEffect ==
  ASSUME TypeOK, NaaDrain
  PROVE  /\ cq["naa"] # <<>> /\ cq'["naa"] = Tail(cq["naa"])
         /\ unacked' = unacked
         /\ Head(cq["naa"]) \in Completions
  BY DEF NaaDrain, PollCq, TypeOK, VerbsTypeOK, Ends

LEMMA NaaDrainControl ==
  ASSUME TypeOK, ShapeInv, WorkerInv, NaaDrain
  PROVE  NaaControl'
<1> USE DEF CONNECTED, MRSP_SENDING, MRSP_RECEIVING, MRSP_DONE, DATA_SENDING,
            DATA_RECEIVING, CALCULATING, FINISHED
<1> DEFINE c == Head(cq["naa"])
<1>1. /\ naa_pc = "drain" /\ UNCHANGED <<naa_call, naa_saved>>
      /\ \/ NaaHandleAnnounce(c) \/ NaaHandleAnswered(c) \/ NaaHandleData(c)
         \/ NaaHandleWritten(c) \/ NaaReject(c)
  BY DEF NaaDrain
<1>2. /\ NaaAt \in Polled
      /\ \/ naa_saved = naa_state
         \/ naa_state = MRSP_SENDING /\ naa_saved = MRSP_RECEIVING
  BY <1>1 DEF WorkerInv, NaaControl
<1>3. naa_state = DATA_RECEIVING => NaaAccepts(c)
  BY ReceivingAccepts, NaaDrainEffect DEF WorkerInv
<1> HIDE DEF c
<1>4. CASE NaaHandleAnnounce(c)
  BY <1>1, <1>2, <1>4
     DEF NaaHandleAnnounce, NaaControl, NaaAt, Polled, NaaReturn
<1>5. CASE NaaHandleAnswered(c)
  BY <1>1, <1>2, <1>5
     DEF NaaHandleAnswered, NaaControl, NaaAt, Polled, Left, AfterCompletion
<1>6. CASE NaaHandleData(c)
  <2>1. naa_state' = CALCULATING \/ naa_state' = DATA_RECEIVING
    BY <1>6 DEF NaaHandleData
  <2> QED BY <1>1, <1>2, <1>6, <2>1
     DEF NaaHandleData, NaaControl, NaaAt, Polled, Left, AfterCompletion
<1>7. CASE NaaHandleWritten(c)
  <2>1. naa_state' = DATA_SENDING \/ naa_state' = DATA_RECEIVING
    BY <1>7 DEF NaaHandleWritten
  <2> QED BY <1>1, <1>2, <1>7, <2>1
     DEF NaaHandleWritten, NaaControl, NaaAt, Polled, Left, AfterCompletion
<1>8. CASE NaaReject(c)
  BY <1>1, <1>2, <1>3, <1>8
     DEF NaaReject, NaaControl, NaaAt, Polled, NaaReturn
<1> QED BY <1>1, <1>4, <1>5, <1>6, <1>7, <1>8

LEMMA NaaWorksControl ==
  ASSUME TypeOK, ShapeInv, WorkerInv, Persistent, NaaWorks
  PROVE  NaaControl'
<1> USE DEF CONNECTED, MRSP_SENDING, MRSP_RECEIVING, MRSP_DONE, DATA_SENDING,
            DATA_RECEIVING, CALCULATING, FINISHED, WorkerInv, NaaControl
<1>1. CASE NaaDrain
  BY <1>1, NaaDrainControl
<1>2. CASE NaaStart \/ NaaReceive
  BY <1>2 DEF NaaStart, NaaReceive, NaaAt, Polled
<1>3. CASE NaaRespond \/ RunRpc
  BY <1>3 DEF NaaRespond, RunRpc, NaaAt, Polled
<1>4. CASE NaaGetEvent \/ NaaDrained
  BY <1>4 DEF NaaGetEvent, NaaDrained, NaaAt, Polled
<1>5. CASE NaaArm \/ NaaNotices
  <2>1. /\ NaaAt \in Polled \cup Left
        /\ UNCHANGED <<naa_call, naa_state, naa_saved>>
        /\ naa_pc' \in NaaLoop
    BY <1>5 DEF NaaArm, NaaNotices
  <2>2. naa_pc' = IF NaaCallDone(naa_state) THEN NaaReturn(naa_state, TRUE)
                  ELSE "poll"
    BY <2>1 DEF NaaLoop, Persistent
  <2>3. CASE NaaAt \in Polled
    <3>1. ~NaaCallDone(naa_state)
      BY <2>3 DEF NaaAt, Polled, NaaCallDone
    <3>2. naa_pc' = "poll" /\ NaaAt' \in Polled
      BY <2>1, <2>2, <2>3, <3>1 DEF NaaAt
    <3> QED BY <2>3, <3>2 DEF NaaAt, Polled
  <2>4. CASE NaaAt \in Left
    <3>1. NaaCallDone(naa_state)
      BY <2>4 DEF NaaAt, Left, NaaCallDone
    <3>2. naa_pc' = NaaReturn(naa_state, TRUE)
      BY <2>2, <3>1
    <3> QED BY <2>1, <2>4, <3>2 DEF NaaAt, Left, NaaReturn
  <2> QED BY <2>1, <2>3, <2>4
<1> QED BY <1>1, <1>2, <1>3, <1>4, <1>5 DEF NaaWorks, NaaPollStep

(* The answer of the worker to the announcement: one message, or none.     *)
LEMMA PostMessageQueues ==
  ASSUME TypeOK, NaaMessage, NaaOrder, naa_state = MRSP_RECEIVING,
         NEW msg \in Messages, PostMessage(msg)
  PROVE  LET s == sq'["naa"]
             u == unacked["naa"]
             c == Tail(cq["naa"])
         IN /\ cq["naa"] # <<>> => Message(s, u, c)
            /\ Writes(s) = {} /\ OnlyLast(s, {"WRITE_IMM"})
<1> USE DEF MRSP_RECEIVING, MRSP_SENDING, DATA_SENDING
<1> DEFINE m == [op |-> "SEND", id |-> 0, mr |-> NoRegion, imm |-> 0,
                 msg |-> msg, call |-> 0]
           s == sq["naa"]
           u == unacked["naa"]
           c == Tail(cq["naa"])
<1>1. m \in WorkRequests /\ m.op = "SEND"
  BY MessageShape, SubRequests
<1>2. PICK wrs \in NaaAccepted(<<m>>) : PostSend("naa", wrs)
  BY DEF PostMessage
<1> HIDE DEF m
<1> DEFINE list == <<m>>
<1>3. list \in Seq(WorkRequests) /\ Len(list) = 1 /\ list[1] = m
  BY <1>1
<1> HIDE DEF list
<1>4. /\ wrs \in Seq(WorkRequests) /\ Len(wrs) <= 1
      /\ \A i \in 1..Len(wrs) : wrs[i] = list[i]
  <2>1. wrs \in NaaAccepted(list)
    BY <1>2 DEF list
  <2> QED BY <1>3, <2>1, AcceptedElements DEF NaaAccepted
<1>5. \A i \in 1..Len(wrs) : i = 1 /\ wrs[i].op = "SEND"
  BY <1>1, <1>3, <1>4
<1>6. /\ Once(wrs, {"SEND"}) /\ Writes(wrs) = {}
      /\ OnlyLast(wrs, {"WRITE_IMM"})
  BY <1>5 DEF Once, Writes, IsWrite, OnlyLast
<1>7. sq'["naa"] = s \o wrs
  BY <1>2, PostSendEffect DEF Ends
<1>8. /\ s \in Seq(WorkRequests) /\ Writes(s) = {} /\ NoMessage(s, u, cq["naa"])
  BY NaaTypes, NaaQuiet DEF NaaMessage
<1>9. Message(s, u, cq["naa"])
  BY DEF NaaMessage
<1>10. cq["naa"] # <<>> => NoMessage(s, u, c) /\ Message(s, u, c)
  BY <1>8, <1>9, NaaTypes, MessageDrop
<1> HIDE DEF s, u, c
<1>11. Once(s \o wrs, {"SEND"})
  <2>1. ~Has(s, {"SEND"})
    BY <1>8 DEF NoMessage
  <2> QED BY <1>4, <1>6, <1>8, <2>1, ConcatHas
<1>12. OnlyLast(s \o wrs, {"WRITE_IMM"})
  <2>1. ~Has(s, {"WRITE_IMM"})
    BY <1>8, NoWriteHas
  <2> QED BY <1>4, <1>6, <1>8, <2>1, ConcatHas
<1>13. Writes(s \o wrs) = {}
  <2>1. ASSUME NEW i \in Writes(s \o wrs) PROVE FALSE
    BY <1>4, <1>6, <1>8, <2>1, ConcatWrites
  <2> QED BY <2>1
<1>14. cq["naa"] # <<>> => Message(s \o wrs, u, c)
  BY <1>10, <1>11 DEF Message, NoMessage
<1> QED BY <1>7, <1>12, <1>13, <1>14 DEF u, c

LEMMA NaaDrainQueues ==
  ASSUME TypeOK, ShapeInv, WorkerInv, NaaDrain
  PROVE  NaaMessage' /\ NaaOrder'
<1> USE DEF MRSP_SENDING, MRSP_RECEIVING, MRSP_DONE, DATA_SENDING,
            DATA_RECEIVING, CALCULATING
<1> DEFINE s == sq["naa"]
           u == unacked["naa"]
           q == cq["naa"]
           c == Head(q)
           d == naa_writes_done
           n == no_output_mrs
           total == IF naa_state = DATA_SENDING THEN n ELSE 0
<1>0. /\ s \in Seq(WorkRequests) /\ u \in Seq(WorkRequests)
      /\ q \in Seq(Completions) /\ q # <<>>
      /\ d \in Nat /\ n \in Nat /\ n > 0 /\ total \in Nat
  BY NaaTypes, NaaDrainEffect
<1>1. cq'["naa"] = Tail(q) /\ unacked'["naa"] = u
  BY NaaDrainEffect
<1>2. /\ Message(s, u, q)
      /\ naa_state # MRSP_SENDING => NoMessage(s, u, q)
      /\ Ordered(s, u, q, d, total) /\ OnlyLast(s, {"WRITE_IMM"})
      /\ naa_state # DATA_SENDING => d = 0
  BY DEF WorkerInv, NaaMessage, NaaOrder
<1>3. /\ Message(s, u, Tail(q))
      /\ NoMessage(s, u, q) \/ c.op = "SEND" => NoMessage(s, u, Tail(q))
  BY <1>0, <1>2, MessageDrop
<1>4. Ordered(s, u, Tail(q), d, total)
  BY <1>0, <1>2, OrderedDrop
<1>5. CASE NaaHandleAnnounce(c)
  <2>1. naa_state = MRSP_RECEIVING /\ naa_state' = MRSP_SENDING
        /\ UNCHANGED naa_writes_done
    BY <1>5 DEF NaaHandleAnnounce
  <2>2. PICK msg \in {"A", "ERR"} : PostMessage(msg)
    BY <1>5 DEF NaaHandleAnnounce
  <2>3. /\ Message(sq'["naa"], u, Tail(q)) /\ Writes(sq'["naa"]) = {}
        /\ OnlyLast(sq'["naa"], {"WRITE_IMM"})
    BY <1>0, <2>1, <2>2, PostMessageQueues DEF WorkerInv, Messages
  <2>4. Writes(u) = {} /\ Writes(Tail(q)) = {}
    <3>1. d >= total
      BY <1>2, <2>1
    <3>2. Tail(q) \in Seq(Completions)
      BY <1>0
    <3> HIDE DEF s, u, q, d, total
    <3> QED BY <1>0, <1>4, <3>1, <3>2, AllCounted
  <2>5. Ordered(sq'["naa"], u, Tail(q), 0, 0)
    BY <2>3, <2>4, NoWrites
  <2>6. naa_writes_done' = 0
    BY <1>2, <2>1
  <2> QED BY <1>1, <2>1, <2>3, <2>5, <2>6 DEF NaaMessage, NaaOrder
<1>6. CASE NaaHandleAnswered(c)
  <2>1. /\ naa_state = MRSP_SENDING /\ naa_state' = MRSP_DONE
        /\ UNCHANGED <<sq, naa_writes_done>> /\ c.op = "SEND"
    BY <1>6 DEF NaaHandleAnswered
  <2>2. NoMessage(s, u, Tail(q))
    BY <1>3, <2>1
  <2>3. Ordered(s, u, Tail(q), 0, 0) /\ d = 0
    BY <1>2, <1>4, <2>1
  <2> QED BY <1>1, <1>2, <1>3, <2>1, <2>2, <2>3 DEF NaaMessage, NaaOrder
<1>7. CASE NaaHandleData(c)
  <2>1. /\ naa_state = DATA_RECEIVING
        /\ naa_state' = CALCULATING \/ naa_state' = DATA_RECEIVING
        /\ UNCHANGED <<sq, naa_writes_done>>
    BY <1>7 DEF NaaHandleData
  <2>2. NoMessage(s, u, Tail(q))
    BY <1>2, <1>3, <2>1
  <2>3. Ordered(s, u, Tail(q), 0, 0) /\ d = 0
    BY <1>2, <1>4, <2>1
  <2> QED BY <1>1, <1>2, <1>3, <2>1, <2>2, <2>3 DEF NaaMessage, NaaOrder
<1>8. CASE NaaHandleWritten(c)
  <2>1. /\ naa_state = DATA_SENDING /\ c.op = "RDMA_WRITE"
        /\ naa_writes_done' = IF d + 1 = n THEN 0 ELSE d + 1
        /\ naa_state' = IF d + 1 = n THEN DATA_RECEIVING ELSE DATA_SENDING
        /\ UNCHANGED sq
    BY <1>8 DEF NaaHandleWritten
  <2>2. NoMessage(s, u, Tail(q))
    BY <1>2, <1>3, <2>1
  <2>3. Ordered(s, u, Tail(q), d + 1, n)
    <3>1. IsWrite(c) /\ total = n
      BY <2>1 DEF IsWrite
    <3> HIDE DEF s, u, q, d, n, total
    <3> QED BY <1>0, <1>2, <3>1, OrderedCount DEF c
  <2>4. CASE d + 1 = n
    <3>1. Tail(q) \in Seq(Completions)
      BY <1>0
    <3>2. d + 1 \in Nat /\ d + 1 >= n
      BY <1>0, <2>4
    <3>3. Ordered(s, u, Tail(q), 0, 0)
      <4> HIDE DEF s, u, q, d, n
      <4> QED BY <1>0, <2>3, <3>1, <3>2, AllCounted, NoWrites
    <3> QED BY <1>1, <1>2, <1>3, <2>1, <2>2, <2>4, <3>3 DEF NaaMessage, NaaOrder
  <2>5. CASE d + 1 # n
    BY <1>1, <1>2, <1>3, <2>1, <2>2, <2>3, <2>5 DEF NaaMessage, NaaOrder
  <2> QED BY <2>4, <2>5
<1>9. CASE NaaReject(c)
  <2>1. UNCHANGED <<sq, naa_state, naa_writes_done>>
    BY <1>9 DEF NaaReject
  <2> QED BY <1>1, <1>2, <1>3, <1>4, <2>1 DEF NaaMessage, NaaOrder
<1> QED BY <1>5, <1>6, <1>7, <1>8, <1>9 DEF NaaDrain

(* The response: no message, the writes in the order of their identifiers, *)
(* the one with the immediate the last.                                    *)
LEMMA ResponseListOrder ==
  ASSUME NaaTypeOK, NEW wrs \in NaaAccepted(ResponseList)
  PROVE  /\ wrs \in Seq(NaaRequests) /\ wrs \in Seq(WorkRequests)
         /\ ~Has(wrs, {"SEND"})
         /\ Numbered(wrs, no_output_mrs) /\ OnlyLast(wrs, {"WRITE_IMM"})
<1>0. no_output_mrs \in Nat /\ no_output_mrs > 0
  BY WorkerAssumption DEF no_output_mrs
<1> DEFINE list == ResponseList
<1>1. list \in Seq(NaaRequests)
  BY ResponseListShape
<1>2. /\ Len(list) \in Nat /\ Len(list) <= no_output_mrs
      /\ \A i \in 1..Len(list) :
           /\ list[i].id = i /\ list[i].op \in AnyWrite
           /\ list[i].op = "WRITE_IMM" => i = Len(list)
  <2>1. CASE naa_errorcode # 0
    BY <1>0, <2>1 DEF ResponseList, AnyWrite
  <2>2. CASE naa_errorcode = 0
    BY <1>0, <2>2 DEF ResponseList, AnyWrite, RespondsWith
  <2> QED BY <2>1, <2>2
<1> HIDE DEF list
<1>3. OnlyLast(list, {"WRITE_IMM"})
  BY <1>2 DEF OnlyLast
<1>4. wrs \in Seq(NaaRequests) /\ OnlyLast(wrs, {"WRITE_IMM"})
  BY <1>1, <1>3, AcceptedShape DEF NaaAccepted, list
<1>5. /\ Len(wrs) <= Len(list) /\ Len(wrs) \in Nat
      /\ \A i \in 1..Len(wrs) : wrs[i] = list[i]
  BY <1>1, AcceptedElements DEF NaaAccepted, list
<1>6. \A i \in 1..Len(wrs) : i \in 1..Len(list)
  BY <1>2, <1>5
<1>7. ~Has(wrs, {"SEND"})
  BY <1>2, <1>5, <1>6 DEF Has, AnyWrite
<1>8. Numbered(wrs, no_output_mrs)
  BY <1>0, <1>2, <1>5, <1>6 DEF Numbered
<1>9. wrs \in Seq(WorkRequests)
  BY <1>4, SubRequests
<1> QED BY <1>4, <1>7, <1>8, <1>9

LEMMA NaaRespondQueues ==
  ASSUME TypeOK, WorkerInv, NaaRespond
  PROVE  NaaMessage' /\ NaaOrder'
<1> USE DEF MRSP_SENDING, CALCULATING, DATA_SENDING
<1> DEFINE s == sq["naa"]
           u == unacked["naa"]
           q == cq["naa"]
<1>1. naa_state = CALCULATING /\ naa_state' = DATA_SENDING
      /\ UNCHANGED <<unacked, cq, naa_writes_done>>
  BY DEF NaaRespond, WorkerInv, NaaControl
<1>2. PICK wrs \in NaaAccepted(ResponseList) : PostSend("naa", wrs)
  BY DEF NaaRespond
<1>3. sq'["naa"] = s \o wrs
  BY <1>2, PostSendEffect DEF Ends
<1>4. /\ wrs \in Seq(WorkRequests) /\ ~Has(wrs, {"SEND"})
      /\ Numbered(wrs, no_output_mrs) /\ OnlyLast(wrs, {"WRITE_IMM"})
  BY <1>2, ResponseListOrder DEF TypeOK
<1>5. /\ s \in Seq(WorkRequests)
      /\ Writes(s) = {} /\ Writes(u) = {} /\ Writes(q) = {}
      /\ Message(s, u, q) /\ NoMessage(s, u, q) /\ naa_writes_done = 0
      /\ no_output_mrs \in Nat
  BY <1>1, NaaTypes, NaaQuiet DEF WorkerInv, NaaMessage, NaaOrder
<1> HIDE DEF s, u, q
<1>6. Ordered(s \o wrs, u, q, 0, no_output_mrs)
  BY <1>4, <1>5, OrderedTransfer
<1>7. ~Has(s, {"WRITE_IMM"}) /\ ~Has(s, {"SEND"})
  BY <1>5, NoWriteHas DEF NoMessage
<1>8. OnlyLast(s \o wrs, {"WRITE_IMM"})
  BY <1>4, <1>5, <1>7, ConcatHas
<1>9. ~Has(s \o wrs, {"SEND"}) /\ Once(s \o wrs, {"SEND"})
  <2>1. ~Has(s \o wrs, {"SEND"})
    BY <1>4, <1>5, <1>7, ConcatHas
  <2> QED BY <2>1 DEF Has, Once
<1>10. Message(s \o wrs, u, q) /\ NoMessage(s \o wrs, u, q)
  BY <1>5, <1>9 DEF Message, NoMessage
<1> QED BY <1>1, <1>3, <1>5, <1>6, <1>8, <1>10 DEF NaaMessage, NaaOrder, u, q

LEMMA NaaWorksQueues ==
  ASSUME TypeOK, ShapeInv, WorkerInv, NaaWorks
  PROVE  NaaMessage' /\ NaaOrder'
<1> USE DEF CONNECTED, MRSP_SENDING, MRSP_RECEIVING, MRSP_DONE, DATA_SENDING,
            DATA_RECEIVING, CALCULATING
<1>1. CASE NaaDrain
  BY <1>1, NaaDrainQueues
<1>2. CASE NaaRespond
  BY <1>2, NaaRespondQueues
<1>3. CASE NaaStart \/ NaaReceive
  <2>1. /\ naa_state \notin {MRSP_SENDING, DATA_SENDING}
        /\ naa_state' \notin {MRSP_SENDING, DATA_SENDING}
        /\ UNCHANGED <<sq, unacked, cq, naa_writes_done>>
    BY <1>3 DEF NaaStart, NaaReceive, WorkerInv, NaaControl
  <2> QED BY <2>1 DEF WorkerInv, NaaMessage, NaaOrder
<1>4. CASE NaaGetEvent \/ NaaDrained \/ NaaArm \/ RunRpc \/ NaaNotices
  <2>1. UNCHANGED <<sq, unacked, cq, naa_writes_done, naa_state>>
    BY <1>4 DEF NaaGetEvent, NaaDrained, NaaArm, RunRpc, NaaNotices, verbsVars
  <2> QED BY <2>1 DEF WorkerInv, NaaMessage, NaaOrder
<1> QED BY <1>1, <1>2, <1>3, <1>4 DEF NaaWorks, NaaPollStep

LEMMA FabricWorker ==
  ASSUME TypeOK, WorkerInv, NEW e \in Ends, Fabric(e), UNCHANGED naaVars
  PROVE  WorkerInv'
<1> DEFINE s == sq["naa"]
           u == unacked["naa"]
           q == cq["naa"]
           d == naa_writes_done
           total == IF naa_state = DATA_SENDING THEN no_output_mrs ELSE 0
<1>0. /\ s \in Seq(WorkRequests) /\ u \in Seq(WorkRequests)
      /\ q \in Seq(Completions) /\ d \in Nat /\ total \in Nat
  BY NaaTypes
<1>1. /\ Message(s, u, q)
      /\ naa_state # MRSP_SENDING => NoMessage(s, u, q)
      /\ Ordered(s, u, q, d, total) /\ OnlyLast(s, {"WRITE_IMM"})
  BY DEF WorkerInv, NaaMessage, NaaOrder
<1>2. ASSUME /\ Message(sq'["naa"], unacked'["naa"], cq'["naa"])
             /\ NoMessage(s, u, q) =>
                  NoMessage(sq'["naa"], unacked'["naa"], cq'["naa"]),
             Ordered(sq'["naa"], unacked'["naa"], cq'["naa"], d, total),
             OnlyLast(sq'["naa"], {"WRITE_IMM"})
      PROVE  WorkerInv'
  <2>1. NaaControl'
    BY DEF WorkerInv, NaaControl, NaaAt, naaVars
  <2>2. NaaMessage'
    BY <1>1, <1>2 DEF NaaMessage, naaVars
  <2>3. NaaOrder'
    BY <1>2 DEF WorkerInv, NaaOrder, naaVars
  <2> QED BY <2>1, <2>2, <2>3 DEF WorkerInv
<1>3. ASSUME NEW x \in Completions, x.op \in {"RECV", "RECV_IMM"},
             sq'["naa"] = s, unacked'["naa"] = u, cq'["naa"] = Append(q, x)
      PROVE  WorkerInv'
  <2>1. ~IsWrite(x) /\ x.op # "SEND"
    BY <1>3 DEF IsWrite
  <2> HIDE DEF s, u, q, d, total
  <2>2. Ordered(s, u, Append(q, x), d, total)
    BY <1>0, <1>1, <2>1, OrderedOther
  <2>3. /\ Message(s, u, Append(q, x))
        /\ NoMessage(s, u, q) => NoMessage(s, u, Append(q, x))
    BY <1>0, <1>1, <2>1, MessageOther
  <2> QED BY <1>1, <1>2, <1>3, <2>2, <2>3
<1>4. ASSUME s # <<>>, sq'["naa"] = Tail(s), unacked'["naa"] = Append(u, Head(s)),
             cq'["naa"] = q
      PROVE  WorkerInv'
  <2> HIDE DEF s, u, q, d, total
  <2>1. Ordered(Tail(s), Append(u, Head(s)), q, d, total)
    BY <1>0, <1>1, <1>4, OrderedExecute
  <2>2. /\ Message(Tail(s), Append(u, Head(s)), q)
        /\ NoMessage(s, u, q) => NoMessage(Tail(s), Append(u, Head(s)), q)
    BY <1>0, <1>1, <1>4, MessageExecute
  <2>3. OnlyLast(Tail(s), {"WRITE_IMM"})
    BY <1>0, <1>1, <1>4, TailOnlyLast
  <2> QED BY <1>1, <1>2, <1>4, <2>1, <2>2, <2>3
<1>5. ASSUME u # <<>>, NEW x \in Completions, x.id = Head(u).id,
             x.op = "SEND" <=> Head(u).op = "SEND",
             IsWrite(x) => IsWrite(Head(u)),
             sq'["naa"] = s, unacked'["naa"] = Tail(u), cq'["naa"] = Append(q, x)
      PROVE  WorkerInv'
  <2> HIDE DEF s, u, q, d, total
  <2>1. Ordered(s, Tail(u), Append(q, x), d, total)
    BY <1>0, <1>1, <1>5, OrderedComplete
  <2>2. /\ Message(s, Tail(u), Append(q, x))
        /\ NoMessage(s, u, q) => NoMessage(s, Tail(u), Append(q, x))
    BY <1>0, <1>1, <1>5, MessageComplete
  <2> QED BY <1>1, <1>2, <1>5, <2>1, <2>2
<1>6. ASSUME UNCHANGED <<sq["naa"], unacked["naa"], cq["naa"]>> PROVE WorkerInv'
  BY <1>6, SameWorker DEF workerVars
<1> HIDE DEF s, u, q, d, total
<1>7. CASE e = "naa"
  <2>1. CASE ExecuteWrite(e) \/ ExecuteReceived(e)
    <3>1. CanExecute(e) /\ Executed(e) /\ cq'["naa"] = cq["naa"]
      BY <1>7, <2>1, WriteEffect, ReceivedEffect
    <3>2. /\ sq["naa"] # <<>> /\ sq'["naa"] = Tail(sq["naa"])
          /\ unacked'["naa"] = Append(unacked["naa"], Head(sq["naa"]))
      BY <1>7, <3>1, ExecutedEffect
    <3> QED BY <1>4, <3>1, <3>2 DEF s, u, q
  <2>2. CASE Acknowledge(e)
    <3> DEFINE w == Head(unacked["naa"])
               x == SendCompletion(w, TRUE)
    <3>1. /\ unacked["naa"] # <<>> /\ w \in WorkRequests /\ x \in Completions
          /\ unacked'["naa"] = Tail(unacked["naa"])
          /\ cq'["naa"] = Append(cq["naa"], x) /\ UNCHANGED sq
      BY <1>7, <2>2, AcknowledgeEffect
    <3>2. /\ x.op \in {"SEND", "RDMA_WRITE"} /\ x.id = w.id
          /\ x.op = "SEND" <=> w.op = "SEND"
      BY <3>1, CompletionOfSend
    <3>3. IsWrite(x) => IsWrite(w)
      BY <3>1, <3>2 DEF IsWrite, WorkRequests
    <3> HIDE DEF x
    <3> QED BY <1>5, <3>1, <3>2, <3>3 DEF s, u, q
  <2> QED BY <2>1, <2>2 DEF Fabric
<1>8. CASE e = "host"
  <2>1. CASE ExecuteWrite(e)
    <3>1. CanExecute(e) /\ Executed(e) /\ cq'["naa"] = cq["naa"]
      BY <2>1, WriteEffect
    <3>2. sq'["naa"] = sq["naa"] /\ unacked'["naa"] = unacked["naa"]
      BY <1>8, <3>1, ExecutedEffect DEF Ends
    <3> QED BY <1>6, <3>1, <3>2
  <2>2. CASE ExecuteReceived(e)
    <3> DEFINE x == Received(Head(sq["host"]))
    <3>1. /\ CanExecute(e) /\ Executed(e) /\ x \in Completions
          /\ cq'["naa"] = Append(cq["naa"], x)
      BY <1>8, <2>2, ReceivedEffect DEF Peer
    <3>2. sq'["naa"] = sq["naa"] /\ unacked'["naa"] = unacked["naa"]
      BY <1>8, <3>1, ExecutedEffect DEF Ends
    <3>3. x.op \in {"RECV", "RECV_IMM"}
      BY DEF Received
    <3> HIDE DEF x
    <3> QED BY <1>3, <3>1, <3>2, <3>3 DEF s, u, q
  <2>3. CASE Acknowledge(e)
    <3>1. UNCHANGED <<sq, unacked["naa"], cq["naa"]>>
      BY <1>8, <2>3, AcknowledgeEffect DEF Ends
    <3> QED BY <1>6, <3>1
  <2> QED BY <2>1, <2>2, <2>3 DEF Fabric
<1> QED BY <1>7, <1>8 DEF Ends

LEMMA HostKeepsNaa ==
  ASSUME TypeOK, DoMrsp \/ DoDataTransfer \/ HostDrain \/ HostBusy \/ HostWaits
  PROVE  UNCHANGED <<sq["naa"], unacked["naa"], cq["naa"]>>
<1>1. CASE DoMrsp \/ DoDataTransfer
  <2>1. UNCHANGED <<unacked, cq>>
    BY <1>1 DEF DoMrsp, DoDataTransfer
  <2>2. \E wrs : PostSend("host", wrs)
    BY <1>1 DEF DoMrsp, DoDataTransfer, WriteData
  <2>3. sq'["naa"] = sq["naa"]
    BY <2>2, PostSendEffect DEF Ends
  <2> QED BY <2>1, <2>3
<1>2. CASE HostDrain \/ HostBusy
  BY <1>2 DEF HostDrain, HostBusy, PollCq, TypeOK, VerbsTypeOK, Ends
<1>3. CASE HostWaits
  BY <1>3 DEF HostWaits, HostGetEvent, HostArm, HostDrained, HostTimeout,
              WaitAgain, verbsVars
<1> QED BY <1>1, <1>2, <1>3

LEMMA WorkerNext ==
  ASSUME TypeOK, Persistent, Alive => ShapeInv /\ WorkerInv, [Next]_vars
  PROVE  (Alive => WorkerInv)'
<1> SUFFICES ASSUME Alive' PROVE WorkerInv'
  OBVIOUS
<1>1. Alive /\ ShapeInv /\ WorkerInv
  BY LiveSteps
<1>2. CASE /\ DoMrsp \/ DoDataTransfer \/ HostDrain \/ HostBusy \/ HostWaits
           /\ UNCHANGED naaVars
  BY <1>1, <1>2, HostKeepsNaa, SameWorker DEF workerVars
<1>3. CASE NaaWorks
  BY <1>1, <1>3, NaaWorksControl, NaaWorksQueues DEF WorkerInv
<1>4. ASSUME NEW e \in Ends, Fabric(e), UNCHANGED <<hostVars, naaVars>>
      PROVE  WorkerInv'
  BY <1>1, <1>4, FabricWorker
<1>5. CASE UNCHANGED vars
  BY <1>1, <1>5, SameWorker DEF vars, verbsVars, workerVars
<1>6. CASE NaaLeaves
  BY <1>1, <1>6 DEF NaaLeaves, NaaExit, verbsVars, WorkerInv, NaaControl, NaaAt,
                    NaaMessage, NaaOrder
<1> QED BY <1>2, <1>3, <1>4, <1>5, <1>6, LiveSteps

LEMMA WorkerInit == Init => WorkerInv
<1> SUFFICES ASSUME Init PROVE WorkerInv
  OBVIOUS
<1> USE DEF CONNECTED, MRSP_SENDING, DATA_SENDING, CALCULATING
<1>1. /\ sq["naa"] = <<>> /\ unacked["naa"] = <<>> /\ cq["naa"] = <<>>
      /\ naa_pc = "start" /\ naa_call = "do_mrsp" /\ naa_state = CONNECTED
      /\ naa_writes_done = 0
  BY DEF Init, NaaInit, Ends
<1>2. NaaControl
  BY <1>1 DEF NaaControl
<1>3. NaaMessage
  BY <1>1, HasNone DEF NaaMessage, Message, NoMessage
<1>4. NaaOrder
  BY <1>1, NoWrites DEF NaaOrder, Writes, OnlyLast
<1> QED BY <1>2, <1>3, <1>4 DEF WorkerInv

-------------------------------------------------------------------------------
(***************************************************************************)
(* One call is in one place: its request is on the way, or arrived and not *)
(* yet seen, or being served, or its response is on the way, or arrived.   *)
(***************************************************************************)
Requesting == Has(sq["host"], AnyWrite)
Asked      == Has(cq["naa"], {"RECV_IMM"})
Serving    == naa_state = CALCULATING
Returning  == Has(sq["naa"], AnyWrite)
Answered   == Has(cq["host"], {"RECV_IMM"}) \/ response_received

CallOf(q, k) == \A i \in 1..Len(q) : q[i].op = "RECV_IMM" => q[i].call = k

Tokens ==
  /\ Requesting \/ Asked \/ Serving \/ Returning => InTransfer
  /\ Requesting => ~Asked /\ ~Serving /\ ~Returning /\ ~Answered
  /\ Asked => ~Serving /\ ~Returning /\ ~Answered
  /\ Serving => ~Returning /\ ~Answered /\ naa_serving = no_rpc_calls
  /\ Returning => ~Answered
  /\ Once(cq["naa"], {"RECV_IMM"})
  /\ CallOf(cq["naa"], no_rpc_calls)

tokenVars == <<sq["host"], sq["naa"], cq["host"], cq["naa"], response_received,
               naa_state, naa_serving, no_rpc_calls, host_state>>

LEMMA SameTokens == Tokens /\ UNCHANGED tokenVars => Tokens'
  BY DEF tokenVars, Tokens, Requesting, Asked, Serving, Returning, Answered,
         InTransfer

LEMMA CallOfMoves ==
  ASSUME NEW q \in Seq(Completions), NEW k
  PROVE  /\ ~Has(q, {"RECV_IMM"}) => CallOf(q, k)
         /\ \A x \in Completions :
              CallOf(q, k) /\ (x.op = "RECV_IMM" => x.call = k)
                => CallOf(Append(q, x), k)
         /\ q # <<>> /\ CallOf(q, k) =>
              /\ CallOf(Tail(q), k)
              /\ Head(q).op = "RECV_IMM" => Head(q).call = k
<1>1. ~Has(q, {"RECV_IMM"}) => CallOf(q, k)
  BY DEF Has, CallOf
<1>2. ASSUME NEW x \in Completions, CallOf(q, k),
             x.op = "RECV_IMM" => x.call = k
      PROVE  CallOf(Append(q, x), k)
  <2> DEFINE a == Append(q, x)
  <2>1. ASSUME NEW i \in 1..Len(a) PROVE a[i] = x \/ (i \in 1..Len(q) /\ a[i] = q[i])
    OBVIOUS
  <2> HIDE DEF a
  <2>2. CallOf(a, k)
    BY <1>2, <2>1 DEF CallOf
  <2> QED BY <2>2 DEF a
<1>3. ASSUME q # <<>>, CallOf(q, k)
      PROVE  /\ CallOf(Tail(q), k)
             /\ Head(q).op = "RECV_IMM" => Head(q).call = k
  <2> DEFINE t == Tail(q)
  <2>1. /\ \A i \in 1..Len(t) : i + 1 \in 1..Len(q) /\ t[i] = q[i + 1]
        /\ 1 \in 1..Len(q) /\ Head(q) = q[1]
    BY <1>3
  <2> HIDE DEF t
  <2>2. CallOf(t, k)
    BY <1>3, <2>1 DEF CallOf
  <2>3. Head(q).op = "RECV_IMM" => Head(q).call = k
    BY <1>3, <2>1 DEF CallOf
  <2> QED BY <2>2, <2>3 DEF t
<1> QED BY <1>1, <1>2, <1>3

(* A completion handled by the host: only the response ends a transfer.    *)
LEMMA HandleEffect ==
  ASSUME TypeOK, HostDrain \/ HostBusy
  PROVE  /\ UNCHANGED <<mem, sq, to_write, no_rpc_calls, host_fncode>>
         /\ cq'["naa"] = cq["naa"]
         /\ Answered' => Answered
         /\ host_state' # host_state =>
              IF InTransfer
              THEN \/ host_state' = FINISHED /\ Answered
                   \/ host_state' = DATA_RECEIVING
              ELSE /\ host_state \in {MRSP_SENDING, MRSP_RECEIVING}
                   /\ host_state' \in {MRSP_RECEIVING, MRSP_DONE}
<1> USE DEF MRSP_SENDING, MRSP_RECEIVING, MRSP_DONE, DATA_SENDING,
            DATA_RECEIVING, FINISHED
<1> DEFINE q == cq["host"]
           c == Head(q)
           imm == {"RECV_IMM"}
<1>1. /\ q # <<>> /\ q \in Seq(Completions) /\ cq'["host"] = Tail(q)
      /\ cq'["naa"] = cq["naa"]
  BY DEF HostDrain, HostBusy, PollCq, TypeOK, VerbsTypeOK, Ends
<1>2. /\ UNCHANGED <<mem, sq, to_write, no_rpc_calls, host_fncode>>
      /\ HostHandleMrsp(c) \/ HostHandleData(c) \/ HostReject(c)
  BY DEF HostDrain, HostBusy, HostHandle
<1>3. Has(q, imm) <=> Has(Tail(q), imm) \/ c.op \in imm
  BY <1>1, CompletionLeaves
<1>4. c.op = "RECV_IMM" => Answered
  BY <1>3 DEF Answered
<1> HIDE DEF c, q
<1>5. CASE HostHandleMrsp(c)
  <2>1. UNCHANGED response_received
    BY <1>5 DEF HostHandleMrsp
  <2>2. Answered' => Answered
    BY <1>1, <1>3, <2>1 DEF Answered, q
  <2>3. ~InTransfer
    BY <1>5 DEF HostHandleMrsp, InTransfer
  <2> QED BY <1>1, <1>2, <1>5, <2>2, <2>3 DEF HostHandleMrsp
<1>6. CASE HostReject(c)
  <2>1. UNCHANGED <<host_state, response_received>>
    BY <1>6 DEF HostReject
  <2>2. Answered' => Answered
    BY <1>1, <1>3, <2>1 DEF Answered, q
  <2> QED BY <1>1, <1>2, <2>1, <2>2
<1>7. CASE HostHandleData(c)
  <2> DEFINE writes == rdma_writes_done + (IF c.op = "RDMA_WRITE" THEN 1 ELSE 0)
             response == response_received \/ c.op = "RECV_IMM"
  <2>1. /\ InTransfer
        /\ response_received' = (response /\ ~Retired(writes))
        /\ host_state' = IF ~Retired(writes) THEN host_state
                         ELSE IF response THEN FINISHED ELSE DATA_RECEIVING
    BY <1>7 DEF HostHandleData, InTransfer
  <2> HIDE DEF writes
  <2>2. response => Answered
    BY <1>4 DEF Answered
  <2>3. response_received' => response
    BY <2>1
  <2>4. Answered' => Answered
    BY <1>1, <1>3, <2>2, <2>3 DEF Answered, q
  <2>5. \/ host_state' = host_state
        \/ host_state' = FINISHED /\ response
        \/ host_state' = DATA_RECEIVING
    <3>1. CASE ~Retired(writes)
      BY <2>1, <3>1
    <3>2. CASE Retired(writes)
      BY <2>1, <3>2
    <3> QED BY <3>1, <3>2
  <2> QED BY <1>1, <1>2, <2>1, <2>2, <2>4, <2>5
<1> QED BY <1>2, <1>5, <1>6, <1>7

(* A step of the worker hands the call on: asked, serving, returning.      *)
LEMMA WorksEffect ==
  ASSUME TypeOK, ShapeInv, WorkerInv, Tokens, NaaWorks, UNCHANGED hostVars
  PROVE  /\ UNCHANGED <<sq["host"], cq["host"]>>
         /\ Asked' => Asked
         /\ Once(cq'["naa"], {"RECV_IMM"})
         /\ CallOf(cq'["naa"], no_rpc_calls)
         /\ Serving' => \/ Serving /\ ~NaaDrain /\ ~NaaRespond
                           /\ naa_serving' = naa_serving
                        \/ Asked /\ ~Asked' /\ ~Returning'
                           /\ naa_serving' = no_rpc_calls
         /\ Returning' => Returning \/ NaaRespond
<1> USE DEF CONNECTED, MRSP_SENDING, MRSP_RECEIVING, MRSP_DONE, DATA_SENDING,
            DATA_RECEIVING, CALCULATING
<1> DEFINE q == cq["naa"]
           k == no_rpc_calls
           imm == {"RECV_IMM"}
<1>0. /\ q \in Seq(Completions) /\ Once(q, imm) /\ CallOf(q, k)
      /\ sq["naa"] \in Seq(WorkRequests)
  BY NaaTypes DEF Tokens
<1>1. UNCHANGED <<sq["host"], cq["host"]>>
  BY NaaKeepsHost DEF NaaWorks, NaaStep, NaaThread
<1>2. CASE NaaDrain
  <2> DEFINE c == Head(q)
  <2>1. q # <<>> /\ cq'["naa"] = Tail(q)
    BY <1>2, NaaDrainEffect
  <2>2. /\ Has(q, imm) <=> Has(Tail(q), imm) \/ c.op \in imm
        /\ Once(Tail(q), imm)
        /\ c.op \in imm => ~Has(Tail(q), imm)
    BY <1>0, <2>1, CompletionLeaves
  <2>3. CallOf(Tail(q), k) /\ (c.op = "RECV_IMM" => c.call = k)
    BY <1>0, <2>1, CallOfMoves
  <2>4. Asked' => Asked
    BY <2>1, <2>2 DEF Asked
  <2>5. ~Serving
    BY <1>2 DEF NaaDrain, WorkerInv, NaaControl, Serving
  <2>6. Returning' => Returning
    <3>1. CASE sq' = sq
      BY <3>1 DEF Returning
    <3>2. CASE NaaHandleAnnounce(c)
      <4>1. naa_state = MRSP_RECEIVING
        BY <3>2 DEF NaaHandleAnnounce
      <4>2. PICK msg \in {"A", "ERR"} : PostMessage(msg)
        BY <3>2 DEF NaaHandleAnnounce
      <4>3. Writes(sq'["naa"]) = {}
        BY <4>1, <4>2, PostMessageQueues DEF WorkerInv, Messages
      <4> QED BY <4>3, NoWriteHas DEF Returning
    <3> QED BY <1>2, <3>1, <3>2 DEF NaaDrain, NaaHandleAnswered, NaaHandleData,
                                    NaaHandleWritten, NaaReject
  <2>7. Serving' => Asked /\ ~Asked' /\ naa_serving' = k /\ sq' = sq
                    /\ naa_state = DATA_RECEIVING
    <3>1. CASE NaaHandleData(c)
      <4>1. Serving' => c.op = "RECV_IMM"
        BY <3>1 DEF NaaHandleData, Serving
      <4>2. c.op = "RECV_IMM" => /\ naa_serving' = c.call /\ sq' = sq
                                 /\ naa_state = DATA_RECEIVING
        BY <3>1 DEF NaaHandleData
      <4> QED BY <2>1, <2>2, <2>3, <4>1, <4>2 DEF Asked
    <3>2. CASE NaaHandleAnnounce(c) \/ NaaHandleAnswered(c) \/ NaaHandleWritten(c)
      BY <3>2 DEF NaaHandleAnnounce, NaaHandleAnswered, NaaHandleWritten, Serving
    <3>3. CASE NaaReject(c)
      BY <2>5, <3>3 DEF NaaReject, Serving
    <3> QED BY <1>2, <3>1, <3>2, <3>3 DEF NaaDrain
  <2>8. Serving' => ~Returning'
    BY <2>6, <2>7, NaaQuiet, NoWriteHas DEF WorkerInv, Returning
  <2>9. ~NaaRespond
    BY <1>2 DEF NaaDrain, NaaRespond
  <2> QED BY <1>1, <2>1, <2>2, <2>3, <2>4, <2>5, <2>6, <2>7, <2>8
<1>3. CASE NaaRespond
  <2>1. UNCHANGED cq /\ ~Serving'
    BY <1>3 DEF NaaRespond, Serving
  <2> QED BY <1>0, <1>1, <1>3, <2>1 DEF Asked
<1>4. CASE /\ NaaStart \/ NaaReceive \/ NaaGetEvent \/ NaaDrained \/ NaaArm
              \/ RunRpc \/ NaaNotices
           /\ ~NaaDrain /\ ~NaaRespond
  <2>1. UNCHANGED <<sq, cq, naa_serving>> /\ (Serving' => Serving)
    BY <1>4 DEF NaaStart, NaaReceive, NaaGetEvent, NaaDrained, NaaArm, RunRpc,
                NaaNotices, verbsVars, Serving
  <2> QED BY <1>0, <1>1, <1>4, <2>1 DEF Asked, Returning
<1> QED BY <1>2, <1>3, <1>4 DEF NaaWorks, NaaPollStep

LEMMA WorksTokens ==
  ASSUME TypeOK, ShapeInv, WorkerInv, Tokens, NaaWorks, UNCHANGED hostVars
  PROVE  Tokens'
<1>1. /\ Requesting' <=> Requesting
      /\ Answered' <=> Answered
      /\ InTransfer' <=> InTransfer
      /\ no_rpc_calls' = no_rpc_calls
  BY WorksEffect DEF Requesting, Answered, hostVars, InTransfer
<1>2. NaaRespond => Serving
  BY DEF NaaRespond, WorkerInv, NaaControl, Serving
<1> QED BY <1>1, <1>2, WorksEffect DEF Tokens

(* The adapters: the request becomes the call to be served, the response   *)
(* the answer.                                                             *)
LEMMA FabricTokens ==
  ASSUME TypeOK, ShapeInv, WorkerInv, Tokens, NEW e \in Ends, Fabric(e),
         UNCHANGED <<hostVars, naaVars>>
  PROVE  /\ Tokens'
         /\ Requesting' => Requesting
         /\ Returning' => Returning
         /\ Asked' => Asked \/ /\ ExecuteReceived("host") /\ e = "host"
                               /\ Head(sq["host"]).op = "WRITE_IMM"
                               /\ Tail(sq["host"]) = <<>>
         /\ Answered' => Answered \/ /\ ExecuteReceived("naa") /\ e = "naa"
                                     /\ Head(sq["naa"]).op = "WRITE_IMM"
                                     /\ Tail(sq["naa"]) = <<>>
<1> DEFINE imm == {"RECV_IMM"}
           k == no_rpc_calls
<1>0. \A f \in Ends : sq[f] \in Seq(WorkRequests) /\ cq[f] \in Seq(Completions)
  BY QueueTypes
<1>1. /\ Once(cq["naa"], imm) /\ CallOf(cq["naa"], k)
  BY DEF Tokens
<1>2. /\ UNCHANGED <<naa_state, naa_serving, host_state, no_rpc_calls,
                     response_received>>
      /\ Serving' <=> Serving
      /\ InTransfer' <=> InTransfer
  BY DEF hostVars, naaVars, Serving, InTransfer
<1>3. ASSUME CanExecute(e), Executed(e)
      PROVE  /\ Requesting' => Requesting
             /\ Returning' => Returning
             /\ Head(sq[e]).op = "WRITE_IMM" =>
                  /\ Tail(sq[e]) = <<>>
                  /\ e = "host" => Requesting /\ ~Requesting'
                  /\ e = "naa" => Returning /\ ~Returning'
  <2>1. /\ sq[e] # <<>> /\ sq'[e] = Tail(sq[e])
        /\ \A f \in Ends : f # e => sq'[f] = sq[f]
    BY <1>3, ExecutedEffect
  <2>2. /\ Has(sq[e], AnyWrite) <=>
             Has(Tail(sq[e]), AnyWrite) \/ Head(sq[e]).op \in AnyWrite
    BY <1>0, <2>1, TailHas
  <2>3. OnlyLast(sq[e], {"WRITE_IMM"})
    BY DEF Ends, ShapeInv, WorkerInv, NaaOrder
  <2>4. Head(sq[e]).op = "WRITE_IMM" => Tail(sq[e]) = <<>>
    BY <1>0, <2>1, <2>3, TailOnlyLast
  <2>5. ~Has(<<>>, AnyWrite)
    BY HasNone
  <2>6. Head(sq[e]).op = "WRITE_IMM" => Head(sq[e]).op \in AnyWrite
    BY DEF AnyWrite
  <2>7. CASE e = "host"
    BY <2>1, <2>2, <2>4, <2>5, <2>6, <2>7 DEF Ends, Requesting, Returning
  <2>8. CASE e = "naa"
    BY <2>1, <2>2, <2>4, <2>5, <2>6, <2>8 DEF Ends, Requesting, Returning
  <2> QED BY <2>7, <2>8 DEF Ends
<1>4. CASE ExecuteWrite(e)
  <2>1. CanExecute(e) /\ Executed(e) /\ UNCHANGED cq
    BY <1>4, WriteEffect
  <2>2. /\ Asked' <=> Asked
        /\ Answered' <=> Answered
    BY <1>2, <2>1 DEF Asked, Answered
  <2>3. Tokens'
    BY <1>2, <1>3, <2>1, <2>2 DEF Tokens
  <2> QED BY <1>3, <2>1, <2>2, <2>3
<1>5. CASE ExecuteReceived(e)
  <2> DEFINE wr == Head(sq[e])
             x == Received(wr)
             p == Peer(e)
  <2>1. /\ CanExecute(e) /\ Executed(e) /\ wr.op \in {"SEND", "WRITE_IMM"}
        /\ x \in Completions
        /\ cq'[p] = Append(cq[p], x) /\ cq'[e] = cq[e]
    BY <1>5, ReceivedEffect
  <2>2. /\ x.op = "RECV_IMM" <=> wr.op = "WRITE_IMM"
        /\ x.op \in imm <=> wr.op = "WRITE_IMM"
        /\ x.call = wr.call
    BY <2>1 DEF Received
  <2>3. p \in Ends
    BY PeerType
  <2> HIDE DEF x, p
  <2>4. /\ Has(Append(cq[p], x), imm) <=> Has(cq[p], imm) \/ wr.op = "WRITE_IMM"
        /\ Once(cq[p], imm) /\ (Has(cq[p], imm) => wr.op # "WRITE_IMM")
             => Once(Append(cq[p], x), imm)
    BY <1>0, <2>1, <2>2, <2>3, CompletionEnters
  <2>5. CASE e = "host"
    <3>1. p = "naa"
      BY <2>5 DEF p, Peer
    <3>2. wr.op = "WRITE_IMM" => wr.call = k /\ Requesting
      <4>1. wr \in HostRequests(Flagged, k)
        BY <2>1, <2>5, ExecutedEffect, QueueMoves DEF ShapeInv
      <4> HIDE DEF wr
      <4>2. wr.op = "WRITE_IMM" => wr.call = k
        BY <4>1 DEF HostRequests
      <4> QED BY <1>3, <2>1, <2>5, <4>2 DEF wr
    <3> HIDE DEF wr
    <3>3. CallOf(Append(cq["naa"], x), k)
      <4>1. x.op = "RECV_IMM" => x.call = k
        BY <2>2, <3>2
      <4>2. cq["naa"] \in Seq(Completions)
        BY <1>0 DEF Ends
      <4> QED BY <1>1, <2>1, <4>1, <4>2, CallOfMoves
    <3>4. wr.op = "WRITE_IMM" => ~Asked
      BY <3>2 DEF Tokens
    <3>5. Once(cq'["naa"], imm) /\ CallOf(cq'["naa"], k)
      BY <1>1, <2>1, <2>4, <3>1, <3>3, <3>4 DEF Asked
    <3>6. /\ Asked' <=> Asked \/ wr.op = "WRITE_IMM"
          /\ Answered' <=> Answered
      BY <1>2, <2>1, <2>4, <2>5, <3>1 DEF Asked, Answered
    <3>7. wr.op = "WRITE_IMM" => Requesting /\ ~Requesting'
      BY <1>3, <2>1, <2>5 DEF wr
    <3>8. Tokens'
      BY <1>2, <1>3, <2>1, <3>5, <3>6, <3>7 DEF Tokens
    <3> QED BY <1>3, <1>5, <2>1, <2>5, <3>6, <3>8 DEF wr
  <2>6. CASE e = "naa"
    <3>1. p = "host"
      BY <2>6 DEF p, Peer
    <3> HIDE DEF wr
    <3>2. Once(cq'["naa"], imm) /\ CallOf(cq'["naa"], k) /\ (Asked' <=> Asked)
      BY <1>1, <2>1, <2>6 DEF Asked
    <3>3. Answered' <=> Answered \/ wr.op = "WRITE_IMM"
      BY <1>2, <2>1, <2>4, <3>1 DEF Answered
    <3>4. wr.op = "WRITE_IMM" => Returning /\ ~Returning'
      BY <1>3, <2>1, <2>6 DEF wr
    <3>5. Tokens'
      BY <1>2, <1>3, <2>1, <3>2, <3>3, <3>4 DEF Tokens
    <3> QED BY <1>3, <1>5, <2>1, <2>6, <3>2, <3>3, <3>5 DEF wr
  <2> QED BY <2>5, <2>6 DEF Ends
<1>6. CASE Acknowledge(e)
  <2> DEFINE x == SendCompletion(Head(unacked[e]), TRUE)
  <2>1. /\ Head(unacked[e]) \in WorkRequests /\ x \in Completions
        /\ cq'[e] = Append(cq[e], x)
        /\ \A f \in Ends : f # e => cq'[f] = cq[f]
        /\ UNCHANGED sq
    BY <1>6, AcknowledgeEffect
  <2>2. x.op # "RECV_IMM"
    BY <2>1, CompletionOfSend
  <2> HIDE DEF x
  <2>3. /\ Has(Append(cq[e], x), imm) <=> Has(cq[e], imm)
        /\ Once(cq[e], imm) => Once(Append(cq[e], x), imm)
    BY <1>0, <2>1, <2>2, CompletionEnters
  <2>4. CallOf(cq[e], k) => CallOf(Append(cq[e], x), k)
    BY <1>0, <2>1, <2>2, CallOfMoves
  <2>5. /\ Once(cq'["naa"], imm) /\ CallOf(cq'["naa"], k)
        /\ Asked' <=> Asked
        /\ Answered' <=> Answered
    <3>1. CASE e = "naa"
      BY <1>1, <1>2, <2>1, <2>3, <2>4, <3>1 DEF Ends, Asked, Answered
    <3>2. CASE e = "host"
      BY <1>1, <1>2, <2>1, <2>3, <3>2 DEF Ends, Asked, Answered
    <3> QED BY <3>1, <3>2 DEF Ends
  <2>6. /\ Requesting' <=> Requesting
        /\ Returning' <=> Returning
    BY <2>1 DEF Requesting, Returning
  <2>7. Tokens'
    BY <1>2, <2>5, <2>6 DEF Tokens
  <2> QED BY <2>5, <2>6, <2>7
<1> QED BY <1>4, <1>5, <1>6 DEF Fabric

(* A new call starts from nothing: no token, and none of its own answer.   *)
LEMMA CallEffect ==
  ASSUME TypeOK, ResponseInv, Tokens, DoDataTransfer, "retry" \notin Faults,
         UNCHANGED naaVars
  PROVE  /\ ~InTransfer /\ ~Asked /\ ~Serving /\ ~Returning
         /\ InTransfer' /\ ~Asked' /\ ~Serving' /\ ~Returning' /\ ~Answered'
         /\ host_state \in {MRSP_DONE, FINISHED} /\ host_state' = DATA_SENDING
         /\ cq'["naa"] = cq["naa"] /\ sq'["naa"] = sq["naa"]
         /\ no_rpc_calls' = no_rpc_calls + 1
<1> USE DEF CONNECTED, MRSP_DONE, FINISHED, DATA_SENDING, DATA_RECEIVING
<1>1. /\ host_state \in {MRSP_DONE, FINISHED} /\ host_state' = DATA_SENDING
      /\ UNCHANGED cq /\ response_received' = FALSE
      /\ no_rpc_calls' = no_rpc_calls + 1
  BY DEF DoDataTransfer, MayCall, WriteData
<1>2. NoResponse
  BY <1>1 DEF ResponseInv
<1>3. ~Has(cq["host"], {"RECV_IMM"})
  BY <1>2 DEF NoResponse, Has, AnyReceive
<1>4. sq'["naa"] = sq["naa"]
  BY HostKeepsNaa
<1>5. ~InTransfer /\ InTransfer'
  BY <1>1 DEF InTransfer
<1>6. ~Answered'
  BY <1>1, <1>3 DEF Answered
<1>7. ~Asked /\ ~Serving /\ ~Returning
  BY <1>5 DEF Tokens
<1>8. ~Asked' /\ ~Serving' /\ ~Returning'
  BY <1>1, <1>4, <1>7 DEF Asked, Serving, Returning, naaVars
<1> QED BY <1>1, <1>4, <1>5, <1>6, <1>7, <1>8

LEMMA CallTokens ==
  ASSUME TypeOK, ResponseInv, Tokens, DoDataTransfer, "retry" \notin Faults,
         UNCHANGED naaVars
  PROVE  Tokens'
<1>1. CallOf(cq'["naa"], no_rpc_calls')
  <2>1. ~Has(cq'["naa"], {"RECV_IMM"})
    BY CallEffect DEF Asked
  <2> QED BY <2>1 DEF CallOf, Has
<1>2. Once(cq'["naa"], {"RECV_IMM"})
  BY CallEffect DEF Tokens
<1> QED BY <1>1, <1>2, CallEffect DEF Tokens

LEMMA MrspEffect ==
  ASSUME TypeOK, ShapeInv, Tokens, DoMrsp, UNCHANGED naaVars
  PROVE  /\ Tokens'
         /\ ~InTransfer /\ ~Requesting' /\ ~Asked' /\ ~Serving' /\ ~Returning'
         /\ UNCHANGED <<mem, cq, no_rpc_calls, to_write, response_received>>
         /\ host_state = CONNECTED /\ host_state' = MRSP_SENDING
<1> DEFINE list == <<AnnounceAndRequest>>
<1>1. /\ UNCHANGED <<mem, cq, no_rpc_calls, to_write, response_received>>
      /\ host_state = CONNECTED /\ host_state' = MRSP_SENDING
  BY DEF DoMrsp
<1>2. PICK wrs \in HostAccepted(list) : PostSend("host", wrs)
  BY DEF DoMrsp
<1>3. sq'["host"] = sq["host"] \o wrs /\ sq'["naa"] = sq["naa"]
  BY <1>2, PostSendEffect DEF Ends
<1>4. ~InTransfer
  BY <1>1 DEF InTransfer, CONNECTED, DATA_SENDING, DATA_RECEIVING
<1>5. list \in Seq(WorkRequests) /\ \A i \in 1..Len(list) : list[i].op = "SEND"
  <2>1. AnnounceAndRequest \in WorkRequests
    BY MessageShape, SubRequests DEF AnnounceAndRequest, Messages
  <2> QED BY <2>1 DEF AnnounceAndRequest
<1> HIDE DEF list
<1>6. wrs \in Seq(WorkRequests) /\ ~Has(wrs, AnyWrite)
  <2>1. /\ wrs \in Seq(WorkRequests) /\ Len(wrs) <= Len(list)
        /\ \A i \in 1..Len(wrs) : wrs[i] = list[i]
    BY <1>2, <1>5, AcceptedElements DEF HostAccepted
  <2>2. Len(wrs) \in Nat /\ Len(list) \in Nat
    BY <1>5, <2>1
  <2>3. \A i \in 1..Len(wrs) : wrs[i].op = "SEND"
    BY <1>5, <2>1, <2>2
  <2> QED BY <2>1, <2>3 DEF Has, AnyWrite
<1>7. ~Requesting /\ ~Asked /\ ~Serving /\ ~Returning
  BY <1>4 DEF Tokens
<1>8. ~Has(sq["host"] \o wrs, AnyWrite)
  <2>1. sq["host"] \in Seq(WorkRequests)
    BY QueueTypes DEF Ends
  <2> QED BY <1>6, <1>7, <2>1, ConcatHas DEF Requesting
<1>9. ~Requesting' /\ ~Asked' /\ ~Serving' /\ ~Returning'
  BY <1>1, <1>3, <1>7, <1>8 DEF Requesting, Asked, Serving, Returning, naaVars
<1>10. Once(cq'["naa"], {"RECV_IMM"}) /\ CallOf(cq'["naa"], no_rpc_calls')
  BY <1>1 DEF Tokens
<1>11. Tokens'
  BY <1>9, <1>10 DEF Tokens
<1> QED BY <1>1, <1>4, <1>9, <1>11

LEMMA HandleTokens ==
  ASSUME TypeOK, Tokens, HostDrain \/ HostBusy, UNCHANGED naaVars
  PROVE  Tokens'
<1>1. /\ UNCHANGED <<sq, no_rpc_calls>> /\ cq'["naa"] = cq["naa"]
      /\ Answered' => Answered
  BY HandleEffect
<1>2. /\ Requesting' <=> Requesting
      /\ Returning' <=> Returning
      /\ Asked' <=> Asked
      /\ Serving' <=> Serving
      /\ naa_serving' = naa_serving
  BY <1>1 DEF Requesting, Returning, Asked, Serving, naaVars
<1>3. InTransfer /\ ~InTransfer' => Answered
  BY HandleEffect DEF InTransfer, FINISHED, DATA_SENDING, DATA_RECEIVING
<1> QED BY <1>1, <1>2, <1>3 DEF Tokens

LEMMA WaitsEffect ==
  ASSUME HostWaits
  PROVE  /\ UNCHANGED <<mem, sq, unacked, cq, qp>>
         /\ UNCHANGED <<host_call, host_state, to_write, rdma_writes_done,
                        response_received, no_rpc_calls, host_fncode>>
  BY DEF HostWaits, HostGetEvent, HostArm, HostDrained, HostTimeout, WaitAgain,
         verbsVars

LEMMA TokensNext ==
  ASSUME TypeOK, ResponseInv, Persistent,
         Alive => ShapeInv /\ WorkerInv /\ Tokens, [Next]_vars
  PROVE  (Alive => Tokens)'
<1> SUFFICES ASSUME Alive' PROVE Tokens'
  OBVIOUS
<1>1. Alive /\ ShapeInv /\ WorkerInv /\ Tokens
  BY LiveSteps
<1>2. CASE DoMrsp /\ UNCHANGED naaVars
  BY <1>1, <1>2, MrspEffect
<1>3. CASE DoDataTransfer /\ UNCHANGED naaVars
  BY <1>1, <1>3, CallTokens DEF Persistent
<1>4. CASE (HostDrain \/ HostBusy) /\ UNCHANGED naaVars
  BY <1>1, <1>4, HandleTokens
<1>5. CASE HostWaits /\ UNCHANGED naaVars
  BY <1>1, <1>5, WaitsEffect, SameTokens DEF tokenVars, naaVars
<1>6. CASE NaaWorks /\ UNCHANGED hostVars
  BY <1>1, <1>6, WorksTokens
<1>7. ASSUME NEW e \in Ends, Fabric(e), UNCHANGED <<hostVars, naaVars>>
      PROVE  Tokens'
  BY <1>1, <1>7, FabricTokens
<1>8. CASE UNCHANGED vars \/ (NaaLeaves /\ UNCHANGED hostVars)
  BY <1>1, <1>8, SameTokens
     DEF vars, NaaLeaves, NaaExit, verbsVars, hostVars, naaVars, tokenVars
<1> QED BY <1>2, <1>3, <1>4, <1>5, <1>6, <1>7, <1>8, LiveSteps

LEMMA TokensInit == Init => Tokens
<1> SUFFICES ASSUME Init PROVE Tokens
  OBVIOUS
<1>1. /\ \A e \in Ends : sq[e] = <<>> /\ cq[e] = <<>>
      /\ response_received = FALSE /\ naa_state = CONNECTED
  BY DEF Init, HostInit, NaaInit
<1>2. ~Requesting /\ ~Asked /\ ~Serving /\ ~Returning
  BY <1>1, HasNone DEF Requesting, Asked, Serving, Returning, Ends, CONNECTED,
                       CALCULATING
<1>3. Once(cq["naa"], {"RECV_IMM"}) /\ CallOf(cq["naa"], no_rpc_calls)
  BY <1>1, HasNone DEF CallOf, Ends
<1> QED BY <1>2, <1>3 DEF Tokens

(* The number of calls tells whether there was one.                        *)
CallsCounted ==
  no_rpc_calls = 0 <=> host_state \notin {DATA_SENDING, DATA_RECEIVING, FINISHED}

LEMMA CountedNext == TypeOK /\ CallsCounted /\ [Next]_vars => CallsCounted'
<1> SUFFICES ASSUME TypeOK, CallsCounted, [Next]_vars PROVE CallsCounted'
  OBVIOUS
<1> USE DEF CONNECTED, MRSP_SENDING, MRSP_RECEIVING, MRSP_DONE, DATA_SENDING,
            DATA_RECEIVING, FINISHED, CallsCounted
<1>1. CASE DoMrsp
  BY <1>1 DEF DoMrsp
<1>2. CASE DoDataTransfer
  <2>1. host_state' = DATA_SENDING /\ no_rpc_calls' = no_rpc_calls + 1
    BY <1>2 DEF DoDataTransfer, WriteData
  <2>2. no_rpc_calls \in Nat
    BY DEF TypeOK, HostTypeOK
  <2> QED BY <2>1, <2>2
<1>3. CASE HostDrain \/ HostBusy
  BY <1>3, HandleEffect DEF InTransfer
<1>4. CASE UNCHANGED <<host_state, no_rpc_calls>>
  BY <1>4
<1>5. CASE HostWaits
  BY <1>4, <1>5, WaitsEffect
<1>6. CASE HostClose \/ WaitInterrupted
  BY <1>4, <1>6 DEF HostClose, WaitInterrupted
<1>7. CASE Naa \/ UNCHANGED vars \/ \E e \in Ends : Carry(e) \/ Break(e)
  BY <1>4, <1>7 DEF Naa, Carry, Break, vars, hostVars
<1> QED BY <1>1, <1>2, <1>3, <1>5, <1>6, <1>7
        DEF Next, Host, HostStep, HostPollStep, HostWaits

LEMMA CountedCorrect == Spec => []CallsCounted
<1>1. Init => CallsCounted
  BY DEF Init, HostInit, CallsCounted, CONNECTED, DATA_SENDING, DATA_RECEIVING,
         FINISHED
<1> QED BY <1>1, CountedNext, TypeCorrect, PTL DEF Spec

ExchangeInv == ShapeInv /\ WorkerInv /\ Tokens

(* While the connection is up and the host has not given up, there is one  *)
(* call at most and it is in one place: as a request of the host, asked of *)
(* the worker, being served, as its response or as the answer.  The worker *)
(* works for the call the application is in, whatever faults there were    *)
(* that did not take the connection down.                                  *)
THEOREM OneCallInOnePlace ==
  ASSUME Persistent
  PROVE  Spec => [](Alive => ExchangeInv)
<1>1. "retry" \notin Faults
  BY DEF Persistent
<1>2. Init => (Alive => ExchangeInv)
  BY ShapeInit, WorkerInit, TokensInit DEF ExchangeInv
<1>3. /\ TypeOK /\ WritesInOrder /\ ResponseInv
      /\ (Alive => ExchangeInv) /\ [Next]_vars
      => (Alive => ExchangeInv)'
  <2> SUFFICES ASSUME TypeOK, WritesInOrder, ResponseInv, Alive => ExchangeInv,
                      [Next]_vars
               PROVE  (Alive => ExchangeInv)'
    OBVIOUS
  <2>1. HostOrder
    BY OrderIsWritesInOrder
  <2>2. (Alive => ShapeInv)'
    BY <2>1, ShapeNext DEF ExchangeInv
  <2>3. (Alive => WorkerInv)'
    BY WorkerNext DEF ExchangeInv
  <2>4. (Alive => Tokens)'
    BY TokensNext DEF ExchangeInv
  <2> QED BY <2>2, <2>3, <2>4 DEF ExchangeInv
<1> QED BY <1>1, <1>2, <1>3, TypeCorrect, OrderKept, OneResponse, PTL DEF Spec
===============================================================================
