--------------------------- MODULE NaaiceDataProofs ---------------------------
(***************************************************************************)
(* What is in the regions.  The writes of a call are in flight or landed,  *)
(* and since there is one call in one place nobody writes what the other   *)
(* side is using: the kernel sees the inputs of its call, the application  *)
(* its results, and its regions are left alone between calls.              *)
(***************************************************************************)
EXTENDS NaaiceExchangeProofs

Of(end, k) == [by |-> end, call |-> k]

(* A write lands in its region and nowhere else.                           *)
LEMMA LandEffect ==
  ASSUME TypeOK, NEW e \in Ends, CanExecute(e), Executed(e)
  PROVE  /\ mem'[e] = mem[e]
         /\ Head(sq[e]).mr = NoRegion => UNCHANGED mem
         /\ \A r \in Regions :
              mem'[Peer(e)][r] = IF r = Head(sq[e]).mr THEN mem[e][r]
                                 ELSE mem[Peer(e)][r]
<1> DEFINE wr == Head(sq[e])
<1>1. Land(e, wr) /\ wr \in WorkRequests
  BY ExecutedEffect
<1>2. mem \in [Ends -> [Regions -> Contents]] /\ Peer(e) \in Ends /\ Peer(e) # e
  BY PeerType DEF TypeOK, VerbsTypeOK
<1> HIDE DEF wr
<1>3. CASE wr.mr = NoRegion
  <2>1. UNCHANGED mem
    BY <1>1, <1>3 DEF Land
  <2>2. NoRegion \notin Regions
    BY VerbsAssumption DEF NoRegion
  <2> QED BY <1>3, <2>1, <2>2 DEF wr
<1>4. CASE wr.mr # NoRegion
  <2>1. mem' = [mem EXCEPT ![Peer(e)][wr.mr] = mem[e][wr.mr]]
    BY <1>1, <1>4 DEF Land
  <2>2. wr.mr \in Regions
    BY <1>1, <1>4 DEF WorkRequests
  <2>3. mem'[e] = mem[e]
    BY <1>2, <2>1
  <2>4. \A r \in Regions :
          mem'[Peer(e)][r] = IF r = wr.mr THEN mem[e][r] ELSE mem[Peer(e)][r]
    BY <1>2, <2>1, <2>2
  <2> QED BY <1>4, <2>3, <2>4 DEF wr
<1> QED BY <1>3, <1>4

(* What was in flight is so still, or has landed.                          *)
LEMMA Carried ==
  ASSUME TypeOK, NEW e \in Ends, CanExecute(e), Executed(e),
         NEW r \in Regions, NEW v, mem[e][r] = v,
         InFlight(sq[e], r) \/ mem[Peer(e)][r] = v
  PROVE  InFlight(Tail(sq[e]), r) \/ mem'[Peer(e)][r] = v
<1>1. mem'[Peer(e)][r] = IF r = Head(sq[e]).mr THEN mem[e][r]
                         ELSE mem[Peer(e)][r]
  BY LandEffect
<1>2. InFlight(sq[e], r) => InFlight(Tail(sq[e]), r) \/ Head(sq[e]).mr = r
  <2>1. sq[e] \in Seq(WorkRequests) /\ sq[e] # <<>>
    BY QueueTypes, ExecutedEffect
  <2> QED BY <2>1, TailInFlight
<1> QED BY <1>1, <1>2

(* If the last write of a list was accepted they all were.                 *)
LEMMA AllAccepted ==
  ASSUME NEW S, NEW list \in Seq(S), NEW mayFail, NEW r \in Accepted(list, mayFail),
         OnlyLast(list, {"WRITE_IMM"}), Has(r, {"WRITE_IMM"}),
         NEW x, InFlight(list, x)
  PROVE  InFlight(r, x)
<1>1. /\ Len(r) <= Len(list) /\ Len(r) \in Nat /\ Len(list) \in Nat
      /\ \A i \in 1..Len(r) : r[i] = list[i]
  BY AcceptedElements
<1>2. PICK i \in 1..Len(r) : r[i].op \in {"WRITE_IMM"}
  BY DEF Has
<1>3. i = Len(list)
  <2>1. i \in 1..Len(list) /\ list[i].op \in {"WRITE_IMM"}
    BY <1>1, <1>2
  <2> QED BY <2>1 DEF OnlyLast
<1>4. Len(r) = Len(list)
  BY <1>1, <1>2, <1>3
<1>5. PICK j \in 1..Len(list) : list[j].mr = x
  BY DEF InFlight
<1> QED BY <1>1, <1>4, <1>5 DEF InFlight

-------------------------------------------------------------------------------
(***************************************************************************)
(* The inputs, from the application to the kernel.                         *)
(***************************************************************************)
Request == Has(sq["host"], {"WRITE_IMM"})

(* The inputs are the application's until all are written.                 *)
InputsReady ==
  Requesting => \A r \in InputRegions : mem["host"][r] = Of("host", no_rpc_calls)

(* The immediate does not overtake the data.                               *)
RequestCarries ==
  Request => \A r \in InputRegions \cap Flagged :
               \/ InFlight(sq["host"], r)
               \/ mem["naa"][r] = Of("host", no_rpc_calls)

(* The data is there when the immediate is.                                *)
InputsThere ==
  Asked \/ (Serving /\ naa_pc # "respond") =>
    \A r \in InputRegions \cap Flagged :
      mem["naa"][r] = Of("host", no_rpc_calls)

(* Once the first call has arrived, so have the single-send regions, and   *)
(* nobody but the kernel writes them again.                                *)
Landed == \/ Asked \/ Serving \/ Returning \/ Answered
          \/ host_state = FINISHED \/ no_rpc_calls > 1
SingleThere ==
  Landed => \A r \in SingleSend \ OutputRegions : mem["naa"][r] = Of("host", 1)

InputInv == InputsReady /\ RequestCarries /\ InputsThere /\ SingleThere

inputVars == <<mem, sq, cq["naa"], naa_state, naa_pc, to_write, no_rpc_calls>>

LEMMA RegionTypes ==
  /\ InputRegions \subseteq Regions /\ SingleSend \subseteq InputRegions
  /\ RegionsOf(Inputs) = InputRegions
  /\ InputRegions \ SingleSend \subseteq RegionsOf(RepeatInputs)
  /\ \A r \in SingleSend : r \notin RegionsOf(RepeatInputs)
  /\ OutputRegions \subseteq Regions
  /\ NoRegion \notin Regions
<1>1. Inputs \in Seq(Regions) /\ Outputs \in Seq(Regions)
  BY HostAssumption, WorkerAssumption
<1>2. InputRegions \subseteq Regions /\ OutputRegions \subseteq Regions
  BY <1>1 DEF InputRegions, OutputRegions
<1>3. NoRegion \notin Regions
  BY VerbsAssumption DEF NoRegion
<1> QED BY <1>2, <1>3 DEF InputRegions, RegionsOf, SingleSend

(* Nothing of a call changes, and there is no more sign of one.            *)
LEMMA SameInputs ==
  InputInv /\ UNCHANGED inputVars /\ (Landed' => Landed) => InputInv'
  BY DEF inputVars, InputInv, InputsReady, RequestCarries, InputsThere,
         SingleThere, Request, Requesting, Asked, Serving, Flagged

LEMMA RequestRequests ==
  /\ Request => Requesting
  /\ Has(sq["naa"], {"WRITE_IMM"}) => Returning
  BY DEF Request, Requesting, Returning, Has, AnyWrite

LEMMA CallInputs ==
  ASSUME TypeOK, ResponseInv, HostOrder, ExchangeInv, CallsCounted, InputInv,
         DoDataTransfer, UNCHANGED naaVars, "retry" \notin Faults, Alive'
  PROVE  InputInv'
<1> DEFINE k == no_rpc_calls + 1
           list == WriteList(to_write', Immediate, k)
<1>1. /\ ~InTransfer /\ ~Asked' /\ ~Serving' /\ ~Returning' /\ ~Answered'
      /\ host_state \in {MRSP_DONE, FINISHED} /\ host_state' = DATA_SENDING
      /\ no_rpc_calls' = k
  BY CallEffect DEF ExchangeInv
<1>2. no_rpc_calls \in Nat /\ k \in Nat
  BY DEF TypeOK, HostTypeOK
<1>3. /\ mem'["naa"] = mem["naa"]
      /\ \A r \in InputRegions : mem'["host"][r] = Of("host", k)
  BY RegionTypes DEF DoDataTransfer, TypeOK, VerbsTypeOK, Ends, Of
<1>4. InputsReady'
  BY <1>1, <1>3 DEF InputsReady
<1>5. InputsThere'
  BY <1>1 DEF InputsThere
<1>6. SingleThere'
  <2>1. Landed' => no_rpc_calls > 0
    BY <1>1, <1>2 DEF Landed, DATA_SENDING, FINISHED
  <2>2. Landed' => Landed
    BY <1>1, <2>1 DEF CallsCounted, Landed, MRSP_DONE, DATA_SENDING,
                      DATA_RECEIVING, FINISHED
  <2> QED BY <1>3, <2>2 DEF InputInv, SingleThere
<1>7. RequestCarries'
  <2>1. ShapeInv'
    BY DoDataTransferShape DEF ExchangeInv
  <2>2. to_write' \in Seq(Regions)
    BY <2>1, HostAssumption DEF ShapeInv
  <2>3. /\ list \in Seq(HostRequests(Flagged', k))
        /\ OnlyLast(list, {"WRITE_IMM"})
    BY <1>2, <2>2, WriteListShape, ImmediateNonzero DEF Flagged
  <2>4. WriteData(host_fncode', k) /\ host_fncode' # 0
    BY DEF DoDataTransfer, Alive
  <2>5. PICK wrs \in HostAccepted(list) : PostSend("host", wrs)
    BY <1>2, <2>4 DEF WriteData, Dropped
  <2>6. sq'["host"] = sq["host"] \o wrs
    BY <2>5, PostSendEffect DEF Ends
  <2>7. ASSUME NEW r \in Flagged' PROVE InFlight(list, r)
    <3>1. PICK i \in 1..Len(to_write') : r = to_write'[i]
      BY <2>7 DEF Flagged, RegionsOf
    <3>2. Len(list) = Len(to_write') /\ list[i].mr = r
      BY <3>1 DEF WriteList, WriteRequest
    <3> QED BY <3>1, <3>2 DEF InFlight
  <2> HIDE DEF list, k
  <2>8. wrs \in Seq(WorkRequests) /\ sq["host"] \in Seq(WorkRequests)
    <3>1. wrs \in Seq(HostRequests(Flagged', k))
      BY <2>3, <2>5, AcceptedElements DEF HostAccepted
    <3>2. HostRequests(Flagged', k) \subseteq WorkRequests
      BY SubRequests
    <3> HIDE DEF Flagged
    <3>3. wrs \in Seq(WorkRequests)
      BY <3>1, <3>2
    <3> QED BY <3>3, QueueTypes DEF Ends
  <2>9. ~Has(sq["host"], {"WRITE_IMM"})
    <3>1. Writes(sq["host"]) = {}
      BY <1>1, Quiet
    <3> QED BY <3>1, NoWriteHas
  <2>10. Request' => Has(wrs, {"WRITE_IMM"})
    BY <2>6, <2>8, <2>9, ConcatHas DEF Request
  <2>11. ASSUME Request', NEW r \in Flagged' PROVE InFlight(sq'["host"], r)
    <3>1. InFlight(wrs, r)
      <4>1. Has(wrs, {"WRITE_IMM"}) /\ InFlight(list, r)
        BY <2>7, <2>10, <2>11
      <4> QED BY <2>3, <2>5, <4>1, AllAccepted DEF HostAccepted
    <3> QED BY <2>6, <2>8, <3>1, ConcatInFlight
  <2> QED BY <2>11 DEF RequestCarries
<1> QED BY <1>4, <1>5, <1>6, <1>7 DEF InputInv

LEMMA MrspInputs ==
  ASSUME TypeOK, ExchangeInv, InputInv, DoMrsp, UNCHANGED naaVars
  PROVE  InputInv'
<1>1. /\ ~Requesting' /\ ~Asked' /\ ~Serving' /\ ~Returning'
      /\ UNCHANGED <<mem, cq, no_rpc_calls, response_received>>
      /\ host_state' = MRSP_SENDING
  BY MrspEffect DEF ExchangeInv
<1>2. ~Request'
  BY <1>1 DEF Request, Requesting, Has, AnyWrite
<1>3. Landed' => Landed
  BY <1>1 DEF Landed, Answered, MRSP_SENDING, FINISHED
<1> QED BY <1>1, <1>2, <1>3
        DEF InputInv, InputsReady, RequestCarries, InputsThere, SingleThere

LEMMA HandleInputs ==
  ASSUME TypeOK, InputInv, HostDrain \/ HostBusy, UNCHANGED naaVars
  PROVE  InputInv'
<1>1. /\ UNCHANGED <<mem, sq, to_write, no_rpc_calls>>
      /\ cq'["naa"] = cq["naa"] /\ (Answered' => Answered)
      /\ host_state' # host_state /\ host_state' = FINISHED => Answered
  BY HandleEffect DEF MRSP_RECEIVING, MRSP_DONE, DATA_RECEIVING, FINISHED
<1>2. UNCHANGED <<naa_state, naa_pc>>
  BY DEF naaVars
<1>3. Landed' => Landed
  BY <1>1, <1>2 DEF Landed, Asked, Serving, Returning
<1> QED BY <1>1, <1>2, <1>3, SameInputs DEF inputVars

(* The kernel writes only outputs, and only while it is the one to.        *)
LEMMA RunRpcEffect ==
  ASSUME TypeOK, RunRpc
  PROVE  /\ mem'["host"] = mem["host"] /\ UNCHANGED <<sq, cq>>
         /\ \A r \in Regions : mem'["naa"][r] =
              IF r \in OutputRegions THEN Of("naa", naa_serving)
              ELSE mem["naa"][r]
         /\ naa_pc' = "respond" /\ naa_state' = naa_state
  BY DEF RunRpc, TypeOK, VerbsTypeOK, Ends, Of

LEMMA WorksKeepMemory ==
  ASSUME NaaWorks, ~RunRpc
  PROVE  UNCHANGED mem
  BY DEF NaaWorks, NaaStart, NaaReceive, NaaPollStep, NaaGetEvent, NaaDrain,
         NaaDrained, NaaArm, NaaRespond, NaaNotices, verbsVars

LEMMA RespondPc ==
  ASSUME NaaWorks, naa_pc = "respond"
  PROVE  NaaRespond
  BY DEF NaaWorks, NaaStart, NaaReceive, NaaPollStep, NaaGetEvent, NaaDrain,
         NaaDrained, NaaArm, NaaNotices, RunRpc

LEMMA WorksInputs ==
  ASSUME TypeOK, ExchangeInv, InputInv, NaaWorks, UNCHANGED hostVars
  PROVE  InputInv'
<1>1. ShapeInv /\ WorkerInv /\ Tokens
  BY DEF ExchangeInv
<1>2. /\ UNCHANGED <<sq["host"], cq["host"], to_write, no_rpc_calls, host_state,
                     response_received>>
      /\ Asked' => Asked
      /\ Serving' => (Serving /\ ~NaaRespond) \/ Asked
      /\ Returning' => Returning \/ NaaRespond
  BY <1>1, WorksEffect DEF hostVars
<1>3. NaaRespond \/ RunRpc => Serving
  BY <1>1 DEF NaaRespond, RunRpc, WorkerInv, NaaControl, Serving
<1>4. Landed' => Landed
  BY <1>2, <1>3 DEF Landed, Answered
<1>5. /\ Requesting' <=> Requesting
      /\ Request' <=> Request
      /\ Flagged' = Flagged
  BY <1>2 DEF Requesting, Request, Flagged
<1>6. CASE RunRpc
  <2>1. /\ mem'["host"] = mem["host"] /\ naa_pc' = "respond"
        /\ \A r \in Regions \ OutputRegions : mem'["naa"][r] = mem["naa"][r]
    BY <1>6, RunRpcEffect
  <2>2. ~Requesting /\ ~Asked /\ Landed
    BY <1>1, <1>3, <1>6 DEF Tokens, Landed
  <2>3. ~Requesting' /\ ~Request' /\ ~Asked'
    BY <1>2, <1>5, <2>2, RequestRequests
  <2>4. SingleThere'
    BY <1>2, <2>1, <2>2, RegionTypes DEF InputInv, SingleThere
  <2> QED BY <2>1, <2>3, <2>4 DEF InputInv, InputsReady, RequestCarries,
                                  InputsThere
<1>7. CASE ~RunRpc
  <2>1. UNCHANGED mem
    BY <1>7, WorksKeepMemory
  <2>2. InputsReady' /\ RequestCarries' /\ SingleThere'
    BY <1>2, <1>4, <1>5, <2>1 DEF InputInv, InputsReady, RequestCarries,
                                  SingleThere
  <2>3. Asked' \/ (Serving' /\ naa_pc' # "respond") =>
          Asked \/ (Serving /\ naa_pc # "respond")
    BY <1>2, RespondPc
  <2>4. InputsThere'
    BY <1>2, <1>5, <2>1, <2>3 DEF InputInv, InputsThere
  <2> QED BY <2>2, <2>4 DEF InputInv
<1> QED BY <1>6, <1>7

(* The adapter writes only what is being requested, and there only regions *)
(* flagged for this call.                                                  *)
LEMMA RequestLands ==
  ASSUME TypeOK, ExchangeInv, InputInv, CanExecute("host"), Executed("host")
  PROVE  /\ mem'["host"] = mem["host"]
         /\ ~Requesting => UNCHANGED mem
         /\ \A r \in Regions \ Flagged : mem'["naa"][r] = mem["naa"][r]
         /\ Request => \A r \in InputRegions \cap Flagged :
                         \/ InFlight(Tail(sq["host"]), r)
                         \/ mem'["naa"][r] = Of("host", no_rpc_calls)
<1> DEFINE wr == Head(sq["host"])
           S == HostRequests(Flagged, no_rpc_calls)
<1>1. "host" \in Ends /\ Peer("host") = "naa"
  BY DEF Ends, Peer
<1>2. /\ mem'["host"] = mem["host"]
      /\ wr.mr = NoRegion => UNCHANGED mem
      /\ \A r \in Regions : mem'["naa"][r] = IF r = wr.mr THEN mem["host"][r]
                                             ELSE mem["naa"][r]
  BY <1>1, LandEffect
<1>3. sq["host"] # <<>> /\ sq["host"] \in Seq(WorkRequests)
  BY <1>1, ExecutedEffect, QueueTypes
<1>4. wr \in S
  BY <1>3, QueueMoves DEF ExchangeInv, ShapeInv
<1> HIDE DEF wr
<1>5. /\ wr.op = "SEND" => wr.mr = NoRegion
      /\ wr.op \in AnyWrite => wr.mr \in Flagged
      /\ wr.op = "SEND" \/ wr.op \in AnyWrite
  BY <1>4 DEF HostRequests, WorkRequests, AnyWrite
<1>6. wr.op \in AnyWrite => Requesting
  BY <1>3, TailHas DEF Requesting, wr
<1>7. \A r \in Regions \ Flagged : r # wr.mr
  BY <1>5, RegionTypes
<1>8. ASSUME Request, NEW r \in InputRegions \cap Flagged
      PROVE  \/ InFlight(Tail(sq["host"]), r)
             \/ mem'["naa"][r] = Of("host", no_rpc_calls)
  <2>1. mem["host"][r] = Of("host", no_rpc_calls)
    BY <1>8, RequestRequests DEF InputInv, InputsReady
  <2>2. InFlight(sq["host"], r) \/ mem["naa"][r] = Of("host", no_rpc_calls)
    BY <1>8 DEF InputInv, RequestCarries
  <2>3. r \in Regions
    BY <1>8, RegionTypes
  <2> QED BY <1>1, <2>1, <2>2, <2>3, Carried
<1> QED BY <1>2, <1>5, <1>6, <1>7, <1>8

LEMMA FabricInputs ==
  ASSUME TypeOK, ExchangeInv, CallsCounted, InputInv, NEW e \in Ends, Fabric(e),
         UNCHANGED <<hostVars, naaVars>>
  PROVE  InputInv'
<1>1. ShapeInv /\ WorkerInv /\ Tokens
  BY DEF ExchangeInv
<1>2. /\ UNCHANGED <<to_write, no_rpc_calls, host_state, response_received,
                     naa_state, naa_pc>>
      /\ Flagged' = Flagged
      /\ Serving' <=> Serving
  BY DEF hostVars, naaVars, Flagged, Serving
<1>3. /\ Requesting' => Requesting
      /\ Returning' => Returning
      /\ Asked' => Asked \/ /\ ExecuteReceived("host") /\ e = "host"
                            /\ Head(sq["host"]).op = "WRITE_IMM"
                            /\ Tail(sq["host"]) = <<>>
      /\ Answered' => Answered \/ /\ ExecuteReceived("naa") /\ e = "naa"
                                  /\ Head(sq["naa"]).op = "WRITE_IMM"
                                  /\ Tail(sq["naa"]) = <<>>
  BY <1>1, FabricTokens
<1>4. CASE Acknowledge(e)
  <2>1. UNCHANGED <<mem, sq>>
    BY <1>4, AcknowledgeEffect
  <2>2. /\ Requesting' <=> Requesting
        /\ Request' <=> Request
    BY <2>1 DEF Requesting, Request
  <2>3. (Asked' => Asked) /\ (Answered' => Answered)
    <3>1. UNCHANGED recvs
      BY <1>4, AcknowledgeEffect
    <3>2. ~ExecuteReceived(e)
      BY <3>1, ReceivedEffect, PeerType, QueueTypes
    <3> QED BY <1>3, <3>2
  <2>4. Landed' => Landed
    BY <1>2, <1>3, <2>3 DEF Landed
  <2> QED BY <1>2, <2>1, <2>2, <2>3, <2>4
          DEF InputInv, InputsReady, RequestCarries, InputsThere, SingleThere
<1>5. CASE e = "naa" /\ CanExecute(e) /\ Executed(e)
  <2>1. mem'["naa"] = mem["naa"] /\ sq'["host"] = sq["host"]
    BY <1>5, LandEffect, ExecutedEffect DEF Ends
  <2>2. sq["naa"] # <<>> /\ sq["naa"] \in Seq(WorkRequests)
    BY <1>5, ExecutedEffect, QueueTypes DEF Ends
  <2>3. Head(sq["naa"]).op \in AnyWrite => Returning
    BY <2>2, TailHas DEF Returning
  <2>4. ~Returning => UNCHANGED mem
    <3>1. Head(sq["naa"]) \in NaaRequests
      BY <1>1, <2>2, QueueMoves DEF ShapeInv
    <3>2. Head(sq["naa"]).op \notin AnyWrite => Head(sq["naa"]).mr = NoRegion
      BY <3>1 DEF NaaRequests, WorkRequests, AnyWrite
    <3> QED BY <1>5, <2>3, <3>2, LandEffect
  <2>5. /\ Requesting' <=> Requesting
        /\ Request' <=> Request
    BY <2>1 DEF Requesting, Request
  <2>6. Asked' => Asked
    BY <1>3, <1>5
  <2>7. Answered' => Answered \/ Returning
    BY <1>3, <2>3 DEF AnyWrite
  <2>8. Landed' => Landed
    BY <1>2, <1>3, <2>6, <2>7 DEF Landed
  <2>9. InputsReady'
    BY <1>1, <1>2, <2>4, <2>5 DEF InputInv, InputsReady, Tokens
  <2> QED BY <1>2, <2>1, <2>5, <2>6, <2>8, <2>9
          DEF InputInv, RequestCarries, InputsThere, SingleThere
<1>6. CASE e = "host" /\ CanExecute(e) /\ Executed(e)
  <2>1. /\ mem'["host"] = mem["host"]
        /\ ~Requesting => UNCHANGED mem
        /\ \A r \in Regions \ Flagged : mem'["naa"][r] = mem["naa"][r]
        /\ Request => \A r \in InputRegions \cap Flagged :
                        \/ InFlight(Tail(sq["host"]), r)
                        \/ mem'["naa"][r] = Of("host", no_rpc_calls)
    BY <1>6, RequestLands
  <2>2. /\ sq["host"] # <<>> /\ sq["host"] \in Seq(WorkRequests)
        /\ sq'["host"] = Tail(sq["host"])
    BY <1>6, ExecutedEffect, QueueTypes DEF Ends
  <2>3. Request' => Request
    BY <2>2, TailHas DEF Request
  <2>4. InputsReady' /\ RequestCarries'
    BY <1>2, <1>3, <2>1, <2>2, <2>3 DEF InputInv, InputsReady, RequestCarries
  <2>5. CASE ~Requesting
    <3>1. ~Head(sq["host"]).op = "WRITE_IMM"
      BY <2>2, <2>5, TailHas DEF Requesting, AnyWrite
    <3>2. Asked' => Asked
      BY <1>3, <3>1
    <3>3. Answered' => Answered
      BY <1>3, <1>6
    <3>4. Landed' => Landed
      BY <1>2, <1>3, <3>2, <3>3 DEF Landed
    <3>5. UNCHANGED mem
      BY <2>1, <2>5
    <3> QED BY <1>2, <2>4, <3>2, <3>4, <3>5
            DEF InputInv, InputsThere, SingleThere
  <2>6. CASE Requesting
    <3>1. /\ InTransfer /\ ~Asked /\ ~Serving /\ ~Returning /\ ~Answered
          /\ host_state # FINISHED /\ no_rpc_calls \in Nat /\ no_rpc_calls # 0
      BY <1>1, <2>6 DEF Tokens, CallsCounted, InTransfer, TypeOK, HostTypeOK,
                        DATA_SENDING, DATA_RECEIVING, FINISHED
    <3>2. /\ ~Serving' /\ ~Returning' /\ ~Answered' /\ host_state' # FINISHED
      BY <1>2, <1>3, <1>6, <3>1
    <3>3. Asked' => Request /\ Tail(sq["host"]) = <<>>
      BY <1>3, <2>2, <3>1, TailHas DEF Request
    <3>4. ~\E r \in Regions : InFlight(<<>>, r)
      BY DEF InFlight
    <3>5. InputsThere'
      BY <1>2, <2>1, <3>2, <3>3, <3>4, RegionTypes DEF InputsThere
    <3>6. SingleThere'
      <4>1. CASE no_rpc_calls > 1
        <5>1. \A r \in SingleSend : r \in Regions \ Flagged
          BY <1>1, <4>1, RegionTypes DEF ShapeInv, Flagged
        <5>2. Landed
          BY <4>1 DEF Landed
        <5> QED BY <2>1, <5>1, <5>2 DEF InputInv, SingleThere
      <4>2. CASE no_rpc_calls = 1
        <5>1. \A r \in SingleSend : r \in InputRegions \cap Flagged
          BY <1>1, <4>2, RegionTypes DEF ShapeInv, Flagged
        <5>2. Landed' => Asked'
          BY <1>2, <3>2, <4>2 DEF Landed
        <5> QED BY <1>2, <3>5, <4>2, <5>1, <5>2 DEF InputsThere, SingleThere
      <4> QED BY <3>1, <4>1, <4>2
    <3> QED BY <2>4, <3>5, <3>6 DEF InputInv
  <2> QED BY <2>5, <2>6
<1> QED BY <1>4, <1>5, <1>6, WriteEffect, ReceivedEffect DEF Fabric, Ends

LEMMA InputsNext ==
  ASSUME TypeOK, ResponseInv, HostOrder, CallsCounted, Persistent,
         Alive => ExchangeInv /\ InputInv, [Next]_vars
  PROVE  (Alive => InputInv)'
<1> SUFFICES ASSUME Alive' PROVE InputInv'
  OBVIOUS
<1>1. Alive /\ ExchangeInv /\ InputInv
  BY LiveSteps
<1>2. CASE DoMrsp /\ UNCHANGED naaVars
  BY <1>1, <1>2, MrspInputs
<1>3. CASE DoDataTransfer /\ UNCHANGED naaVars
  BY <1>1, <1>3, CallInputs DEF Persistent
<1>4. CASE (HostDrain \/ HostBusy) /\ UNCHANGED naaVars
  BY <1>1, <1>4, HandleInputs
<1>5. CASE HostWaits /\ UNCHANGED naaVars
  <2>1. UNCHANGED inputVars /\ (Landed' => Landed)
    BY <1>5, WaitsEffect
       DEF inputVars, naaVars, Landed, Asked, Serving, Returning, Answered
  <2> QED BY <1>1, <2>1, SameInputs
<1>6. CASE NaaWorks /\ UNCHANGED hostVars
  BY <1>1, <1>6, WorksInputs
<1>7. ASSUME NEW e \in Ends, Fabric(e), UNCHANGED <<hostVars, naaVars>>
      PROVE  InputInv'
  BY <1>1, <1>7, FabricInputs
<1>8. CASE UNCHANGED vars
  <2>1. UNCHANGED inputVars /\ (Landed' => Landed)
    BY <1>8 DEF vars, verbsVars, hostVars, naaVars, inputVars, Landed, Asked,
                Serving, Returning, Answered
  <2> QED BY <1>1, <2>1, SameInputs
<1>9. CASE NaaLeaves /\ UNCHANGED hostVars
  BY <1>1, <1>9
     DEF NaaLeaves, NaaExit, verbsVars, hostVars, InputInv, InputsReady,
         RequestCarries, InputsThere, SingleThere, Landed, Asked, Serving,
         Returning, Answered, Requesting, Request, Flagged
<1> QED BY <1>2, <1>3, <1>4, <1>5, <1>6, <1>7, <1>8, <1>9, LiveSteps

LEMMA InputsInit == Init => InputInv
<1> SUFFICES ASSUME Init PROVE InputInv
  OBVIOUS
<1>1. /\ \A e \in Ends : sq[e] = <<>> /\ cq[e] = <<>>
      /\ response_received = FALSE /\ naa_state = CONNECTED
      /\ host_state = CONNECTED /\ no_rpc_calls = 0
  BY DEF Init, HostInit, NaaInit
<1>2. ~Requesting /\ ~Request /\ ~Asked /\ ~Serving /\ ~Returning /\ ~Answered
  BY <1>1, HasNone DEF Requesting, Request, Asked, Serving, Returning, Answered,
                       Ends, CONNECTED, CALCULATING
<1>3. ~Landed
  BY <1>1, <1>2 DEF Landed, CONNECTED, FINISHED
<1> QED BY <1>2, <1>3 DEF InputInv, InputsReady, RequestCarries, InputsThere,
                          SingleThere

(* While the connection is up the inputs are those of the call the         *)
(* application is in, wherever that call is.                               *)
LEMMA InputsCorrect ==
  ASSUME Persistent
  PROVE  Spec => [](Alive => InputInv)
<1>1. "retry" \notin Faults
  BY DEF Persistent
<1>2. Init => (Alive => InputInv)
  BY InputsInit
<1>3. /\ TypeOK /\ WritesInOrder /\ ResponseInv /\ CallsCounted
      /\ (Alive => ExchangeInv) /\ (Alive => InputInv) /\ [Next]_vars
      => (Alive => InputInv)'
  <2> SUFFICES ASSUME TypeOK, WritesInOrder, ResponseInv, CallsCounted,
                      Alive => ExchangeInv /\ InputInv, [Next]_vars
               PROVE  (Alive => InputInv)'
    OBVIOUS
  <2>1. HostOrder
    BY OrderIsWritesInOrder
  <2> QED BY <2>1, InputsNext
<1> QED BY <1>1, <1>2, <1>3, TypeCorrect, OrderKept, OneResponse,
           CountedCorrect, OneCallInOnePlace, PTL DEF Spec

(* While the connection is up the kernel starts on the data of the call    *)
(* the application is in, single-send regions holding those of the first,  *)
(* whatever faults there were that did not take it down.                   *)
THEOREM KernelGetsItsCall ==
  ASSUME Persistent
  PROVE  Spec => [](Alive => KernelSeesItsCall)
<1>1. ExchangeInv /\ InputInv => KernelSeesItsCall
  <2> SUFFICES ASSUME ExchangeInv, InputInv, naa_pc = "rpc"
               PROVE  /\ naa_serving = no_rpc_calls
                      /\ \A r \in InputRegions :
                           r \in SingleSend \cap OutputRegions \/
                           mem["naa"][r] =
                             Of("host", IF r \in SingleSend THEN 1 ELSE naa_serving)
    BY DEF KernelSeesItsCall, Of
  <2>1. Serving
    BY DEF ExchangeInv, WorkerInv, NaaControl, Serving
  <2>2. naa_serving = no_rpc_calls
    BY <2>1 DEF ExchangeInv, Tokens
  <2>3. ASSUME NEW r \in SingleSend \ OutputRegions
        PROVE  mem["naa"][r] = Of("host", 1)
    BY <2>1, <2>3 DEF Landed, InputInv, SingleThere
  <2>4. ASSUME NEW r \in InputRegions \ SingleSend
        PROVE  mem["naa"][r] = Of("host", naa_serving)
    <3>1. r \in Flagged
      BY <2>4, RegionTypes DEF ExchangeInv, ShapeInv, Flagged
    <3> QED BY <2>1, <2>2, <2>4, <3>1 DEF InputInv, InputsThere
  <2> QED BY <2>2, <2>3, <2>4
<1> QED BY <1>1, OneCallInOnePlace, InputsCorrect, PTL

(* Even a connection going down writes nothing under the kernel: a message *)
(* has no payload, and neither has the write that tells of a failure.      *)
Silent(q, fncode) ==
  \A i \in 1..Len(q) : q[i].op = "SEND" \/ fncode = 0 => q[i].mr = NoRegion

LEMMA SilentMoves ==
  ASSUME NEW q \in Seq(WorkRequests), NEW fncode, Silent(q, fncode)
  PROVE  /\ \A r \in Seq(WorkRequests) : Silent(r, fncode) => Silent(q \o r, fncode)
         /\ q # <<>> => /\ Silent(Tail(q), fncode)
                        /\ Head(q).op = "SEND" \/ fncode = 0 => Head(q).mr = NoRegion
<1>1. ASSUME NEW r \in Seq(WorkRequests), Silent(r, fncode)
      PROVE  Silent(q \o r, fncode)
  <2> DEFINE c == q \o r
  <2>1. /\ \A i \in 1..Len(q) : c[i] = q[i]
        /\ \A i \in 1..Len(c) : \/ i \in 1..Len(q)
                                \/ /\ i - Len(q) \in 1..Len(r)
                                   /\ c[i] = r[i - Len(q)]
    BY ConcatElements
  <2> HIDE DEF c
  <2> QED BY <1>1, <2>1 DEF Silent, c
<1>2. ASSUME q # <<>>
      PROVE  /\ Silent(Tail(q), fncode)
             /\ Head(q).op = "SEND" \/ fncode = 0 => Head(q).mr = NoRegion
  <2> DEFINE t == Tail(q)
  <2>1. /\ Len(t) = Len(q) - 1 /\ Len(q) \in Nat /\ Len(q) > 0
        /\ Head(q) = q[1]
        /\ \A i \in 1..Len(t) : t[i] = q[i + 1]
    BY <1>2
  <2> HIDE DEF t
  <2>2. 1 \in 1..Len(q) /\ \A i \in 1..Len(t) : i + 1 \in 1..Len(q)
    BY <2>1
  <2> QED BY <2>1, <2>2 DEF Silent, t
<1> QED BY <1>1, <1>2

LEMMA WriteListPlain ==
  ASSUME NEW rs, NEW imm, NEW k
  PROVE  ~Has(WriteList(rs, imm, k), {"SEND"})
<1>1. \A i \in 1..Len(WriteList(rs, imm, k)) :
        WriteList(rs, imm, k)[i].op \in {"WRITE", "WRITE_IMM"}
  <2>1. \A r, id, last : WriteRequest(r, id, last, imm, k).op \in {"WRITE", "WRITE_IMM"}
    BY DEF WriteRequest
  <2>2. \A i \in 1..Len(rs) :
          WriteList(rs, imm, k)[i] = WriteRequest(rs[i], i, CarriesImmediate(i, Len(rs)), imm, k)
    BY DEF WriteList
  <2>3. Len(WriteList(rs, imm, k)) = Len(rs)
    BY DEF WriteList
  <2> QED BY <2>1, <2>2, <2>3
<1> QED BY <1>1 DEF Has

SilentInv == Silent(sq["host"], host_fncode)

LEMMA SilentCalls ==
  ASSUME TypeOK, ResponseInv, HostOrder, "retry" \notin Faults, SilentInv,
         DoMrsp \/ DoDataTransfer
  PROVE  SilentInv'
<1> DEFINE k == no_rpc_calls + 1
           list == IF DoMrsp THEN <<AnnounceAndRequest>>
                   ELSE IF host_fncode' = 0 THEN ErrorWrite(k)
                   ELSE WriteList(to_write', Immediate, k)
<1>1. /\ list \in Seq(WorkRequests)
      /\ \E wrs \in HostAccepted(list) : PostSend("host", wrs)
  <2>1. k \in Nat
    BY DEF TypeOK, HostTypeOK
  <2>2. CASE DoMrsp
    <3>1. AnnounceAndRequest \in WorkRequests
      BY MessageShape, SubRequests DEF AnnounceAndRequest, Messages
    <3> QED BY <2>2, <3>1 DEF DoMrsp
  <2>3. CASE ~DoMrsp
    <3>1. WriteData(host_fncode', k)
      BY <2>3 DEF DoDataTransfer
    <3>2. to_write' \in Seq(Regions)
      BY <3>1, HostAssumption DEF WriteData, Dropped, TypeOK, HostTypeOK
    <3>3. WriteList(to_write', Immediate, k) \in Seq(WorkRequests)
      BY <2>1, <3>2, ImmediateType, VerbsAssumption, WriteListType
    <3>4. ErrorWrite(k) \in Seq(WorkRequests)
      BY <2>1, ErrorWriteType
    <3> QED BY <2>3, <3>1, <3>3, <3>4 DEF WriteData
  <2> QED BY <2>2, <2>3
<1>2. Silent(list, host_fncode')
  <2>1. CASE DoMrsp
    BY <2>1 DEF AnnounceAndRequest, Silent
  <2>2. CASE ~DoMrsp /\ host_fncode' = 0
    BY <2>2 DEF ErrorWrite, WriteRequest, Silent
  <2>3. CASE ~DoMrsp /\ host_fncode' # 0
    <3>1. ~Has(WriteList(to_write', Immediate, k), {"SEND"})
      BY WriteListPlain
    <3> QED BY <2>3, <3>1 DEF Has, Silent
  <2> QED BY <2>1, <2>2, <2>3
<1> HIDE DEF list
<1>3. PICK wrs \in HostAccepted(list) : PostSend("host", wrs)
  BY <1>1
<1>4. /\ wrs \in Seq(WorkRequests) /\ Len(wrs) <= Len(list)
      /\ \A i \in 1..Len(wrs) : wrs[i] = list[i]
  BY <1>1, <1>3, AcceptedElements DEF HostAccepted
<1>5. Silent(wrs, host_fncode')
  <2>1. Len(wrs) \in Nat /\ Len(list) \in Nat
    BY <1>1, <1>4
  <2>2. \A i \in 1..Len(wrs) : i \in 1..Len(list)
    BY <1>4, <2>1
  <2> QED BY <1>2, <1>4, <2>2 DEF Silent
<1>6. Silent(sq["host"], host_fncode')
  <2>1. CASE host_fncode' = host_fncode
    BY <2>1 DEF SilentInv
  <2>2. CASE host_fncode' # host_fncode
    <3>1. DoDataTransfer
      BY <2>2 DEF DoMrsp
    <3>2. ~InTransfer
      BY <3>1 DEF DoDataTransfer, MayCall, InTransfer, MRSP_DONE, FINISHED,
                  DATA_SENDING, DATA_RECEIVING
    <3>3. Writes(sq["host"]) = {} /\ sq["host"] \in Seq(WorkRequests)
      BY <3>2, Quiet, QueueTypes DEF Ends
    <3>4. \A i \in 1..Len(sq["host"]) : sq["host"][i].op = "SEND"
      <4>1. \A i \in 1..Len(sq["host"]) : /\ ~IsWrite(sq["host"][i])
                                          /\ sq["host"][i] \in WorkRequests
        BY <3>3 DEF Writes
      <4> QED BY <4>1 DEF IsWrite, WorkRequests
    <3> QED BY <3>4 DEF SilentInv, Silent
  <2> QED BY <2>1, <2>2
<1>7. sq'["host"] = sq["host"] \o wrs
  BY <1>3, PostSendEffect DEF Ends
<1> QED BY <1>4, <1>5, <1>6, <1>7, SilentMoves, QueueTypes DEF SilentInv, Ends

(* The others post nothing for the host.                                   *)
LEMMA OthersPostNothing ==
  ASSUME TypeOK, [Next]_vars, ~DoMrsp, ~DoDataTransfer
  PROVE  /\ host_fncode' = host_fncode
         /\ \/ sq'["host"] \in {sq["host"], <<>>}
            \/ sq["host"] # <<>> /\ sq'["host"] = Tail(sq["host"])
<1>1. CASE Host
  <2>1. CASE HostDrain \/ HostBusy
    BY <2>1, HandleEffect
  <2>2. CASE HostWaits
    BY <2>2, WaitsEffect
  <2>3. CASE HostClose \/ WaitInterrupted
    BY <2>3 DEF HostClose, WaitInterrupted, DestroyQp, TypeOK, VerbsTypeOK, Ends
  <2> QED BY <1>1, <2>1, <2>2, <2>3 DEF Host, HostStep, HostPollStep, HostWaits
<1>2. CASE Naa
  BY <1>2, NaaKeepsHost DEF Naa, hostVars
<1>3. ASSUME NEW e \in Ends, Carry(e)
      PROVE  /\ host_fncode' = host_fncode
             /\ \/ sq'["host"] = sq["host"]
                \/ sq["host"] # <<>> /\ sq'["host"] = Tail(sq["host"])
  <2>1. CASE Acknowledge(e)
    BY <1>3, <2>1, AcknowledgeEffect DEF Carry, hostVars
  <2>2. CASE CanExecute(e) /\ Executed(e)
    BY <1>3, <2>2, ExecutedEffect DEF Carry, hostVars, Ends
  <2> QED BY <1>3, <2>1, <2>2, WriteEffect, ReceivedEffect DEF Carry, Fabric
<1>4. ASSUME NEW e \in Ends, Break(e)
      PROVE  /\ host_fncode' = host_fncode
             /\ \/ sq'["host"] = sq["host"]
                \/ sq["host"] # <<>> /\ sq'["host"] = Tail(sq["host"])
  BY <1>4 DEF Break, FailSend, FlushRecv, hostVars, TypeOK, VerbsTypeOK, Ends
<1>5. CASE UNCHANGED vars
  BY <1>5 DEF vars, hostVars, verbsVars
<1> QED BY <1>1, <1>2, <1>3, <1>4, <1>5 DEF Next

LEMMA SilentCorrect ==
  ASSUME "retry" \notin Faults
  PROVE  Spec => []SilentInv
<1>1. Init => SilentInv
  BY DEF Init, SilentInv, Silent, Ends
<1>2. TypeOK /\ WritesInOrder /\ ResponseInv /\ SilentInv /\ [Next]_vars => SilentInv'
  <2> SUFFICES ASSUME TypeOK, WritesInOrder, ResponseInv, SilentInv, [Next]_vars
               PROVE  SilentInv'
    OBVIOUS
  <2>1. HostOrder
    BY OrderIsWritesInOrder
  <2>2. CASE DoMrsp \/ DoDataTransfer
    BY <2>1, <2>2, SilentCalls
  <2>3. CASE ~DoMrsp /\ ~DoDataTransfer
    <3>1. sq["host"] \in Seq(WorkRequests)
      BY QueueTypes DEF Ends
    <3>2. Silent(<<>>, host_fncode)
      BY DEF Silent
    <3> QED BY <2>3, <3>1, <3>2, OthersPostNothing, SilentMoves DEF SilentInv
  <2> QED BY <2>2, <2>3
<1> QED BY <1>1, <1>2, TypeCorrect, OrderKept, OneResponse, PTL DEF Spec

(* From the arrival of the data to the kernel's turn nothing writes into   *)
(* the regions of the worker, whatever happens on the connection.          *)
THEOREM InputsAreTheKernels ==
  ASSUME Persistent
  PROVE  Spec => InputsQuietDuringRpc
<1> DEFINE Quiet1 == naa_pc = "rpc" /\ naa_pc' = "rpc" =>
                       mem'["naa"] = mem["naa"]
<1>1. "retry" \notin Faults
  BY DEF Persistent
<1>2. /\ TypeOK /\ SilentInv /\ (Alive => ExchangeInv) /\ (Alive => InputInv)
      /\ [Next]_vars
      => [Quiet1]_vars
  <2> SUFFICES ASSUME TypeOK, SilentInv, Alive => ExchangeInv, Alive => InputInv,
                      [Next]_vars, naa_pc = "rpc", naa_pc' = "rpc"
               PROVE  mem'["naa"] = mem["naa"]
    OBVIOUS
  <2>1. CASE Host
    <3>1. CASE DoDataTransfer
      BY <3>1 DEF DoDataTransfer, TypeOK, VerbsTypeOK, Ends
    <3>2. CASE ~DoDataTransfer
      BY <2>1, <3>2
         DEF Host, HostStep, HostPollStep, DoMrsp, HostGetEvent, HostArm,
             HostDrain, HostDrained, HostBusy, HostTimeout, WaitInterrupted,
             WaitAgain, HostClose, verbsVars
    <3> QED BY <3>1, <3>2
  <2>2. CASE Naa
    <3>1. CASE RunRpc
      BY <3>1 DEF RunRpc
    <3>2. CASE NaaExit \/ NaaTimeout \/ NaaRemoval
      BY <3>2 DEF NaaExit, NaaTimeout, NaaRemoval, verbsVars
    <3>3. CASE NaaWorks /\ ~RunRpc
      BY <3>3, WorksKeepMemory
    <3> QED BY <2>2, <3>1, <3>2, <3>3 DEF Naa, NaaStep, NaaThread, NaaWorks
  <2>3. ASSUME NEW e \in Ends, Carry(e) PROVE mem'["naa"] = mem["naa"]
    <3>1. CASE Acknowledge(e)
      BY <3>1, AcknowledgeEffect
    <3>2. CASE CanExecute(e) /\ Executed(e) /\ e = "naa"
      BY <3>2, LandEffect
    <3>3. CASE CanExecute(e) /\ Executed(e) /\ e = "host"
      <4>1. sq["host"] # <<>> /\ qp["host"] = "up" /\ qp["naa"] = "up"
        BY <3>3, ExecutedEffect
      <4>2. CASE host_fncode = 0
        <5>1. Head(sq["host"]).mr = NoRegion
          BY <4>1, <4>2, SilentMoves, QueueTypes DEF SilentInv, Ends
        <5> QED BY <3>3, <5>1, LandEffect
      <4>3. CASE host_fncode # 0
        <5>1. ExchangeInv /\ InputInv
          BY <4>1, <4>3 DEF Alive
        <5>2. ~Requesting
          BY <5>1 DEF ExchangeInv, WorkerInv, NaaControl, Tokens, Serving
        <5> QED BY <3>3, <5>1, <5>2, RequestLands
      <4> QED BY <4>2, <4>3
    <3> QED BY <2>3, <3>1, <3>2, <3>3, WriteEffect, ReceivedEffect
            DEF Carry, Fabric, Ends
  <2>4. ASSUME NEW e \in Ends, Break(e) PROVE mem'["naa"] = mem["naa"]
    BY <2>4, BreakEffect DEF Break
  <2>5. CASE UNCHANGED vars
    BY <2>5 DEF vars, verbsVars
  <2> QED BY <2>1, <2>2, <2>3, <2>4, <2>5 DEF Next
<1> QED BY <1>1, <1>2, TypeCorrect, SilentCorrect, OneCallInOnePlace,
           InputsCorrect, PTL DEF Spec, InputsQuietDuringRpc

-------------------------------------------------------------------------------
(***************************************************************************)
(* The outputs, from the kernel to the application, while the kernel       *)
(* reports no error: an error reply carries no data.                       *)
(***************************************************************************)
Response == Has(sq["naa"], {"WRITE_IMM"})

(* The outputs of the worker are those of the call until all are written.  *)
OutputsReady ==
  naa_pc = "respond" \/ Returning =>
    \A r \in OutputRegions : mem["naa"][r] = Of("naa", no_rpc_calls)

(* The immediate does not overtake the data, on the way back either.       *)
ResponseCarries ==
  Response => \A r \in OutputRegions :
                \/ InFlight(sq["naa"], r)
                \/ mem["host"][r] = Of("naa", no_rpc_calls)

OutputInv == OutputsReady /\ ResponseCarries

(* No error was ever reported.                                             *)
NoError == naa_errorcode = 0

LEMMA NoErrorNext ==
  ASSUME KernelErrors = {0}, NoError, [Next]_vars
  PROVE  NoError'
<1>1. CASE RunRpc
  BY <1>1 DEF RunRpc, NoError
<1>2. CASE NaaDrain
  BY <1>2 DEF NaaDrain, NoError
<1>3. CASE \/ NaaStart \/ NaaReceive \/ NaaGetEvent \/ NaaDrained \/ NaaArm
           \/ NaaRespond \/ NaaNotices \/ NaaExit \/ NaaTimeout \/ NaaRemoval
  BY <1>3 DEF NaaStart, NaaReceive, NaaGetEvent, NaaDrained, NaaArm, NaaRespond,
              NaaNotices, NaaExit, NaaTimeout, NaaRemoval, NoError
<1>4. CASE Host \/ UNCHANGED vars \/ \E e \in Ends : Carry(e) \/ Break(e)
  BY <1>4 DEF Host, Carry, Break, vars, naaVars, NoError
<1> QED BY <1>1, <1>2, <1>3, <1>4
        DEF Next, Naa, NaaStep, NaaThread, NaaPollStep

LEMMA NoErrorCorrect ==
  ASSUME KernelErrors = {0}
  PROVE  Spec => []NoError
<1>1. Init => NoError
  BY DEF Init, NaaInit, NoError
<1> QED BY <1>1, NoErrorNext, PTL DEF Spec

LEMMA NoOutputs ==
  ASSUME ~Returning, naa_pc # "respond"
  PROVE  OutputInv
  BY RequestRequests DEF OutputInv, OutputsReady, ResponseCarries, Response

LEMMA SameOutputs ==
  OutputInv /\ UNCHANGED <<mem, sq, naa_pc, no_rpc_calls>> => OutputInv'
  BY DEF OutputInv, OutputsReady, ResponseCarries, Response, Returning

(* No call but the kernel is followed by the response.                     *)
LEMMA WorksPc ==
  ASSUME TypeOK, NaaWorks, ~RunRpc
  PROVE  naa_pc' # "respond"
<1>1. \A state, ok : NaaReturn(state, ok) # "respond"
  BY DEF TypeOK, NaaTypeOK, NaaReturn
<1>2. CASE NaaDrain
  <2>1. \A state : AfterCompletion(state) # "respond"
    BY DEF AfterCompletion
  <2> QED BY <1>1, <1>2, <2>1
          DEF NaaDrain, NaaHandleAnnounce, NaaHandleAnswered, NaaHandleData,
              NaaHandleWritten, NaaReject
<1>3. CASE NaaArm \/ NaaNotices
  <2>1. naa_pc' \in NaaLoop
    BY <1>3 DEF NaaArm, NaaNotices
  <2> QED BY <1>1, <2>1 DEF NaaLoop
<1>4. CASE NaaStart \/ NaaReceive \/ NaaGetEvent \/ NaaDrained \/ NaaRespond
  BY <1>4 DEF NaaStart, NaaReceive, NaaGetEvent, NaaDrained, NaaRespond
<1> QED BY <1>2, <1>3, <1>4 DEF NaaWorks, NaaPollStep

LEMMA RespondOutputs ==
  ASSUME TypeOK, ExchangeInv, NoError, OutputInv, NaaRespond, UNCHANGED hostVars
  PROVE  OutputInv'
<1> DEFINE list == ResponseList
<1>1. /\ UNCHANGED mem /\ naa_pc = "respond" /\ naa_pc' = "poll"
      /\ no_rpc_calls' = no_rpc_calls
  BY DEF NaaRespond, hostVars
<1>2. OutputsReady'
  BY <1>1 DEF OutputInv, OutputsReady
<1>3. PICK wrs \in NaaAccepted(list) : PostSend("naa", wrs)
  BY DEF NaaRespond
<1>4. sq'["naa"] = sq["naa"] \o wrs
  BY <1>3, PostSendEffect DEF Ends
<1>5. /\ list \in Seq(NaaRequests) /\ OnlyLast(list, {"WRITE_IMM"})
      /\ wrs \in Seq(WorkRequests) /\ sq["naa"] \in Seq(WorkRequests)
  <2>1. NaaTypeOK
    BY DEF TypeOK
  <2>2. list \in Seq(NaaRequests)
    BY <2>1, ResponseListShape
  <2>3. wrs \in Seq(WorkRequests)
    BY <1>3, <2>1, ResponseListOrder
  <2>4. no_output_mrs \in Nat
    BY NaaTypes
  <2>5. OnlyLast(list, {"WRITE_IMM"})
    BY <2>4 DEF OnlyLast, ResponseList, NoError, RespondsWith
  <2> QED BY <2>2, <2>3, <2>5, NaaTypes
<1>6. ASSUME NEW r \in OutputRegions PROVE InFlight(list, r)
  <2>1. PICK i \in 1..Len(Outputs) : r = Outputs[i]
    BY <1>6 DEF OutputRegions
  <2>2. Len(list) = Len(Outputs) /\ list[i].mr = r
    BY <2>1, WorkerAssumption DEF ResponseList, NoError, no_output_mrs
  <2> QED BY <2>1, <2>2 DEF InFlight
<1> HIDE DEF list
<1>7. ~Has(sq["naa"], {"WRITE_IMM"})
  <2>1. ~Returning
    BY DEF NaaRespond, ExchangeInv, WorkerInv, NaaControl, Tokens, Serving
  <2> QED BY <2>1, RequestRequests
<1>8. Response' => Has(wrs, {"WRITE_IMM"})
  BY <1>4, <1>5, <1>7, ConcatHas DEF Response
<1>9. ASSUME Response', NEW r \in OutputRegions PROVE InFlight(sq'["naa"], r)
  <2>1. Has(wrs, {"WRITE_IMM"}) /\ InFlight(list, r)
    BY <1>6, <1>8, <1>9
  <2>2. InFlight(wrs, r)
    BY <1>3, <1>5, <2>1, AllAccepted DEF NaaAccepted
  <2> QED BY <1>4, <1>5, <2>2, ConcatInFlight
<1> QED BY <1>2, <1>9 DEF OutputInv, ResponseCarries

LEMMA WorksOutputs ==
  ASSUME TypeOK, ExchangeInv, NoError, OutputInv, NaaWorks, UNCHANGED hostVars
  PROVE  OutputInv'
<1>1. ShapeInv /\ WorkerInv /\ Tokens
  BY DEF ExchangeInv
<1>2. no_rpc_calls' = no_rpc_calls
  BY DEF hostVars
<1>3. CASE NaaRespond
  BY <1>3, RespondOutputs
<1>4. CASE RunRpc
  <2>1. Serving /\ ~Returning /\ naa_serving = no_rpc_calls
    BY <1>1, <1>4 DEF RunRpc, WorkerInv, NaaControl, Serving, Tokens
  <2>2. /\ UNCHANGED sq
        /\ \A r \in OutputRegions : mem'["naa"][r] = Of("naa", naa_serving)
    BY <1>4, RunRpcEffect, RegionTypes
  <2>3. ~Returning' /\ ~Response'
    BY <2>1, <2>2, RequestRequests DEF Returning, Response
  <2> QED BY <1>2, <2>1, <2>2, <2>3 DEF OutputInv, OutputsReady, ResponseCarries
<1>5. CASE ~NaaRespond /\ ~RunRpc
  <2>1. UNCHANGED mem /\ naa_pc' # "respond"
    BY <1>5, WorksKeepMemory, WorksPc
  <2>2. Returning' => Returning
    BY <1>1, <1>5, WorksEffect
  <2>3. CASE ~Returning'
    BY <2>1, <2>3, RequestRequests
       DEF OutputInv, OutputsReady, ResponseCarries, Response, Returning, Has,
           AnyWrite
  <2>4. CASE UNCHANGED sq
    BY <1>2, <2>1, <2>2, <2>4 DEF OutputInv, OutputsReady, ResponseCarries, Response
  <2>5. CASE NaaDrain /\ sq' # sq
    <3>1. PICK msg \in {"A", "ERR"} : PostMessage(msg) /\ naa_state = MRSP_RECEIVING
      BY <2>5 DEF NaaDrain, NaaHandleAnnounce, NaaHandleAnswered, NaaHandleData,
                  NaaHandleWritten, NaaReject
    <3>2. Writes(sq'["naa"]) = {}
      BY <1>1, <3>1, PostMessageQueues DEF WorkerInv, Messages
    <3> QED BY <2>3, <3>2, NoWriteHas DEF Returning
  <2> QED BY <1>5, <2>4, <2>5
          DEF NaaWorks, NaaPollStep, NaaStart, NaaReceive, NaaGetEvent,
              NaaDrained, NaaArm, NaaNotices, verbsVars
<1> QED BY <1>3, <1>4, <1>5

(* The adapter brings back only what is being returned.                    *)
LEMMA ResponseLands ==
  ASSUME TypeOK, ExchangeInv, CanExecute("naa"), Executed("naa")
  PROVE  /\ mem'["naa"] = mem["naa"]
         /\ ~Returning => UNCHANGED mem
         /\ OutputInv /\ Response => \A r \in OutputRegions :
              \/ InFlight(Tail(sq["naa"]), r)
              \/ mem'["host"][r] = Of("naa", no_rpc_calls)
<1> DEFINE wr == Head(sq["naa"])
<1>1. "naa" \in Ends /\ Peer("naa") = "host"
  BY DEF Ends, Peer
<1>2. mem'["naa"] = mem["naa"] /\ (wr.mr = NoRegion => UNCHANGED mem)
  BY <1>1, LandEffect
<1>3. sq["naa"] # <<>> /\ sq["naa"] \in Seq(WorkRequests)
  BY <1>1, ExecutedEffect, QueueTypes
<1>4. wr \in NaaRequests
  BY <1>3, QueueMoves DEF ExchangeInv, ShapeInv
<1> HIDE DEF wr
<1>5. wr.op \notin AnyWrite => wr.mr = NoRegion
  BY <1>4 DEF NaaRequests, WorkRequests, AnyWrite
<1>6. wr.op \in AnyWrite => Returning
  BY <1>3, TailHas DEF Returning, wr
<1>7. ASSUME OutputInv, Response, NEW r \in OutputRegions
      PROVE  \/ InFlight(Tail(sq["naa"]), r)
             \/ mem'["host"][r] = Of("naa", no_rpc_calls)
  <2>1. mem["naa"][r] = Of("naa", no_rpc_calls)
    BY <1>7, RequestRequests DEF OutputInv, OutputsReady, Response
  <2>2. InFlight(sq["naa"], r) \/ mem["host"][r] = Of("naa", no_rpc_calls)
    BY <1>7 DEF OutputInv, ResponseCarries
  <2>3. r \in Regions
    BY <1>7, RegionTypes
  <2> QED BY <1>1, <2>1, <2>2, <2>3, Carried
<1> QED BY <1>2, <1>5, <1>6, <1>7

LEMMA FabricOutputs ==
  ASSUME TypeOK, ExchangeInv, InputInv, OutputInv, NEW e \in Ends, Fabric(e),
         UNCHANGED <<hostVars, naaVars>>
  PROVE  OutputInv'
<1>1. ShapeInv /\ WorkerInv /\ Tokens
  BY DEF ExchangeInv
<1>2. UNCHANGED <<no_rpc_calls, naa_pc>>
  BY DEF hostVars, naaVars
<1>3. Returning' => Returning
  BY <1>1, FabricTokens
<1>4. CASE Acknowledge(e)
  <2>1. UNCHANGED <<mem, sq>>
    BY <1>4, AcknowledgeEffect
  <2> QED BY <1>2, <2>1, SameOutputs
<1>5. CASE e = "host" /\ CanExecute(e) /\ Executed(e)
  <2>1. /\ mem'["host"] = mem["host"] /\ sq'["naa"] = sq["naa"]
        /\ ~Requesting => UNCHANGED mem
    BY <1>5, RequestLands, ExecutedEffect DEF Ends
  <2>2. naa_pc = "respond" \/ Returning => ~Requesting
    BY <1>1 DEF WorkerInv, NaaControl, Serving, Tokens
  <2>3. /\ Returning' <=> Returning
        /\ Response' <=> Response
    BY <2>1 DEF Returning, Response
  <2> QED BY <1>2, <2>1, <2>2, <2>3
          DEF OutputInv, OutputsReady, ResponseCarries
<1>6. CASE e = "naa" /\ CanExecute(e) /\ Executed(e)
  <2>1. /\ mem'["naa"] = mem["naa"]
        /\ Response => \A r \in OutputRegions :
             \/ InFlight(Tail(sq["naa"]), r)
             \/ mem'["host"][r] = Of("naa", no_rpc_calls)
    BY <1>6, ResponseLands
  <2>2. /\ sq["naa"] # <<>> /\ sq["naa"] \in Seq(WorkRequests)
        /\ sq'["naa"] = Tail(sq["naa"])
    BY <1>6, ExecutedEffect, QueueTypes DEF Ends
  <2>3. Response' => Response
    BY <2>2, TailHas DEF Response
  <2> QED BY <1>2, <1>3, <2>1, <2>2, <2>3
          DEF OutputInv, OutputsReady, ResponseCarries
<1> QED BY <1>4, <1>5, <1>6, WriteEffect, ReceivedEffect DEF Fabric, Ends

LEMMA OutputsNext ==
  ASSUME TypeOK, ResponseInv, Persistent, NoError,
         Alive => ExchangeInv /\ InputInv /\ OutputInv, [Next]_vars
  PROVE  (Alive => OutputInv)'
<1> SUFFICES ASSUME Alive' PROVE OutputInv'
  OBVIOUS
<1>1. Alive /\ ExchangeInv /\ InputInv /\ OutputInv /\ Tokens /\ ShapeInv
  BY LiveSteps DEF ExchangeInv
<1>2. ASSUME ~Returning', ~Serving', UNCHANGED naaVars
      PROVE  OutputInv'
  <2>1. naa_pc' # "respond"
    BY <1>1, <1>2 DEF naaVars, Serving, ExchangeInv, WorkerInv, NaaControl
  <2>2. ~Response'
    BY <1>2 DEF Response, Returning, Has, AnyWrite
  <2> QED BY <1>2, <2>1, <2>2 DEF OutputInv, OutputsReady, ResponseCarries
<1>3. CASE DoMrsp /\ UNCHANGED naaVars
  BY <1>1, <1>2, <1>3, MrspEffect
<1>4. CASE DoDataTransfer /\ UNCHANGED naaVars
  BY <1>1, <1>2, <1>4, CallEffect DEF Persistent
<1>5. CASE (HostDrain \/ HostBusy) /\ UNCHANGED naaVars
  BY <1>1, <1>5, HandleEffect, SameOutputs DEF naaVars
<1>6. CASE HostWaits /\ UNCHANGED naaVars
  BY <1>1, <1>6, WaitsEffect, SameOutputs DEF naaVars
<1>7. CASE NaaWorks /\ UNCHANGED hostVars
  BY <1>1, <1>7, WorksOutputs
<1>8. ASSUME NEW e \in Ends, Fabric(e), UNCHANGED <<hostVars, naaVars>>
      PROVE  OutputInv'
  BY <1>1, <1>8, FabricOutputs
<1>9. CASE UNCHANGED vars
  BY <1>1, <1>9, SameOutputs DEF vars, verbsVars, hostVars, naaVars
<1>10. CASE NaaLeaves /\ UNCHANGED hostVars
  BY <1>1, <1>10
     DEF NaaLeaves, NaaExit, verbsVars, hostVars, OutputInv, OutputsReady,
         ResponseCarries, Response, Returning
<1> QED BY <1>3, <1>4, <1>5, <1>6, <1>7, <1>8, <1>9, <1>10, LiveSteps

LEMMA OutputsInit == Init => OutputInv
<1>1. Init => ~Returning /\ naa_pc # "respond"
  BY HasNone DEF Init, NaaInit, Returning, Ends
<1> QED BY <1>1, NoOutputs

(* So are the outputs.                                                     *)
LEMMA OutputsCorrect ==
  ASSUME Persistent, KernelErrors = {0}
  PROVE  Spec => [](Alive => OutputInv)
<1>1. "retry" \notin Faults
  BY DEF Persistent
<1>2. Init => (Alive => OutputInv)
  BY OutputsInit
<1>3. /\ TypeOK /\ ResponseInv /\ NoError /\ (Alive => ExchangeInv)
      /\ (Alive => InputInv) /\ (Alive => OutputInv) /\ [Next]_vars
      => (Alive => OutputInv)'
  BY OutputsNext
<1> QED BY <1>1, <1>2, <1>3, TypeCorrect, OneResponse, NoErrorCorrect,
           OneCallInOnePlace, InputsCorrect, PTL DEF Spec

-------------------------------------------------------------------------------
(***************************************************************************)
(* The results.  They stay when the connection goes down: what has arrived *)
(* with its immediate is complete.                                         *)
(***************************************************************************)
HasResults ==
  \A r \in OutputRegions : mem["host"][r] = Of("naa", no_rpc_calls)
Completed == host_state = FINISHED \/ (InTransfer /\ Answered)
HostResults == Completed => HasResults

LEMMA StillResults ==
  ASSUME HostResults, mem'["host"] = mem["host"], no_rpc_calls' = no_rpc_calls,
         Completed' => Completed
  PROVE  HostResults'
  BY DEF HostResults, HasResults

(* A host that has failed to post its receive has no answer coming.        *)
LEMMA CompleteAlive ==
  ASSUME ResponseInv, Completed
  PROVE  host_fncode # 0
<1>1. ~Answered \/ host_fncode # 0
  BY DEF ResponseInv, NoResponse, Answered, Has, AnyReceive
<1> QED BY <1>1 DEF ResponseInv, Completed, InTransfer, FINISHED, DATA_SENDING,
                    DATA_RECEIVING

(* Nothing lands any more in the regions of a host that has its answer.    *)
LEMMA CompleteQuiet ==
  ASSUME TypeOK, ResponseInv, Alive => ExchangeInv, Completed,
         CanExecute("naa"), Executed("naa")
  PROVE  UNCHANGED mem
<1>1. Alive
  BY CompleteAlive, ExecutedEffect DEF Alive, Ends
<1>2. ~Returning
  BY <1>1 DEF ExchangeInv, Tokens, Completed, InTransfer, FINISHED,
              DATA_SENDING, DATA_RECEIVING
<1> QED BY <1>1, <1>2, ResponseLands

LEMMA HostStepResults ==
  ASSUME TypeOK, ResponseInv, "retry" \notin Faults, HostResults, Host
  PROVE  HostResults'
<1>1. CASE DoMrsp
  <2>1. host_state' = MRSP_SENDING
    BY <1>1 DEF DoMrsp
  <2> QED BY <2>1 DEF HostResults, Completed, InTransfer, MRSP_SENDING,
                      DATA_SENDING, DATA_RECEIVING, FINISHED
<1>2. CASE DoDataTransfer
  <2>1. /\ host_state \in {MRSP_DONE, FINISHED} /\ UNCHANGED cq
        /\ ~response_received' /\ host_state' = DATA_SENDING
    BY <1>2 DEF DoDataTransfer, MayCall, WriteData
  <2>2. ~Answered'
    BY <2>1 DEF ResponseInv, NoResponse, Answered, Has, AnyReceive
  <2> QED BY <2>1, <2>2 DEF HostResults, Completed, DATA_SENDING, FINISHED
<1>3. CASE HostDrain \/ HostBusy
  <2>1. /\ UNCHANGED <<mem, no_rpc_calls>> /\ (Answered' => Answered)
        /\ host_state' # host_state =>
             IF InTransfer
             THEN \/ host_state' = FINISHED /\ Answered
                  \/ host_state' = DATA_RECEIVING
             ELSE /\ host_state \in {MRSP_SENDING, MRSP_RECEIVING}
                  /\ host_state' \in {MRSP_RECEIVING, MRSP_DONE}
    BY <1>3, HandleEffect
  <2>2. Completed' => Completed
    BY <2>1 DEF Completed, InTransfer, MRSP_RECEIVING, MRSP_DONE, DATA_SENDING,
                DATA_RECEIVING, FINISHED
  <2> QED BY <2>1, <2>2, StillResults
<1>4. CASE HostWaits
  BY <1>4, WaitsEffect, StillResults DEF Completed, InTransfer, Answered
<1>5. CASE WaitInterrupted \/ HostClose
  <2>1. /\ UNCHANGED <<mem, no_rpc_calls, host_state, response_received>>
        /\ cq'["host"] = <<>>
    BY <1>5 DEF WaitInterrupted, HostClose, DestroyQp, TypeOK, VerbsTypeOK, Ends
  <2> QED BY <2>1, HasNone, StillResults DEF Completed, InTransfer, Answered
<1> QED BY <1>1, <1>2, <1>3, <1>4, <1>5 DEF Host, HostStep, HostPollStep,
                                            HostWaits

(* The worker changes nothing of the host's.                               *)
LEMMA NaaKeepsMemory ==
  ASSUME TypeOK, NaaStep
  PROVE  mem'["host"] = mem["host"]
<1>1. CASE RunRpc
  BY <1>1, RunRpcEffect
<1>2. CASE NaaExit \/ NaaTimeout \/ NaaRemoval
  BY <1>2 DEF NaaExit, NaaTimeout, NaaRemoval, verbsVars
<1>3. CASE NaaWorks /\ ~RunRpc
  BY <1>3, WorksKeepMemory
<1> QED BY <1>1, <1>2, <1>3 DEF NaaStep, NaaThread, NaaWorks

LEMMA FabricResults ==
  ASSUME TypeOK, ResponseInv, Alive => ExchangeInv /\ OutputInv,
         HostResults, NEW e \in Ends, Fabric(e),
         UNCHANGED <<hostVars, naaVars>>
  PROVE  HostResults'
<1>1. UNCHANGED <<no_rpc_calls, host_state, response_received, host_fncode>>
  BY DEF hostVars
<1>2. ASSUME mem'["host"] = mem["host"],
             Has(cq'["host"], {"RECV_IMM"}) => Has(cq["host"], {"RECV_IMM"})
      PROVE  HostResults'
  BY <1>1, <1>2, StillResults DEF Completed, InTransfer, Answered
<1>3. CASE Acknowledge(e)
  <2>1. UNCHANGED mem
    BY <1>3, AcknowledgeEffect
  <2>2. CASE e = "host"
    <3> DEFINE x == SendCompletion(Head(unacked["host"]), TRUE)
    <3>1. /\ cq'["host"] = Append(cq["host"], x) /\ x \in Completions
          /\ Head(unacked["host"]) \in WorkRequests
      BY <1>3, <2>2, AcknowledgeEffect
    <3>2. x.op \notin {"RECV_IMM"}
      BY <3>1, CompletionOfSend
    <3> HIDE DEF x
    <3>3. Has(cq'["host"], {"RECV_IMM"}) <=> Has(cq["host"], {"RECV_IMM"})
      BY <3>1, <3>2, AppendHas, HostReceives
    <3> QED BY <1>2, <2>1, <3>3
  <2>3. CASE e = "naa"
    <3>1. cq'["host"] = cq["host"]
      BY <1>3, <2>3, AcknowledgeEffect DEF Ends
    <3> QED BY <1>2, <2>1, <3>1
  <2> QED BY <2>2, <2>3 DEF Ends
<1>4. CASE ExecuteWrite(e) \/ ExecuteReceived(e)
  <2>1. CanExecute(e) /\ Executed(e)
    BY <1>4, WriteEffect, ReceivedEffect
  <2>2. CASE e = "host"
    <3>1. mem'["host"] = mem["host"]
      BY <2>1, <2>2, LandEffect
    <3>2. cq'["host"] = cq["host"]
      BY <1>4, <2>2, WriteEffect, ReceivedEffect
    <3> QED BY <1>2, <3>1, <3>2
  <2>3. CASE e = "naa" /\ Completed
    <3>1. UNCHANGED mem
      BY <2>1, <2>3, CompleteQuiet
    <3>2. HasResults' <=> HasResults
      BY <1>1, <3>1 DEF HasResults
    <3> QED BY <2>3, <3>2 DEF HostResults
  <2>4. CASE e = "naa" /\ ~Completed
    <3>1. CASE cq'["host"] = cq["host"]
      BY <1>1, <2>4, <3>1 DEF HostResults, Completed, InTransfer, Answered
    <3>2. CASE ExecuteReceived("naa") /\ Completed'
      <4>1. /\ recvs["host"] # 0 /\ Head(sq["naa"]).op \in {"SEND", "WRITE_IMM"}
            /\ cq'["host"] = Append(cq["host"], Received(Head(sq["naa"])))
            /\ Received(Head(sq["naa"])) \in Completions
        <5>1. "naa" \in Ends /\ Peer("naa") = "host"
          BY DEF Ends, Peer
        <5>2. recvs["host"] \in Nat
          BY HostReceives
        <5> QED BY <3>2, <5>1, <5>2, ReceivedEffect
      <4>2. Alive /\ sq["naa"] # <<>>
        BY <2>1, <2>4, <4>1, ExecutedEffect DEF ResponseInv, NoResponse, Alive
      <4>3. Head(sq["naa"]).op = "WRITE_IMM"
        <5>1. Has(cq'["host"], {"RECV_IMM"}) /\ ~Has(cq["host"], {"RECV_IMM"})
          BY <1>1, <2>4, <3>2 DEF Completed, InTransfer, Answered
        <5>2. Received(Head(sq["naa"])).op = "RECV_IMM"
          BY <4>1, <5>1, AppendHas, HostReceives
        <5> QED BY <4>1, <5>2 DEF Received
      <4>4. Response /\ Tail(sq["naa"]) = <<>>
        <5>1. sq["naa"] \in Seq(WorkRequests)
          BY QueueTypes DEF Ends
        <5>2. Response
          BY <4>2, <4>3, <5>1, TailHas DEF Response
        <5>3. OnlyLast(sq["naa"], {"WRITE_IMM"})
          BY <4>2 DEF ExchangeInv, WorkerInv, NaaOrder
        <5> QED BY <4>2, <4>3, <5>1, <5>2, <5>3, TailOnlyLast
      <4>5. \A r \in OutputRegions : mem'["host"][r] = Of("naa", no_rpc_calls)
        <5>1. \A r : ~InFlight(Tail(sq["naa"]), r)
          <6>1. \A r : ~InFlight(<<>>, r)
            BY DEF InFlight
          <6> QED BY <4>4, <6>1
        <5>2. ExchangeInv /\ OutputInv
          BY <4>2
        <5>3. CanExecute("naa") /\ Executed("naa")
          BY <2>1, <2>4
        <5> QED BY <4>4, <5>1, <5>2, <5>3, ResponseLands
      <4> QED BY <1>1, <4>5 DEF HostResults, HasResults
    <3> QED BY <1>4, <2>4, <3>1, <3>2, WriteEffect DEF HostResults
  <2> QED BY <2>2, <2>3, <2>4 DEF Ends
<1> QED BY <1>3, <1>4 DEF Fabric

LEMMA BreakResults ==
  ASSUME TypeOK, HostResults, NEW e \in Ends, Break(e)
  PROVE  HostResults'
<1>1. /\ UNCHANGED <<no_rpc_calls, host_state, response_received>>
      /\ UNCHANGED mem
  BY BreakEffect DEF Break, hostVars
<1>2. Has(cq'["host"], {"RECV_IMM"}) => Has(cq["host"], {"RECV_IMM"})
  <2>1. CASE e = "host"
    <3>1. \E x \in Completions : /\ cq'["host"] = Append(cq["host"], x)
                                 /\ x.op # "RECV_IMM"
      BY <2>1, BreakEffect DEF Break
    <3> QED BY <3>1, AppendHas, HostReceives
  <2>2. CASE e = "naa"
    BY <2>2, BreakEffect DEF Break, Ends
  <2> QED BY <2>1, <2>2 DEF Ends
<1> QED BY <1>1, <1>2, StillResults DEF Completed, InTransfer, Answered

LEMMA ResultsNext ==
  ASSUME TypeOK, ResponseInv, Persistent, Alive => ExchangeInv /\ OutputInv,
         HostResults, [Next]_vars
  PROVE  HostResults'
<1>1. CASE Host
  BY <1>1, HostStepResults DEF Persistent
<1>2. CASE Naa
  <2>1. /\ mem'["host"] = mem["host"] /\ cq'["host"] = cq["host"]
        /\ UNCHANGED <<no_rpc_calls, host_state, response_received>>
    BY <1>2, NaaKeepsMemory, NaaKeepsReceives DEF Naa, hostVars
  <2> QED BY <2>1, StillResults DEF Completed, InTransfer, Answered
<1>3. ASSUME NEW e \in Ends, Carry(e) PROVE HostResults'
  BY <1>3, FabricResults DEF Carry
<1>4. ASSUME NEW e \in Ends, Break(e) PROVE HostResults'
  BY <1>4, BreakResults
<1>5. CASE UNCHANGED vars
  BY <1>5, StillResults DEF Completed, InTransfer, Answered, vars, verbsVars,
                            hostVars
<1> QED BY <1>1, <1>2, <1>3, <1>4, <1>5 DEF Next

LEMMA ResultsCorrect ==
  ASSUME Persistent, KernelErrors = {0}
  PROVE  Spec => []HostResults
<1>1. "retry" \notin Faults
  BY DEF Persistent
<1>2. Init => HostResults
  <2>1. Init => host_state = CONNECTED
    BY DEF Init, HostInit
  <2> QED BY <2>1 DEF HostResults, Completed, InTransfer, CONNECTED, FINISHED,
                      DATA_SENDING, DATA_RECEIVING
<1>3. /\ TypeOK /\ ResponseInv /\ (Alive => ExchangeInv)
      /\ (Alive => OutputInv) /\ HostResults /\ [Next]_vars
      => HostResults'
  BY ResultsNext
<1> QED BY <1>1, <1>2, <1>3, TypeCorrect, OneResponse, OneCallInOnePlace,
           OutputsCorrect, PTL DEF Spec

(* A call the application sees finished has its outputs, of this very call,*)
(* in the host's regions, whatever has failed meanwhile, as long as the    *)
(* kernel reports no error (an error reply carries no outputs).            *)
THEOREM FinishedIsFull ==
  ASSUME Persistent, KernelErrors = {0}
  PROVE  Spec => []FinishedHasResults
<1>1. HostResults => FinishedHasResults
  BY DEF HostResults, Completed, HasResults, FinishedHasResults, Of
<1> QED BY <1>1, ResultsCorrect, PTL

(* While the application has no call in progress the NAA writes nothing    *)
(* into its regions, whatever happens on the connection (an application    *)
(* that uses naa_wait is in a call until it is told so).                   *)
THEOREM RegionsAreTheApplications ==
  ASSUME Persistent, "naa_wait" \notin TransferCalls
  PROVE  Spec => RegionsQuietBetweenCalls
<1> DEFINE Quiet1 == host_pc = "app" /\ host_pc' = "app" =>
                       mem'["host"] = mem["host"]
<1>1. "retry" \notin Faults
  BY DEF Persistent
<1>2. /\ TypeOK /\ ResponseInv /\ AppInv /\ (Alive => ExchangeInv)
      /\ [Next]_vars
      => [Quiet1]_vars
  <2> SUFFICES ASSUME TypeOK, ResponseInv, AppInv, Alive => ExchangeInv,
                      [Next]_vars, host_pc = "app", host_pc' = "app"
               PROVE  mem'["host"] = mem["host"]
    OBVIOUS
  <2>1. ~InTransfer
    <3>1. ~Waiting
      BY CallNames DEF Waiting, TypeOK, HostTypeOK
    <3> QED BY <3>1 DEF AppInv, InTransfer, CONNECTED, MRSP_DONE, FINISHED,
                        DATA_SENDING, DATA_RECEIVING
  <2>2. CASE Host
    <3>1. ~DoDataTransfer
      BY DEF DoDataTransfer
    <3>2. UNCHANGED mem
      BY <2>2, <3>1 DEF Host, HostStep, HostPollStep, DoMrsp, HostGetEvent,
                        HostArm, HostDrain, HostDrained, HostBusy, HostTimeout,
                        WaitInterrupted, WaitAgain, HostClose, verbsVars
    <3> QED BY <3>2
  <2>3. CASE Naa
    BY <2>3, NaaKeepsMemory DEF Naa
  <2>4. ASSUME NEW e \in Ends, Carry(e) PROVE mem'["host"] = mem["host"]
    <3>1. CASE Acknowledge(e)
      BY <3>1, AcknowledgeEffect
    <3>2. CASE CanExecute(e) /\ Executed(e) /\ e = "host"
      BY <3>2, LandEffect
    <3>3. CASE CanExecute(e) /\ Executed(e) /\ e = "naa"
      <4>1. Alive
        BY <2>1, <3>3, ExecutedEffect DEF ResponseInv, Alive
      <4>2. ~Returning
        BY <2>1, <4>1 DEF ExchangeInv, Tokens
      <4> QED BY <3>3, <4>1, <4>2, ResponseLands
    <3> QED BY <2>4, <3>1, <3>2, <3>3, WriteEffect, ReceivedEffect
            DEF Carry, Fabric, Ends
  <2>5. ASSUME NEW e \in Ends, Break(e) PROVE mem'["host"] = mem["host"]
    BY <2>5, BreakEffect DEF Break
  <2>6. CASE UNCHANGED vars
    BY <2>6 DEF vars, verbsVars
  <2> QED BY <2>2, <2>3, <2>4, <2>5, <2>6 DEF Next
<1> QED BY <1>1, <1>2, TypeCorrect, OneResponse, AppCorrect,
           OneCallInOnePlace, PTL DEF Spec, RegionsQuietBetweenCalls
===============================================================================
