----------------------------- MODULE RegionSetup -----------------------------
(***************************************************************************)
(* What the memory regions of a connection are used for (lib/naaice.c):    *)
(* the application flags them as input, output or single-send and limits   *)
(* the bytes sent; the memory region setup protocol tells the software NAA *)
(* (lib/naaice_swnaa.c), which makes its own regions from the message; and *)
(* a call writes what is flagged.  The steps of the protocol and of a call *)
(* are NaaiceLink's; here they are single steps, with their data.          *)
(***************************************************************************)
EXTENDS Integers, FiniteSets, Sequences, SequencesExt

CONSTANTS Contexts,     \* the communication contexts of the application
          Blocks,       \* its blocks of memory
          Size,         \* how many bytes each has
          Internal,     \* sizes of the internal regions
          UserBytes,    \* values of the three user bytes of the immediate
          MaxRpcCalls,  \* bound: calls on a context
          SetupFaults   \* which failures the environment may produce

ASSUME RegionAssumption ==
  /\ Size \in [Blocks -> Nat \ {0}]
  /\ Internal \in Seq(Nat \ {0})
  /\ UserBytes \subseteq 0..(2^24 - 1)
  /\ MaxRpcCalls \in Nat
  /\ SetupFaults \subseteq {"init", "connect", "register", "mrsp"}

VARIABLE ctx

Roles == {"input", "output", "single"}
Stages == {"none", "configured", "registered", "announced", "answered", "ready",
           "failed", "undefined", "over"}

\* mr_local_data[i] and mr_peer_data[i], and their to_write and single_send.
LocalRegions == [addr : Blocks, bytes : Nat, peer : Nat, roles : SUBSET Roles]
NaaRegions == [size : Nat, mr : Nat, roles : SUBSET Roles]
WriteRequests == [mr : Nat, bytes : Nat, imm : Nat, withImm : BOOLEAN]

ContextsOK ==
  \A c \in Contexts :
    /\ ctx[c].stage \in Stages
    /\ ctx[c].local \in Seq(LocalRegions)
    /\ ctx[c].no_input_mrs \in Nat /\ ctx[c].no_output_mrs \in Nat
    /\ ctx[c].fncode \in 0..255 /\ ctx[c].immediate \in Nat
    /\ ctx[c].no_rpc_calls \in 0..MaxRpcCalls
    /\ ctx[c].told \in Seq(SUBSET Roles)
    /\ ctx[c].naa_local \in Seq(NaaRegions)
    /\ ctx[c].naa_internal \in Seq(Nat)
    /\ ctx[c].writes \in Seq(WriteRequests)

\* The numbers of a set in increasing order, and what is at these places of a
\* sequence: the loops that skip what is not flagged (SetToSortSeq and SelectSeq
\* of the libraries, in a form that can be proved about).
InOrder(S) == CHOOSE s \in [1..Cardinality(S) -> S] :
                \A i, j \in DOMAIN s : i < j => s[i] < s[j]
AtPlaces(s, S) == LET places == InOrder(S)
                  IN [k \in DOMAIN places |-> s[places[k]]]

\* naaice_set_immediate: the function code in the lowest byte.
WithUserBytes(x, user) == [x EXCEPT !.immediate = x.fncode + 256 * user]

\* A context before, and after naaice_init_communication_context, which makes
\* a region of each parameter (naaice_set_parameter_mrs).
NoContext ==
  [stage |-> "none", local |-> <<>>, no_input_mrs |-> 0, no_output_mrs |-> 0,
   fncode |-> 0, immediate |-> 0, no_rpc_calls |-> 0, told |-> <<>>,
   naa_local |-> <<>>, naa_internal |-> <<>>, writes |-> <<>>]

NewContext(params, fncode) ==
  WithUserBytes(
    [NoContext EXCEPT
       !.stage = "configured", !.fncode = fncode,
       !.local = [i \in DOMAIN params |-> [addr |-> params[i], peer |-> 0,
                                           bytes |-> Size[params[i]], roles |-> {}]]],
    0)

Open(x) == x.stage \in {"configured", "registered", "announced", "answered", "ready"}

Has(x, i, role) == role \in x.local[i].roles
HavingRole(x, role) == {i \in DOMAIN x.local : Has(x, i, role)}

-------------------------------------------------------------------------------
(* The configuration: naaice_set_input_mr, naaice_set_output_mr and        *)
(* naaice_set_singlesend_mr, which makes an input of the region too.  A    *)
(* region is counted when it is first flagged.                             *)

FlagInputAlways(x, i) ==     \* mutant: counted each time
  [x EXCEPT !.local[i].roles = @ \cup {"input"}, !.no_input_mrs = @ + 1]
FlagInput(x, i) ==
  [x EXCEPT !.local[i].roles = @ \cup {"input"},
            !.no_input_mrs = IF Has(x, i, "input") THEN @ ELSE @ + 1]
FlagOutput(x, i) ==
  [x EXCEPT !.local[i].roles = @ \cup {"output"},
            !.no_output_mrs = IF Has(x, i, "output") THEN @ ELSE @ + 1]
FlagSinglesend(x, i) ==
  FlagInput([x EXCEPT !.local[i].roles = @ \cup {"single"}], i)

Flag(x, i, role) == CASE role = "input" -> FlagInput(x, i)
                      [] role = "output" -> FlagOutput(x, i)
                      [] role = "single" -> FlagSinglesend(x, i)

Becomes(c, x) == ctx' = [ctx EXCEPT ![c] = x]
Can(fault) == fault \in SetupFaults

\* Another index is refused.
SetRole(c) ==
  /\ Open(ctx[c])
  /\ \E i \in DOMAIN ctx[c].local, role \in Roles : Becomes(c, Flag(ctx[c], i, role))

SetImmediate(c) ==
  /\ Open(ctx[c])
  /\ \E user \in UserBytes : Becomes(c, WithUserBytes(ctx[c], user))

\* naaice_set_bytes_to_send, of a registered region; a negative number is the
\* whole region, a larger one than that is refused.
BytesUnchecked(before, number, whole) ==     \* mutant: whatever is asked for
  IF number < 0 THEN whole ELSE number
BytesToSend(before, number, whole) ==
  CASE number < 0 -> whole
    [] number \in 0..whole -> number
    [] number > whole -> before

SetBytesToSend(c) ==
  /\ Open(ctx[c]) /\ ctx[c].stage # "configured"
  /\ \E i \in DOMAIN ctx[c].local :
       LET whole == Size[ctx[c].local[i].addr]
       IN \E number \in -1..(whole + 1) :
            Becomes(c, [ctx[c] EXCEPT !.local[i].bytes = BytesToSend(@, number, whole)])

-------------------------------------------------------------------------------
(* naaice_register_mrs, and the memory region setup protocol: the host's   *)
(* message, the NAA's regions made from it, and the host's record of them. *)

Fails(c, fault) == Can(fault) /\ Becomes(c, [ctx[c] EXCEPT !.stage = "failed"])

RegisterMrs(c) ==
  /\ ctx[c].stage = "configured"
  /\ Becomes(c, [ctx[c] EXCEPT !.stage = "registered"]) \/ Fails(c, "register")

\* naaice_init_mrsp.  What the host tells of its own regions is remembered.
InitMrsp(c) ==
  /\ ctx[c].stage = "registered"
  /\ Becomes(c, [ctx[c] EXCEPT
                   !.stage = "announced",
                   !.told = [i \in DOMAIN ctx[c].local |-> ctx[c].local[i].roles]])

\* The announcement and request (naaice_send_message): the parameters, then
\* the internal regions.
MessageInternalUnflagged(x) ==   \* mutant: MRFLAG_INTERNAL is not set
  [i \in DOMAIN x.local |-> [flags |-> x.told[i], size |-> Size[x.local[i].addr],
                             mr |-> i]]
  \o [i \in DOMAIN Internal |-> [flags |-> {}, size |-> Internal[i], mr |-> 0]]
Message(x) ==
  [i \in DOMAIN x.local |-> [flags |-> x.told[i], size |-> Size[x.local[i].addr],
                             mr |-> i]]
  \o [i \in DOMAIN Internal |-> [flags |-> {"internal"}, size |-> Internal[i],
                                 mr |-> 0]]

\* naaice_swnaa_handle_mr_announce_and_request, or its failure, which the
\* host is told.
InternalsOf(message) == {i \in DOMAIN message : "internal" \in message[i].flags}

NaaMakesRegions(c) ==
  LET message   == Message(ctx[c])
      normal    == AtPlaces(message, DOMAIN message \ InternalsOf(message))
      internals == AtPlaces(message, InternalsOf(message))
  IN /\ ctx[c].stage = "announced"
     /\ \/ Becomes(c, [ctx[c] EXCEPT
              !.stage = "answered",
              !.naa_local = [i \in DOMAIN normal |->
                [size |-> normal[i].size, mr |-> normal[i].mr,
                 roles |-> normal[i].flags]],
              !.naa_internal = [i \in DOMAIN internals |-> internals[i].size]])
        \/ Fails(c, "mrsp")

\* MSG_MR_A: the NAA's regions in order (naaice_handle_work_completion).
RecordPeers(c) ==
  /\ ctx[c].stage = "answered"
  /\ Becomes(c, [ctx[c] EXCEPT
                   !.stage = "ready",
                   !.local = [i \in DOMAIN @ |-> [@[i] EXCEPT !.peer = i]]])

Mrsp(c) == InitMrsp(c) \/ NaaMakesRegions(c) \/ RecordPeers(c)

-------------------------------------------------------------------------------
(* naaice_init_data_transfer and naaice_write_data.                        *)

DroppedLate(x) == IF x.no_rpc_calls > 1 THEN HavingRole(x, "single") ELSE {} \* mutant
Dropped(x) == IF x.no_rpc_calls > 0 THEN HavingRole(x, "single") \cap HavingRole(x, "input")
              ELSE {}

WithoutDropped(x) ==
  [x EXCEPT !.no_input_mrs = @ - Cardinality(Dropped(x)),
            !.local = [i \in DOMAIN x.local |->
                         IF i \in Dropped(x)
                         THEN [x.local[i] EXCEPT !.roles = @ \ {"input"}]
                         ELSE x.local[i]]]

START_RPC_MASK == 128
OrMaskAdded(imm) == imm + START_RPC_MASK    \* mutant: + for |
OrMask(imm) == IF (imm \div START_RPC_MASK) % 2 = 1 THEN imm ELSE imm + START_RPC_MASK

\* Of all regions flagged as inputs, as many as are counted; the last write
\* carries the immediate.
WriteList(x) ==
  LET inputs == InOrder(HavingRole(x, "input"))
      n      == IF Len(inputs) < x.no_input_mrs THEN Len(inputs) ELSE x.no_input_mrs
  IN [k \in 1..n |-> [mr |-> inputs[k], bytes |-> x.local[inputs[k]].bytes,
                      withImm |-> k = x.no_input_mrs,
                      imm |-> IF k = x.no_input_mrs THEN OrMask(x.immediate) ELSE 0]]

\* With nothing to write, what is posted is an unset work request.
InitDataTransfer(c) ==
  LET x == WithoutDropped(ctx[c])
  IN /\ ctx[c].stage = "ready" /\ ctx[c].no_rpc_calls < MaxRpcCalls
     /\ Becomes(c, [x EXCEPT !.writes = WriteList(x), !.no_rpc_calls = @ + 1,
                             !.stage = IF x.no_input_mrs = 0 THEN "undefined" ELSE @])

\* What naaice_swnaa_handle_work_completion makes of the immediate.
ImmFncode(imm) == imm % 128
ImmUser(imm) == imm \div 256

-------------------------------------------------------------------------------
(* The counters the transfers are tallied with agree with the flags,       *)
(* whichever way regions became, and ceased to be, inputs and outputs.     *)
CountsMatchFlags ==
  \A c \in Contexts :
    /\ ctx[c].no_input_mrs = Cardinality(HavingRole(ctx[c], "input"))
    /\ ctx[c].no_output_mrs = Cardinality(HavingRole(ctx[c], "output"))

(* After the protocol each end's regions are the other's: the peer of a    *)
(* host's region was made for it, with its size and the roles it had when  *)
(* it was announced, and internal regions are never taken for parameters.  *)
BothEndsAgree ==
  \A c \in Contexts :
    LET x == ctx[c]
    IN x.stage \in {"ready", "undefined"} =>
         /\ Len(x.naa_local) = Len(x.local) /\ x.naa_internal = Internal
         /\ \A i \in DOMAIN x.local :
              /\ x.naa_local[x.local[i].peer].mr = i
              /\ x.naa_local[x.local[i].peer].size = Size[x.local[i].addr]
              /\ x.naa_local[x.local[i].peer].roles = x.told[i]

(* No write of a call exceeds the region it reads or the one it writes.    *)
WritesFit ==
  \A c \in Contexts : \A k \in DOMAIN ctx[c].writes :
    LET w == ctx[c].writes[k]
        r == ctx[c].local[w.mr]
    IN w.bytes <= Size[r.addr] /\ w.bytes <= ctx[c].naa_local[r.peer].size

(* A single-send region is written by the first call at most, also if it   *)
(* was flagged, or flagged as an input again, after that call.             *)
SingleSendOnce ==
  [][\A c \in Contexts :
       ctx'[c].no_rpc_calls > ctx[c].no_rpc_calls /\ ctx[c].no_rpc_calls > 0 =>
         \A k \in DOMAIN ctx'[c].writes :
           ctx'[c].writes[k].mr \notin HavingRole(ctx[c], "single")]_ctx

(* Every call that has something to send tells the NAA, in its last write  *)
(* and no other, to run the context's function with the application's user *)
(* bytes.  START_RPC_MASK cuts function codes above 127.                   *)
CallsTellFunction ==
  [][\A c \in Contexts :
       LET x == ctx'[c]
           n == Len(x.writes)
       IN x.no_rpc_calls > ctx[c].no_rpc_calls /\ x.stage = "ready" =>
            /\ n > 0 /\ \A k \in 1..n : x.writes[k].withImm <=> k = n
            /\ ImmFncode(x.writes[n].imm) = x.fncode % START_RPC_MASK
            /\ ImmUser(x.writes[n].imm) = ctx[c].immediate \div 256]_ctx

-------------------------------------------------------------------------------
(* What a header of the code says, and the code does not do.  A transfer   *)
(* starts "by posting write operations for the memory regions"             *)
(* (naaice_init_data_transfer): a call on a connection set up with an      *)
(* input region writes something, the first call and every later one.      *)
CallsWrite ==
  \A c \in Contexts :
    LET x == ctx[c]
    IN x.no_rpc_calls > 0 /\ (\E i \in DOMAIN x.told : "input" \in x.told[i]) =>
         x.writes # <<>>

===============================================================================
