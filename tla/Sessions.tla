------------------------------- MODULE Sessions -------------------------------
(***************************************************************************)
(* The application on top of RegionSetup: either it configures a context   *)
(* itself, in any order the library lets it, or it uses the AP2 middleware *)
(* (lib/naaice_ap2.c), whose sessions take one of the NAAs the environment *)
(* specifies (NAA_SPEC), make the parameters regions and set these up.     *)
(* What naa_invoke, naa_test and naa_wait poll is NaaiceLink's.            *)
(***************************************************************************)
EXTENDS RegionSetup

CONSTANTS Ap1Params,    \* the parameters of the application without AP2
          Ap1Fncodes,   \* and its function codes
          JobSpec,      \* naa_job_spec: [fn_code, param_count] of each NAA
          NoHandle,
          MaxParams     \* bound: parameters of a session

ASSUME SessionAssumption ==
  /\ Ap1Params \in Seq(Blocks) /\ Ap1Fncodes \subseteq 1..255
  /\ JobSpec \in Seq([fn_code : Nat, param_count : Nat])
  /\ NoHandle \notin Contexts
  /\ MaxParams \in Nat

VARIABLES interface,    \* "ap1" or "ap2": which the application uses
          item_handle,  \* handle of each item of naa_job_spec
          session       \* what a handle was made for: item and parameters

sessionVars == <<ctx, interface, item_handle, session>>

NoSession == [item |-> 0, inputs |-> <<>>, outputs |-> <<>>, singles |-> {}]

SessionTypeOK ==
  /\ ContextsOK
  /\ interface \in {"ap1", "ap2"}
  /\ item_handle \in [DOMAIN JobSpec -> Contexts \cup {NoHandle}]
  /\ \A h \in Contexts :
       /\ session[h].item \in 0..Len(JobSpec)
       /\ session[h].inputs \in Seq(Blocks) /\ session[h].outputs \in Seq(Blocks)
       /\ session[h].singles \subseteq Blocks

SessionInit ==
  /\ ctx = [c \in Contexts |-> NoContext]
  /\ interface \in {"ap1", "ap2"}
  /\ item_handle = [i \in DOMAIN JobSpec |-> NoHandle]
  /\ session = [h \in Contexts |-> NoSession]

-------------------------------------------------------------------------------
\* naaice_init_communication_context by the application itself (bound: one
\* context, used once).
InitContext(c) ==
  /\ interface = "ap1" /\ \A d \in Contexts : ctx[d].stage = "none"
  /\ \E fncode \in Ap1Fncodes : Becomes(c, NewContext(Ap1Params, fncode))
  /\ UNCHANGED <<interface, item_handle, session>>

Configures(c) == /\ interface = "ap1"
                 /\ SetRole(c) \/ SetImmediate(c) \/ SetBytesToSend(c)
                 /\ UNCHANGED <<interface, item_handle, session>>

-------------------------------------------------------------------------------
(* naa_create.                                                             *)

\* get_naa_for_function_code.
UnusedAny(i) == TRUE              \* mutant: used or not
Unused(i) == item_handle[i] = NoHandle
Matching(function_code) ==
  {i \in DOMAIN JobSpec : Unused(i) /\ JobSpec[i].fn_code = function_code}

\* Parameters, without those outputs that are inputs as well.
ParamRegionsOfEach(inputs, outputs) == inputs \o outputs   \* mutant: not shared
ParamRegions(inputs, outputs) ==
  inputs \o AtPlaces(outputs, {i \in DOMAIN outputs : outputs[i] \notin Range(inputs)})

\* The region of an address: the first one with it.
RegionOf(x, addr) == CHOOSE i \in DOMAIN x.local :
                       /\ x.local[i].addr = addr
                       /\ \A j \in 1..(i - 1) : x.local[j].addr # addr

FlagParam(x, addr, singles, role) ==
  LET i == RegionOf(x, addr)
  IN Flag(IF addr \in singles THEN FlagSinglesend(x, i) ELSE x, i, role)

FlagParams(x, params, singles, role) ==
  FoldLeft(LAMBDA y, addr : FlagParam(y, addr, singles, role), x, params)

\* A naa_function_code_t has 32 bits, the fncode of a context eight.
NarrowedNot(function_code) == function_code     \* mutant: all of them
Narrowed(function_code) == function_code % 256

Configured(s) ==
  LET x == NewContext(ParamRegions(s.inputs, s.outputs),
                      Narrowed(JobSpec[s.item].fn_code))
  IN FlagParams(FlagParams(x, s.inputs, s.singles, "input"),
                s.outputs, s.singles, "output")

ParamLists == {params \in SeqOf(Blocks, MaxParams) : IsInjective(params)}

\* Up to the registration.  A function code of 256 or more is narrowed to a
\* byte, and zero refused.  A failure leaves the item taken; the handle is
\* cleared first.
NaaCreate(h) ==
  /\ interface = "ap2" /\ ctx[h].stage \in {"none", "failed", "over"}
  /\ \E inputs \in ParamLists, outputs \in ParamLists, i \in DOMAIN JobSpec :
     \E singles \in SUBSET (Range(inputs) \cup Range(outputs)) :
       LET s == [item |-> i, inputs |-> inputs, outputs |-> outputs,
                 singles |-> singles]
       IN /\ i \in Matching(JobSpec[i].fn_code)
          /\ \A j \in Matching(JobSpec[i].fn_code) : i <= j
          /\ Len(inputs) = JobSpec[i].param_count
          /\ item_handle' = [item_handle EXCEPT ![i] = h]
          /\ session' = [session EXCEPT ![h] = s]
          /\ \/ /\ Narrowed(JobSpec[i].fn_code) # 0
                /\ Becomes(h, Configured(s))
             \/ /\ Narrowed(JobSpec[i].fn_code) = 0 \/ Can("init") \/ Can("connect")
                /\ Becomes(h, [NoContext EXCEPT !.stage = "failed"])
  /\ UNCHANGED interface

\* No NAA for the function code, or another number of parameters.
NaaCreateRefused(h) ==
  /\ interface = "ap2" /\ ctx[h].stage \in {"none", "failed", "over"}
  /\ \E function_code \in {JobSpec[i].fn_code : i \in DOMAIN JobSpec} :
       \/ Matching(function_code) = {}
       \/ \E n \in 0..MaxParams, i \in Matching(function_code) :
            /\ \A j \in Matching(function_code) : i <= j
            /\ JobSpec[i].param_count # n
  /\ Becomes(h, NoContext)
  /\ session' = [session EXCEPT ![h] = NoSession]
  /\ UNCHANGED <<interface, item_handle>>

-------------------------------------------------------------------------------
SetsUp(c) == /\ RegisterMrs(c) \/ Mrsp(c)
             /\ UNCHANGED <<interface, item_handle, session>>

\* By the application, or by naa_invoke.
Calls(c) == InitDataTransfer(c) /\ UNCHANGED <<interface, item_handle, session>>

\* naa_finalize, or naaice_disconnect_and_cleanup: the item keeps its handle.
NaaFinalize(h) ==
  /\ ctx[h].stage \in {"none", "ready", "failed", "over"}
  /\ Becomes(h, [NoContext EXCEPT !.stage = "over"])
  /\ session' = [session EXCEPT ![h] = NoSession]
  /\ UNCHANGED <<interface, item_handle>>

SessionNext ==
  \E c \in Contexts :
    \/ InitContext(c) \/ Configures(c)
    \/ NaaCreate(c) \/ NaaCreateRefused(c)
    \/ SetsUp(c) \/ Calls(c) \/ NaaFinalize(c)

SessionSpec == SessionInit /\ [][SessionNext]_sessionVars

-------------------------------------------------------------------------------
Live(h) == interface = "ap2" /\ ctx[h].stage \notin {"none", "failed", "over"}

(* Two sessions never share an NAA, which serves one function with one set *)
(* of regions; also not after failures and repeated use of a handle.       *)
ItemsExclusive ==
  \A g, h \in Contexts :
    Live(g) /\ Live(h) /\ g # h => session[g].item # session[h].item

(* However parameters are shared between input and output, no region is    *)
(* without a role, none is registered twice, and each region has the       *)
(* roles its block was given as a parameter, until calls drop some.        *)
ParamsCovered ==
  \A h \in Contexts :
    LET x == ctx[h]
        s == session[h]
    IN Live(h) /\ x.no_rpc_calls = 0 =>
         /\ \A i, j \in DOMAIN x.local : x.local[i].addr = x.local[j].addr => i = j
         /\ \A i \in DOMAIN x.local :
              x.local[i].roles =
                {role \in Roles :
                   LET a == x.local[i].addr
                   IN CASE role = "input" -> a \in Range(s.inputs) \cup s.singles
                        [] role = "output" -> a \in Range(s.outputs)
                        [] role = "single" -> a \in s.singles}

===============================================================================
