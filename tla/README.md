# TLA+ models of the NAAICE communication library

The library connects hosts to network-attached accelerators (NAAs) over RDMA.
A host writes its input regions into the memory of the NAA, the immediate of the
last write starts the RPC, and the NAA writes the output regions back, again with
an immediate on the last write. `lib/naaice.c` is the host side, `lib/naaice_swnaa.c`
a software NAA (a server with one thread per connection), `lib/naaice_ap2.c` a
middleware on top of the host side. All of it is C over libibverbs and librdmacm.

This directory holds models of the parts that can go wrong in time, the TLC runs
that check them, and proofs of the results that hold for all parameters.
Paths below are relative to the repository (`src/`).

## Inventory of the system

| Component | State it keeps | Operations | Hard behaviour | What makes it correct |
|---|---|---|---|---|
| Host connection setup (`naaice.c` 413-632) | `state` INIT, READY, CONNECTED; the rdma_cm id | event handlers, `naaice_setup_connection` | events in any order, rejection, no timeout of its own | setup ends, CONNECTED means usable resources |
| Host region configuration (160-411, 719-907) | `mr_local_data`, `mr_peer_data`, flags, counts, immediate | `naaice_set_*_mr`, `naaice_set_immediate`, registration | limits on numbers of regions | flags and counts agree |
| Host MRSP (909-920, 957-1021, 1224-1249) | `state` MRSP_* | announce and request, handle the answer | answer and send completion race | both ends reach MRSP_DONE |
| Host RPC transfer (922-1062, 1251-1277, 1593-1784) | `state` DATA_*, FINISHED; `rdma_writes_done`, `response_received`, `no_rpc_calls`, `fncode` | start a call, count completions | completions and response in either order; failing posts; timeouts and retries | exactly one execution per call; FINISHED means own writes retired and own results in place |
| Host polling (1065-1222) | completion queue, event channel and its arming | blocking, nonblocking and busy poll | lost wakeups | no call sleeps on a completion that is there |
| Host cleanup (1279-1425) | everything allocated | disconnect, release | a failure half way | the NAA notices |
| SWNAA worker (`naaice_swnaa.c` 356-404, 504-1256) | `state`, `rdma_writes_done`, kernel inputs | MRSP, receive, kernel, write back | same races mirrored; peer disappears; errors of the kernel | the kernel runs once per call on this call's data; the worker serves again |
| SWNAA master and slots (38-161, 239-354, 392-502) | `connections[]`/`top`, `worker[]`, the lock | connection events, start and end of workers | master and workers share slots; partial failures; freed contexts | no slot lost or given twice; a slot refers to its connection |
| AP2 middleware (`naaice_ap2.c`) | NAA specifications, handles | `naa_create/invoke/test/wait/finalize` | completion tested or awaited by the caller | a handle is used once at a time, wait returns a finished call |
| Resource management client (`malloc_client.c`) | none | HTTP requests | none of its own | parsing |
| libibverbs, librdmacm, adapters (external) | queue pairs, queues, events, memory | verbs | ordering between directions, failures | taken as is |

Host and worker interact only through the adapters: SEND messages during MRSP,
RDMA writes and writes with immediate afterwards. Master and workers share
`struct context`; connection events reach the master from the connection manager.

`PROJECT.json` lists the hazards of this code line by line, each with the
properties that cover it.

## The modules

| Module | Models | Role |
|---|---|---|
| `NaaiceStates` | `naaice_communication_state` | the states with their numbers, which the code compares with `<` and `>=` |
| `Verbs` | queue pair, queues, events, regions (external) | what both sides call, and what the adapters do on their own |
| `NaaiceHost` | host: MRSP, calls, the three polls, timeouts, `naa_wait`, close | one action per stretch of code between two points where the NAA or an adapter can act |
| `NaaiceWorker` | `worker_procedure` and what it calls, for one connection; NAAICE_ERROR written by the master | the same for the NAA side |
| `NaaiceLink` | the composition of the three, fairness, properties | the transfer of calls over one connection |
| `RpcService` | the call as an application sees it | abstract specification; `NaaiceLink` implements it |
| `ServerPool` | master, slots, contexts, worker life cycle | the server towards any number of hosts; a worker may end at any time |
| `HostContext` | one context: `naaice_setup_connection`, registration, `naaice_disconnect_and_cleanup`, every resource | the host before and after its calls |
| `ConnectionSetup` | `HostContext` as one of the hosts of `ServerPool` | the composition; it implements `ServerPool` |
| `RegionSetup` | flags, counters, limits, immediate; the message of MRSP and the NAA's regions; the list of writes of a call | the data the other modules abstract from |
| `Sessions` | configuration by the application, or `naa_create`, `naa_invoke`, `naa_finalize` | who drives `RegionSetup` |
| `NaaiceLinkProofs`, `NaaiceResponseProofs`, `NaaiceExchangeProofs`, `NaaiceDataProofs`, `NaaiceServiceProofs` | | theorems about `NaaiceLink`, each module on those before it |
| `ServerPoolProofs`, `ContextProofs`, `SessionProofs` | | theorems about `ServerPool`, `ConnectionSetup`, `Sessions` |
| `MCNaaiceLink`, `MCServerPool`, `MCConnectionSetup`, `MCSessions` | | values and symmetry for TLC |

The three groups share no variables. `ConnectionSetup` ends where `NaaiceLink` starts, with a
connection established at both ends and the regions registered, and in its place has
`UseConnection`, which leaves any state a link can leave. `RegionSetup` makes single
steps of the protocols whose interleaving is `NaaiceLink`'s, which in turn takes as constants
(`Inputs`, `RepeatInputs`, `Outputs`) what `RegionSetup` computes from flags.

### Correspondence with the code

Host. `host_pc` is the place of the application's thread: outside of the library
(`app`), waiting for an event (`poll`), between taking the event and arming the
queue (`arm`), in the loop of `naaice_drain_cq` (`drain`), after a call that
returned -1 (`failed`). `DoMrsp` and `DoDataTransfer` are the first halves of
`naaice_do_mrsp` and `naaice_do_data_transfer`, with every call they make:
posting the receive, clearing the tally, setting the state, dropping the
single-send regions, posting the list of writes. `HostDrain` is one turn of the
drain loop, that is one execution of `naaice_handle_work_completion`, split by
what is accepted: `HostHandleMrsp`, `HostHandleData`, `HostReject`.
The variable `to_write` is the list of regions flagged for writing, so that
`Len(to_write)` is `no_input_mrs`. The polls are `HostGetEvent`,
`HostArm`, `HostDrain`, `HostDrained` for `naaice_poll_cq_nonblocking`, `HostBusy` for
`naaice_poll_cq_busy`; the application chooses for every call (`TransferCalls`), so a busy
call may leave its event to the next one. With `naa_wait` the call goes on in the
application's hands: each wait is one event (`naaice_poll_cq_blocking`), after which the application looks
at the status and may wait again (`WaitAgain`). As in the code the timeout is looked at after a poll, even
one that has just finished the call.

Worker. `naa_pc` and `naa_call` are the place in `worker_procedure`; `NaaReturn` is
what `worker_procedure` does with the result of each call, including the failures
it ignores. `naa_saved` is the local variable `state` of
`naaice_swnaa_poll_cq_nonblocking`, which decides when the drain loop is left early
(`AfterCompletion`). `naa_arrived`, `naa_serving` and `naa_runs` are history variables.
`NaaExit` is the release of the worker's resources, one step that destroys the queue pair or gives up before it
(`"cleanup"`), which leaves the pair up with nobody behind it.

Memory. A region holds the pair of who wrote it and for which call. That is all the
properties tell apart; sizes, addresses and keys are left out. The kernel
(`RunRpc`) leaves results of the served call in all output regions.

Adapters. A request posted (`sq`) is executed at the peer in order, moves to
`unacked`, and its acknowledgement puts a completion in the sender's queue.
What the verbs do not promise is a constant:

* `AckFirst`: traffic of the peer arrives only after the acknowledgements of what
  was executed before. Usual adapters keep it nearly always; the comment at
  `naaice.c` 1023 rightly does not rely on it.
* `ArmSeesPending`: arming a queue that already holds a completion raises the event.

Pool. `free` is `connections[0..top-1]`; `worker`, `contexts` and `ids` tell what a slot
points to and whether that memory is still allocated, so that a use after a free
is a state, not a crash of the model. The mutex guards single short sections: each
is one step, and everything between two of them interleaves. A server that follows a NULL pointer is
"crashed" and takes no further step, master and workers alike: without memory for a context
(`MasterInitsWorker`), without the resources of an accepted connection (`MasterAccepts`), after an announcement
that failed (`WorkerCrashes`), and when the slot of a removed device is emptied under the master's feet
(`MasterMarksError`). A cleanup that gives up (`CleansUp`) leaves the context, and the slot is returned all the same. The
link has no such state: at its one connection a crash is the breaking of the queue pair.

Context. A pointer of the context is "set", "NULL" or "unset", because the context
comes from malloc and `naaice_init_rdma_resources` is the first to write some of them;
`live` says separately what exists. `Releases`, `Skips` and `FollowsUnset` are the three
outcomes of one guarded release in the cleanup, for the resources in the order of
`ReleaseOrder`; following an unset pointer may crash or, by chance, do nothing. `InUse` is the verbs'
refusal to release what something else still uses. Event handlers are one action each;
`Connects` is shared with the server, and `HearsAnswer` and `ServerHears` are the
connection manager between the two.

Regions. `ctx` maps a context to a record of its local regions (block, roles, bytes to send,
index at the peer), its counters, its function code and immediate as numbers, and the
NAA's regions. `Message` is what `naaice_send_message` composes, `NaaMakesRegions` what the worker
makes of it, `WriteList` the work requests of `naaice_write_data` with their lengths and
immediates. Addresses and keys are the identity of a region. `InOrder` and `AtPlaces` are the loops over
regions and entries that skip some: the flagged regions from the first to the last, the parameters'
entries of the message before the internal ones, the outputs that are not inputs.

Faults are constants too, sets of named failures (`Faults`, `NaaFaults`, `PoolFaults`,
`HostFaults`, `SetupFaults`):
failing `ibv_post_recv`, partly failing `ibv_post_send`, timeouts, retries by the
application, disconnection, failing resolution, resources, registration or region
announcement, failing memory and resources of an accepted connection, failing accept, connection, thread
creation, cleanup, device removal, crash of the host. Besides, the adapters may
always fail a request whose peer is gone or has no receive posted (`FailSend`,
`FlushRecv`); both `Break` steps carry no fairness.

## The runs

Link: three regions, of which region 1 is a single-send input, 2 is input and
output (written back in place), 3 output only. So the first call writes two regions,
later ones one, and each response is two writes: every path of the tallies and of the
single-send code is taken. Three calls are needed to have a first, a second (after
`RepeatInputs` takes effect) and one more that follows an unchanged one; `link_any_fault`
has two, and a `find_*` run as many as its failure takes. `MaxCalls` is the only bound on the link; queues are bounded by what
the two sides post. Pool: three connections for two slots: one rejection, one
reuse of a slot, and two workers and the master at once. Setup: one slot that the modelled
host shares with another, so that it may be rejected, be first, or take over a slot;
two cleanups (`MaxCleanups`), since the second finds everything as the first left it. Sessions:
two regions suffice for every combination of roles and for an order among writes; their sizes 1
and 2 make limits of none, part, all and more possible; two calls are a first and a later one
(`MaxRpcCalls`); function codes on both sides of 128 and, for AP2, of 256; two contexts and two
NAAs for one function with different numbers of parameters (`MaxParams` is two). An
application without AP2 uses one context once, as contexts share nothing there.

`CHECK_DEADLOCK FALSE` everywhere because the application may stop calling, and every connection
may have come and gone.

| Run | Specification | Properties | Shows |
|---|---|---|---|
| `link_calls` | FairSpec, no faults, `AckFirst`, `ArmSeesPending` | TypeOK, KernelSeesItsCall, ReceivesBounded, InputsQuietDuringRpc, CallsReturn, MrspCompletes, ExactlyOnce | in the usual order the link is the exactly-once service, and live, whichever way each call polls |
| `link_faults` | Spec, `AckFirst` FALSE, failing posts at both ends, failing registration and cleanup at the NAA, removal of its device, host timeouts, close | FinishedHasResults, WritesInOrder, CompletionsRecorded, HostErrorNotSuccess, RegionsQuietBetweenCalls | responses and acknowledgements count in either order and end no call early, and success is never reported without the results of the call |
| `link_any_fault` | Spec, calls that go on with `naa_wait`, failing posts, retries, kernel errors, timeouts at both ends, device removal at the NAA, neither `AckFirst` nor `ArmSeesPending` | TransferTally | the tally agrees with the state whatever happens |
| `pool_faults` | Spec, all pool faults, symmetry | TypeOK, SlotOwnership, ContextsInPlace | the bookkeeping of slots is exact |
| `setup` | SystemFairSpec, every failure of the host, failing worker memory, resources, accepts, connections and announcements at the server | SystemTypeOK, SetupMeansServed, DependenciesLive, ReleasesLive, CleanupComplete, ConnectedSurvives, SetupReturns, SlotsComeBack | what is reported as connected is served; cleanup after any history is ordered, complete and repeatable once connected; setup returns, and slots come back unless the server crashes |
| `sessions` | SessionSpec, all failures of the steps before calls | SessionTypeOK, CountsMatchFlags, BothEndsAgree, WritesFit, ItemsExclusive, ParamsCovered, SingleSendOnce, CallsTellFunction | in every order of configuration both ends agree on the regions and a call writes what it should |

Symmetry in `pool_faults` is sound: connections occur only in sets and functions, and
the run has no liveness property.

Runs named `find_*` each show one place where the code does not do what a comment or a
header says of it; `PROJECT.json` quotes both. In short:

* `find_stale_rpc`: after a failed receive the worker runs the kernel once more, on old data.
* `find_error_lost`: an error code of the kernel is shifted away by the host, which sees success.
* `find_error_wedge`: an error reply is one write, but the worker waits for all outputs.
* `find_removal`: the master uses a slot's context after the worker has freed it.
* `find_partial_cleanup`: the cleanup after a setup that failed early follows pointers never set.
* `find_overtaken` (`AckFirst` FALSE, nothing failing): the next thing of the peer is polled before the completion
  of what was sent before it, in a state that does not accept it. The host fails in `naaice_do_mrsp` when
  the answer overtakes the completion of the announcement; the worker ends when a request overtakes that of its
  message (the race of `naaice_swnaa.c` 521-528, "not reliably reproducible") or of its last write.

Beside the runs there are configurations for what else was met, one property each, all of them violated. They
are not needed for anything above, and are kept to look at the traces:

| Configuration | Property | TLC finds |
|---|---|---|
| `find_next_request` | NextRequestAwaited | `find_overtaken` between two calls: the worker has sent its results, and ends on the request that follows |
| `find_unsolicited` | WokenWhenBothHold | without `AckFirst`: the completion after the response is not solicited, so nothing wakes the host for it before its timeout |
| `find_missed_wakeup` | MrspCompletes | without `ArmSeesPending`: the worker drains its queue before it arms it, and misses what arrives in between |
| `find_stale_response` | FinishedHasResults | the response of a call that timed out ends the one made after it |
| `find_single_lost` | SingleSendWritten | a first call whose writes could not be posted counts as the first RPC, and the retry leaves out the single-send regions, which were never written |
| `find_wait_early` | WaitReturnsResults | `naa_wait` returns success after one completion of any kind (`naaice_ap2.h` 91-92 says once data has been written back) |
| `find_server_crash` | ServerSurvives | the resources of an accepted connection or the registration of its message region fail: the cleanup gives a NULL region to the verbs, and the server ends with every connection (`naaice_swnaa.c` 1268) |
| `find_worker_crash` | ServerSurvives | the same at the end of a worker that could not register all announced regions (1277) |
| `find_slot_lost` | RejectsOnlyWhenFull | RDMA_CM_EVENT_CONNECT_ERROR is only logged (`naaice_swnaa.h` 86-89 says it is handled), so a connection that fails after its acceptance keeps its slot and later hosts are rejected although there is room |
| `find_setup_hangs` | SetupAlwaysReturns | a handler that fails leaves the state as it was, and `naaice_setup_connection` looks at nothing else and has no timeout (`naaice.h` 567-569: "-1 on failure (e.g. timeout)") |
| `find_unset_request` | CallsWrite | with one input, which is single-send, the second call posts a request that was never filled in |

Two further differences from the header were met while modelling and have no run, as the
model would only restate them: `naaice_register_mrs` before the connection is set up, which
`naaice.h` 25-27 allows ("in any order"), uses a protection domain that was never set
(`RegisterUnconnected`; that the verbs refuse such a pointer instead is possible but not
modelled); and a limit of 0 bytes, which `naaice.h` 743 says resets to the size of the
region, limits to nothing (`BytesToSend`: negative numbers reset).

More show up as failures of the passing runs' properties when one constant changes:

* `link_calls` with `NaaFaults = {"removal"}` violates KernelSeesItsCall and RpcOnArrivedData:
  ERROR is `>= MRSP_DONE`, so a worker whose state the master has set to it goes on with the
  kernel, or overwrites it with its next state. The host sees nothing of it, since the queue
  pair is gone with the device (`link_faults`).
* `setup` with `"thread"` in `PoolFaults` violates SlotsComeBack: a worker that has no thread
  never returns its slot.
* `link_faults` with `"naa_timeout"` in `NaaFaults` violates RegionsQuietBetweenCalls: a
  worker that times out waiting runs its kernel (`find_stale_rpc`) and writes the outputs
  into the regions of an idle host.

### Fairness

`NaaiceLink!Fairness` asks for weak fairness of the host's polling steps, of the worker's
thread, and of the adapters at each end. Both threads loop and wait only for their own
queue, whatever the other side does, and a reliable connection carries what was posted.
Nothing is asked of the application (starting a call), of timeouts or of failures.
`SystemFairness` asks for the server's master loop (`examples/naaice_server.c` 90-96), for
the end of workers (a worker ends when its host disconnects, since the flushed receive
fails its poll, or at its timeout), for the connection manager to answer what it is
asked and to establish or fail what was accepted, and for the host's library to go on
once it is in a call. When the application calls, crashes or loses its device is left open.

The liveness properties of the link hold only with `AckFirst` and `ArmSeesPending`;
`find_overtaken`, `find_unsolicited` and `find_missed_wakeup` show what happens without. `link_calls` therefore
says what the code does on adapters that keep both, not what it does on every adapter that
conforms to the verbs; `link_faults` and `link_any_fault` do not assume `AckFirst`.

## What is proved

TLAPS checks the following for every value of the constants that satisfies the
modules' named assumptions (regions are positive numbers, lists of inputs and outputs are
nonempty, the function code is 1..127, faults are among the named ones, there is at
least one slot). No bound on calls, connections or cleanups is used.

The link, as far as the host alone tells (`NaaiceLinkProofs`, `NaaiceResponseProofs`):

* `TypeCorrect`: `Spec => []TypeOK`. One lemma per call of the verbs interface says what
  type it leaves; each action then follows from the calls it makes.
* `TallyCorrect`: `Spec => []TransferTally`, under every fault and both orderings. The
  tally is inductive together with `TypeOK`: only `DoDataTransfer` (which resets it) and
  `HostHandleData` touch it, `tallyVars` names what the others leave alone.
* `OrderKept`: `Spec => []WritesInOrder` unless the application retries failed calls. The
  property is about three queues, and a step moves a write from one to the next: the
  invariant `HostOrder` says it of the concatenation (posted, unacknowledged, completed),
  as `Ordered(s, u, c, done, total)`, with lemmas for what each step does to the triple:
  post, execute, acknowledge, fail, drop. It is needed because the order within one queue
  is not inductive: a write enters a queue from the front of the other. It includes that a FINISHED
  host has no write left in any queue. With retries it is false: writes of the call given up are
  counted for the next one.
* `OneResponse`: `Spec => []ResponseInv` unless failed calls are retried. The response of a call is
  one thing in three places: the receive posted for it, its completion, the flag
  `response_received`. `ResponseInv` says which, by the host's state, and that there is none between calls.
* `ErrorIsNoSuccess`: `Spec => []HostErrorNotSuccess`, from the same invariant: a host whose receive
  was never posted has none, so no response can complete its call, and `AppInv` says the application
  is only given back a call that has. Not with `naa_wait`, which does not look (`find_wait_early`).

Both sides of the link (`NaaiceExchangeProofs`, `NaaiceDataProofs`), for every other fault and both
orderings of the adapters, but without retries and without the worker's timeout
(`Persistent`). Both start something again that the other side may still answer, and both make the
results false: `find_stale_response`, `find_single_lost` and `find_stale_rpc` show it.

* `OneCallInOnePlace`: `Spec => [](Alive => ExchangeInv)`. `ShapeInv` says what a queue can hold:
  the writes of one call, the immediate last. `WorkerInv` gives for each place in `worker_procedure` the
  states it can be in there, and what it has sent. `Tokens` is the core: request, arrived data, kernel,
  response, answer exclude each other and are of the application's call. `Alive` is that neither queue
  pair is broken and the host has sent no error; what it excludes is lost for good, and what still holds
  then is proved apart (`SilentInv`, `HostResults`).
* `KernelGetsItsCall`: `Spec => [](Alive => KernelSeesItsCall)`. `InputInv` follows the data: flagged and
  ready at the host, under way before the immediate, in the worker's regions; single-send regions
  are there since the first call. `Alive` is needed: see `"removal"` above.
* `InputsAreTheKernels`: `Spec => InputsQuietDuringRpc`, also when the connection is down: a host that
  failed, or sends an error, has no data left to write (`SilentInv`).
* `FinishedIsFull`: `Spec => []FinishedHasResults` for a kernel that reports no error
  (`KernelErrors = {0}`; `find_error_lost` shows the others). `OutputInv` follows the results as
  `InputInv` does the data; `HostResults`, that a completed call has them, survives every failure after.
* `RegionsAreTheApplications`: `Spec => RegionsQuietBetweenCalls` without `naa_wait`: between calls
  there is no response (`ResponseInv`), hence nothing of one in the worker's queue.

The link while nothing fails (`NaaiceServiceProofs`): `FaultFree` is no faults, no kernel errors and
`AckFirst`, the constants of `link_calls` but for any regions, calls and polls, and `ArmSeesPending`
or not:

* `ReceivesAreFew`: `Spec => []ReceivesBounded`, from `FlowInv`. Under `AckFirst` that also says that no completion is
  rejected, which needs to know which is next (without `AckFirst` it is false, `find_overtaken`): `Heads` says that a side that has sent
  its MRSP message sees that sent before anything of the peer, `NaaTally` that the worker has seen all its writes
  before the next request, both thanks to `AckFirst`; `Receives` that there are as many receives as there is
  still to come, and one spare at the worker.
* `KernelAlwaysGetsItsCall`: `Spec => []KernelSeesItsCall`, as `Alive` is part of `FlowInv`.
* `LinkServes`: every step of `Spec` is one of `RpcService` or leaves it alone, under the mapping of
  `ExactlyOnce`, without `naa_wait`. Needed beside: `Runs`, the number of the kernel's runs is that of the calls less the
  one that is still to be run, and `Held`, what the application holds is the answer of its last call.

The pool (`ServerPoolProofs`), for any number of slots and connections, under every fault:

* `PoolTypeCorrect`, `SlotsOwned`, `ContextsKept`: `Spec => []` of TypeOK, SlotOwnership and
  ContextsInPlace. None is inductive alone. `PoolInv` adds `Protocol`: a connection has at most
  one pending event of each kind, and those only at the stage of its life that produces them; the master's
  local variables name a connection at the stage its program counter says; a thread exists only for an
  established connection. Without it the master could take a slot for a connection that
  has one. `OwnershipForm` restates the ownership with the three holders of a slot (`IsFree`, `Holds`,
  `MasterHolds`) as predicates, and each action has a lemma that says which one it moves a slot from and to.

Context and server (`ContextProofs`):

* `ServerImplemented`: `SystemSpec => Spec`. `ConnectionSetup` implements `ServerPool`: each of its steps
  is one of the pool's or leaves the pool alone, so the theorems above hold of the composition.
* `SystemTypeCorrect`, `NothingFreedInUse` (DependenciesLive), `NothingFreedTwice`
  (ReleasesLive), `NothingLeftBehind` (CleanupComplete), `ConnectedCleansUp` (ConnectedSurvives):
  all follow from `ContextInv`. Its parts: `InSync`, the context's pointers are set for what exists and only for
  that, registrations aside; `AddrOnce`, the address is resolved once and before any RDMA resource is made, which is
  why no resource is made twice; `SetupInv`, a connection is established only with a queue pair, hence
  with every pointer set; `CleanupInv`, the cleanup has forgotten the first k resources
  of its order and knows the rest. That the order is sound is then a fact about `ReleaseOrder`:
  at place k, what uses the resource is among the forgotten.
* `ConnectedIsServed`: `SystemSpec => []SetupMeansServed`, from `PoolInv`, `ContextInv` and
  `ServedInv`: setup is at one place, with the connection manager or as one event in the channel, so
  once the connection is established there is no resolution left to handle that would take it
  back; and the server leaves a connection that its host holds established where it is (`StaysReached`).

Regions and sessions (`SessionProofs`), for any number of contexts, regions, parameters, internal
regions, NAAs and calls, and whichever step of the set-up fails:

* `CountersAreRight`, `EndsAgree`, `WritesAlwaysFit`: `SessionSpec => []` of
  CountsMatchFlags, BothEndsAgree, WritesFit. Each context alone keeps `GoodContext`: counters
  equal the flagged regions (`Counted`), limits stay within regions (`Limited`), both ends agree as far as
  the protocol has come (`Agreed`), writes fit (`Written`), the function code is the immediate's lowest
  byte (`Numbered`). Each operation has a lemma that it makes a good context of a good one.
* `ItemsAreExclusive`: `SessionSpec => []ItemsExclusive`. `ItemInv`: the item of a live session is recorded to
  be its own, and an item that is given away was nobody's. The record stays after a failure,
  which costs an item and keeps the property.
* `ParametersAreCovered`: `SessionSpec => []ParamsCovered`. The list of regions has every parameter once
  (`ParamRegionsIs`), so a parameter's region is found by its address (`RegionOfIs`), and
  `ConfiguredIs` gives the roles after both lists of parameters; `CoveredInv` keeps them until the first call.
* `SingleSendIsSentOnce`, `CallsCarryTheFunction`: the action properties SingleSendOnce and CallsTellFunction, from
  `GoodCall`, which says of one call what it writes; `OrMaskIs` is the arithmetic of the immediate.
* `SessionTypes`: `SessionSpec => []SessionTypeOK`.

These are about lists of any length, and the library's induction rules take an operator, which the
provers cannot instantiate. `Induction` states the rule for sets of numbers instead, from the
library's fact that numbers are well-founded, and `InOrder`, `AtPlaces` and the fold of `FlagParams` are
handled with it: an increasing order exists (`OrderExists`) and is onto (`InOrderIs`); the fold
takes one parameter after the other (`FoldExists`, `FlagParamsSteps`).

Only model-checked: CompletionsRecorded, and what needs fairness (CallsReturn, MrspCompletes, SetupReturns, SlotsComeBack,
the fairness in ExactlyOnce), which is out of reach of the prover, as is ENABLED. The hypotheses of the
theorems about the link are met by the runs that check the same properties (`link_calls` and `link_faults`
have no retries, no timeout of the worker, no `naa_wait` and no kernel errors), so no run shows more of
those properties than is proved.

## What is not modelled

* The C++ wrapper (templates without state), the HTTP client of the resource management service, the build
  files, logging, what kernels compute, `bytes_received`, the shutdown of the example server.
* Sizes of messages (the hazard at `naaice.h` 113), addresses and keys, which are the identity of a
  region, and the NAA addresses a host may ask for, which the software NAA ignores.
* The text of `NAA_SPEC`: sessions start from the list it is parsed to.
* `naa_test` is a poll of `naaice_do_data_transfer` without its clock. `naaice_poll_cq_blocking`
  does not cancel its alarm; an alarm that rings late is an ordinary timeout or interruption there
  (`WaitInterrupted`).
* Failures of
  `ibv_poll_cq`, `ibv_get_cq_event`, `ibv_req_notify_cq`, `poll` and `fcntl` end a poll with -1
  like a rejected completion does, and are not modelled separately. Out-of-memory
  conditions other than those of `naaice_swnaa_init_worker` (a NULL context, which crashes the server, and its
  message region) and of the announced regions (`mrsp`, `announcement`) are left out.
* Device removal happens to a link once, since it breaks the queue pair.
  In `ConnectionSetup` a disconnection during setup and a second resolution of the route cannot occur:
  nothing asks the connection manager for them.
* An application that calls `naaice_do_data_transfer` before MRSP is done,
  or from two threads, or flags regions after MRSP (forbidden at `naaice.h` 598) is outside of the
  library's contract; the last is still in `Sessions`, where `told` remembers what the NAA knows.
* Memory that is never released by design of the code (the internal regions, the context itself, the peer's
  record before MRSP is done) is named in CleanupComplete and not otherwise checked.

## Open ends

Every safety property of the passing runs but CompletionsRecorded is a theorem. What could be added: a proof of
it, for which one has to know that nothing of MRSP is left at the host in a call; FinishedHasResults and
RegionsQuietBetweenCalls for retries of calls none of whose writes was posted, which leave nothing under
way to confuse the next call with; and a run for the order of `NaaiceLink` after `ConnectionSetup`, which now
share no state.

## Checking

    tlc -workers 2 -config link_calls.cfg MCNaaiceLink.tla
    tlc -workers 2 -config pool_faults.cfg MCServerPool.tla
    tlc -workers 2 -config setup.cfg MCConnectionSetup.tla
    tlc -workers 2 -config sessions.cfg MCSessions.tla
    tlapm NaaiceLinkProofs.tla
    tlapm NaaiceResponseProofs.tla
    tlapm NaaiceExchangeProofs.tla
    tlapm NaaiceDataProofs.tla
    tlapm NaaiceServiceProofs.tla
    tlapm ServerPoolProofs.tla
    tlapm ContextProofs.tla
    tlapm SessionProofs.tla
