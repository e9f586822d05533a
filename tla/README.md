# Verification of dpu_mpi

dpu_mpi moves `MPI_Ialltoall` from the hosts of a cluster to their BlueField
DPUs. A host registers its buffers and sends a request over RDMA to its DPU; the
DPU reads the send buffer with an RDMA read, runs the collective with the other
DPUs, writes the result into the receive buffer with an RDMA write, and the
immediate data of that write tells the host that the operation is complete.
This directory holds TLA+ modules of that system, the TLC configurations that
check them, and theorems with TLAPS proofs.

## The system: inventory

| Part | Source | State it keeps | Operations |
|---|---|---|---|
| DPU offload server | `main_bf.c`, `server_opts.h` | `job_list` (per slot: request, two memory regions and their lengths, MPI request, status), `recv_status`, the queue pair | `offload_main` (loop), `bf_poll`, `bf_advance`, `offload_read`, `offload_ialltoall`, `offload_write`, `dpu_reuse_mr`, `dpu_free_all_completed` |
| Host library | `dpulib.c`, `dpulib.h` | `DPUContext`: completion table (`cookie`, `status`, two regions per entry), `pending_recvs` | `DPU_Init`, `DPU_Exit`, `DPU_MPI_Ialltoall`, `DPU_MPI_Poll`, `DPU_MPI_Longpoll`, `DPU_MPI_Test`, `DPU_MPI_Wait`, `get_cookie` |
| Common code | `dpucommon.c`, `dpucommon.h` | none | `DPU_MPI_Type_Pack`, `DPU_MPI_Type_Unpack`, the RDMA post helpers, `init_mpi`, `test_mpi` |
| Address lookup | `get_ip.c` | none | `find_addr`, `offset_addr` |
| Request encoding | `protobuf/` | none | vendored nanopb, generated code of `common.proto` |
| Demonstration client | `main_host_use_lib.c` | none | 100 operations, one at a time |

How they interact. Host and DPU share nothing but one RDMA connection. The host
sends messages (a request, or the one-byte goodbye) which land in a receive the
DPU has posted; the DPU reads and writes host memory, and a write with
immediate data takes a receive the host has posted. The DPUs meet in MPI, which
matches collectives by the order in which each rank calls them. Inside the DPU
there is one thread and no callback: the loop polls the receive queue, the send
completion queue and `MPI_Test`, and everything asynchronous (the NIC, the
host, the other ranks) happens between two polls.

What is hard: completions of one job arrive while the loop looks at another;
regions wander from completed jobs to new ones, split, and are purged; slots of
completed jobs stay taken; the send queue is shorter than the job list; the
order in which jobs start their collectives must be that of the requests;
errors arrive as completions whose opcode is undefined; the host books
completions by cookie in a table that may be full, and posts receives only
when it polls.

What makes each part correct:

- server: a region has one owner, an active job has two registered regions that
  are long enough, none is lost, completions match job states, collectives
  start in request order, each request is completed, the server stops only
  when it is told to or something failed;
- host library: a returned index stands for an operation that completed, the
  regions of an operation stay registered until it is tested and are then
  released once, every completion finds its entry, `DPU_MPI_Wait` returns;
- together: the k-th operation of every host is one collective, and a host sees
  it complete only after the result is in its buffer;
- datatypes, sizes, addresses, encoding: the two ends agree on every value.

## The modules

| Module | Part | Proofs |
|---|---|---|
| `AlltoallService` | what the system promises to the hosts, without DPUs, messages or MPI | |
| `Offload` | all hosts and DPUs together; implements `AlltoallService` | `OffloadProofs` |
| `DpuServer` | the server of one DPU, in the detail of its slots, regions and queues | `DpuServerProofs` |
| `HostLib` | the host library, in the detail of its table, cookies and receives | `HostLibProofs` |
| `Datatypes`, `RequestSizes` | the two datatype tables; the sizes and datatypes of one request, on both sides | `RequestSizesProofs` |
| `PbWire`, `PbDescriptor`, `PbCodec` | the encoding of a message: numbers, descriptors, encoder and decoder | `PbWireProofs`, `PbCodecProofs` |
| `IfAddr`, `Session` | the address lookup, and a run of the client from `mpirun` to exit | `SessionProofs` |

The `MC` modules give them instances for TLC, `DataLemmas` has facts on
queues, least numbers, induction and recursion. The detail is divided so that each module has the
state that its questions are about: `Offload` has one job for each operation,
because `DpuServer` shows that slots and regions serve one request like another
and that collectives start in the order of the requests; it books an operation
by its number, because `HostLib` shows that a cookie leads to one operation;
`Session` takes an operation as three steps, because `Offload` has them.

What is left: `DecodedAsReference` as a theorem, for the messages of any other
encoder; and the agreement of the declared message sizes with the field list,
which depends on the schemas alone (see Proofs).

## DpuServer: the offload server

`DpuServer` is `offload_main()` and everything it calls. An action is one
operation of the loop between two looks at a queue; what the code does without
such a look in between is one action, however many functions it passes through.

| State | Code |
|---|---|
| `status`, `req`, `mr`, `alloc`, `mpi_req` | the fields of `job_list[]`; `<<s, "send">>` is `bf_send_mr` of slot s and its recorded length, `<<s, "recv">>` the other side |
| `pinned`, `len` | memory registered with the NIC, and its real length |
| `sq`, `executed`, `cq`, `qp` | the send queue and completion queue of the one queue pair; `executed` work requests have taken effect at the host and are not acknowledged yet |
| `recv_status`, `recv_posted`, `recv_cq` | the variable of `offload_main()`, the posted receive, its completion |
| `pc`, `cur`, `server` | where the loop is: the post, the poll of job `cur` (`poll_cq`), its `MPI_Test` (`poll_mpi`), the poll of the receive queue; and how the function returned |
| `sent`, `left`, `delivered` | the host: requests sent, goodbye sent, operations whose immediate data it received |
| `collectives`, `unread`, `purged` | history for the properties only |

| Actions | Code |
|---|---|
| `PostRecv`, `PostRecvFails` | 567-577 |
| `NoMessage`, `ReceiveFails`, `Disconnect`, `QueueFull` | 587-629, 645-667; the one-byte goodbye is told from a request by its length |
| `AcceptWithReuse`, `AcceptWithAllocation`, `ReadOffloadFails` | the request takes the first free slot and `offload_read()` runs: `dpu_reuse_mr()`, or else `dpu_free_all_completed()` and two new regions; then the RDMA read is posted |
| `NothingToPoll`, `StartCollective`, `CompleteJob`, `AdvanceFails` | `bf_poll()` 498-525: at most one completion for each job that waits, given to the job in `wr_id`, with `bf_advance()` and `offload_ialltoall()` |
| `MpiPending`, `StartWrite`, `WriteOffloadFails` | `bf_poll()` 528-547 and `offload_write()` |
| `PollFails` | `ibv_poll_cq()` or `MPI_Test()` fails |
| `NicExecute`, `NicComplete`, `LinkError`, `FlushSend`, `FlushRecv`, `MpiProgress`, `HostRequest`, `HostExit` | what surrounds the loop |

Points where the model is not the obvious one:

- `RecvFits` tests `bf_send_mr` also where it is `bf_recv_mr` it takes: the code
  does (main_bf.c:161). A slot that has only its receive region left is
  therefore never used for a receive buffer.
- `dpu_free_all_completed()` frees regions and leaves status and pointers, so
  `Allocate` changes neither for completed jobs. Regions are addresses, and the
  allocator may return an address it was given back: a completed job and a new
  one can then name the same region.
- A completion in error has an undefined opcode, which may look like that of a
  read or a write: `StartCollective` and `CompleteJob` accept it, and so does
  `AdvanceFails`. With faults a failing `MPI_Ialltoall()` leaves `RS_FAIL`
  (`CollectiveFails`), and without `LAZY_UNPINNING` a region that cannot be
  deregistered leaves a completed job (`UnpinningFails`); both end the server.
- A region that `rdma_dereg_mr()` refuses ends `dpu_free_all_completed()` half
  way, and `dpu_reuse_mr()` goes on all the same (main_bf.c:176): with faults
  `Purges` has every set of regions that one call may have freed.
- `recv_status` 2 and the states `RS_READOK` and `RS_MPIOK` exist only inside
  one action and are not states of the model.
- When `offload_read()` fails the process ends; `ReadOffloadFails` records the
  status and not what is left allocated.
- Of a request only its position in the stream and its two sizes matter to the
  loop; buffers, keys, datatypes and the cookie travel with it.
- A transport error stops all further traffic: nothing is executed or delivered
  after it, everything posted completes in error.

## HostLib: the host library

`HostLib` is one application thread that calls the library, and the DPU as the
library sees it: it takes requests and completes them in any order, one posted
receive each. `DpuServer` completes them in that order or not depending on
slots; the library does not rely on it.

| State | Code |
|---|---|
| `cookie`, `status`, `held` | the completion table; `held` is the operation whose two regions the entry points to |
| `pending_recvs`, `posted`, `recv_cq`, `qp` | the counter of the context, and what the NIC really has |
| `registered` | regions registered by `DPU_MPI_Ialltoall()` and not released |
| `called`, `used` | operations are numbered by calls; the cookie of each |
| `pc`, `fn`, `arg` | the running call, where it is, the operation it tests for |
| `outbox`, `running`, `acked` | requests on their way; what the DPU serves; completions of sends that no call has taken |
| `handles` | operations the application got an index for and has not tested |
| `completed`, `tested`, `unmatched` | history for the properties only |

| Actions | Code |
|---|---|
| `Ialltoall`, `IalltoallFails` | 141-203: both registrations and the post, or what a failure leaves behind |
| `EnterTable`, `TableFull` | 205-220, after the wait for a completion of a send, with whatever status |
| `CallPoll`, `CallTest` | the application enters `DPU_MPI_Poll`, `_Longpoll`, `_Test` or `_Wait` |
| `PostReceive`, `PostReceiveFails` | 235-245 and 304-314 |
| `NoEvent`, `Match`, `NoMatch`, `TransportFailure`, `PollFails` | 247-289 and 316-358 |
| `TestDone`, `TestNotDone` | 376-397; in `DPU_MPI_Wait` the second goes round the loop |
| `Exit` | `DPU_Exit()`; a goodbye that cannot be posted changes nothing and is left out |

The wait at dpulib.c:206 also ends when `rdma_get_send_comp()` itself returns
an error, and a later call then finds the completion of the earlier send. So
with faults (`Sent`) a request may be in the table, and another on its way, before the first
has left: `outbox` is a set and `acked` counts. Every request is then sent as
it was encoded, which assumes a NIC whose inline limit (dpulib.c:193) is above the
74 bytes a request has at most: its bytes are taken when it is posted, and the
next call may use the buffer again. A region that
`ibv_dereg_mr()` refuses stays registered and `DPU_MPI_Test()` goes on
(`Released`).

`COMP_STATUS_ERROR` is not a value of `status`: it is stored when an entry's
cookie is the negated immediate data, and both are results of `rand()`, which is
not negative. The application is any program that tests operations it got an
index for, with the cookie of that index. `Calls` says which functions it uses:
with `DPU_MPI_Longpoll` it may block for ever when every completion has been
polled (its comment, dpulib.c:296, promises -1), so the deadlock check
is off in the runs with it.

## Offload: hosts and DPUs together

| State | Code |
|---|---|
| `called`, `tested`, `left` | the calls each host has made, the operations reported to it, and whether it has called `DPU_Exit()` |
| `recv`, `told` | the receive of the host: none, posted, or the operation it brought; the entries `DPU_MPI_Poll()` has marked |
| `received` | the receive buffers: for each operation, whose block of which operation |
| `wire` | messages sent and not taken by `offload_main()` |
| `job`, `sq`, `cq`, `coll`, `server` | status of the job of each operation, posted and executed work requests, the calls of `MPI_Ialltoall()` in order, the process |

| Actions | Code |
|---|---|
| `HostCalls`, `HostPosts`, `HostPolls`, `HostTests`, `HostExits` | `DPU_MPI_Ialltoall`, the two halves of `DPU_MPI_Poll`, `DPU_MPI_Test` and `_Wait`, `DPU_Exit` |
| `ServerAccepts`, `ServerLeaves`, `ServerFails` | `offload_main()`; a goodbye ends the loop whatever is in flight |
| `StartCollective`, `CompleteJob`, `StartWrite` | `bf_poll()` with the functions it calls |
| `NicReads`, `NicWrites` | the NIC executes in order; a write waits for a receive at the host |

MPI is the operator `Matched`: the k-th collective of each rank is one
collective, and it ends nowhere before all ranks have started it. What it
delivers is `Result`: the blocks of whatever operation each rank gave to it. So
a DPU that starts its collectives in another order than its host asked is a
wrong result in this model, not an error.

`Offload` implements `AlltoallService`, in which there are only calls, results
and reports. The mapping is the identity but for `broken`, which stands for a
DPU that has failed or a host that left with operations open. The service then
owes no more results, and still no wrong ones: `Receive` and `Complete` keep
their guards.

## PbWire, PbDescriptor, PbCodec: the encoding of a request

The request is encoded by nanopb, which is vendored; the system depends on it
for every key and address, and no test of the repository covers it.

`PbWire` has the numbers and bytes. An unsigned number is the set of its one
bits, so 32 and 64 bits keep their width, shifts are shifts of a set, and the
junction of the two varint routines is visible. Reading gives `[ok, v, rest]`.

`PbDescriptor` packs a field list into the words of a descriptor as the macros
of `pb.h` do (`Bind`, `FieldInfo1` to `FieldInfo8`) and takes them apart as
`pb_common.c` does (`LoadDescriptor`, `AdvanceIterator`). `Compiles` is what
the static assertions accept; field lists have to satisfy it (`SchemasAssumption`).

`PbCodec` is one message: encoded field by field, delivered whole or cut,
decoded tag by tag into a struct that is not initialised.

| Actions | Code |
|---|---|
| `EncodeField` | one round of the loop of `pb_encode()` |
| `Deliver` | the receive completion, with its length |
| `SetDefault` | one round of `pb_message_set_to_defaults()` |
| `ReadTag`, `Search`, `Skip`, `DecodeField` | the loop of `pb_decode_inner()`, with one round of `pb_field_iter_find()` as a step |
| `Finish` | the required fields are counted |

Fields decode as in the code also where they fail: an integer too large is
stored truncated and then refused, an unpacked array counts an item before it
reads it.
`DecodedAsReference` compares the decoder with a reference that selects the
records of each field (`RefLegal`, `RefContents`), over the records of a plain
encoder (`RefBytes`) that may reorder, repeat, omit, pad and add them.
`WellFormed` is what the wire format asks of a record. On top of it the reference has two rules
that are nanopb's and not the format's. A value has to fit its member: where
other runtimes cut an integer that is too wide, `pb_dec_varint()` refuses it
("integer too large"). And a bool is read as 32 bits
(`pb_decode_bool()` uses `pb_decode_varint32()`): a wider one is refused or cut
to its low 32 bits, depending on how it is padded, where the format says true. The
property leaves that one choice open (`wide`) and checks everything else.

The sizing pass of `encode_array()` is computed as the code does: from the
count for 32- and 64-bit items, from the items themselves for varints.

The struct is a function from offsets to values, one for each member and array
item, so a store at a wrong offset or of a wrong size shows: `TypeOK` says that
each member holds a value of its size, whatever was decoded, and that while the
decoder goes on no array counts more items than it has room for (after a
refusal it may: an unpacked item is counted before the room is looked at). `InBuffer` is the part of
`SizesHold` that says the encoder stays in its buffer.

What the module assumes of its constants is what the compiler and the generator
see to. `SchemasAssumption`: each field list compiles (`Compiles`), has a
descriptor of one of the five widths, its tags ascend, and no more fields are
required than `pb_decode` can note (`PB_MAX_REQUIRED_FIELDS`, which
generated headers check). `OutgoingAssumption`: a program fills in each member
with values of its C type; an item count it writes may be larger than the array,
which `pb_encode` refuses.
`ForeignAssumption`: the records of other encoders are `WellFormed`.

## RequestSizes: the sizes and types of a request

One request from the call to the write, seen as numbers. The host multiplies in
`int`: where that overflows, C leaves the value open, and the model takes both
what wrapping and what a wider multiplication give (`HostProducts`). The DPU
multiplies in `uint32_t` (`DpuProduct`), in `offload_read()` and again in
`offload_write()`. The two tables of `dpucommon.c` are copied each for itself in
`Datatypes`, the chain of tests of `DPU_MPI_Type_Pack()` in its order
(`PackChain`) and the cases of `DPU_MPI_Type_Unpack()` (`UnpackCases`), so that
an entry that is missing, doubled or crossed in either would show. `Handle` says
which names an MPI library makes aliases. `Pool` is what
`dpu_reuse_mr()` may find. A region shorter than a transfer breaks the
connection (`stage = "broken"`).

## IfAddr, Session: start and end

`IfAddr` is the walk over the interface list, with its test after the step and
the null dereference, and the addition in the address. `Session` is one run
of the demonstration client: `mpirun` twice, MPI up on both sides, each DPU
prints its address and listens, each host computes the address of a DPU from its
own and connects, operations, goodbye, `MPI_Finalize`. Any call may fail
(`mode.faults`), and the hosts may be started before the DPUs listen
(`~mode.orderly`). A DPU that listens may fail whether a host has asked or not
(`AcceptFails`: it allocates its buffers after `rdma_listen()`), and a host that
waits for a result may fail, or spin on a broken link for ever (`WaitFails`). A process that ends without `MPI_Finalize` takes the others
of its `mpirun` with it (`MpirunKills`); a DPU whose `offload_main()` failed
does call it, and returns the failure (`stat`).

## Runs

| Run | Instance | What it shows |
|---|---|---|
| `DpuMixed` | 3 slots, 2 sizes, 2 outstanding, 3 requests, 4 regions | regions are handed on, split and purged, jobs finish out of slot order: regions stay exclusive and long enough, work requests match jobs, collectives start in order |
| `DpuSteady` | 3 slots, 1 size, 1 outstanding, 5 requests | the pattern of the demonstration client: slots and regions are recycled, every request is completed, the server does not stop by itself |
| `DpuFaults` | 2 slots, send queue of 1, faults | the bookkeeping survives any failure, and a broken link stops the server |
| `HostMixed` | 3 entries, 3 open, 4 operations, 4 cookies | all functions, any order of completions: bookkeeping, regions and results agree, no completion is booked on an entry that does not wait for it, and `DPU_MPI_Wait` returns and reports its operation |
| `HostFaults` | 2 entries, 3 operations, faults | calls fail, the link breaks, the table is too short for the application: nothing is reported complete that is not, no buffer in use is released |
| `OffloadService` | 2 ranks, 2 operations, one hasty host, faults | the composition implements the abstract service: a reported operation has all its blocks, its buffer stays quiet, and a result comes unless something broke |
| `PbCodec` | 6 message types, 561 messages | what is encoded is decoded, whatever was in memory; cut messages are refused; records of another encoder are accepted, refused and read as the reference says; each call ends |
| `RequestSizes` | 42 datatypes, 8-bit integers | an ordinary request moves exactly its bytes, collectives and writes stay in their buffers, types survive the tables |
| `Session` | 2 hosts, 2 DPUs, 2 operations | hosts ask the DPU of their rank and no other, results are in rank order, success means that all was served, an orderly run ends |
| `DpuStalePool`, `DpuFailedRead`, `HostOverflow` | | findings 1 to 3 |

The build with `LAZY_UNPINNING` 0 has no run: the theorems about `DpuServer`
hold for both values.

Why these bounds. Reuse of a region needs one completed job and a new one, a
split needs two new jobs after it, a purge a new job that fits nothing: three
requests of two sizes reach all of them, and three slots let a job finish
between two others. Four regions are two jobs' worth, so allocation has to
reuse addresses. Five requests of one size take `DpuSteady` through more jobs
than there are slots. A job has at most one work request
(`CompletionsMatchJobs`), so the send queue of three never fills with three
slots; `DpuFaults` has a queue of one for two slots, where a post fails for want of
room, as in the code the 11th would with 10 entries for 32 slots. In
the host library three open operations are enough for a completion to be booked
by a poll for another operation while a third is being sent, and the fourth
uses an entry and a cookie again. Four cookies, zero among them, leave a fresh
one in each state: every cookie that is known is in one of three entries.
`MaxOp` bounds the number of requests of a behaviour, nothing else; `HostDepth` and `MaxOpen` are properties of the application.

Symmetry (permutations of the regions) is used only in the runs without
liveness properties.

`OffloadService` has two ranks and two operations: a collective needs two ranks
to be matched wrongly, and two operations to be matched out of order or to
reach a buffer late. One of the hosts may leave early, both DPUs may fail.
The deadlock check is off, because the hosts may all have left, or be waiting
for a DPU that has failed.

`PbCodec` has the two messages of `common.proto` and one message type with
every other kind of number, required, optional, singular and repeated, in
descriptors of automatic, 2-, 4- and 8-word width; its tags 3 and 67 agree in
their low six bits, so that the fast test of the search is right by chance.
The values sit on the edges of a varint byte, of 32 bits and of 64; one field
of a request takes them at a time. Messages are whole or cut at each byte, and
the buffers are a page, or too short by one byte or by many. Foreign messages
reorder, repeat, omit, pad and add fields; each kind of varint field, the bool included, takes
the values on those edges and beyond its width, without padding, with two
bytes of it and with as many as fit in ten. The run is a set of calls, each
from a state of its own: their number is the bound, nothing grows.

`RequestSizes` checks every pair of the 42 datatypes through both tables, with the sizes and
aliases they have in Open MPI, and one that is in no table; with an int of 8
bits, counts up to 5 and one or two hosts put products on both sides of 2^7 and
2^8. The theorems are for any width.

`Session` has two hosts, two DPUs and two operations, so that one result may be
taken for the other's or for the last one's; five lists of interfaces for one
host, the usual ones for the other, two for the DPU of rank 1, and all four
modes. Addresses are
numbers below 128 and the offset is the real 100, so that the sum wraps. The
deadlock check is off: a host may wait for a partner that has gone, for ever.


## Fairness

`offload_main()` and the library's loops never sleep, so weak fairness of
`Serve` and of `Library` says that the processor runs them. The NIC executes
and acknowledges posted work requests, MPI finishes a collective all ranks have
started, a broken queue pair flushes what is posted: weak fairness of each of
these. The host is not obliged to send anything, the application is not obliged to
call anything, links need not break: no fairness for those. In `HostLib` the
DPU completes each operation it serves; `RequestsServed` of `DpuServer` is what
this assumes, and weak fairness is enough because an application blocked in
`DPU_MPI_Wait` starts no new operation, so that the others run out.

`Offload` assumes the same of each rank: a server that runs serves, its NIC
executes, and a host with operations open polls (`HostPosts \/ HostPolls`), as
`DPU_MPI_Wait` does. Whether it calls, tests or leaves is its own affair, so
`ServiceLive` ends with the result in the buffer, for which receives have to
be used up and posted again. In `Session` each process runs on while it can; failures and `mpirun`
killing a process are not fair, and neither is `WaitFails`: `DPU_MPI_Wait()` may
spin on a broken link. In `PbCodec` a call does not stop half way;
there the fairness is written out (`[]<>(stage \in Over) \/ []<><<Next>>_vars`),
which is weak fairness of `Next` because a step is possible until the call is
over: the deadlock check of the run shows that.

## Proofs

| Theorem | Statement |
|---|---|
| `ServerTyped`, `ServerCompletionsMatchJobs` | `TypeOK`, `CompletionsMatchJobs` |
| `ServerRegionsExclusive`, `ServerActiveRegionsPinned`, `ServerNoRegionLost` | the three invariants of the region pool |
| `ServerJobKeepsRegions` | the action property `ActiveJobKeepsRegions` |
| `ServerCollectivesInOrder` | `CollectivesInOrder` |
| `ServerStopsOnlyWhenTold` | `StopsOnlyWhenTold`, if `SteadyService` |
| `HostTyped`, `HostReceivesCounted` | `TypeOK`, `ReceivesCounted` |
| `HostTestedIsCompleted`, `HostCompletionsAwaited`, `HostServedIsRegistered` | `TestedIsCompleted`, `CompletionsAwaited`, `ServedIsRegistered`, if `~Repeats` |
| `HostCompletionsMatch` | `CompletionsMatch`, if `~Repeats` and `MaxOpen <= QueueDepth` |
| `HostOnlyOpenRegistered` | `OnlyOpenRegistered`, if also `~Faults` |
| `OffloadTyped`, `OffloadBuffersQuiet` | `TypeOK`, `BuffersQuiet` of `Offload` |
| `OffloadImplementsService` | `ServiceSafety`: the refinement |
| `RequestTypesAgree`, `RequestInsideBuffers`, `RequestServedExactly` | the three invariants of `RequestSizes` |
| `SessionSuccessMeansAll` | `SuccessMeansAll` |
| `SessionResultsInRankOrder`, `SessionRightPartner` | `ResultsInRankOrder`, if `AddressesDealt`; `RightPartner`, if also `AddressesListed` |
| `VarintSpelled`, `VarintDecoded`, `Varint32Decoded`, `VarintCutShort`, `VarintSkipped` | every varint the wire format allows is read as what it spells, none that is cut, and what is written is one |
| `VarintRoundTrip`, `Varint32RoundTrip`, `SvarintRoundTrip`, `FixedRoundTrip`, `UnknownFieldSkipped`, `TagRoundTrip` | each kind of number is read back, or passed over, whatever its value and what follows |
| `NumBits` | numbers survive the change to bits and back |
| `IteratorLoaded` | `LoadedAsDeclared` |
| `RoundTripSafe`, `CutShortNeverAccepted` | `RoundTrip`, `CutShortRefused` |
| `CodecTyped`, `EncoderInBuffer` | `TypeOK` and `InBuffer` of `PbCodec`, for foreign messages too |
| `DecoderInside` | the action property `OtherMembersStay`: a step writes in the member of its own field only |

All hold for every value of the constants that satisfies the assumption of the
module (`ServerAssumption`, `HostAssumption`, `OffloadAssumption`,
`SizesAssumption`, `SessionAssumption`, and `SchemasAssumption`,
`OutgoingAssumption` and `ForeignAssumption` of `PbCodec`) and the condition in the table, for
both builds of the server and, unless the condition says `~Faults`, with and
without faults.
`DataLemmas` says what appending to and taking from a queue does.

*Server, types* (`DpuServerProofs`). A completion names a slot and the step that
follows reads that slot's request, so types alone are not inductive: the request of
a slot is only known to be one when the slot is active, which is what
`CompletionsMatchJobs` says of a slot with a work request. `TypedInv` is both,
with `ActiveRequests`. The lemmas `QueuesAfterPost`, `QueuesAfterPoll` and
`QueuesAfterDone` say once what the three kinds of queue step do to it.

*Server, pool*. `PoolInv` is the three pool invariants with `FreeSlotsEmpty`: a free
slot owns no region, so taking one over loses nothing. `RegionsExclusive` and
`ActiveRegionsPinned` are stated up to the first purge of a region
(`~purged`): after it they do not hold, because completed jobs keep pointers to
freed regions (finding 1), and a later request may be given one.
`NoRegionLost` and `ActiveJobKeepsRegions` need no such condition.

*Server, order* (`DpuServerProofs`). Slots are no order, so the invariant has to
find the order of the requests in the queues: at most one message is on its way
(`OneMessage`), every job in `RS_READ` has a read that is posted or completed
(`ReadsPending`), and the reads in the completion queue followed by those in the
send queue are the accepted and not yet started operations in their order
(`ReadsQueuedInOrder`). A collective starts with the first of them. The argument
rests on the NIC completing work requests of one queue pair in order.

*Server, steady service* (`DpuServerProofs`). `StopsOnlyWhenTold` is a matter of
resources, and `SteadyService` is what they have to be: the host waits for each
result before it asks again, as the demonstration client does; two slots (three
and one size with `LAZY_UNPINNING`), two send queue entries, four regions that
can be registered. The server has 32 slots and 10 entries. Each condition is
needed: without any one of them TLC finds the server stopping by itself, except
that without `LAZY_UNPINNING` two slots do and sizes may differ. `SteadyInv`
says why this is enough. `OneOperation`: one operation is in progress, and it is
the last asked for. `QueuesShort`: its read is behind everything else in the
queues, and one job at most is still writing, so that two entries suffice; the host
may have a result and ask again before the server has polled that write.
`TwoSlots`: for the same reason two slots are taken at most, and a completed one
has both its regions, since a new job takes both of one completed job or, when
there is none, allocates both; so a request finds a slot and its regions
(`RequestAccepted`). `NothingFails`: every completion is a success and nothing has
been purged.

*Host library* (`HostLibProofs`). `TypedInv` keeps the count of receives with the
types: `pending_recvs` stays in {0, 1} because it is at least what is posted or
completed, and equal to it while the link is up. `OwnedInv` says that a cookie
leads to one operation wherever it turns up: an entry in use has the cookie of
the operation it holds and no other entry has it, used or not (`TableOK`); an
entry with the cookie of a served operation, or of a completion not polled yet,
is waiting for just that (`CookiesOK`); the cookie of the request being sent is
nowhere yet, unless the DPU has already completed it (`CallFresh`). That unused entries
count is essential, because `DPU_MPI_Poll()` compares with them too. Without
`~Repeats` the theorems are false (see Observations).

`CompletionsMatch` is about the length of the table. `TableOK` makes the operations
held by a full table as many different ones as it has entries, each with its
handle (`FullTable`); while a request is being sent the application has fewer
than `MaxOpen` handles; so with `MaxOpen <= QueueDepth` a request that
was sent finds an entry (`AnsweredNotFull`). `AnsweredInv` adds that what the DPU
serves, and every completion not polled yet, belongs to an entry or to the
request being sent. With a shorter table finding 3 happens. `OnlyOpenRegistered`
needs `~Faults` besides, because a call that fails half way leaves a region
registered (dpulib.c:166).

*Composition* (`OffloadProofs`). `OffloadInv` is `TypeOK` with four parts.
`WireInv`: the messages on the way are the calls that have not come in, in
their order, and a goodbye only at the end. `FlightInv`: the status of each
job says which work request of it is in which queue, and there is one at most;
so a job whose write is done has nothing in flight, which gives `BuffersQuiet`:
what is booked has been written (`ResultInv`). `CollInv`: the collectives of a rank are the
operations 1, 2, 3... in order, because requests and reads are. `ResultInv`:
an operation whose write has been executed has in the buffer the block of the
same operation of every rank, which follows from `CollInv` at two ranks.
Under the mapping `broken <- Broken`, a call of a host is a `Call`, an executed
write is a `Receive`, a test is a `Complete`, a failure or an early goodbye is
a `Break`, and every other step changes nothing the service has.
The safety part of the service is proved; its liveness is checked by TLC.

*Sizes* (`RequestSizesProofs`). `PackUnpack` is the lemma about the tables: the
code of a handle leads back to that handle, also when two names share it, and no
handle outside the tables has a code. It rests on a comparison of the two
tables, line by line (the lemmas before it): each code the chain returns has one case, which returns
the same name. `SizesInv` says what stage the request has
reached (`CodesInv`), that the buffers of the DPU are as long as what it
recorded (`BufferInv`) and what has been moved (`CallInv`). `ServedExactly`
needs `OrdinaryInv` besides: for a request whose products fit an int, host and
DPU compute the same number, since `WrapNone` and `ModBelow` take the
two truncations away.

*Session* (`SessionProofs`). `SessionInv` has `PartnersOK` (host and DPU that are
connected name each other), `CountsOK` (a DPU is at most one operation behind
its host, and level when the host may go on) and `EndsOK` (a process ends with
status 0 only when those it waits for in `MPI_Finalize` have got there). It
gives `SuccessMeansAll` for any addresses. The other two depend on which
addresses machines have, which is no business of the code: `AddressesDealt` says that
the address `Offset` away from the first one of a host is that of no DPU of
another rank, and `AddressesListed` that, when the host has a plain list, it is
that of its own DPU, if that has such an interface at all. They are about the
lists only; what `get_ip.c` makes of a list is proved (`OffsetAddrOwn`,
`OffsetAddrPlain`). TLC evaluates both for the instance of the run
(`InstanceAssumption`), whose setups include lists that are not plain.
`ResultsOK` and `TargetsOK`
then fix what is delivered, and `UnbrokenInv` that without failures, and with
all lists plain, no host gives up.

*Numbers of the encoding* (`PbWireProofs`). Encoder and decoder meet in
`Spells(s, v)`: the bytes s have seven bits of v each, the lowest first, and bit 7
in all but the last. `SpellingRead` finds the end of any spelling and its bits.
`SeptetCounts` says how many septets `pb_encode_varint_32()` takes from each half
of a number, and `SeptetsSpell` makes them a spelling; the byte between the halves
is the difficult one. `Varint32Decoded` covers padded spellings of up to ten bytes:
that bits 32 to 34 are looked at in a last byte only (see Observations) does no
harm to any 32-bit value. `NumBits` ties the sets of bits to numbers, which
tags, lengths and offsets are: the bits of n are those of n \div 2, one place up, and
its last one.

*Descriptors* (`PbWireProofs`). A word is what is in its pieces, and a piece that
is put in stays while the others are (`PiecePut`, `HoldsPiece`); so each of the
four forms gives back the declaration it was packed from (`WordsOf1`, `WordsOf2`,
`WordsOf4`, `WordsOf8`), if it fits, which `Compiles` sees to. `Loaded` adds the
struct offset, which the short forms do not hold in full, `Advanced` and `AdvancedBack`
the step to the next line and the return to the first. `IterSteps` says with that what
every operation of the iterator leads to, and `IteratorLoaded` follows.

*Codec* (`PbCodecProofs`). The inductive invariant is `Iterates /\ Journeys /\
Typed`. `Iterates` says where the iterator is: on a line of the list, or, during a
search, on its way between lines. `Journeys` follows a message of the encoder. `Rest` are the
bytes from each line on, `Cut` says that n of them did not arrive. While it
encodes, what is written and the rest are the whole message (`Writing`); while it decodes, what is left
is `Rest` of some line, cut, and the members of the lines before hold the values
that were sent (`Reading`), the iterator standing no further than that line.
Since tags ascend in the list and in the message, the search goes forward to it
(`Searching`, `Finding`) and never takes another. `FieldRead` is the step: each
kind of field is read back in its member, with the rest left over, whatever the memory held.
`FieldCut` is the same for bytes that end early: the field is refused, or nothing of it
has come. So the message ends either whole, and all members are right
(`RoundTrip`), or between two lines, and then a required field is missing
(`CutShortRefused`). The hard case is the packed array: its length is
written before its items, from a first pass that only counts bytes, and the
decoder reads items until a substream of that length is used up.

`Typed` is about any bytes. `StaticTidy` says that whatever a field is
decoded from, the decoder writes in its member only, what it writes has the size of
the member, and what it leaves of the stream is a stream; if it succeeds, the
array counts no more than its room. `Members` carries that over the struct, since members do not
overlap (`Disjoint`). That the encoder keeps in its buffer is `TakesMore` for every write.

Loops and recursion over data appear in these proofs as functions: `DataLemmas` has
induction as a fact on sets of numbers (`LeastNumber`, `Induction`) and the existence of
a function by its recurrence (`Recursion`), which the provers can instantiate, where
the induction theorems of the library take an operator and cannot be.

Only model-checked:

- The liveness properties `RequestsServed`, `BrokenLinkStopsServer`,
  `WaitReports`, `ServiceLive`, `CodecEnds` and `SessionCompletes`, which are out
  of the prover's reach.
- `DecodedAsReference`. What is left of it is the agreement of the decoder with
  `RefLegal` and `RefContents`, which select and concatenate over all records
  of a message: an argument on sequences of records in any order, where
  `RoundTrip` has one list of fields in ascending order. Of foreign messages it is proved that
  they do no harm (`CodecTyped`, `DecoderInside`), and that one of their fields
  is skipped exactly (`UnknownFieldSkipped`).
- Of `SizesHold` the second part: that `OffloadReq_size` and its like are right is
  a statement about given field lists and not about all.

## Findings

1. `DpuStalePool`: after `dpu_free_all_completed()` completed jobs still offer
   freed regions for reuse; `RS_CPIN` is documented as "memory is still pinned".
2. `DpuFailedRead`: the collective starts after an RDMA read that failed.
3. `HostOverflow`: with a full table the request is sent and -1 returned; its
   completion is reported as an invalid event.

## Observations

Met while modelling; each is in the model, and no run is spent on it.

- A completed job keeps its slot until both its regions have been taken over,
  so the server stops with "Queue full!" (main_bf.c:663) while fewer jobs than
  `MAX_QUEUE` ("simultaneous jobs", server_opts.h:5) are running: `QueueFull`.
- The cookie is `rand()` and is not compared with those in the table
  (dpulib.c:180). When one is repeated, a completion is booked on the wrong
  entry and buffers in use are released. The constant `Repeats` allows it; the
  theorems and runs about cookies are for `~Repeats`.
- After the one error that a lost link reports, `pending_recvs` stays 1 and
  `DPU_MPI_Wait()` spins: `TransportFailure` leaves nothing to poll.
- main_bf.c:255 says that the memory the client requested is allocated; the
  product is taken modulo 2^32, so `InsideBuffers` excludes requests above it.
- The host sizes its receive region by the send type (dpulib.c:148). With a
  smaller receive type the region is longer than the buffer, and a host whose
  world is larger than the DPUs' registers more than is used.
- The last interface of a list is never looked at; a single one that does not
  match is followed by a null dereference, and so is one of the right name
  that has no address (get_ip.c:48 and 62): `Examined`, `Dereferenced`.
- `DPU_Init()` goes on after destroying the endpoint (dpulib.c:65).
- A DPU whose client never comes waits in `rdma_get_request()` for ever and
  holds the others in `MPI_Finalize`; a host started before its DPU listens
  fails. Hence the condition of `SessionCompletes`.
- `pb_decode_bool()` reads 32 bits: a bool that another encoder spells with a
  bit above them is refused, or cut and read as false: `RefFits`, `RefMeaning`.
- `pb_decode_varint32_eof()` looks at bits 32 to 34 of a varint only when its
  fifth byte is the last one, and drops them otherwise: `DecodeVarint32`.

## Not modelled

- `rdma_post_sendv_im`, `rdma_post_send_im`, `rdma_ext_post_send`: no caller.
- In nanopb: strings, bytes, submessages, oneofs, extensions, callbacks,
  pointer and fixed-count fields, default values, the delimited variants and
  the stream callbacks. No message of `common.proto` uses one, the buffers are
  memory, and `pb_decode_ex` and `pb_encode_ex` have no caller.
- The nanopb generator, a build-time tool.
- Printing, timing and the text form of addresses in the client and the server.
- Registration keys and addresses as such: a region is a model value, and that a
  transfer reaches the region its request names is the NIC's business.
- A crash and restart: nothing is persistent, and a lost process ends the run.

## Running

    tlc -config DpuMixed.cfg MCDpuServer
    tlc -config HostMixed.cfg MCHostLib
    tlc -config OffloadService.cfg MCOffload
    tlc -config PbCodec.cfg MCPbCodec
    tlc -config RequestSizes.cfg MCRequestSizes
    tlc -config Session.cfg MCSession
    tlapm DpuServerProofs.tla
    tlapm HostLibProofs.tla
    tlapm OffloadProofs.tla
    tlapm RequestSizesProofs.tla
    tlapm SessionProofs.tla
    tlapm PbWireProofs.tla
    tlapm PbCodecProofs.tla    (about ten minutes)

`PROJECT.json` lists every run with its module and properties, the mutated
definitions that break each property, and the lines each definition models.
