# CCN-lite in TLA+

This directory is a TLA+ development of CCN-lite, the forwarder for content-centric
networks in `src/`. It models a relay - its tables of faces, routes, pending Interests and
cached contents, the packets, commands and timeouts that change them, and underneath the timer
queue, the transmit path, fragmentation and the octets of packets - and what is around one:
the control program, the fetching client over two relays, the RPC client, and the relay as a
thread of RIOT. TLC checks small instances; TLAPS proves the main theorems for every
value of the constants.

    tlc -config MCRelay_traffic.cfg MCRelay  # one run; PROJECT.json lists them all
    tlapm Relay_proofs.tla                   # one module of proofs

## The system

| Part | State it keeps | Operations | Talks to |
|---|---|---|---|
| Names and matching (`ccnl-prefix.c`, `cMatch` of each suite, `ccnl-interest.c`) | none | `ccnl_prefix_cmp`, `ccnl_i_prefixof_c`, `ccnl_interest_isSame`, `ccnl_*_cMatch` | called by the forwarder |
| Forwarder (`ccnl-relay.c`, `ccnl-fwd.c`, `ccnl-dispatch.c`) | faces, FIB, PIT, CS, seen nonces | receive Interest, receive Data, add and remove of each table | sockets, management, timers, applications |
| Ageing (`ccnl_do_ageing`) | last-used times and retry counts inside the tables | one scan a second | run by the timer queue |
| Management (`ccnl-mgmt.c`) | none of its own | `newface`, `destroyface`, `setfrag`, `newdev`, `destroydev`, `prefixreg`, `addcacheobject`, `removecacheobject`, `debug` | Interests under `/ccnx`, from local peers |
| Control program (`ccn-lite-ctrl.c`) | the part it waits for | build a request, send, collect the parts of the answer | a relay, over a Unix socket or UDP |
| Transmit path (`ccnl-relay.c`, `ccnl-sched.c`) | a queue per face, a ring per interface, schedulers | enqueue, dequeue, clear-to-send and its callbacks | forwarder above, sockets below |
| Fragmentation (`ccnl-frag.c`) | sequence numbers and a partial packet per face | get next fragment, receive fragment | transmit path, dispatch |
| Timer queue (`ccnl-os-time.c`) | ordered list of handlers | `ccnl_set_timer`, `ccnl_rem_timer`, `ccnl_run_events` | event loop |
| RIOT port (`ccn-lite-riot.c`) | a timer per PIT entry, content and face, a bounded queue of messages | messages of the network, of timers and of applications | forwarder, applications through the local face |
| Fetching client (`ccn-lite-fetch.c`) and `ccn-lite-produce.c` | chunk number, count of tries | send, wait, retry; cut a file into chunks | a relay over UDP |
| Packet formats (`ccnl-pkt-*.c`, `ccnl_core_RX`) | none | build and parse, find packets in a datagram | everything |
| Local RPC (`ccnl-localrpc.c`, `ccnl-pkt-localrpc.c`, `ccn-lite-rpc.c`) | none of its own | type an expression, build, parse, run a builtin, answer | a relay's dispatch, its cache |
| Remote crypto, echo server and taps | callbacks | compiled out | forwarder |
| Array, callbacks, producers, dump, logging, other ports | small containers and hooks | | |

What makes each of them correct:

* Names: names that match are the ones the rules say; Interests that share a PIT entry
  are answered by the same content.
* Forwarder: no table points to a freed face; Data goes to all faces that wait for it
  and to no other; nobody waits for what is in the cache; the tables keep their limits.
* Ageing: everything ends in time, and nothing ends that somebody still waits for.
* Management: commands interleaved with traffic break none of these. An answer that says a
  command worked is true of what the user typed, and a user gets one.
* Transmit path: no packet is sent out of order, every packet queued goes on or is dropped,
  no clear-to-send goes missing.
* Fragmentation: what is delivered was sent, whole and in order, whatever is lost.
* Timer queue: each handler runs once, in order, unless it is removed, and a pass ends.
* RIOT port: a message that is late does not touch an entry that is gone; what is kept has a timer;
  a wait ends.
* Fetching: what is written out is the file; a loss does not end the fetch.
* Formats and local RPC: what is read is what was built.

What is hard. The relay is one thread, so nothing interleaves *inside* a handler.
The difficulty is in sequences of handlers: a table entry outlives what it points to, a
timeout runs late or in an unlucky order with another one, content enters the store by
two ways, one key is compared by several functions that do not agree, management adds
entries without the checks that traffic makes. Between programs it is loss, delay, and two
sides of a format or of a command written apart. On RIOT there are threads and an interrupt.
`PROJECT.json` lists these hazards at their lines, with the properties that cover them.

## Modules

| Module | Content |
|---|---|
| `Names` | Names and the comparisons on them. Constant level; no state. |
| `NameLaws` | What the comparisons promise of two Interests and a Data packet, names of any length. |
| `Relay` | One relay: variables, one action per handler, `Spec`, `FairSpec`. |
| `Delivery` | Abstract specification of `Relay`: who waits for what, and what is sent to whom. |
| `RelayProps` | The properties of `Relay`, and the mapping to `Delivery`. |
| `Network` | Two instances of `Relay`, a fetching client, a producer's file, and links. |
| `RiotPort` | The relay as a thread of RIOT, with timers, the queue of messages, applications. |
| `Control` | `ccn-lite-ctrl` and the relay's handlers of its commands, with their answers. |
| `TimerQueue` | The ordered list of timers. Constant level. |
| `Timers` | `ccnl_run_events` with handlers that set and remove timers, and the clock. |
| `TxPath` | Face queues, ring, schedulers, their timers and the event loop. |
| `LossyFifo` | Abstract specification of `TxPath`: a FIFO per face that may lose packets. |
| `Frag` | Begin-end fragmentation of CCNx packets: sender, link and receiver. |
| `Octets`, `VarTlv` | Octets; numbers and lengths of variable size. Constant level. |
| `NdnTlv`, `CcnxTlv`, `Ccnb` | Building and parsing in one format each. Constant level. |
| `LocalRpc` | The expression as typed, its octets, the builtins and the answer. Constant level. |
| `Formats` | A datagram is built, and `ccnl_core_RX` goes through it. |
| `RpcExchange` | The same datagrams and requests of local RPC, with the cache. |
| `MC*` | Instances for TLC, with the values of the constants. |
| `Relay_proofs` | Theorems about the relay: types, faces, PIT and store, the refinement of `Delivery`, and the laws of `NameLaws`. |
| `Network_proofs` | What the client writes out, whatever the file, the relays and the links. |
| `RiotPort_proofs` | The types of `RiotPort`, and what tables, timers and queue keep between them. |
| `Control_proofs` | That face ids keep their peers, and that answers are true. |
| `Timers_proofs` | The invariant of the timer queue and its theorems. |
| `TxPath_proofs` | The type invariant of `TxPath`, theorems on callbacks, slots and counts, and the refinement of `LossyFifo`. |
| `Formats_proofs` | Laws of numbers, elements and loops; that packets of each format, and datagrams, are read as they were built. |
| `Frag_proofs` | The type invariant of `Frag`, why packets are put together whole, and why none is left out. |

A definition whose comment begins with *slip* is a wrong variant of the next one. Nothing
uses it; `PROJECT.json` ("mutants") says which property rejects it.

### How `Relay` corresponds to the code

| Variable | In `struct ccnl_relay_s` |
|---|---|
| `faces`, `seqno` | the list `faces`, by `faceid`, and the static counter in `ccnl_get_face_or_create` |
| `fib` | the list `fib`; `pos` is the place in the list |
| `pit` | the list `pit`; `gen` tells apart entries for the same Interest, newest highest |
| `cs` | the list `contents` with its flags |
| `nonces` | the list `nonces` |
| `lag` | how many seconds ago `ccnl_do_ageing` last ran |
| `txInterest`, `txData` | what the last handler put on faces' queues |

| Action | Code |
|---|---|
| `RxInterest` | `ccnl_core_RX`, the forwarder of the suite, `ccnl_fwd_handleInterest` with all it calls |
| `RxData` | the same way to `ccnl_fwd_handleContent`, `ccnl_content_serve_pending`, `ccnl_content_add2cache` |
| `RxOther` | a packet that only makes or refreshes a face |
| `CsAdd`, `FibAdd`, `FibRem` | `ccnl_cs_add`, `ccnl_fib_add_entry`, `ccnl_fib_rem_entry`: the library's interface for applications |
| `Mgmt...` | the commands of `ccnl-mgmt.c` that change a table |
| `Tick` | a second passes: everything gets older |
| `Ageing` | `ccnl_do_ageing` |

Each action is a whole handler. A time stamp is modelled by its age, because the code only
ever compares stamps with now; ages stop at `AgeCap`, which is no smaller than any
timeout. The packets peers may send are constants, each with the fields the code reads:
name, suffix bounds, publisher key, must-be-fresh, nonce, scope, hop limit, lifetime.

Choices that a reader of the code will look for:

* The build is that of `ccn-lite-relay` on Linux: duplicate check, management and the
  three suites on; scheduler, fragmentation, signatures, RONR and echo server off. With no
  scheduler, a face's queue and an interface's queue are emptied by the call that fills them.
* A handler that searches a list takes the first match. The order of lists is kept
  where it decides something (routes, PIT entries for one Interest, faces of one peer); among
  several cached contents that match an Interest, and among equally old ones to evict, the
  model takes any.
* A frame with several packets is several actions; that they are found is the matter of `Formats`.
* `newface` and `addcacheobject` do not look for what is there already; nor does the model.
* Answers to commands are left to `Control`. `destroyface` on the face the command came
  over frees that face and then queues the answer on it, which is undefined behaviour in C; the
  tables are as modelled, the answer is not.
* The preload may hold one content more than `max_cache_entries`, as `ccnl_populate_cache`
  does, and static contents do not age because no code reads their age.

### How `Timers` and `TxPath` correspond to the code

`Timers` has one action per step of `ccnl_run_events` that another actor can see: the pass
reads the clock (`BeginPass`), calls the handler of the first entry (`RunHandler`), takes off
what heads the list afterwards (`HandlerReturns`: `eventqueue = t->next`), and ends
(`EndPass`). Between `RunHandler` and `HandlerReturns` the handler may call `SetTimer` and
`RemTimer`; between passes packet handlers do. `Tick` moves the clock at any moment;
`StepBack` sets it back, when `StepsBack` allows. Timers are numbered as they are set; `ran`
and `removed` are histories. No handler may remove the timer that runs it, which is what the
code requires and `ccnl_ageing` and the rate scheduler obey.

`TxPath` is the build with `USE_SCHEDULER`. The functions of this path call each other through
callbacks (`ccnl_face_CTS` - `ccnl_interface_enqueue` - `ccnl_sched_RTS` -
`ccnl_interface_CTS` - `ccnl_sched_CTS_done` - and round again), to a depth that depends on the
queues. So the calls that are still to be made are a variable, `calls`, and each function body
is one action that takes off its own call and pushes those it makes, in order:

| Variable | In the code |
|---|---|
| `outq`; `ring`, `qfront`, `qlen` | `outq` of a face; `queue`, `qfront`, `qlen` of `struct ccnl_if_s` |
| `sched` | `cnt` and `nextTX` of `struct ccnl_sched_s`; `Kind` is its `mode` (or no scheduler), `Gap` its `ipi` |
| `timers`, `serving` | `eventqueue`, and whether its head is being served |
| `phase`, `budget`, `writable` | where `ccnl_io_loop` is in its round, and whether it selected the socket for writing |
| `wire` | the packet handed to `ccnl_ll_TX_ptr` by this step |

| Action | Code |
|---|---|
| `FaceEnqueue` | `ccnl_face_enqueue` |
| `FaceCts` | `ccnl_face_CTS`, `ccnl_face_dequeue`, `ccnl_interface_enqueue` |
| `InterfaceCts` | `ccnl_interface_CTS` |
| `CtsDone` | `ccnl_sched_CTS_done`, for a face by way of `ccnl_face_CTS_done` |
| `FaceRemove`, `CallFreed` | `ccnl_face_remove`, and a callback that reaches a face so removed |
| `RunHandler`, `HandlerReturns`, `EndPass` | `ccnl_run_events` |
| `SocketWritable`, `EndRound` | `ccnl_io_loop` |

`Relay` does not use `TxPath`: it is the default build, where the calls empty the queues at
once. What `Relay` puts on a face's queue is what `FaceEnqueue` receives.

`TxPath` implements `LossyFifo` with a face's FIFO read as its packets in the ring, oldest first
(`PacketsFor`), followed by its queue. `FaceCts` moves a packet from the one to the other and is seen only when a
full ring drops it.

### How `Frag` corresponds to the code

`Frag` is the build with `USE_FRAG` and without `USE_SCHEDULER`, as `ccn-lite-simu.c` defines them:
`ccnl_face_CTS` then calls itself until the packet is cut up, so that sending a packet is one
action. A packet is known by the position of its first fragment in `sent`, a buffer by the
positions of the fragments in it, and bytes do not appear. The packets are of the CCNx suite:
`ccnl_frag_getnextBE2015` asks `ccnl_ccntlv_mkFrag` for their fragments. For NDN it asks
`ccnl_ndntlv_mkFrag` (`ccnl-frag.c:391`), which makes no fragments (see "Not modelled"), and for ccnb nobody: such
a packet is dropped silently on a face with a record, and is no step.

| Variable | In the code |
|---|---|
| `fragmenting`, `sendseq` | whether the sender's face has a `frag`, and `sendseq` of `struct ccnl_frag_s` |
| `recvseq`, `defrag` | the same fields of the record at the receiver's face |
| `sent`, `gone`, `late` | the link, external: what was put on it, how much of it has left in order, what is delayed |
| `got`, `arrived`, `epoch` | histories: what the callback received, what arrived, which record of the sender numbered it |

| Action | Code |
|---|---|
| `Send` | `ccnl_face_enqueue`, `ccnl_face_CTS`, `ccnl_frag_getnext`, `ccnl_ccntlv_mkFrag` |
| `Renew`, `SetFrag` | a fragment from the peer makes the record of the sender's face (`ccnl_frag_RX_BeginEnd2015`); `setfrag`, or freeing the face, takes it away |
| `Arrive`, `Duplicate`, `ArriveLate`, by way of `Receive` | `ccnl_frag_RX_BeginEnd2015` and its callers in `ccnl-fwd.c` |
| `Lose`, `Delay` | the link |
| `Forget` | the receiver's record is destroyed; the next fragment makes one |

`setfrag` knows the names of the obsolete protocols only, for which `ccnl_frag_new` returns `NULL`
in this build, so the command always takes fragmentation away. `newface` has code that makes a record,
which never runs: it reads no field for it (`ccnl-mgmt.c`, 1315 to 1325, where `frag` stays `NULL`).

### How `Formats` and the formats correspond to the code

Packets are sequences of octets here, written and read as the code does it. `Octets` has numbers of a
fixed size, `VarTlv` the types and lengths of one, three or five octets that NDN and local RPC use. Each of
`NdnTlv`, `CcnxTlv`, `Ccnb` has the builder functions of `ccnl-pkt-*.c` that `ccnl-pkt-builder.c` and the
tools call, and `bytes2pkt` with the part of the suite's forwarder that finds where the packet ends. A
builder gives a set with one sequence, or the empty set where the C function gives an error or a NULL.

| Action of `Formats` | Code |
|---|---|
| `Init` | the packets of a datagram are built: `ccnl_mkInterest`, `ccnl_mkContent`, `ccn-lite-mkC`, `ccn-lite-produce`, `ccnl_ccntlv_mkFrag`; `InitRpc` of `RpcExchange`: `ccn-lite-rpc` |
| `Read` | one turn of the loop of `ccnl_core_RX`: code switching, `ccnl_pkt2suite`, the forwarder |
| `ReadRpc` of `RpcExchange` | the same for `ccnl_localrpc_exec`, with the builtins and their answers |
| `Stop` | the end of the datagram, or an octet that begins no packet |

The code builds backwards, from the end of a buffer; the modules write forwards, as what comes out is the same.
`LocalRpc` has the tree of an expression, the parser of the command line, `ccnl_rdr_serialize` and
`ccnl_rdr_getType`, and the five builtins. Words in an answer are stand-ins of an octet or two. The
lengths that start from an uninitialised variable (`ccnl-pkt-localrpc.c:690`) are given too much by
`stray`; where the buffer of the answer is then too small, no answer is sent.

### How `Network` corresponds to the code

| Part | Code |
|---|---|
| `A`, `B` | two instances of `Relay`: A has routes to B only, B has the content as static content |
| `net` | the links, external: datagrams under way, each of which may be lost or be late by a second or more |
| `ClientSend`, `ClientReceive`, `ClientTimeout` | `main` of `ccn-lite-fetch.c`, `ccnl_fetchContentForChunkName`, `ccnl_extractDataAndChunkInfo` |
| `Pieces`, `Last`, `Chunk` | the chunks `ccn-lite-produce.c` makes of a file |
| `RxA`, `RxB`, `AgeA`, `AgeB` | the handlers of `Relay`, with what they send put on the links |
| `Second` | a second in which the client waits |

The client sets the nonce of an Interest and no other option: lifetime and must-be-fresh are what memory
held, and are taken from `Junk`. Junk lifetimes below a second make an Interest that times out at once
and are excluded. The client asks for an NDN name as it stands first, and for chunk 0 and on, under the name that came
back, when an answer names a chunk. A single content is published without a chunk number, a file with them (`ContentAssumption`).

### How `RiotPort` corresponds to the code

| Variable | In the code |
|---|---|
| `queue` | the message queue of the thread of `_ccnl_event_loop` |
| `evtimer` | the list `ccnl_evtimer`, with the ticks left, and `_wait_timer` of the application |
| `pit`, `contents`, `faces` | the tables; the local face is `loopback_face` |
| `app`, `mailbox` | the thread that called `ccnl_send_interest` and `ccnl_wait_for_chunk`, and its messages |
| `lost` | history: the objects whose timeout found the queue full |
| `broken` | freed memory was used; the behaviour ends there |

| Action | Code |
|---|---|
| `Loop` | one turn of `_ccnl_event_loop`, by the type of message: packets, requests, the four timeouts |
| `Break` | a turn that uses what was freed |
| `Fire`, `FireWait`, `Tick` | the interrupt of a timer, and time |
| `Arrive` | other threads: packets of the driver, `CCNL_MSG_CS_ADD` and `CCNL_MSG_CS_DEL` of applications |
| `AppAsk`, `AppWait`, `AppReceive`, `Stray` | the application's thread, and who else sends it messages |

A message in the queue has a pointer. When an Interest goes, `ccnl_riot_interest_remove` stops its timers
and blanks its messages; when a content or a face goes, its messages stay and refer to `Freed`.
Nothing promises otherwise, so the model ends there and the properties speak of the time before.

### How `Control` corresponds to the code

A request is the sequence of tags with values that `mk...Request` writes, as the handlers read them;
octets are left to `Ccnb`; a handler that meets a tag twice keeps the last (`Extract`). `Build` is the command line, `Handle` the dispatch of `ccnl_mgmt`, one
operator per command below it. `Send`, `Collect` are `main` of `ccn-lite-ctrl.c` with the loop over the parts;
`Receive` is the relay reading one packet; `Lose` the UDP socket; `ExpireFace`, `ExpireEntry` ageing.
The tables are as in `Relay` and hold what commands and dumps read; routes are a bag, because `prefixreg` enters one again. `told` is a history: the faces users were told of.
An answer longer than a part is cut as `ccnl_mgmt_send_return_split` does.

## Runs

Passing runs, with the distinct states TLC finds:

| Run | States | What is asked |
|---|---|---|
| `traffic` | 227 000 | Two peers, an application, NDN Interests with more nonces than are remembered, must-be-fresh and too narrow a scope, a route, a cache of one, a PIT of two, and a timer up to a second late. Nobody waits for what is cached; what is sent is what `Delivery` allows; nothing outlives its time by more than the delay, no waiting face goes; and liveness: Interests repeated for ever leave the PIT (`PitDrains`). |
| `mgmt` | 368 000 | Commands between Interests, Data of three formats and timeouts; preloaded static content, the only thing that takes the store over its limit (`CacheBounded`). Beside it, in 240 000 states with an empty relay (`InitCompare` of `MCMgmt`), every Interest with every one that joins it and every Data packet, over names of up to two components, three formats, chunks, digests, bounds up to the overflow: a match is a prefix match within its bounds, and none that leaves open no more than the digest is missed (`MatchesAsPrefix`); Interests that are the same are answered alike (`AggregationSound`). |
| `timers` | 719 000 | Four timers in all, delays of 0 to 2, set and removed by packet handlers and by timer handlers, a clock that may be set back between passes: none is lost, the soonest runs first, a pass is bounded. |
| `tx` | 265 000 | A face with a rate and one with the dummy scheduler, a rate on the interface, a ring of two, and the first face may be removed at any time: no clear-to-send goes missing, order is kept; and liveness: `QueuesMove`. |
| `frag` | 1 060 000 | CCNx packets of one to three fragments, three numbers, a link that loses, delays and duplicates, records made anew or removed at both ends: what is handed on is whole, and what arrives whole is handed on unless the numbers wrap inside it. |
| `formats` | 11 000 | Packets of each kind and format, with numbers and lengths to both sides of where an encoding grows; two CCNb packets in a datagram; every builtin of local RPC with fitting and unfitting parameters: what is read is what was built, and the answer is the one to what was typed. |
| `riot` | 221 000 | The RIOT thread with a queue of two, an interrupt, a peer and applications: timers and what they are for go together; and liveness: every Interest ends (`InterestsEnd`), and every wait whose thread gets no more stray messages from some time on (`WaitEnds`). |
| `net` | 762 000 | A fetch of a file of two chunks, or of a single content, over two relays; one datagram lost, one late: what is written is the file from its start; and liveness: one loss does not end the fetch. |
| `ctrl` | 330 000 | Three users, one of them on another host, with a command each of every kind: ids keep their peers, answers to all commands but those for a new device are true (`AsAsked`), and commands end. |

Three runs show where the code departs from what the repository says of it (`PROJECT.json`, "findings"):

| Run | Property | What the code does |
|---|---|---|
| `split` | `DumpEnds` | A dump of more than a part's length (`CCNL_MAX_PACKET_SIZE / 4`) never ends: the parts after the first are made with `ccnl_mkSimpleContent`, which makes nothing for CCNb (`ccnl-mgmt.c:252`), so that `ccn-lite-ctrl` waits for ever for what `doc/internal/ccnl-mgmt-packet-structure.txt:106` says is in the cache. |
| `limit` | `CacheLimit` | `ccnl-relay.h:47` calls `max_cache_entries` a maximum, and `ccnl-relay.c:590` lets one more in when all there is is static. |
| `prefix` | `PrefixMatches` | `ccnl-prefix.c:451` says matching is by prefix, and line 473 compares exactly: an Interest that leaves open more than the digest is not matched, whatever its bounds (`README-chunking.md:29` and 31 rely on it). |

Other places where comment or document and code differ were met on the way and are modelled as the code
is, without a run:

* *Tables.* `ccnl-relay.c:627` takes no account of the publisher key that the comment at 670 speaks of: content of another
  key or format consumes a pending Interest. `ccnl-defs.h:86` says that 0 cache entries mean no caching, but
  `ccnl_cs_add` then caches without limit. `ccnl-relay.c:426` says an Interest is not forwarded to its
  origin, but faces are compared, and `newface` may make a second one for a peer.
  `ccnl-content.h:67` says there is no stale bit.
* *Time.* `ccnl_run_events` drops a timer that was not run when a handler sets one while the clock is set back
  (`ccnl-os-time.c:290`). `ccnl_io_loop` sends from the ring without leave of the scheduler (`ccnl-unix.c:663`), within the interval
  `ccnl-sched.h:47` speaks of.
* *Fragments* carry `sendseq` in 14 bits but the receiver
  counts on to 2^14, so that one packet in some thousands, the one inside which the numbers wrap, never
  arrives (`Complete` says so).
* *Fetching.* `doc/internal/README-chunking.md:27` says that fetching works for CCNx only; `ccn-lite-fetch.c:93` refuses every CCNx
  content, so that the runs fetch NDN. A name without a chunk never matches chunked content, which lines 29
  and 31 say it does. A chunk 0 that comes late is written again in the place of the one awaited (`InOrder` says so). With the
  default wait of 3 s a lost answer ends the fetch: the client's tries all join the entry that lives 10 s, and
  the relay's repetitions carry a nonce already known. With `-w 5` the last try comes after it.
* *RIOT.* `ccn-lite-riot.h:214` calls the timeout of `ccnl_wait_for_chunk` the maximum to wait, and line 217 promises `-ETIMEDOUT` after it; each message
  that is no chunk starts it anew (the TODO at `ccn-lite-riot.c:511`), so that other threads can make the wait last for ever. `WaitEnds` has their stopping as its premise.
* *Formats.* CCNx lengths from 256 on lose their high octet (`ccnl-pkt-ccntlv.c:324`). `ccnl_mkContent` makes no CCNb
  content and for CCNx always marks chunk 0 as the last. The parsers of NDN and CCNx take the rest of a datagram for the packet (`ccnl-pkt-ndntlv.c:157`), so that
  a second one is lost, though `ccnl-dispatch.c:96` loops over all; and the suite of a datagram is that of its first packet. An NDN component that begins with a 0 is taken for a chunk number. The hop limit of
  fragments is 0 and wraps to 255.
* *Local RPC.* Builtin `forward` knows no encoding (its names are compiled away), though the usage text gives an example; `cacheAdd` is
  not implemented; `cacheRemove` answers 415 also when it removed something. `(f a) b` loses the `a`, and an operand after
  a nested term replaces its parts. `-` or `.` in an expression makes the client loop. It repeats a request that may have been executed,
  and takes any reply for the answer, as it compares no nonce.
* *Control.* `newdev` has "newdevice cmd worked" as its answer before it tries anything (`ccnl-mgmt.c:1905`), and keeps it when it opened nothing, so that `AsAsked` leaves it out; `newface` with flags out of range makes the face and says it failed; `newETHface` adds
  the length of the address to the wrong counter, so that the relay cannot read the request; `addContentToCache` never sends the file
  (the test of `fread` is inverted); `destroydev` is sent with an uninitialised length. A dump has room for 200 octets
  per entry, and nothing is answered when they do not suffice. The client has no timeout: a lost answer is waited for for ever.

### Bounds

* Two peers suffice to aggregate, to lose one of two waiting faces, and to answer one from
  what the other fetched. Three face ids let one peer time out and come back.
* A cache of one makes each insertion an eviction. A PIT of two is full with two Interests.
* Timeouts are 1 and 2 seconds in the code's order (Interest no longer than face, face no
  longer than content), and `MaxLag` lets the timer be late by as much as a lifetime.
  In `mgmt` all are one second, to keep the product with the commands small.
* `MaxNonces` is 2 so that the list overflows; `MaxRetransmit` is 2, and 1 in `mgmt`.
* `MaxFaceId`, `MaxFib`, `MaxGen` and `AgeCap` bound counters that the program leaves
  unbounded. They are guards: behaviours stop at them, and no property holds because of them -
  the theorems hold for every value.
* Timers: `MaxTimers` and `MaxClock`, both four, let a handler set two timers, one of them
  due in the same tick, and a third be removed; `ccnl_run_events` sees every order of them.
* TxPath: a ring of two is full with a packet from each face. `MaxTimers` and `MaxCnt` hold
  the *forwarder* back when so many callbacks are outstanding; schedulers themselves are
  not bounded. Time is relative, so it needs no bound.
* Frag: with three numbers and five fragments, packets of up to three fragments contain a wrap, a
  splice of fragments three apart, and a splice across records; `MaxLate` = 1 gives a duplicate
  and a reordering. `MaxLink` = 0 sends a packet when the last one has left the link: sender and
  receiver share nothing but the link, so a later sending is as good as an earlier one.
* Formats: components of one and twenty octets, payloads around 253, numbers around 256, and 65536 for local RPC, are the
  limits at which types, lengths and numbers grow by octets. Of CCNx, payloads stay below 256.
* Network: timeouts are the program's own (10 s, 30 s, three tries, seven repetitions, `-w 5`). A file of two full chunks has a
  first chunk that is not the last, and a length that is a multiple of the chunk's. `MaxLoss` and `MaxLate` are one: any datagram of any try, to either
  side, may be the one. `MaxLag` is one second.
* RiotPort: a queue of two is full with a timeout and a packet; two names, one a prefix of the other as printed; a PIT of
  one, so that the second Interest is refused, and a cache of two. All times are one tick, so that all timers meet.
* Control: a user runs one command, and three users, the third always with `newUDPface`, interleave a new face, its use and its end. Sizes of dumped
  entries are chosen so that a dump of what there is at the start takes one part in `ctrl`, and two in `split`.
* `Word` stands for 2^64 in `ccnl_i_prefixof_c`; runs scale it down so that sums overflow.

Deadlock is checked where the system goes on for ever: a peer can always send something that only refreshes
its face, and the event loop always goes round. It is not in `frag`, `formats`, `riot`, `net`, `ctrl` and `split`: there the sender
stops at `MaxSent`, the datagram is read, the model ends at `broken` or when nothing is left in motion, the fetch is over, users have their answers.

### Fairness

`Relay!FairSpec` has weak fairness on `Tick` (time goes on) and on `Ageing`: `ccnl_io_loop` calls
`ccnl_run_events` before each `select`, with the time to the next timer as the deadline, and
`ccnl_minimalrelay_ageing` sets itself again each second. No fairness is
assumed of peers. `PitDrains` uses both. It holds for the Interests of that run although peers
may repeat them for ever, because joining an entry does not restart its clock.

`TxPath!FairSpec` has weak fairness on each step of the event loop, which is one thread that
runs on, and strong fairness on `Tick` and `SocketWritable`: both are enabled only while the
loop is in its second half, again and again. The latter says that a socket selected for writing
does not refuse for ever. No fairness is assumed of the forwarder.

`RiotPort!FairSpec`: the event loop's thread has a priority of its own and blocks on its queue only; time passes, timers fire, and the application's thread
runs. Nobody is made to send anything, and none of it is assumed after `broken`. `WaitEnds` has as its premise that other
threads send the waiting one no more messages from some time on; they may send as many as they like before. Without the premise it fails.

`Network!FairSpec`: datagrams that are neither lost nor late arrive, the relays age, seconds pass while the client waits, and the client sends and
notices its timeout. Losses and delays are never forced.

`Control!Fairness`: the relay reads what it was sent (not once it is halted) and the client what came back. The relay never loses what it queued: losses are
the action `Lose`, counted in `lost`, and `ShortEnds` excepts them.

## Proofs

Assumptions, all of them named, and evaluated by TLC in each run:

* `Names` and `Relay`: bounds are naturals (`BoundsAssumption`), `AgeCap` is at least each timeout (`TimeoutAssumption`),
  local and reflecting peers are peers (`PeerAssumption`), Interests are records with the fields above
  (`InterestAssumption`), the freshness of NDN Data is a natural and the preload is finite (`DataAssumption`),
  `Word` is positive (`WordAssumption`).
* `Timers`: delays and bounds are naturals and `StepsBack` is a set of the two words it may contain.
* `TxPath`: the interface is no face, each has one of the three kinds of scheduler and an interval of zero or more, and
  the ring has a place (`IfAssumption`, `KindAssumption`, `GapAssumption`, `LimitsAssumption`).
* `Frag`: `Numbers` is positive, packets are cut into at least one fragment, and bounds are naturals.
* `Network`: the file and its chunks are not empty, the client tries at least once (`NetworkAssumption`), names and contents
  have their fields, and only the file's name has a chunk number (`ContentAssumption`).
* `RiotPort`: a name answers itself, times and limits are naturals, queue, mailbox and cache hold something (`RiotAssumption`).
* `Control`: rooms and sizes are positive, and commands are those of `ccn-lite-ctrl`, where `newUNIXface` takes
  no port (`ControlAssumption`).
* `Formats`: every datagram in `Frames` keeps to the limits of the formats (`FrameAssumption`, whose parts are named `Sound`,
  `NdnSound`, `CcnxSound`, `FragmentFits`): numbers of 31 bits, with which TLC still counts; no more components than `CCNL_MAX_NAME_COMP`, the chunk among
  them; in NDN no component that reads as a chunk; in CCNx lengths of one octet, because `ccnl_ccntlv_prependTL` loses the
  other; fragments that the 16 bits of the packet's length can count; and more than one packet in a datagram only for CCNb, whose packets
  have an end of their own. Beyond each of the
  others the code reads something else than was built. Payloads and components are otherwise any.

| Theorem | States | Argument |
|---|---|---|
| `TypeCorrect` | `Spec => []TypeOK` | Inductive as it stands; one lemma per operator. |
| `NoDangling` | `Spec => []NoDanglingFace` | Inductive with `TypeOK`. Live faces only grow except in `destroyface` and ageing, which clean PIT and FIB by the same set. |
| `FacesAreYounger` | `Spec => []FaceYoungerThanPending` | Joining or making an entry refreshes the face first; a tick ages both; `Older` keeps order even at its cap. |
| `WaitersAreKept` | `Spec => WaitersKept` when no lifetime exceeds the face timeout | Only ageing sets `lag` back; an entry that has not timed out is younger than the face timeout, so by `FacesAreYounger` are its faces. |
| `OneEntryPerInterest` | `Spec => []PitKeyed` | Inductive with `TypeOK`. Whatever changes entries keeps Interest and rank (`KeyedImage`); an entry comes in only where `ccnl_interest_isSame`, which is symmetric and blind to the hop limit, finds none, or under the next rank (`KeyedAdd`). |
| `EndsInTime` | `Spec => []PendingInTime` | Inductive with `TypeOK`. Entries start at age 0, joining keeps their age, a tick adds one to both sides, and after ageing none is left whose time was over. |
| `NobodyIsForgotten` | `Spec => NotForgotten` | By cases on what a step does to the PIT (`PitCases`): entries lose faces only in `PitWithout`, whose faces are gone, and go only when served or timed out. |
| `StoreIsBounded` | `Spec => []CacheBounded` | Inductive together with the store being finite. Evicting makes room for one; where nothing can be evicted, all is static, and the second look at the limit holds it at one more. |
| `FreshUpToLag` | `Spec => []FreshInTime` | As `EndsInTime`: ageing marks all whose freshness period is over. |
| `StaticIsKept` | `Spec => StaticStays` | By cases on what a step does to the store (`StoreCases`): eviction chooses among what is not static, and ageing keeps what is. |
| `CacheIsUsed` | `Spec => []CacheAnswersPending` | Inductive with `TypeOK`. An entry is made or joined only if nothing cached answers the Interest, and Interests that share an entry differ at most in must-be-fresh, which only stale content tells apart (`SameMatch`). Content is added only with all entries it answers taken away. |
| `Implements` | `Spec => Delivers` | Step simulation: an Interest that stays is `Ask`, a cache hit `Answer`, incoming content `Arrive`, all else `Forget`. |
| `PrefixOfIsExact` | what `ccnl_i_prefixof_c` accepts is the name with or without its digest and no other, as the bounds allow, over any set of components | By the two lengths: the digest is appended only where the Interest is longer by one, and one name equals the other exactly if they share all components. Without overflow the sums compare as the bounds do. |
| `PrefixUpToDigest` | `MatchesAsPrefix`, over any set of components | From the last one: a name that begins with another and is longer by no more than the digest is one of the two. |
| `SameIsAnsweredAlike` | `AggregationSound`, over any set of components | What `ccnl_interest_isSame` compares is all of an Interest that the functions which answer it read. |
| `NoTimerIsLost` | `"during" \notin StepsBack => (Spec => []NoneLost)` | The list is sorted, its numbers are distinct, and while a handler runs its entry is the first: every timer set meanwhile is at or after the clock, the clock is at or after `now`, and the entry is before `now`. So `eventqueue = t->next` drops the entry served and no other. |
| `PassesAreBounded` | under the same premise, `Spec => []PassIsBounded` | Timers set during a pass are not before `now`. |
| `SoonestRunsFirst` | under the same premise, `Spec => []SoonestFirst` | The list is sorted and the timer that runs heads it. |
| `HandlersRunInOrder` | `StepsBack = {} => (Spec => []RunInOrder)` | All that ran was before the start of a pass, and all that is queued comes after it, by time and number. |
| `PathTyped` | `Spec => []TypeOK` of `TxPath` | Inductive with the places of the ring that are taken being filled (`RingFilled`), since `InterfaceCts` reads one, and with the timer that is served heading the list, since `HandlerReturns` takes it off (`Serves`). |
| `NoWakeupIsLost` | `Spec => []NoLostWakeup` | Below. |
| `SlotsStayApart` | `Spec => []SlotsApart` | Inductive together with the list being in order. A timer is set for `nextTX`, which is an interval after the last one of its scheduler and moves on by another; time passes for both alike. |
| `CountsSuffice` | `Spec => []CountsCover` | Inductive with `TypeOK`. A packet that moves from queue to ring to the wire is counted once in each place (`RingOfPut`, `RingOfGet`), and its `CTS_done` takes it off the count; a packet that is dropped stays in the face's count. |
| `PathIsLossyFifo` | `Spec => LossyFifo`, with `PacketsFor` as mapping | Below. |
| `FragmentsTyped` | `Spec => []TypeOK` of `Frag` | Inductive as it stands: `Receive` once for the three actions of the link that use it. |
| `DeliversWhole` | `Spec => []Whole` of `Frag`, CCNx packets | Below. |
| `DeliversAll` | `Spec => []Complete` of `Frag`, CCNx packets | Below. |
| `TablesTyped` | `Spec => []TypeOK` of `RiotPort` | Part of the invariant of the next two (`IInv`). The limits hold since each insertion comes after a test of its limit, and repetitions are counted in the entry. |
| `NoTimeoutOfTheGone` | `Spec => []InterestsLive` | Inductive with types and with the same of the timers (`LiveTimers`): a message comes from a timer, and `ccnl_riot_interest_remove` takes away both. |
| `KeptIsTimed` | `Spec => []Timed` | Inductive with the last one and with `CachedOnce`. `Good` states all of it of tables, timers and queue given one by one, so that a turn of the loop, which is several changes in a row, is one lemma for each (a timer set or stopped, messages blanked, an entry or content added or removed). |
| `FetchedInOrder` | `Spec => []InOrder` | Below. |
| `FaceIdsStand` | `Spec => []FacesAsTold` | `seqno` only grows and is above every id given, so a new face never has an old id (`Keeps`); of an answer under way as of one told, the id is the peer's or nobody's (`Names`). Routes go with their face (`RelayOK`). |
| `CommandsMeanWhatTheySay` | `Spec => AsAsked`: of all commands but those for a new device, whose answer may be false | Every packet on the way to the relay was built from the user's words (`Packets`). Of a request put together from fields, `Extract` gives the last with the tag (`Has`, `Val` of concatenations); from this follow, for each command, what its handler reads and what it enters when it says that it worked. For the commands no handler knows, or whose handler always fails, no answer says so. |
| `NdnAsBuilt` | a sound NDN packet is read as what it was built of | Below. |
| `CcnxAsBuilt` | the same of CCNx packets and fragments | Below. |
| `CcnbAsBuilt` | the same of CCNb packets, whatever follows them in the datagram | Below. |
| `FormatsAsBuilt` | `Spec => []AsBuilt` of `Formats` | Below. |

`DeliversWhole` rests on `WholeInv`, because `Whole` speaks of `got` alone and is not inductive. The
invariant has four parts: `OfInv`, the fragments of a packet follow each other in `sent`, between a
first and a last one; `NumberInv`, within one record of the sender the place of a fragment and its
number differ by a constant, up to multiples of `Numbers`; `HeldInv`, the buffer is straight (a
first fragment and those right after it in `sent`) or contains two fragments that the receiver
mistook for neighbours, and `recvseq` is the number after its last; `GotInv`, the same of each
buffer handed on, where a straight one ends with a last fragment and so is a packet. The step that
matters is a fragment with the expected number: by `NumberInv` it is the next in `sent`, a multiple
of `Numbers` away from it, or from another record.

`DeliversAll` says the converse for packets inside which the numbers do not begin again at 0. `ParcelInv` gives
every packet in `sent` as a *parcel*, a place and a number of fragments; `CountingInv`, the numbers in
a buffer count up, so that a packet that wraps is never one. `ReadyInv` is what makes the induction work: if the last k arrivals are
the first k fragments of such a packet, the buffer holds these and nothing else, whatever it held before, because a first fragment
discards it and each later one has the number expected. With the last fragment the buffer is the packet and is handed on, so that
`TimesInv`, handed on as often as arrived in a row, loses nothing: an arrival ends at most one occurrence of a packet.

`NoWakeupIsLost` counts the callbacks that a scheduler owes (`Owed`): the calls to it on the stack and the
timers set for it, without the one being served. Leave to send adds one, at once or by a timer, which goes behind
the overdue one that heads the list, so that taking off the head afterwards takes no other (`GrantOwes`). A packet
that is queued adds one callback and one packet; `FaceCts` and `InterfaceCts` use up one callback and at most
one packet, and what enters the ring adds a callback there; `CtsDone` only adds; a timer that fires becomes a
call (`HandlerWoken`). So callbacks never fall behind packets, although the event loop calls
`ccnl_interface_CTS` on its own account as well, and a full ring drops packets.

`PathIsLossyFifo` maps each step to one of `LossyFifo` or to none: a packet that is queued is put at the end; one
that `FaceCts` moves into the ring stays where it was, or is lost when the ring is full; `InterfaceCts` sends the oldest
in the ring, which is the first of its face, or drops it when its face is gone; removing a face loses its queue. `PacketsFor` is a recursive
function, of which the lemmas needed are what it gives for an empty sequence, one longer at the end, and one shorter at the front
(`PacketsForNone`, `PacketsForAppend`, `PacketsForTail`). They are proved by a least counterexample, as induction with a
predicate is not to be had. `RingFilled` is needed, for `InterfaceCts` to find a request.

`FetchedInOrder` rests on two facts. Every packet under way, pending or cached is of the *kind* of the fetch,
with or without chunk numbers: relays forward the name they were asked for, a Data packet answers an
Interest only with the same chunk number (`ccnl_prefix_cmp`), and A has routes to B alone (`LeadsOn`). And the client counts what
it writes: `Written` says that `cur` chunks are out, each in its place or chunk 0. The exception is that of `InOrder`
(a chunk 0 that comes late is taken for the one awaited), which no strengthening removes: the run shows it.

`NdnAsBuilt`, `CcnxAsBuilt` and `CcnbAsBuilt` go from the inside out. A number, a length and a header are
read as they were written (`NdnDehead`, `CcnbDehead` and the like), from which one turn of a parser's loop over an element is
known, whatever follows the element. A loop that is known turn by turn has a known end: the functions in `Fold` and `Loop` are
shown to agree with a given one at every step, by a least counterexample (`UpTo`), and `LoopEnds` says so once for
all, and `Scan` is such a loop. Names need a second such induction, over their components, with `Rests` (for CCNb) giving what is left after each. The
limits of `Sound` enter where a length has to fit the octets it is written in. CCNb's headers of up to five octets need
that no spare octet 0 is written first, since a block begins its end with 0 (`HighOf`).

`FormatsAsBuilt` rests on `ReadSoFar`: for some number m, the first m packets have been read, each as it was meant, what is left is what
follows these (`Rests`), and the suite is that of the packets read. `NextPacket` is the step that matters: no packet begins with a code of
`ccnl_switch_dehead` (`NoCodes`), the first two octets tell its suite (`SuiteOf`) or the suite is that of the packet
before, and the forwarder reads this packet and leaves the others (`Delivered`, by the three theorems). So the loop stops at the end only.

The premises on the clock are needed: without the first, `ccnl-os-time.c:290` drops a timer that has not
run, and a clock set back between passes runs a later timer before one set afterwards for an earlier time.

`WaitersAreKept` has its premise because an NDN Interest may carry a lifetime longer than
`CCNL_FACE_TIMEOUT`. Other lifetimes are `CCNL_INTEREST_TIMEOUT` (10 s), and faces live 30 s.

Only model-checked, on the instances above: `RpcAnswered` of `RpcExchange`, because terms
nest and `LocalRpc` builds and parses them by recursive operators; and all liveness
(`PitDrains`, `QueuesMove`, `InterestsEnd`, `WaitEnds`, `FetchSucceeds`, `ShortEnds`, `DumpEnds`), because fairness
and ENABLED are beyond the prover. Every other property of the passing runs is a theorem. `AsBuilt` is checked under
`SpecAny` of `RpcExchange` and proved under `Spec` of `Formats`, of which the former is a copy with the requests of local RPC
beside it: `AsBuilt` says nothing of these.

## Plan

Done: all modules above, their runs, and the theorems. What is left, the order being that of importance:

1. `Frag` under schedulers: with `USE_SCHEDULER` too, a packet gets one clear-to-send whatever the
   number of its fragments (`ccnl_frag_getfragcount` returns 0 for this protocol), where
   `doc/internal/rts-cts-20120802.txt:30` draws `RTS(3)`; compose it with `TxPath`.
2. Three relays in a ring: loops of Interests, which nonces end.
3. Theorems beyond the properties of the runs: that the two relays of `Network` keep the invariants of `Relay`,
   so that what is proved of one relay holds in the composition.

## Not modelled, and why

* *Fragmentation*: the build with schedulers (planned), the protocols under
  `OBSOLETE_BY_2015_06`, an MTU too small for the header, failing allocations, and
  `ccnl_ndntlv_mkFrag`, which `ccnl-frag.c:391` calls for NDN packets. It takes what `ccnl_ndntlv_prependTL` returns (0 or -1) for lengths
  (`ccnl-pkt-ndntlv.c:701`), so that its buffer has two octets of room for all headers: with a piece of less than 253 octets it writes in front of the
  buffer, which is undefined, and with a longer one no header fits and what is sent is no fragment. Nothing that `Frag` states is about these packets.
* *Transmit path*: fragments, the chemflow scheduler, several interfaces (they share nothing
  but the timers), the Interests that ageing retransmits from inside a pass, and a clock that is
  set back. *Timers*: those of the Linux kernel.
* *Echo server*: `USE_ECHO` is defined nowhere, and its command's handler (`ccnl-mgmt.c`, 2282 to 2460) would not compile.
  *Signatures* (`USE_SIGNATURES`, remote crypto), *RONR* and *taps* are compiled out as well; `USE_WPAN` is defined
  nowhere, and the part of `newface` for it reads a component that is null.
* *RIOT*: the network interface, and `CCNL_MSG_CS_LOOKUP`, which only reads.
* *Fetching*: after a name without a chunk the client uses memory that `ccnl_pkt_free` has freed; and lifetimes
  of less than a second, which uninitialised memory may hold.
* *Local RPC*: the client's repetitions, missing files, and requests that `ccn-lite-rpc` cannot type.
* *The other tools*: `ccn-lite-pktdump`, `ccn-lite-valid`, `ccn-lite-cryptoserver` and the like read one packet and
  print. `ccn-lite-simu` is not built by CMake.
* *`ccnl-array.c`, callbacks, producers*: one array and hooks; what the RIOT port does through its hooks is in `RiotPort`.
* Opening sockets, command line options, logging, the HTTP status page and dumps change no
  table. The Android, kernel-module and Arduino ports are glue for the same core.
* Memory exhaustion: most callers treat it as a packet that is dropped.
