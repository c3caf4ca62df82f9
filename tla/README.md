# nano_net in TLA+

nano_net is a small C library that lets hosts with a few ports each (UARTs,
radio links) exchange messages, forward them for one another, learn routes from
what passes and answer messages. This directory holds TLA+ models of it, the TLC
runs that check them on small instances, and TLAPS proofs of the properties that
matter most for every instance. Source paths are relative to `src/`.

## 1. The system

| Part | State | Operations | Correct means |
|---|---|---|---|
| Host (`nano_net.c`) | list of ports, list of routable hosts each with a list of ports and a last receive time, handlers, `seq` | create, add_port, add_route, add handlers, send_msg(s), send by port, send_ack, last_recv_time, direct_write, run | messages reach the target's handler in order, at most once; answers find the way back; wrong routes do no lasting harm |
| Port (`private/nano_net_port.c`) | packager, read/write functions, last receive time | unpack (read loop + idle reset), send packages, send raw data | every byte read goes to the decoder once, the loop ends, a silent line resets the decoder |
| Packager front end (`private/nano_net_packager.c`) | implementation handle | passes calls on | - |
| Default packager (`private/package/nano_net_default_packager.c`) | pack buffer; unpack buffer, awaited byte, start time, package under construction | pack, unpack, reset, create | only frames that were received are delivered, once each, with their own fields; no access outside the buffers |
| CRC-16 (`private/lib/nano_net_crc16.c`) | none | one function | CRC-16/XMODEM, as its header says |
| List (`private/lib/nano_net_list.c`) | nodes, one iterator per list | create, add, iterate | every element once per loop |
| Pool (`private/ll_depend/nano_net_ll_heap.c`) | one bump pointer | init, malloc, no-op free, info | blocks are aligned and do not overlap, none but the last leaves the pool |
| Ring buffer (`private/lib/nano_net_ringbuf.c`) | head, tail | write, read, empty, full, clear | a bounded FIFO; not used by the rest |
| Clock (`private/ll_depend/nano_net_ll_systime.c`) | function pointer | read | - |

How they interact. The application calls `nano_net_run` in a loop. It runs each
port's `nano_net_port_unpack`, which reads bytes with the application's `read`,
hands them to the decoder, and resets the decoder after a silent spell. When a
frame is complete the decoder calls back through the port into
`nano_net_port_unpack_callback`, which learns a route to the sender, calls the
handler or forwards the package through the ports listed for its target, and
sets the sender's last receive time. A handler usually calls `nano_net_send_ack`
from there. Every send goes through `nano_net_port_send_msg_packages`, which packs
into the port's buffer and calls the application's `write` at once. There are no
threads, no queues and no retries in the library: the concurrency is that of
several hosts and the lines between them, and of bytes and time.

What is hard: resynchronising on a damaged stream, with timeouts and resets
between any two bytes and fields of an abandoned packet left in the structure;
several hosts learning, forwarding and answering at once over lines that lose
packages; routes that form loops; partial failure in a pool that never frees; one
shared iterator per list under re-entrant calls. PROJECT.json lists these hazards
at their lines with the properties aimed at them.

## 2. Modules

| Module | Models | State and actions against the code |
|---|---|---|
| `Crc16` | `nano_net_crc16` | the table, one loop step (`CrcStep`), the loop as a recursive function; a pass is a function (`CrcPass`) so that TLC evaluates a long buffer pass after pass instead of one inside the other |
| `WireFormat` | packets, `pack` | what a packet holds, the space `pack` asks for and the bytes it writes for a batch; `pack` keeps nothing between calls and is an operator |
| `DefaultPackager` | default packager | variables are the changing fields of `nano_net_packager_impl_t`; `unpack_buf` is the part up to `unpack_buf_used_ptr`; one action per `case` of `unpack_run`, all ending in `Advance` (the code after the switch) except the early return on a length that is too large; `reset` |
| `PackBatch` | the packages of one call of `pack` | `pkgs` is the array of `nano_net_send_msgs`, `Fill` a pass of its loop; `Forward` is the one package the unpack callback passes on, counted |
| `UnpackStream` | the decoder on any line | `Feed` gives it the next byte, `Reset` is the port's reset, `Tick` the clock, in any order; `spans` is history: which bytes of the line each delivered package came from |
| `Reentry` | the decoder entered from its own callback | `runs` is the stack of reads in progress, each with its part of the line; `Feed` goes on with the innermost one and stops inside `unpack_cb` (`EnterCallback`) when a packet is complete; `HandlerReturns` is the rest of the callback and of `unpack_run`; `fed`, `start`, `found` are history: what the decoder got, and where in it each package starts |
| `Port` | `nano_net_port_unpack` | the read loop step by step, with bytes only counted; the driver receives (`Arrive`) and the clock runs (`Tick`) between any two steps |
| `Link` | a host's receive side | `Port` and `UnpackStream` in one: each `Unpack` of `Port` is a `Feed`, its `CheckSilence` a `Reset` if the line was silent; `frame` is history: the intact packet on its way |
| `RunLoop` | `nano_net_run` and the list's iterator | `loops` is the stack of runs in progress over the port list, which share `iterator`; `AddPort` puts a port in front meanwhile; `seen` is history |
| `Heap` | the pool | `mem_pool` is `heap_mem_pool_t`, addresses are numbers modulo `AddrMod`; `HeapInit`, `Malloc`; `blocks`, `refused`, `gone` are history |
| `Pool` | abstract specification of the pool | unset, open, full; `Take(n, k)`: of n requests in a row the first k are served |
| `HostTables` | one host's tables under failing allocations | ports, routes and handlers as lists; one action per call of `nano_net.h` that builds or uses them (`Create`, `AddPort`, `AddRoute`, `AddMsgHandler`, `AddDefaultMsgHandler`, `Send`, `DirectWrite`) and the whole unpack callback (`Receive`), each with every number of blocks served (`Pool`); `outcome`, `granted`, `known` are history |
| `RingBuf` | the ring buffer | `buffer`, `head`, `tail`; write, read, clear, the two tests; `SpaceMod` is the width of the free space |
| `Fifo` | abstract specification of the ring | a bounded queue |
| `Net` | hosts, routes, ports, lines | `routes[h][t]` is the port list of `t` in `h`'s routable hosts; one action per API call (`AddRoute`, `SendMsgs`, `SendMsgByPort`) and one for the whole unpack callback (`Receive`: learn, then dispatch with the handler's answer, forward, or drop); `Lose` is the environment |
| `NetPath` | `Net` where one path joins any two hosts | no state of its own: the assumptions on the network under which order is promised, and what is promised |
| `Messaging` | abstract specification of the network | what applications of two hosts see: a lossy FIFO channel whose handled messages are answered |
| `MCCrc16`, `MCHeap`, `MCParts`, `MCHostTables`, `MCPackBatch`, `MCUnpackStream`, `MCLink`, `MCReentry`, `MCNet`, `MCNetPath` | instances for TLC | `MCParts` puts the six parts below the host that do not touch one another in one run: every behaviour moves one part; `MCCrc16` grows a buffer byte by byte and defines division by the polynomial |
| `WireProofs`, `DefaultPackagerProofs`, `LinkProofs`, `ReentryProofs`, `PartsProofs`, `HostTablesProofs`, `NetProofs`, `NetPathProofs` | theorems | section 4; `WireProofs` holds those of `Crc16` and `PackBatch`, `LinkProofs` holds those of `UnpackStream` too, `PartsProofs` those of `RunLoop`, `Port`, `RingBuf` and `Heap` |

Definitions named `X_Something` right before `X` and commented "Mutant" are wrong
versions of `X`; no specification uses them. Each is a bug one of the properties
finds when `X` is replaced by it (PROJECT.json, "mutants").

How they compose. `WireFormat` is what `PackBatch` writes and `DefaultPackager` reads. `Link` joins `Port` and `UnpackStream` and is proved to implement the
latter, so what holds of a decoder on any line holds behind a port. `UnpackStream` and
`Reentry` share `DefaultPackager` and its invariant. `Heap` implements `Pool`
(`PoolContract`), and `HostTables` is built on `Pool`. `Net` takes a port, its packager
and the line as a queue that may lose packages, which `UnpackStream` and `Link` justify.
`Net` on the networks of `NetPath` implements `Messaging`.

### Abstractions

* `DefaultPackager`: bytes are numbers; the rest of the unpack buffer is not kept,
  it is never read. The package is copied when the callback gets it.
* `Reentry`: every package is for this host and has a handler, which may run the host any
  number of times; the port is the only one. `noted` is the set of hosts whose
  last receive time is set.
* `Port`: the port is readable; `port->read` returns what the driver has, as far as it
  fits `read_buf`; the driver accepts bytes while it has room (what it drops is not the
  library's). Reading and noting the time of the reading are one step.
* `Heap`: requests are not 0 (no caller asks for none). `MaxUsed` bounds how far the pointer moves,
  which keeps it from wrapping round the address space; refused requests move it too, so on
  a 32-bit machine it would wrap after 4 GB of them. `Pool` says the same from above: once full,
  always full.
* `HostTables`: a port is told apart by its descriptor and added once. `seq`, the clock and
  the wires are `Net`'s; `heard` says that a last receive time is set, and sizes stand for
  packages. What a call wrote and called is kept at its place in the list the call goes
  through. `MULTI_MSG_HANDLER` may be either value; a handler does not run the host
  here (it does in `Reentry` and `RunLoop`).
* `RunLoop`: what a port's unpacking does is left out, but for the runs a handler starts
  in it and the ports it adds.
* `RingBuf`: handles are not NULL. Nothing else in the repository uses the ring.
* `Net`: a port's packager and line are one FIFO queue of packages; what
  `UnpackStream` does to damaged frames is a loss here. A message is identified by
  sender and `seq`; `msg_id`, data and handler tables are left out, so every message
  for a host finds a handler, which answers if the message wants it (the answer is
  the application's act, but its contents are `nano_net_send_ack`'s). Times are
  left out: `heard[h]` is the set of hosts whose last receive time at `h` is set.
  `hops` counts forwards and is not in the code. Allocations succeed and pack buffers
  are large enough (`HostTables` has both fail). One `Receive` is one step: the callback
  runs to its end without interruption, since the library has no threads and a handler
  here does not run the host.
* `Peers[p]` says which ports hear what `p` writes: one on a cable, several on a bus.

## 3. Runs

| Run | Instance | Shows |
|---|---|---|
| `parts` | checksum: every first byte, then bytes from {0, 57, 170, 255}, up to three bytes, and all nine-byte strings that continue "12345678"; `pack`: batches of up to three packages, and packages forwarded by themselves, without data, with the magic bytes in data and fields, all flags, NULL for two bytes of data, data of length 0, buffers of 0 to 60 bytes, a damaged byte that reads 0, 1, 85, 170 or 255; pool: buffers at addresses 4 and 5, of 0, 9 and 12 bytes, alignment 4 or none, requests of 1, 3, 4 and 6; ring of 4 bytes; up to four ports, five runs, three deep; read buffer 3, driver buffer 4, limit 2, endless reception | the checksum is CRC-16/XMODEM; `pack` stays in its buffer, every package of a batch is a frame of its own, and a frame with a damaged byte is none; blocks are aligned, apart, and all but the last inside; the pool implements `Pool`; the ring implements `Fifo`; no port is left out by nested runs; a port's run ends after at most limit + 2 reads |
| `host` | this host and another, a port with its own buffers, one that can only be read, one that can only be written; one message, two handlers; packages of 28 and 29 bytes against pack buffers of 28; every allocation may fail | what is sent follows from the calls that succeeded; hosts heard can be answered while memory lasts; receive times are right; handlers do not hide one another; failed calls have no effect |
| `unpack_stream` | all lines of up to two pieces out of: two good frames (one with AA 55 in its data), a damaged one, a declared length of 300, a cut frame, stray AA and AA 55; buffer 32, timeout 1, clock modulo 4; resets and ticks anywhere | types, buffer position, only received frames are delivered, no byte twice |
| `link` | a cut frame and a good one behind it; two good ones; one behind two stray AA; read buffer 2, driver buffer 2, limit 0, timeouts 1, clock modulo 4 | every frame that comes in time is delivered |
| `link_silence` | lines that end inside a header, behind a stray AA, and a frame without its first byte; else as `link` | a silent line resynchronises the decoder |
| `reentry` | a frame, and behind it a zero byte, another frame, a cut one, or two of these; buffer 16, reads of 1, 3 and 16 bytes, runs three deep | the decoder stays inside its buffer, and what a handler gets is one whole frame |
| `net_line` | A - B - C - D, routes towards D configured, those back learned; limit 2 (just what A to D needs); up to three messages in batches of up to two; two lossy ports | order, uniqueness, answers that can always go on, and refinement of `Messaging` |
| `net_ring` | A - B - C - A, routes to an absent host D round in a circle, messages to C as well, two routes added meanwhile; limit 4, so packages pass the same host twice; two messages, `seq` modulo 2 so that it wraps; no loss | forwards bounded, learned routes lead back, traffic dies out, messages that want an answer get one |
| `net_hops17`, `heap_end`, `reentry_once`, `reentry_times` | the ring with limit 17; the pool; the lines of `reentry` | **violations**: see section 5 |

Bounds. Three packages are one behind a batch of two; the rooms lie below,
at and above every size such a batch has. The decoder's control depends on the awaited byte, the buffer position and
whether the timeout has passed; two pieces make every pair of "left over" and "next",
a clock modulo 4 with timeout 1 lets it expire, not expire and wrap, and the buffer
of 32 is above every good frame and below the declared 300. In `Reentry` the buffer of 16
leaves room for one byte behind the first frame, so that nested bytes are both stored and
refused; reads of 1 and 3 put the end of a read on and beside the end of a frame, and
three runs are one inside one inside one. In `Port` and `Link` the read
buffers are smaller than the driver's or than a frame, so that runs end in each of their
three ways and no frame comes in one read; the limit of 0 makes runs of one and two reads.
The pool's sizes leave an empty pool, one that ends on a block's end and one that ends inside
a block; the ring of 4 bytes with two byte values is filled, wrapped and emptied at every
offset, and `SpaceMod` of 4 is the largest number of bytes it can count. Three runs deep over four ports is where an
inner run, an inner run's inner run and a port added in between first meet. In `HostTables` one other
host is enough, since no call compares two other hosts' routes, and two ports per route
suffice for an order; the pool is open or full, so that each request of each call is the
first refused one in some behaviour.
In `Net` four hosts are
the smallest line with an inner host that forwards for an inner host and one whose
route back goes through another learned one; three messages are a batch and one that
crosses it. `CHECK_DEADLOCK FALSE` in `parts`, `heap_end`, the `reentry` and the `net_` runs: buffers
stop growing at `MaxBytes` or `MaxLen`, batches at `MULTI_MSG_SEND_MAX_CNT`, the pool at `MaxUsed`, runs at `MaxRuns`,
the bytes of a line end, and the applications stop sending after `MaxSends`; nothing else
stops. `MaxPorts` bounds the routes and handlers of `HostTables`.
`MaxBatch` and `MaxSends` bound the sends; no other counter is cut.

What `NetPath` assumes, for `net_line` and for the theorems. The lines join two ports each and
make a tree of hosts: `Behind[p]` are the hosts reached through port p, and of two ports
either one sees part of what the other does, or they look away from each other and
see different hosts. Every route of the application, and every `send_by_port`, takes the
port behind which the target is; none is added after traffic began (`PathAssumption`).
Without it order is not promised and not kept: several ports for one target send a copy
through each by design, and `nano_net_add_route` lists a port twice if it was already
learned, after which every message goes out twice. `TrafficAssumption`: fewer sends than
`SeqMod` (256 in the code); beyond that, numbers repeat and applications must not have more
outstanding. `AnswerAssumption`, for answers only: a host a route leads to has a route on, so
that what is sent to a target by a route gets there, and the forward limit is at most 15.
`net_ring` assumes none of this.

Fairness. In `Port` and `Link`: a run starts again after it ended, its steps go on (the
library never blocks), and in `Link` time passes; bytes need not arrive. `MaxLag` bounds
how many ticks pass from the end of one run to that of the next. `Resynchronises` needs
it: with `MaxLag` of at most `TimeMod - RecvTimeout - 1` some run tests the silence
before the clock has gone round, which for a 32-bit millisecond counter means one run in
49 days. In `Net`, `FairSpec` assumes weak fairness of each `Receive(p)`: `nano_net.h` asks the
application to call `nano_net_run` in a loop, and a run reads every port of the host.
Sends, added routes and losses are not fair. `RequestAnswered` needs lossless lines
(the library has no retries); it is stated as `<>[]`, which says the same as `~>` for each message, since
what a handler was given stays given. `EventuallyQuiet` does not depend on the routes.
`HostTables`, `Reentry`, `Heap`, `RingBuf` and `RunLoop` promise nothing that must
happen, and assume no fairness.

## 4. Proofs

All with TLAPS; each holds for every value of the constants that satisfies the named
assumptions of its module.

**The checksum and `pack`** (`WireProofs`).

* `CrcIsRemainder`: for every buffer, of any length, the table-driven loop gives the
  remainder by x^16 + x^12 + x^5 + 1 that dividing bit by bit gives. `CrcIsXmodem` is the property
  of the run. The argument is by induction over the buffer. The induction theorems of the
  library take an operator and cannot be used; but that < is well founded is stated without
  one, gives every nonempty set of numbers a least element (`Least`), and so induction over
  a set (`Induct`), from which recursive functions are shown to exist and to agree. One
  pass of the loop is eight bits of the division (`EightShifts`): the register is linear in
  what is in it and what comes in (`ShiftLinear`), what comes out at its top depends on its high
  byte and the new byte only (`Feedback`), and each of the 256 table entries is what that
  leaves behind (`TableWord`, over bits, for all entries at once).
* `CrcBatches`: the checksum over a packet with its own checksum and whatever follows is that
  of what follows, for all buffers. `ChecksumResidue` is its heart: the
  checksum written behind any packet brings the accumulator to zero.
* `PackStaysInRoom`: `StaysInRoom`, for every batch and buffer. The size `pack` works out and
  the bytes it writes are two loops over the batch; `FillFits` compares them pass by pass.
* `PackFramesIntact`: `PackedAreFrames`. Invariant (`FramesOf`): the frame of each package stays at its
  place while others are packed behind it. What is packed so far leaves the accumulator
  at zero (`Clean`), so the checksum of the whole is that of what follows (`CleanThen`), the frame
  alone, which is what the receiver checks. Such a frame is what `LinkDelivers`
  speaks of: sent in time, it is delivered.
* `OneByteCounts`: two buffers of one length that differ in one byte have different
  checksums. No pass loses anything: the register can be worked out backwards from what it
  became and the byte that came in (`StepBack`), and the byte from the registers
  before and after (`ByteBack`), both shift by shift (`ShiftBack`); so the loops
  part at that byte and never meet again (`LoopsApart`).
* `PackDamageShows`: `DamageShows`, from the above; a damaged byte of the magic or the length is no
  frame either. It is about the stretch of the line that was written: after damage in
  the length the decoder tries another stretch, and of that only `DeliveredAreFrames` speaks.
  Packages with a NULL pointer and a length are not in these two (`Whole`): their header promises bytes
  that `pack` does not write (`nano_net_default_packager.c:214`).

**The decoder** (`DefaultPackagerProofs`, `LinkProofs`, `ReentryProofs`).
`DecoderInv` is the common invariant: how many bytes are stored follows from the awaited
one (`Position`), and the header fields read so far are those of the stored bytes
(`HeaderIs`). It is needed because the properties speak of delivered packages and of the
end of the buffer, while both are decided byte by byte; the fields left over from an
abandoned packet are what it excludes. `DecoderStep` proves it for every case of
`unpack_run`, once for both users.

* `StreamSafe`, `StreamTypes`, `StreamPosition`: `TypeOK`, `BufferPosition` and
  `DeliveredOnce`, for any lines, any buffer of at least 14 bytes, any timeout and clock
  modulus. To `DecoderInv` the invariant adds that the stored bytes are the last ones of
  the line (`Contiguous`) and that all delivered spans lie before them.
* `StreamDelivers`: `DeliveredAreFrames`, if the buffer has at most 65537 bytes. Above that
  the 16-bit cast in the checksum's length (`nano_net_default_packager.c:472`) makes the
  code check a prefix only.
* `LinkImplementsStream`: `Link` implements `UnpackStream`, step by step; so `LinkSafe`,
  which states the results above for a decoder behind a port.
* `LinkDelivers`: `IntactDelivered`, for buffers of at most 65537 bytes, every line, both
  timeouts below the clock's modulus (`RecvAssumption`, `TimeAssumption`) and every
  spreading of the bytes over reads and runs. Invariant (`LinkInv`): while an intact frame
  that began in time is on its way, the decoder has stored exactly its bytes so far, and
  neither the decoder's start time nor the port's last receive time is older than the
  frame (`Younger`); so no reset and no timeout can fall inside it.
* `ReentryTypes`, `ReentryStaysInBuffer`: at every depth of nested runs. `DecoderInv`
  allows more bytes than the packet has while its last one is awaited, which is the
  state a handler runs in.
* `ReentryMixesNothing`: `DeliveredNotMixed`, for buffers of at most 65537 bytes. The
  invariant distinguishes two situations: a packet that is incomplete is a stretch of
  what was unpacked that ends with the last byte (`Tracked`); one that was delivered and
  is still in the buffer is the beginning of it, whatever was stored behind, and
  stays a frame (`Repeatable`). The second is why a repeated delivery repeats the
  same package.

**The parts** (`PartsProofs`).

* `LoopTypes`, `LoopStarvesNoPort`: for any number of ports and any depth. Invariant (`Covered`):
  whatever a run in progress, or one inside it, has not served of the ports it owes lies
  before the shared iterator; the innermost run ends only where the iterator does.
* `PortSafe`, `PortTypes`: `TypeOK` and `ReadsBounded` for limits up to 253; the
  invariant adds where in the loop a read has been made but not counted.
* `RingIsFifo`, `RingTests`, `RingTypes`: for sizes up to `SpaceMod`, the width of the free
  space. The content is read off between head and tail; the cases are those of a write or
  a read that ends before, at and behind the ring's end. Above that size the cast in
  `nano_net_ringbuf.c:57` loses the capacity, see section 5.
* `HeapTypes`; `HeapSafe`, `HeapAligned`, `HeapOnlyLastOverruns`, `HeapKeepsContract`: for all buffers,
  alignments and requests, as long as the pointer does not wrap (`NoWrap`: `MaxUsed` and
  the buffer fit the address space). Invariant: used_ptr stands behind the last block and at
  a multiple of the alignment, even where a request was refused.

**The host** (`HostTablesProofs`): `HostSends`, `HostRoutable`, `HostTimes`,
`HostFailureAtomic`, for all hosts, ports, descriptors, handlers, and whichever
allocation fails. Invariant: a route's ports are those granted (`GrantsAreRoutes`), nothing
exists before the pool is set up (`NothingBuilt`), and the properties
themselves: `LastRecvTimeTrue` needs `RoutableWhileMemoryLasts`, because a host that was
heard but could not be listed must not be listed by a later call without its time, and it is
not, since the pool that refused it never recovers. `HostTypes`, `HostShadowsNone`: types, and
that a handler whose registration succeeded is called for its message; invariant
(`OneHandlerEach`): where the loop over the handlers ends at the first match, no message has
two.

**The network** (`NetProofs`, `NetPathProofs`).

* `NetTypes`; `NetHopLimit`: for limits up to 15, `HopLimit`, from
  the invariant that the count carried equals the real number of forwards.
* `NetAnswerPath`: `AnswerPath` if lines carry both ways. Invariant: a host's
  routes name its own ports; a package on its way to a port was written by its sender
  or by a host with a route to its sender; every learned route leads to such a host.
  The second part is needed because a route is learned from a package in flight; it
  holds because the code learns before it forwards (`nano_net.c:141-169` before 196).

* `NetInOrderOnce`: `InOrderOnce` for every network of `NetPath`. A package travels away from
  its sender (`Heading`), so of two packages of one stream on different wires one has passed
  the other, and the one ahead is older (`Ordered`); what was handled is older than all that
  is still under way (`HandledFirst`). Three more parts are needed. Numbers in use are below the
  next one (`NumbersUsed`), so that a new message is the youngest. An answer is to an older
  message than any still under way to the host that answers (`AnsweredFirst`), so that
  answers are in order as well, though they take their number from what they answer. A route
  is one port, the one its target is behind (`Routed`), so that nothing is copied, and learned
  routes are as good as configured ones.
* `NetImplementsMessaging`: such a network implements `Messaging`. The mapping forgets the
  wires and the forward count; a forward, and a route learned, are stuttering; a package
  handled is the oldest of its stream by `OrderInv`, as `Messaging` demands.
* `NetAckNeverStranded`: `AckNeverStranded`. Invariant (`AckInv`): every route leads all the way
  (`AllLead`), and a package has been forwarded once for each host between its sender and where
  it is; an answer has forwards left for the rest of its way (`AllMeasured`), since it starts
  from 0 on a way as long as that of the message it answers.

Only model-checked: liveness (`RunEnds`, `Resynchronises`, `EventuallyQuiet`, `RequestAnswered`),
which needs fairness and `ENABLED`, out of the prover's reach; and, of course, the
violations. Every invariant, action property and refinement of the other runs has its theorem.

## 5. What the code does otherwise than its comments say

Each of the first four has a run that shows it.

* `nano_net_cfg.h:30` allows a forward limit of 0 to 17. The counter has four bits and
  `nano_net.c:202` stops it at 15, so with 16 or 17 the comparison in line 196 never
  fails, and packages on a loop of wrong routes are forwarded for ever (`net_hops17`).
  `NetHopLimit` shows that 15 is safe.
* `nano_net.h:43` calls `stack_buff_size` the size of the buffer. The pool compares only the
  start of a block with its end (`nano_net_ll_heap.c:52`), with `<=`: the last block may
  reach past it, or lie behind it (`heap_end`). `HeapOnlyLastOverruns` shows that no
  other does.
* `nano_net_default_packager.c:486` says behind a delivered packet that the state is reset.
  It is once the callback has returned: a handler that runs the host makes the decoder
  take the next packet's first byte for the last one of its own, and deliver that packet
  again on a zero byte (`reentry_once`).
* `nano_net.h:196` says when a last receive time is unset. After a handler that ran the
  host, `nano_net.c:248` sets that of whatever host the package structure names by then
  (`reentry_times`).

The models also do the following as the code does, against a comment, without a run of
their own:

* `nano_net_cfg.h:20` calls `UNPACK_MAX_POLLING_CNT` the maximum number of polls of one
  unpacking. `nano_net_port.c:165` tests the count before it is raised, with `>`: a run
  can make two reads more, 12 instead of 10 (`ReadsBounded` has the true bound).
* `nano_net.h:135`: `nano_net_send_msg` returns 0 for success; it does so whenever the target is
  listed, also when it has no port, when no pack buffer holds the package, and when
  no port can be written (`Send` of `HostTables`).
* `nano_net.h:14-17` offers ports that are only writeable; `nano_net_default_packager.c:109-114`
  refuses every port with less than 14 bytes of unpack buffer, and such a port has none
  (`AddPort`).
* `nano_net.h:16` makes a port's being writeable an attribute; `nano_net_port.c:222` writes raw
  data without testing it, and `nano_net.h:224` promises the number of bytes written while
  `nano_net.c:657` returns the size asked for, route or not (`DirectWrite`).
* `nano_net_cfg.h:36`: the macro that is to allow several handlers for one message refuses a
  second one when it is set (`nano_net.c:374`, `Refused`).
* `nano_net_list.h:46`: the loop over a list shares the list's iterator, so an outer loop ends
  early when an inner one ran to the end. `LoopStarvesNoPort` shows that no port suffers.
* `nano_net_ringbuf.c:57` cuts the free space to 16 bits: a ring of 65537 bytes accepts nothing
  when empty, a larger one less than it has. The theorems about the ring assume less.
* `nano_net.c:671-673` tests what the version pointers point at instead of the pointers (not
  modelled).

## 6. Plan

Everything planned is done but for the following, in the order of use:

1. In `Net`: sequence numbers beyond 256 sends, buses and several ports per target, with
   the copies they make bounded instead of excluded.
2. The pool's pointer wrapping round, with what a refused host may then be handed.

## 7. Not modelled

Logging, version numbers, identifier and configuration headers, the build; the stubs
(`nano_net_run_with_port_input`, `nano_net_destroy`, list removal and insertion) and what only
reads (`nano_net_ll_heap_get_info`); NULL arguments. `nano_net_send_msg_pkg_by_port` writes what the caller
says and changes no state of the library (`SendMsgByPort` of `Net` is the call on messages).
The configuration in which loops over the handlers call several of them is in `HostTables`,
but not a handler that runs the host from inside such a loop: the default configuration leaves
the loop at the first match. Every descriptor gives one port,
which is added once: a second handle for the same descriptor would be a port like any other. The clock is what the application
gives (`Tick`), `nano_net_ll_systime.c` passes it on.
