# mediaroom: specifications, model checks and proofs

mediaroom captures packets from live interfaces and capture files, recognises
the flow each belongs to and passes packets to client processes through shared
memory. It is C++ (`src/`: the program, `lib/`: what clients share with it,
`app/`: a test client); paths below are relative to the repository's root.

This directory holds TLA+ modules translated from that code, the
configurations TLC checks, and proofs for TLAPS. Every definition that models
code is listed with its lines under `map` in `PROJECT.json`; runs, hazards and
theorems are there too.

1. [The system](#1-the-system)
2. [Modules](#2-modules)
3. [Runs: what each asks and shows](#3-runs)
4. [Bounds](#4-bounds) and [fairness](#5-fairness)
6. [Proofs](#6-proofs)
7. [Where the code disagrees with what is said of it](#7-disagreements)
8. [What is not modelled](#8-what-is-not-modelled)
9. [Plan](#9-plan)

## 1. The system

| Component | State it keeps | Operations | Talks to |
|---|---|---|---|
| **CycleBuffer** (`lib/libshared/CycleBuffer.h`) | `head`, `tail`, the bytes | `write1`, `read1`, `clear`, `length` | the layer below each channel |
| **SharedCircularBuffer** (`SharedCycleBuffer.h`) | a CycleBuffer in a segment of shared memory | attach (and clear), `push`, `pop` | the server pushes, a client pops: two processes, no lock |
| **SharedServer** (`SharedServer.cpp`) | connections, partly read commands, the `select` set, channels per descriptor, hash → channel, channel → hashes | accept, read a command, init / new channel / bind / close, close a connection; `send` | clients by a Unix socket; the capture threads call `send` |
| **SharedClient, SharedSocket, app/example** | one connection, its channels | connect, send a command, wait for one answer, pop and check packets | the server |
| **AllocatorList** (`AllocatorList.h`) | an array of entries, a list threaded through the free ones | `get`, `put` | whoever keeps objects in shared memory |
| **Capture, Driver, DriverPcap** (`src/drivers`) | drivers with a lock each; for a file the packet held back, when it is due, whether the file is finished | `getPackets`, `finished`, `idle` | the threads of `mediaroom.cpp`; libpcap's callback |
| **Packet, PacketPtr, HeaderIf** (`src/core/Packet.h`, `lib/libstack`) | reference counts, chains, windows on the bytes | allocate, clone, put headers, push, rebase, chain, free | every stage that holds a packet, in several threads |
| **PacketDetails** (`src/core/PacketDetails.h`) | the layers of a packet, counts per layer, the flow's hash | `push<Layer>`, keys and their comparison | the extractors fill it, flow tables ask it |
| **Extractors** (`lib/libstack/Extractor*`, `ss7/Extractor*`) | the window of the packet they are at, an offset behind it, the layers of PacketDetails | from header to header, over tags, chunks, parameters and SCCP fields | a `PARENT` class gets each layer and hands the packet to the next extractor |
| **SharedMultimap, SharedFlowAccum, Block** | payload of TCP flows by sequence number, in shared memory | put, get, erase, mark expired | the flow handlers of `app/` |
| **TimeHandler** (`lib/TimeHandler.h`) | ten calibration points, an index | time from ticks, calibrate; no lock | DriverOffline, Block |
| **LogRotate, Debug** | two files, their clocks | write, rotate, re-create | everyone |
| **System, Config, Os, mediaroom** | configuration, signal flag | start, the threads' loop, stop | everyone |

What is hard, and the properties that make each part correct:

* **The ring.** A record never straddles the end of the ring, header and bytes
  may each wrap, and the tests that decide whether there is room or a record
  must agree with where records go. *One process at a time:* whole records, in
  a chain, never overwritten, FIFO. *Two processes:* the tests load an index
  the other side moves, several times each; `read1` releases a record before
  its caller has used it; a client that attaches clears a ring in use. What a
  handler goes through must be the message that was pushed, once, in order.
* **The control connection.** Tables keyed by a descriptor outlive the
  connection, and descriptors are reused; commands arrive in parts; clients go
  away between any two steps, and a write to one that has gone fails in the
  middle of the loop that iterates the tables. Acknowledged bindings must hold,
  every command must be answered once, strangers must change nothing, the
  server must survive.
* **The allocator.** The link of an entry is the tail of the user's data, so
  users overwrite links all the time: the list must never follow one of those.
* **Capture.** Threads share drivers, and a driver's lock is held over `idle()`
  and `finished()` too, so that `getPackets` passes a driver by whose lock is not
  free; a packet that is not due is held back by one thread and handed out by
  another; a live dispatch that fails leaves packets in the array and returns 0;
  the end of a file is guessed. No packet doubled, reordered or early; counts
  match arrays; files end.
* **Packets.** Owners in several threads, each an owner of a chain; a window
  shared by all `Pkt`s, set in two stores that others may read between, and one
  of its own for each `PktOffset`. Freed exactly once and not too early; every
  window ends where the packet ends once both stores are done.
* **Flow identity.** Layers that give way when there is no room, layers that are
  mixed, layers that are kept and not counted: both directions of a flow, and
  only they, must get one key.
* **Extraction.** An offset is added up over half a dozen classes, each of which
  trusts what the one before left; pointers, lengths and optional parts move
  it. What is read as a header must be one, to the last parameter, and every
  extraction must end.
* **The clock.** Points of three words are stored and copied without a lock
  beside each other; a point is three readings of two clocks, apart from each
  other; the frequency is rounded and averaged; time is extrapolated in 64 bits.
  No reader may compute with half a point, and the time it reads may be ahead
  of the time of day, or go back at an update, only by what the readings and
  roundings explain.

The full list of hazards, at their lines, with the properties that cover them,
is in `PROJECT.json`.

## 2. Modules

| Module | Models | Rests on |
|---|---|---|
| `MessageQueue` | *abstract*: what a ring promises, a FIFO queue that may refuse | |
| `RingLayout` | where a record's header and bytes go, what two header bytes mean | |
| `CycleBuffer` | `write1`, `read1`, `clear`, `length`, each a step | `RingLayout`, implements `MessageQueue` |
| `CycleBufferProofs` | proofs about `CycleBuffer` | |
| `SharedRing` | the same code between two processes, one memory access a step; the attaching constructor; the handler of `app/example.cpp` | `RingLayout` |
| `SharedRingProofs` | proofs about `SharedRing`, whenever the client attaches | |
| `SharedServer` | the server's loop and its clients | |
| `EntryPool` | *abstract*: what an allocator promises | |
| `AllocatorList` | `get`, `put`, and users that write over their entries | implements `EntryPool` |
| `AllocatorListProofs` | proofs about `AllocatorList` | |
| `SharedServerProofs` | proofs about `SharedServer`: connections, framing, strangers, answers and bindings | |
| `PacketDetails` | layers, key, side, hash | |
| `PacketDetailsProofs` | proofs about `PacketDetails` | |
| `Extractors` | the way from header to header, read by read | |
| `PacketLayout` | what a well-formed packet is, for the theorems about `Extractors` | `Extractors` |
| `ExtractorsProofs` | proofs about `Extractors` | |
| `Capture` | `Capture`, `DriverPcap`, `DriverOffline` | |
| `CaptureProofs` | proofs about `Capture`, and about `TickClock`, its clock | |
| `Packet` | counts, chains, windows | |
| `PacketProofs` | proofs about `Packet` | |
| `TickClock` | `TimeHandler`: points, the thread that sets them, threads that read them | |
| `MC...` | constants that a `.cfg` cannot write down | |

Definitions keep the source's names where they can. Definitions marked *a
mutant* are what a plausible slip would have made of the one that follows;
nothing uses them in the specification, they show that each property can fail.

**CycleBuffer.** `head`, `tail`, `mem` are the descriptor and the bytes; a
header is two bytes of the message's length. `pending` is a history variable:
the records accepted and not read. `Write1`/`Write1Refused` split `write1` at
its test, `Read1`/`Read1Nothing` do the same for `read1`. `Read1` chooses among
the lengths that the bytes at `tail` may mean, so that a clobbered header would
show. `result` is what the call returned: the refinement to `MessageQueue` is
about what callers see.

**SharedRing.** A step makes at most one access to what the other side writes:
`TestBehind`, `TestStart`, `TestAhead`, `TestGap` are the four loads of `tail` in
the test of `write1` in evaluation order (with the short cuts of `&&` and `||`),
`PopTestBehind` and `PopTestEmpty` the two loads of `head` in `read1`.
`StoreHeader`, one `CopyByte` per byte and `Publish` are the writer's stores;
`ReadLength`, `Release`, one `HandleByte` per byte and `Handled` the reader's way
through a record. Stores are seen in program order (x86, volatile indexes).
`ClearHead`/`ClearTail` are the constructor's `clear()` when a client attaches:
before the server pushes, or (`late`) while it does, which it may since it
creates the ring and sends packets of bound hashes from then on. `LateAttach`
says which of the two a run looks at.

**SharedServer.** Clients are the environment: one command at a time, one
answer awaited, leaving at any moment, with or without unread answers (which
makes the kernel reset the connection). The server's variables are the
members of the class, one each. `Serve(fd)` is what a ready descriptor makes
the loop do; `WriteData` includes the write that fails because the peer has gone
and the closing of the connection this leads to. `touched` records the use of an
erased entry of `_partial_data` by `start()`, `gExit` the end of the program by
SIGPIPE. `SendsTo` is the look-up of `send()`; packets themselves are in
`SharedRing`. `Assigned` and `Emplaced` are the two ways a `std::map` takes a
pair: over what it has, or only where it has nothing.

**AllocatorList.** `held` and `order` are history variables. `Write` lets whoever
holds an entry put anything where its link is.

**PacketDetails.** A header is what the code uses of it: its type, where it
lies, its two addresses and what lies in memory behind the first. `Push...` are
the push functions, with the branch for a layer that no longer fits as an
action of its own where it does something else. `InKey`, `calcSide`,
`isSrcLowerAddr`, `fillAddresses`, `cmpAddresses` are the lookups. `Back` and
`SameFlow` say independently what the other direction of a packet is. The
library is compiled with different constants for different users
(`layersMax`, `flowAddrSize`, the layers taken): each is a member of `Builds`,
and a behaviour has one of them.

**Extractors.** A packet is the sequence of the pieces that lie in it, each with
its size, what it says of the next one and what its length field holds; the code
sees none of the borders. It reads `Read(offset, kind)`: the piece that begins
there if one of that kind does, *anything* (`Anything`) otherwise, so that an
offset out of step goes its way. `base` is the packet's window, `off` what the
extractor has added behind it. One action is one `extract...` or `got...`
function between two reads. The `PARENT` is a class the repository leaves to
the library's user; it is external: it hands each layer on to the next
extractor and may stop at any tag.

**Capture.** One thread is at one driver at a time: `TryLock`/`SkipLocked`, one
action for each way the driver's `getPackets` may go (`ReadFile`, `ReadEnd`,
`FileError`, `PlayHeld`, `NotDue`, `ReadLive`, `LiveError`), and `Return` or,
when the dispatch failed, `ReturnNone`; after the last driver `PutPackets`,
which is where the loop of `mediaroom.cpp` takes the packets from the array, and
`idle()`. What a driver does in `getPackets` is one step of those, since its
lock keeps the others out; that the lock is held is another matter: from one
step to the next in `getPackets`, in `idle()` (`IdleLock`, `Idle`) and in
`finished()` (`FinishedLock`, `FinishedDriver`), and `SkipLocked` is what
`try_lock` makes of any of the three. `LiveError` puts the first packets of the
batch in the array, as `pcapHandler` did before `pcap_dispatch` failed, and
`ReturnNone` does not count them: `Written` is how the next driver's packets are
put over them. `told` is a history variable: the packets behind the count, as
the drivers handed them out, to be compared with what is in the array. What
`finished()` answers is left out: nothing in the repository asks it, and
`_finished` never goes back to FALSE. `PlayPacket` is `pcapHandler` with
`offlineProcess`. libpcap is external: it hands out the next packets of a file
or those that have arrived, or fails. The clock is ideal (TimeHandler is a
component of its own).

**Packet.** A handle is a window on a packet that counts it. `stack` holds the
calls a thread is in, because `free` calls itself along a chain; each access to
another packet is a step. Whoever sets a packet's window stores the length
(`SetLength`) and in a later step the offset (`SetOffset`); `setting` says who is
between the two, and `LengthOf` of a `PktOffset` reads both fields whenever it
likes, in 16 bits (`Word`). With `Careful` users keep to what shared windows need:
one thread at a time sets a packet's window (`MaySet`), no header is put on it or
`Pkt` of it cloned meanwhile, headers are on one `Pkt` of a packet at a time
(`MayPut`), and `Pkt::clone` is called only while the window is the whole packet
(`MayClone`). The code neither states nor checks these rules; in the repository
the extractors work on one handle at a time and nothing calls `clone`.

**TickClock.** `now` is the counter of the CPU, `TimeOfDay` what `gettimeofday`
says when it stands there. `update_time` is `UpdateFirst` (the first call) or
`UpdateBegin` with its test, then the three readings of `set_current_timepoint`,
`UpdateBefore`, `UpdateDay` and `UpdateAfter`, with up to `MaxRead` ticks between
the first and the last, `UpdateStore` once per field of the point,
`UpdatePublish` and `UpdateEnd`. A reading of the clock is `ReadTicks`, which
happens before the call, `LoadIndex`, `CopyField` once per field and
`Extrapolate`; `Time` is what it returns. `Signed` and `Quotient` are the
arithmetic of `int64_t`. `published` and `meant` are history variables:
the point last completed, and the one that was when a reader loaded the index;
`stall` counts how many were completed since. The last conjunct of `UpdateBegin`
is no test of the code: `MaxStall` bounds how long a reader may take. Not
modelled are a counter whose rate changes, a time of day that is set (NTP), and
a counter slower than a tick a microsecond, with which two points may have the
same time of day and `set_current_timepoint` divide by zero.

## 3. Runs

States are distinct states of the complete search.

| Run (`.cfg`) | Asks | Shows | States |
|---|---|---|---|
| `cyclebuffer` | One process at a time: are records a chain of whole records (`Chain`), as they were written (`Intact`), refused only for backlog (`RefusalMeansBacklog`), and do calls return what a queue would (`IsQueue`)? | Yes, wrapped headers and bytes included. A small message (2 · (length + 2) < size) is never refused by an empty ring; one of about half the size may be, for as long as `head` stands badly. | 77 106 |
| `ring` | One producer, one consumer, access by access: is what is between `tail` and `head` complete (`SeenMeansComplete`), does the handler go through the message popped for it (`HandledIntact`), in order (`InOrder`), at last (`EventuallyHandled`)? And what is left of that when the client attaches, and so clears the ring, while the server pushes? | Yes, *as long as the bytes outstanding, those in the handler's hands included, leave room for one more of the longest messages in the ring*. A late attach may lose messages; what a handler goes through is one whole message even then, and never an older one after a newer. | 163 912 |
| `ring_stale` *(violation)* | As `ring`, with no bound on the backlog. | The writer's test is wrong when `tail` wraps between its loads. See 7. | |
| `server` | Clients that check answers and bind a channel once, come and go at any moment, on reused descriptors: do acknowledged bindings hold (`AckedMeansBound`), are closed channels unbound (`ClosedIsUnbound`), is there one answer per command (`OneReply`), does the server survive (`CleanServer`), is every command answered (`Answered`)? | Yes. | 148 203 |
| `server_strangers` | One client does not follow the protocol: is a partly read command completed by its own rest (`FramingKept`), does `select` watch what it should (`SelectCovers`), do strangers change nothing (`StrangersShutOut`)? | Yes: the context that `closeConnection` erases keeps a stranger from what a former user of its descriptor left in the channel tables. | 441 648 |
| `allocator` | Whatever users write: does the list visit the free entries, once, in order (`Chain`), is it an allocator (`IsPool`)? | Yes; the last free entry is never handed out. | 3 776 |
| `details` | Mixed tags, IP in IP, ports, point codes, layers that give way, keys that are full: do exactly the packets of one flow, either way, match (`FlowIdentityOfAddresses`) and hash alike (`SameFlowSameHash`), is the innermost IP header found (`LastIpKept`)? In SIGTRAN with room for one layer of each kind: are the layers in order and the innermost one among them (`InnermostKept`)? | Yes, for tags and Ethernet pushed as mixed. Every packet made of the same kinds of headers is compared with every other, by both ways to tell the sides. | 2 334 |
| `extractors` | Frames with up to three labels, IP with and without options, every kind of SCCP message with every choice of addresses and optional parameters, over MTP2, M2UA and M3UA, two chunks in a packet: is what is read as a header one (`InStep`), are the point codes kept those of the protocol data (`OpcOfData`), is TCAP handed on exactly when it should and with its bytes (`TcapIsData`), are the optional parameters passed one by one (`WalkIsParameters`), does every extraction end (`Returns`)? | Yes, for well formed packets that have what M3UA must have, whose parameters are multiples of four bytes, and whatever the bytes say that are read where nothing lies. A class of SCCP or a length that the code refuses ends in its assertion or drop. | 6 689 |
| `details_chunks` *(violation)* | `FlowIdentity` for MTP3 over SCTP. | Layers that are kept and not counted fall out of the key. See 7. | |
| `capture` | Two threads, a file and a live interface, the dispatches of both of which may fail: every packet handed out once and in order (`InOrderOnce`), to the call that counted it, also after a dispatch that failed half way (`BulkMatchesCount`), never early (`NeverEarly`), files finished when they are read (`FinishedMeansDone`), every file played to its end (`PlayedOut`)? | Yes, for files without packets that are too big. What a failed dispatch had put in the array is lost, and written over by the next driver. A file is played to its end unless from some moment on every call of `getPackets` finds the driver locked, which `try_lock` does not exclude, or its dispatch never stops failing. | 361 096 |
| `packet` | Two threads share, chain and drop packets and set their windows, a store at a time: are counts exact at every step (`CountExact`), is nothing reached after it is freed (`NotAfterFree`), does nothing leak (`NothingLeaks`), does every window end where its packet ends, with its headers inside (`WindowsInside`)? | Yes, for users as above, and for windows whenever nobody is between the two stores. Between them a `Pkt`'s window is short of the end, and a `PktOffset` may read anything (`PacketTorn`, see 7). | 348 268 |
| `clock` | A thread reads the clock while another sets it right: does it compute with one whole point, the one that was current (`WholePoint`), is what it reads no further from the time of day than the time the point's readings took, the roundings and the drift of the point's frequency explain (`NearTruth`), and does each update halve how far the frequency is off, but for these (`FrequencyNears`)? | Yes, as long as fewer points than there are places are completed while it copies one, and as long as the ticks since the last point fit the word. Within these bounds the clock does run ahead of the time of day, and does go back at an update: an exact or monotonic clock it is not. | 3 681 218 |

Modules with a `TypeOK` hold it in every run; no run lists it. Those of
`CycleBuffer` and `AllocatorList` are parts of the inductive invariants that are
proved. `CHECK_DEADLOCK FALSE` is said where the system may stop: all clients
have gone, the packet has as many headers as the bound allows, all packets
have been freed.

## 4. Bounds

* `CycleBuffer`: a ring of 8 bytes and messages of 0 to 3. `head` and `tail`
  take every offset, a header lands on the last byte, bytes end exactly at the
  end, and up to four records are queued. The proofs do without a bound.
* `SharedRing`: 12 bytes, messages of 1 to 3, at most `MaxMsgs` = 6 messages:
  the indexes go round more than once. `Backlog` = 8 is the claim of the run
  (`Backlog + MaxLen < Size`), not a bound: with 20 bytes in a ring of 10 (no
  limit) `SeenMeansComplete` fails, and 12 in a ring of 13 are too many for
  `HandledIntact` (see 7): what a record leaves unused where it goes round the
  end is room lost that the producer does not count. `LateAttach` =
  {FALSE, TRUE}: both ways to begin are in one search.
* `SharedServer`: two clients, two descriptors, so that one may get the
  descriptor of the other; `MaxIndex` = 2 channels; `MaxPipe` = 2 commands
  and answers on the way; two hashes, to be fought for.
* `AllocatorList`: four entries; no other bound. The proofs do without.
* `PacketDetails`: addresses 0 and 1 (the code orders, compares and adds them;
  two values tell apart equal, lower and higher). Two builds: three headers in
  a packet, room for two layers of each kind and keys of 20 bytes, so that
  layers give way and keys fill; and SIGTRAN, six headers, room for one.
* `Extractors`: packets are enumerated, not generated: every chain of Ethernet,
  tags, up to three labels, IP and a transport; every SCCP message type with the
  addresses (none, with and without point code and subsystem) and optional
  parameters (none, one, two) it may have, below each of three lower layers;
  zero to two parameters before the protocol data; one or two chunks. A fourth
  label is left out: the code looks at three and takes what follows for
  Ethernet. `Anything` says what bytes read out of step may hold: names that
  steer the code, lengths 0, 1 and 9.
* `Capture`: a file of four packets whose time stamps go on and run backwards, a
  live interface with two packets, one too big; the array has room for four, two
  for each driver, so that a dispatch may fail after one. `MaxTime` = 2: beyond
  it the clock goes on only while a held packet waits, since nothing else looks
  at it.
* `Packet`: two packets of two bytes, three handles in two threads, two headers
  on a handle; a packet is not allocated again after it is freed, so that
  whoever still reaches it is seen. Packets are symmetric; no liveness is
  checked there. The proofs do without bounds.
* `TickClock`: a ring of three points instead of ten, a second of two
  microseconds and five ticks, which no whole frequency measures exactly, and a
  file that says six ticks. `MaxRead` = 2: the readings of a point may be apart or
  not, and the time of day may change between them. `MaxStall` = 2, one
  less than the ring has places, is the claim of the run, not a bound: with 3
  `WholePoint` fails. `Horizon` = 20 ticks, enough for the ring to go round.
  `Word` = 100 000 is never reached; `TickClockOverflow` is about reaching it.

## 5. Fairness

* `SharedRing`: each side is weakly fair: both run in loops of threads of their
  own (`app/example.cpp:72-94`, the capture threads) and never wait for a lock.
* `SharedServer`: a readable descriptor is served at last: `select` returns all
  that are ready and the loop goes through all of them. A client that waits in
  `waitAck` reads what has come. Nobody has to send a command, or to leave.
* `Extractors`: an extraction goes on until it returns: it is a call in one
  thread that waits for nothing.
* `Capture`: time passes; threads come back for more and get on with their calls
  (`GetPackets`, `Work`), *strongly* fair, because `finished()` and `idle()` block on
  a mutex that is free now and then and not won for ever by the others; the loop
  of `mediaroom.cpp:138-147` comes back without end. Nothing is assumed of
  `try_lock`, which does not wait: two threads may go on taking turns so that
  each finds the driver locked by the other in `getPackets`, `idle()` or
  `finished()`. That it succeeds again and again for a driver is therefore a
  premise of `PlayedOut` (`[]<><<Turn(d)>>_vars`); without the premise TLC finds the
  behaviour in which the file is never read on. The other premise is that its
  dispatch fails finitely often. With one thread, as the repository's main has,
  the lock is always free.

## 6. Proofs

TLAPS checks these for every value of the constants, under the assumptions that
the modules name (`ASSUME`).

**`CycleBufferProofs`** (`SizeAssumption`, `LenAssumption`, `MessagesAssumption`: any
size but 0, any messages whose length fits 16 bits). Neither `Chain` nor `Intact` is inductive:
that a write spares unread records needs to know where these are relative
to `tail`. The inductive invariant is `IInv == TypeOK /\ Links /\ Order /\ Intact`:
`Links` says that each record ends where the next begins and that it fits
(`Fits`: it stays clear of the end of the segment or ends before the place where
it begins), `Order` that the records lie in ring order ahead of `tail`. The
argument is the measure `Ahead(tail, p)`: it grows along the chain, `NoRoom` being
false makes a new record grow it too and lie in the free part (`RoomAdvances`,
`RoomIsFree`), so the footprints of unread records are spared (`RecordInUse`).

* `Invariance`: `Spec => []IInv`.
* `TypeCorrect`, `NothingOverwritten`, `ChainHolds`: `TypeOK`, `Intact`, `Chain`.
* `RefusedForWantOfRoom` (`RefusalMeansBacklog`). How far `head` is ahead of
  `tail` is the sum of what each pending record takes (`Accounted`), and a record
  takes its bytes, its header, and no more than the widest one besides where it
  goes round the end (`RecordTakes`). The sum over the records is the induction
  described at the end of this section.
* `Implementation`: `Spec => IsQueue`, the refinement to `MessageQueue`. It
  contains that an empty ring takes every small message (`EmptyTakesSmall`).

**`SharedRingProofs`** (`SizeAssumption`, `LenAssumption`, `BacklogAssumption`;
`Modest`: one consumer, and `Backlog + MaxLen < Size`). Here the test of `write1` proves nothing: what one load of `tail` says may be stale
at the next. What holds is that the producer's bound leaves a record room
*twice* (`Room`: what is in use, what the handler holds before `tail`, the
record, and its length again for what is lost where it goes round the end),
and that this stays so while `write1` runs, because only the reader moves: when
it gives a record back (`ReleaseKeeps`), `tail` comes nearer to `head` by at
least what the handler takes into its hands (`TailComesNearer`). So the bytes
being written are neither in use nor in a handler's hands (`WriteSpares`),
whatever the test answers. The invariant `IInv` says that records are the
chain of `CycleBufferProofs` (`Ring`), where in its record the writer is
(`Writing`), that the reader stands at `tail` and what it has gone through so
far (`Reading`), and that messages are numbered without a gap (`Numbered`,
`Done`). The arithmetic of offsets is proved in each of the two modules.

A client that attaches late clears `head` and `tail` under the writer, and
`pending`, which the model empties with them, no longer says what the ring
holds: if `write1` is under way it then sets `head` to the end of its record,
and the records pushed before the clearing come back with it. The second
invariant, `LateInv`, says that *some* sequence of records is the chain between
`tail` and the place where the writer goes on (`Origin`), whatever `head` says in
between (`AtHead`); that `tail` is still 0 when it is cleared (`Unattached`), so
that the writer's room stands (`LateRoom`) and its record does not begin on the
last byte, where it would look at the cleared `head`
(`LateStoreHeaderKeeps`); and that the numbers of these records rise, above that
of the message in the handler's hands and that of the one handled last
(`Rising`, `LateReading`, `LateDone`). A step leaves the sequence as it is, adds
a record, takes the first, or drops them all (`LateStep`).

* `Invariance` (`IInv`, where the client attached first) and `LateInvariance`
  (`LateInv`, always); `SeenIsComplete` (`SeenMeansComplete`);
  `HandlersSeeTheirMessage` (`HandledIntact`) and `HandledInOrder` (`InOrder`),
  both whenever the client attaches.

**`AllocatorListProofs`** (`OverallAssumption`: at least one entry). The inductive
invariant is `TypeOK /\ Chain /\ CountExact`: `Chain` is inductive because it
speaks of the links of free entries only, and users write those of others.

* `Invariance`, `FreeListIntact` (`Chain`), `Implementation` (`IsPool`).

**`SharedServerProofs`** (`FdsAssumption`, `ClientsAssumption`: any clients, finitely many
descriptors, hashes, any bound on channels and on what is under way). Two
things make the per-descriptor tables right: a connection belongs to one client
and a client has one connection at a time (`Conns`), so what is read on a
descriptor changes one client's stream; and `ctxState` has the descriptors that
`peer` has, so that a closed descriptor's context goes with it. `FramingKept`
is inductive next to these: reading a part leaves `partial` the head of the
stream. For strangers the invariant adds that one that has said hi and was refused has
left nothing on its stream that could close a channel.

* `Invariance`; `SelectWatchesAll` (`SelectCovers`), `CommandsStayWhole`
  (`FramingKept`), `StrangersChangeNothing` (`StrangersShutOut`).

Answers and bindings need one assumption more, `ChecksReplies`: clients tell
SS_ACK from SS_NACK; what a client believes of its channels is wrong without it.
A binding is lost only if another client's command takes the channel or the
hash, so the invariant `BInv` says whose everything is: a channel belongs to one
descriptor and what is kept as its hashes is bound to it (`Channels`); of a
client one command or one answer is on the way (`OneWay`), so that the answer it
reads is that to the command it waits for, and that command names a channel of
its own descriptor (`Sends`); what it was told holds on the server (`Knows`).
`Undisturbed` is the frame: all that a client relies on stays as it is when
another client's command is read, because its channels are out of the reach
of the other descriptor (`OutOfReach`). A bind with no channel, which the server
answers twice, is excluded by `Sends`; so is a write of the server after a reset,
since the reset is seen only once the one command is read.

* `BindingsInvariance`; `AcknowledgedStaysBound` (`AckedMeansBound`), `OneAnswerEach`
  (`OneReply`), `ClosedTakesHashes` (`ClosedIsUnbound`, where `OneBind`),
  `LeavingHarmsNobody` (`CleanServer`, where there is no stranger). The two
  conditions are those of the run `server`, and `SharedServerUnbound` shows the first to be needed.

**`PacketProofs`** (`PacketAssumption`: finitely many packets and threads, any
number of handles). `CountExact` alone is not inductive: it has to be known that
the call that counted the last owner down is the only one that will free the
packet (`EndsOnce`), that a packet is being freed exactly while it has no owner
(`Once`), and, for `addPacket`, that a thread that walks along a chain, and owns
none of the packets it passes, cannot have them freed under it: there is a set of packets
of which each is owned by the thread itself or by another one of the set
(`Supported`). From that a free of any of them leads to a contradiction: its
last owner would have to be gone.

* `Invariance`; `CountsOwners` (`CountExact`), `OwnersKeepAlive` (`NotAfterFree`),
  `UnownedIsFreed` (`NothingLeaks`).

That a store of a window that is still to come finds its packet alive is `Setters`:
the thread between the two stores has a handle of the packet, and cannot drop it
before it is done.

What `PacketPtr.h` adds up, `length` and `offset`, is right only under the rules that
shared windows need (`Careful`, section 2). The invariant `WInv` adds to the one of
the owners and `Setters` that the two numbers of a packet nobody is setting have
one sum (`Ends`), that whoever is between the two stores is alone there, has stored
the length that goes with the offset to come, and moves the offset on
(`Begun`), that headers stand on one of its Pkts at most (`Alone`), and that they do
not reach beyond the packet (`Fits`). `Alone` is needed because `push` through one Pkt moves the window of them
all: headers on another one would be pushed out of it. What a header more or
less makes of `FullSize` is the induction at the end of this section (`FullSizes`).

* `WindowsStayInside` (`WindowsInside`), under `Careful`: windows begin inside the
  packet and, with nobody between the two stores, end where it ends, so that the
  16 bits of a length do not go round then; between them a Pkt's window is short of
  the end.

**`CaptureProofs`** (`DriversAssumption`, `FileAssumption`: any drivers, files and
threads, an array with room for a packet of each driver). `getPackets` hands its
array to one driver after the other, and a driver fills the array of whoever set
`curr` last, so the count is right only because of the locks: the inductive invariant
says that a thread at a driver has its lock and is the one in `curr` (`Locked`),
that the packets behind its count are the first of its array, and so will be those
that the driver has just added (`Counted`), that each driver passed put no more than
its share in the array, counted or not (`Room`), and that no driver hands out more
than has come (`Supply`). That `Locked` holds in `idle()` and `finished()` too is what
keeps these from giving back a lock that is another thread's. A live dispatch that
fails adds to the array and not to the count, which is why `Counted` speaks of the
first packets of the array and `Room` of all of them. For the order it is what a
driver has played together with what it holds back, `Through`, that is a first part
of its file, since the packet held back is the last one read. For the pace,
`_pkt_sent` is the time of the first packet plus the gaps up to the last one read,
whether that one has been handed out or is held back.

* `Invariance`; `BulkCounted` (`BulkMatchesCount`), `PlayedInOrder` (`InOrderOnce`).
* `FinishedIsDone` (`FinishedMeansDone`), under `NoneIgnored`: no file has a
  packet that is too big. `CaptureBig` shows that it is false with one.
* `PlayedAtPace` (`NeverEarly`), under `StampedFiles`: no packet of a file is
  stamped 0, which is what `_pkt_time` says of no packet; time stamps count from
  1970.

**`TickClock`, in `CaptureProofs`** (`SizeAssumption`: at least two places). While a reader
copies, the place that the writer has chosen, from `UpdateBegin` to `UpdatePublish`,
is exactly `stall + 1` places ahead of the reader's (`Distance`), counted round the ring; as fewer than `Size` updates
are completed meanwhile, it is another place, and the fields copied so far stay
those of the point meant.

* `PointsAreWhole`: `MaxStall < Size => (Spec => []WholePoint)`.

**`PacketDetailsProofs`** (`BuildsAssumption`: any kinds, room for at least one IP
header and one port, at most 255 headers, since `layersCnt` is a byte;
`FollowsAssumption`: headers follow each other as the extractors of `lib/libstack`
find them; any addresses, offsets and numbers of layers). None of the four
properties is inductive: a header that finds no room overwrites the layer pushed
*last*, and this is right only because of what that layer may be. `Phase` knows: tags
come first, IP next, the rest after; what gives way to an IP header is the IP
layer before it (`IpBefore`), and what gives way to another one never is, since
a first port always has room. `Uncounted` says what `pushSctpChunk` and `pushM2ua`
leave: the layers exceed their count only where one of those without addresses stays.
Where all layers have addresses the lookups therefore see all of them
(`AllLayersCount`), which is the precondition of `FlowIdentityOfAddresses` and
what `details_chunks` lacks. `Mixes`: no mixed layer is in the hash. Every push is
shown to be one of four things (`Added`, `Over`, `Extra`, `Ignored`), and each
part of the invariant is proved for these.

* `Invariance`, `TypeCorrect`; `LastIpStays` (`LastIpKept`), `InnermostStays`
  (`InnermostKept`).
* `HashOfFlowIsOne` (`SameFlowSameHash`): what is in the hash is in the key
  (`HashOfFlow`), and a header's two addresses have one sum either way.
* `KeyOfFlow` (`FlowIdentityOfAddresses`), under `Sided`: tags and Ethernet are
  pushed mixed, and ISUP occurs only where no two circuits are told apart. The three
  configurations of section 7, `PacketDetailsEth`, `PacketDetailsTags` and
  `PacketDetailsIsup`, show it false without. The key under two sides is
  the same exactly if the headers agree, or agree with the other direction's
  (`KeyTells`), and the layer that decides the side decides it the other way for the
  other direction (`OppositeSide`), unless no layer tells them apart.

**`ExtractorsProofs`** (no assumption on constants: any packets, anything where no
piece lies). A theorem about any bytes at all would be false: an extractor
trusts what a header says of itself. What it may trust is what `PacketLayout`
says of a packet; the theorems are for `Packets` like that, of any length:

* `WellFormed`: the packet is shorter than 65 536 bytes; a header is as long as its
  type and followed by the type it names; M3UA's parameters follow each other and
  are as long as they say; SCCP's fields lie end to end. Nothing is asked of what
  the code does not use: a type it returns at, a length it refuses, a class it
  asserts on. Two clauses are there because the code needs them and a packet
  need not have them: an M3UA message without data is followed by another chunk,
  since the loop reads once more at its end (`ExtractorsNoData` is one that is
  not), and no parameter is padded (`ExtractorsPadded`).
* `Open`, `NamesOpen`, `PartiesOpen`: if there is protocol data, a message with
  optional parameters, or one with two addresses, then one `LiesOpen`: no header
  before it is refused or leads elsewhere, and no tag or label, which the parent
  may stop at, comes before. `NamesApart`: the parameters are those of one message.

All packets of the run `extractors` are such: TLC evaluates `AllWellFormed` in
`MCExtractors`. So no hypothesis is empty, and the run and the theorems are about the
same packets, the run about a few hundred of them.

`InStep` is not inductive, since the next reading depends on what the last header
says and on what has been counted; `IInv` says which piece the code is at, with its
tags (`OnHeader`), the message that the length comes from (`OnParam`), the
field counted up to (`OnField`). What turns sums into places is
that pieces begin at different offsets (`StartIncreases`, `StartUnique`) and
that a place inside the packet is reached without the 16 bits of the offset going
round (`Reached`).

* `OffsetsInStep` (`InStep`).
* `PointCodesFound` (`OpcOfData`), with `Open`. Until the point codes are found the
  code is at a header or parameter before them (`Toward`), and each step brings it
  to a later one or to them (`Nearer`).
* `ParametersWalked` (`WalkIsParameters`), with `NamesApart` and `NamesOpen`. At a
  name, those walked are the names before it (`AtName`); from one to the next there
  is none, since a value has none within (`WalkLength`). That an extraction
  without names walks none is easy; that one with names cannot end before them is
  `Coming`: the code is on the way to the message, or in its fields and knows of the
  pointer, or has come out.
* `TcapFound` (`TcapIsData`), with `PartiesOpen`. `Calling` says that behind the
  calling party's field `ssn` is what that party says: the second address is the one
  `getSsn` is called on (`CallingIsSecond`), and it reads that party's
  number (`NumberRead`).

*Induction over data.* The library's induction theorems cannot be used. Sums and
the like (`Waiting`, `Bytes`, `flowHash`, `FullSize`, `StartIn`, `Place`, `NamesTo`) are recursive functions on `0 .. n`, and what has to be
known of them is proved for the *set* of numbers for which it holds:
`SetInduction`, which follows from `LeastNumber` and that `<` is well-founded.

*Only model-checked:* `NearTruth` and `FrequencyNears` of the clock: their bounds are
stated for any numbers, but divisions of products by what was read are
out of the provers' reach.
Liveness (`EventuallyHandled`, `Answered`, `PlayedOut`, `Returns`) is out of the
prover's reach.

## 7. Disagreements

Two runs show the code do something else than a comment or an assertion says;
they are the `findings` of `PROJECT.json`.

* **`ring_stale`**: "if len is written (seen by tail) this means data is
  completely written too" (`CycleBuffer.h:102`). `write1` loads `tail` anew for
  every term of its test (78, 80). When the reader takes `tail` past the end
  of the ring between the loads, no term is true though there is no room, and
  the record lands on unread ones.
* **`details_chunks`**: "all addressess are equal" (`PacketDetails.h:565`).
  `pushSctpChunk` and `pushM2ua` add a layer and no count, so the lookups stop
  short of the innermost layers: MTP3 flows over one SCTP association match
  whatever their point codes are.

Further configurations reach more of them; TLC finds each violated:

| Configuration | Property | What happens |
|---|---|---|
| `SharedRingHeld` | `HandledIntact` | `read1` stores `tail` before it returns the pointer (`CycleBuffer.h:122`): with a backlog just below the size (12 bytes in a ring of 13) the handler of `app/example.cpp:15-27` goes through bytes of two messages. |
| `SharedRingShared` | `HandledIntact` | Three threads pop from one ring (`app/example.cpp:86`) without a lock. |
| `SharedServerUnbound` | `ClosedIsUnbound` | "Need to remove all corresponds hashes" (`SharedServer.h:71`): `emplace` (`SharedServer.cpp:232`) keeps the first hash of a channel only, the second stays bound when the channel is closed. |
| `SharedServerReplies` | `OneReply` | A bind on a connection with no channel is answered twice (217, 252). It needs a client that takes a refusal for an acknowledgement, as `app/example.cpp` does. `SharedServerUnchecked` shows that with such clients commands are still answered and watched. |
| `PacketDetailsEth` | `FlowIdentity` | Twelve bytes from the *source* address of an unmixed Ethernet header: the destination is in no key, the payload is (`PacketDetails.h:152`, 47). |
| `PacketDetailsTags` | `FlowIdentity` | The two bytes of an unmixed tag are ordered and swapped although "bidir types start here" after them (25, 416). |
| `PacketDetailsIsup` | `FlowIdentity` | One byte of the two of a circuit (58). |
| `PacketDetailsSide` | `SideMeansLower` | "src is lower" (439): `calcSide` returns the opposite (476), and the opposite of `isSrcLowerAddr`. |
| `PacketDetailsLast` | `LastLayersExist` | IP, SCTP, chunk, M3UA: `getPc` fails the assertion of line 350. |
| `PacketDetailsOffset` | `OffsetsKept` | Offsets that pass `offset <= 0x3FFF` (108) lose the bits above 2047 (109). |
| `CaptureBig` | `FinishedMeansDone` | "ignore this packet" (`DriverPcap.cpp:8`): an ignored packet ends the file (`DriverPcap.h:98`). |
| `ExtractorsNoData` | `OpcOfData` | `while (offset <= m3ua.size())` (`ExtractorM3ua.h:21`): a message whose parameters end without protocol data has one more read behind its end; whatever lies there may become its point codes. |
| `ExtractorsPadded` | `InStep` | A parameter's length leaves out the bytes that fill it to a multiple of four; `ExtractorM3ua.h:57` goes on by the length. |
| `TickClockStalled` | `WholePoint` | A reader that is held up for as many updates as the ring has places computes with a point half overwritten (`TimeHandler.h:135`). |
| `TickClockOverflow` | `NearTruth` | Ticks since the point, times 1 000 000, leave `int64_t` after 9.2 · 10^12 ticks, 51 minutes at 3 GHz (`TimeHandler.h:144`). Only `update_time` sets a new point, and nobody in the repository calls it. |
| `PacketTorn` | `NeverTorn` | Between the stores of `PacketPtr.h:43-44` a `PktOffset` of another thread computes its length (227-230) from a length and an offset that do not belong together: a length short of the end, or, where that goes below 0, one of nearly 65 536. |

## 8. What is not modelled

* **SharedFlowAccum, SharedMultimap, Block.** `put` locks the map's mutex and
  `put_start_flow_block` and `emplace` lock it again (`SharedFlowAccum.cpp:18,
  168`, `SharedMap.h:52`); the mutex is not recursive, so the first packet of a
  flow blocks its thread for ever. Nothing behind that has ever run; a model of
  it would be one of a program that is not there.
* **SharedFlowDistributor, SharedFlowHandler, PacketAccum, `app/socket`.** In no
  build target, or without users.
* **Header structures.** What a header says of the next one and the sizes are in
  `Extractors`, addresses in `PacketDetails`; the layout of single fields and
  their printing have no behaviour.
* **LogRotate.** Its `check()`, which changes and closes files, is called by
  `System::idle` only, which nobody calls: the program writes one file and
  creates it again when it is removed.
* **System, Config, Os, Debug, the rest of `mediaroom.cpp`.** Start, end and
  configuration, once, before and after the threads.
* Inside modelled parts: the layout of the managed segment and its moves; a
  failing `accept()`, which stops the server; `stop()` and the destructor;
  a ring given messages above 65 535 bytes, whose length `push` cuts off;
  more drivers than places in the array (the share is then 0 and libpcap takes
  that for no limit); two threads that extend one chain, which loses a packet;
  what the classes that use the extractors do with a packet they are handed;
  an M3UA parameter that says it has no bytes, which makes the loop of
  `ExtractorM3ua.h:21-57` add 0 to its offset for ever: no well-formed packet has
  one, and `Returns` is about well-formed packets only.

## 9. Plan

Done: the ring (`MessageQueue`, `CycleBuffer`), the ring between processes
(`SharedRing`), the control connection, flow identity, the allocator, capture,
packets, the clock and the extractors, each with its proofs.

Left, in the order of what would matter most:

1. `Extractors` composed with the windows of `Packet` and the layers of
   `PacketDetails`, once there is a class that uses them.
2. `SharedFlowAccum`, once its first packet gets through, and `LogRotate`, once
   somebody calls `check()`.
