# A verification project for AliyanceMechatronics

The repository holds the two sketches of a LoRa star network (a gateway and its
field nodes), a few sketches that try one component each, and the Arduino
libraries all of them are built with. This directory models the parts of it
that decide something: TLA+ modules translated from the source, TLC
configurations that check them on small instances, and TLAPS proofs.

To run: `tlc -config StarPair.cfg MCStarNetwork.tla`, `tlapm StarNetwork_proofs.tla`,
and so on; the runs are listed below and in `PROJECT.json`, whose `map` ties
every definition to the lines it stands for.

## 1. Inventory

| Part (under `src/`) | State | Operations | What is hard | What makes it correct |
|---|---|---|---|---|
| `MasterNode/MasterNode.ino` | the transmit packet, `msgCount`, `lastServerMsgID`, the round-robin index | poll the server, build, send, listen 1200 ms, post telemetry | a reply at the edge of the window, a server that fails, a reset | commands reach the right slave and in order, telemetry is stored as it was sent |
| `SlaveNode/SlaveNode.ino` | `receiveflag`, `telemtryPacketRX`, `timeSyncErr`, `msgCount`, the LED | receive in the interrupt, read sensors, reply | the interrupt between any two steps of `loop()`, a reset | every packet for the slave is answered, on the master's clock |
| `lora/LoRa.cpp` and the SX1276 | mode, FIFO, interrupt flags | begin, beginPacket, endPacket, parsePacket, receive, DIO0 interrupt | one FIFO for both directions, flags that outlive a call, loss, collision, damage | what is sent is what was built, listening nodes listen |
| `circular_queue.h` | buffer, two positions | push, push_n, pop, pop_n, flush, for_each, for_each_rev_requeue | lock-free, one producer in an interrupt | a FIFO queue, no slot shared |
| `circular_queue_mp.h` | the same and a mutex | guarded pushes, pop_requeue, for_each_requeue | the consumer pushes too | nothing is lost |
| `TaskScheduler` | a doubly linked chain of tasks, per task status, interval, delay, previous time, iterations | execute, enable, disable, delay, restart, addTask, deleteTask, startNow, status requests, timeouts | callbacks that change the chain being walked | every enabled task runs when it is due, as often as it was told |
| `SoftwareSerial` | bit buffer of edges, byte and parity queues, receive state | pin interrupts, rxBits, read, write, begin, end | edges in an interrupt, overflow, a stop bit nobody ends | bytes in order, each as it was sent |
| `AsyncTCP` | event queue, slots of closed connections, client and server objects | lwIP's callbacks, the service task, connect, close, abort, begin, end | three threads, a bounded queue, a handler that deletes its client | no deleted client is used (with exceptions, section 3), events in order, no slot leaked, every end is told |
| `ESPAsyncTCP`, its buffers, `SyncClient`, `AsyncPrinter`, `tcp_axtls.c` | client with an error tracker, chains of buffers, TLS sessions | callbacks, add, send, ack, close, abort; write, read, connect, stop; sessions and their packets | an abort inside a callback, waiting for callbacks of one's own client, packets owned by a session that a handler may free | ERR_ABRT exactly when it aborted (no handler calls `abort()`, section 5), no byte lost or twice, each packet freed once |
| `TinyGPS++` | parser term, parity, per field a staged and a committed value | encode a character | sentences cut off, checksum errors | only checked values are committed |
| `OLEDDisplayUi` | frame state, transition ticks | update, nextFrame, previousFrame, switchToFrame | time budget, transitions interrupted by calls | the frame shown is the frame asked for |
| `OLEDDisplay`, `SSD1306Wire` | buffer of bytes, what was sent, log buffer | lines, boxes, circles, images, strings, log, display | bytes of eight pixels, the edges, line breaks | the pixels that were asked for and no other, and they reach the panel |
| `Delegate`, `MultiDelegate` | a union and its kind; a list of nodes | construct, copy, move, assign, call; add, erase, call all | lifetimes by hand, a list that changes while it is called | the member of its kind lives once; each delegate is called once |
| `FS` | open files with a cached size | open, read, write, flush, size, rename, remove, directories | descriptors run out, the cached size | what is told of a file is so |
| `ComponentCodes/ESPNOW_StarNetwork` | last message heard, status of the last frame | send a round, callbacks | callbacks on another task, a setup that stops early | whole messages are shown |
| other `ComponentCodes`, `MAX6675`, `TokenIterator`, Heltec board class, fonts | little | one component each, pure I/O | | |

How they interact: the master and the slaves share the air through their
radios; the server answers the master's GET and takes its POST; the LoRa driver
calls a slave's `onReceive` from the DIO0 interrupt, while the master polls the
same flags from `loop()`; SoftwareSerial's pin interrupt pushes into
`circular_queue` what `loop()` takes out. Of the libraries the two sketches
link only the LoRa driver (and the display and sensor drivers, which decide
nothing); the others are there for painlessMesh, whose source the repository
does not hold, and for the sketches in `ComponentCodes`.

## 2. The modules

### The star network

| Module | Stands for |
|---|---|
| `StarPacket` | `struct_message`, the node table |
| `LoRa` | the driver's calls as operators on a chip, the radios and the air as actions |
| `MasterNode` | `MasterNode.ino`, one action per branch of `getDataFromServer`, per part of `send` and `onreceive`, reset; the server as environment |
| `SlaveNode` | `SlaveNode.ino`, the interrupt as an action that has precedence on its node, `loop()` in four steps, reset |
| `StarNetwork` | one master, its slaves, the air; specification, fairness, properties |
| `StarService` | the abstract specification: what the owner of the server is promised |
| `StarNetworkInv` | the inductive invariant in named parts |
| `MCStarNetwork` | node tables for TLC |
| `StarNetwork_proofs` | the proofs |

`loop()` is cut wherever something else can act in between. A node's place in
it is `mpc` (master) or `spc` (slave). A chip is its mode, its FIFO, its flags and the
sender it is locked on; a packet that starts is heard by any subset of those
that listen (range and collision are that choice), and when it ends it may
be damaged. The interrupt of a slave runs before any other step of it,
because a high DIO0 line is served at once; the master has no interrupt, it polls.

What is abstracted: time stamps to the clock they are on (the master's boot
number, or `OwnClock`), because the question about them is whose clock they
come from; sensor values, RSSI, display and Wi-Fi are left out. `boot`, `row`,
`mBoot`, `sBoot`, `obeyed` are history: no guard reads them except the
bounds on resets.

`StarService` promises, without radios and loops: a slave obeys only commands
that were issued for it and never goes back to an older one while it stays up, its LED
shows the last, and the telemetry table holds genuine packets, each at most
once and in the order their slave made them. It promises no delivery, because
the code does not: nothing is acknowledged or repeated.

### The ring buffer

| Module | Stands for |
|---|---|
| `Fifo` | the abstract specification: a bounded queue that may refuse for want of room only |
| `CircularQueue` | `circular_queue.h`; a step is what lies between two accesses to shared memory |
| `CircularQueueProps` | the refinement mapping to `Fifo`, the inductive invariant, the properties |
| `CircularQueueMP` | `circular_queue_mp.h` on top of it |
| `MCCircularQueue` | values for TLC; `CircularQueueMP` is checked in `MCLibraries` |
| `CircularQueue_proofs` | the proofs: invariant, refinement, requeueing; those of `MultiDelegate` and `Delegate`, which come with it |

The fences of the code order the steps, so memory is taken to be sequentially
consistent. `capacity(cap)` and the moving constructor and assignment do not
compile when they are used, so they have no behaviour to model.

### The task scheduler

| Module | Stands for |
|---|---|
| `TaskChain` | `addTask` and `deleteTask`: the doubly linked list, and as history the sequence it should be |
| `TaskScheduler` | the pass of `execute()`, hooks, status requests, timeouts, iterations, the calls user code may make |
| `MCTaskScheduler` | values for TLC |
| `TaskScheduler_proofs` | the proofs: list, types and chain; pass, runs and pointers |

It is the build with `_TASK_STATUS_REQUEST` and `_TASK_TIMEOUT`, plain callbacks and
no priorities. Everything runs on one stack, so concurrency is not the difficulty; re-entry is.
`execute()` calls a callback, which may enable, disable, delete, add, construct and destroy
tasks, its own and the next one, and `enable()` and `disable()` call hooks that do the same.
`stack` holds one frame for each piece of user code that has not returned, with what
its caller saved (`current`) and still has to do (`then`), and one for each loop of
`disableAll()` and `enableAll()`.

User code is described by two constants. `Calls` is what it calls; `Liberties` is what it
permits itself that the documents do not settle:

| Liberty | |
|---|---|
| `addInPass` | add or construct a task from a callback |
| `deleteInHook` | delete a task whose `OnEnable` or `OnDisable` has not returned |
| `deleteNext` | delete the task the pass goes to next |
| `deleteEnabled` | take a task out of the chain while it is enabled |
| `startNowInside` | call `startNow()` from a callback |
| `waitForNull` | `waitFor(NULL)` on a task that is waiting |

Each run says in its cfg under which liberties its properties hold; what only the proofs cover is any of them for `TypeCorrect` and `ChainWhole`. Time is a choice: a
task that is looked at may be due or not.

### The serial port

| Module | Stands for |
|---|---|
| `SoftwareSerial` | the receiving side of `SoftwareSerial.cpp`: the interrupt of the pin, `rxBits()`, the calls that read; the line and the cycle counter as environment |
| `SoftwareSerialProps` | the types, the pace the decoder needs (`Paced`), the properties |
| `SerialTransmit` | the sending side: frames, the periods of the waveform, waiting with and without interrupts, one wire |
| `MCSoftwareSerial` | two words for TLC, one with an edge at nearly every bit and one whose last edge is that of its first data bit |
| `SoftwareSerial_proofs` | the proofs of the receiving side: parity, losses, what is read |
| `SerialTransmit_proofs` | the proofs of the sending side |

Time passes one bit of the line at a time (`BitTime`), and every edge in the queue gets older
by `m_bitCycles`, modulo the span of the counter: the code only subtracts cycles, so no clock is kept.
The interrupt reads the counter up to `Latency` cycles late, another number of them for each edge. `rxBits()` is cut at
the points where an edge makes a difference: it looks whether one waits (`Ask`), it takes the
overflow of the interrupt and makes up a stop bit for a pending word (`Check`), and it
decodes what was there, edge by edge (`EachEdge`). Each edge goes through the stages of the loop of
`rxBits(isrCycle)`, `StartBit` to `StopBit`. The queues of edges and bytes are sequences, which the proofs of
`circular_queue` justify; of the parity queue the slots are kept, because the port
writes into the slot that is not pushed yet. `of`, `at`, `arrived`, `spoilt`, `dirty`, `since` and `owing` are history:
which word an edge belongs to and which bit of it begins there, which words came out, which nobody can expect. `since` and the two bounds
below also limit how late `loop()` may be.

### TCP on the ESP32

| Module | Stands for |
|---|---|
| `AsyncTCP` | clients, the event queue and the closed slots between lwIP's thread, the service task and `loop()` |
| `AsyncServer` | `begin()`, `end()`, deletion, and connections that arrive between any two of their calls into lwIP |
| `AsyncTCP_proofs` | the proofs |

Each access to a shared field, each queue operation and each call into lwIP is a step: a task that calls
lwIP waits (`Serve`) until lwIP's thread is free, which it is not while it waits for room in the queue.
`_remove_events_with_arg` is modelled packet by packet (`RemoveEvents`, `PutBack`), because lwIP queues
packets in between; the history variable `mixed` says that it did. A handler deletes its client in `onDisconnect`, as
the examples do; neither the address of an object nor a pcb is used again.

### The other libraries

They share no state, so `MCLibraries` composes them by a variable `part` that says which one runs; the others stay
where they started. `OLEDText`, for example, has every text of up to `MaxText` characters as its initial or next
states, `TinyGPS` every way of cutting sentences.

| Module | Stands for |
|---|---|
| `CircularQueueMP` | see above |
| `Delegate` | the union of `Delegate.h`: which members are alive, over every construction, copy, move and assignment |
| `MultiDelegate` | the list of nodes, its iterator, recycling, moves and destruction |
| `AsyncTCPbuffer` | the chain of send buffers, the receive buffer and its readers |
| `SyncClient` | the blocking client and the printer: what waits, and the callbacks that run meanwhile |
| `ESPAsyncTCP` | the client on the ESP8266 and its error tracker; a callback with all it calls is one step |
| `TcpSsl` | the list of TLS sessions, the packets they own, what a write counts |
| `TinyGPS` | terms, staging, checksum, commit, custom elements |
| `OLEDDisplayUi` | frames, transitions, the time budget, manual control |
| `OLEDDisplay` | the shapes by the pixels the code touches, against the pixels they should have; `display()` |
| `OLEDText` | line breaks, alignment and cursor, the log buffer |
| `FileSystem` | `File` objects over stdio, their sizes, names and directories |
| `LoRaRegisters` | the settings in the registers of the radio, the FIFO pointer |
| `TaskTime` | due times, delays and timeouts of `TaskScheduler` on a clock that wraps |
| `EspNow` | the three ESP-NOW sketches, `loop()` and callbacks on two tasks |
| `LibrariesKept` | what the parts keep, those of one library together |
| `Network_proofs`, `Libraries_proofs` | the proofs of all parts but the display; those of `MultiDelegate`, `Delegate` and `CircularQueueMP` are in `CircularQueue_proofs`, those of `SerialTransmit` in `SerialTransmit_proofs` |

A byte of the display is the set of its lit bits and a shape the set of pixels its bytes change, so that a wrong mask shows as a
wrong pixel. Bytes of a stream are numbered in the order they are written, a GPS value is the number of its
sentence, an ESP-NOW message that of its round: order, loss and mixing are what the properties tell apart.
Where the code has undefined behaviour (a call through a client that a handler deleted, a full directory that is removed), the head of the
module says what a sketch must not do; section 5 says what happens if it does.

## 3. Runs

| Run | Instance | Shows |
|---|---|---|
| `star_pair` | two slaves, a reset of the master at any point, a packet and a command in each of its boots, one reply each | time stamps, FIFO, listening, and the service, when slaves hear each other |
| `star_live` | one slave, two replies, damage, a reset of it at any point, fairness | every packet for a slave is answered, `endPacket()` returns, and the service holds over resets |
| `star_stale_command` | one slave | finding 1 |
| `queue_fifo` | capacity 3, blocks up to 3, two values, a fair consumer | it is a FIFO queue, slots are not shared, the consumer's calls end |
| `queue_requeue_race` | capacity 3, pushes inside `for_each_requeue` | finding 2 |
| `sched_hooks` | two tasks of two iterations with both hooks, three calls deep | no bad pointer, `iCurrent` is right, tasks run as often as set, a pass looks at every task that stays once and in order |
| `sched_requests` | two tasks for ever, one request and the tasks' own, `enableAll` and `disableAll`, tasks destroyed, fairness | waiting tasks are let go, a pass ends, enabled tasks run |
| `sched_delete_in_hook` | two tasks, `OnDisable` destroys its task | finding 3 |
| `serial_reader` | two words, an edge buffer of two, one byte of room, jitter, one `enableRx(true)` | words are read as they were sent, once, in order and in time; losses are told; parity bits stay in step |
| `async_tcp` | two clients, each accepted, the first of them or connected by `loop()`, which may close and abort it; one slot, a queue of three packets, fairness | slots are accounted for, events keep their order, a deleted client is not used but in the cases below, every end of a connection is told |
| `libraries` | seventeen parts, see the bounds | one invariant for each library, below |
| `serial_parity` | words of 7 bits with even parity | finding 4 |

`DeletedAtRest` says less than that a deleted client is never used. It holds while lwIP queues no packet in the middle of a removal, and for
the clients that are not in the history variable `exposed`: those `loop()` connected, those `loop()` wrote to, closed or aborted, and those whose
FIN lwIP's thread handled after `_close()` had tested `_pcb` and before it took the callbacks away. For each of these the code does
use a deleted client; section 5 has the steps. What is left are the clients of a server that only callbacks, timeouts, the peer and errors end,
whatever `loop()` does with others at the same time.

The invariants of `libraries`: `NothingLost` (a requeue loses nothing while producers push between its calls only);
`DelegatesKept` (a delegate holds the member of its kind, constructed once, and calls what it was given; the nodes of a list are
never lost or shared, and a call calls each delegate that was there, once, in order); `StreamsKept` (bytes leave and arrive in order,
none lost or doubled, and the window does not stay closed); `EspClientKept` (if no handler calls `abort()`, a callback returns ERR_ABRT exactly if the connection
was aborted in it, nothing touches a deleted client, unacknowledged bytes are those lwIP holds); `OnlyChecked` (a committed value came in a
checked sentence, a location in one with a fix); `DisplayKept` (pixels, text, frames); `TlsKept` (packets freed once, a write counts what was written);
`FilesKept` (no descriptor leaks, sizes and answers are true); `RadioKept` (each setting is what was last asked, whatever was set after it);
`TransmitKept` (the line carries the bytes for as long as they should last, the shared pin has one driver); `TimesKept` (a task is due
when it should be, and so is its timeout, over every wrap of the clock); `NetworkKept` (the display shows whole messages; a server and what listens
agree, no connection is lost).

`CHECK_DEADLOCK FALSE` stands in `sched_delete_in_hook` and `sched_requests`, whose user code makes the library follow a
dangling pointer (in the second, the request of a destroyed task that another waits for): the program has ended then; in `async_tcp`, where all connections end and the threads may jam;
and in `libraries`, where several parts come to their end. Everything else is checked for deadlock.

Bounds, all named in the modules. Star: `MaxMsgID` packets built by the
master, `MaxRows` commands of the server, `MaxBoots`/`MaxResets` boots,
`MaxReplies` replies of a slave. A packet in each of two boots is enough for a
stale one to meet a newer one, one command for it to be sent again, two
slaves for one to hear the other, two replies for a packet to come while an earlier one is answered,
one reset of a node for every global to be lost in every state. The proofs need none of this: the bounds there are any values.
Queue: with four slots and blocks of three, a block wraps in one and in two
pieces, the queue gets full and empty at every position, and
`for_each_rev_requeue` has three elements to keep or drop; two values tell the
elements apart as far as order can be confused, since the code never looks at them.
Scheduler: `MaxDepth` is the depth of calls, `MaxCount` the events a request waits for. Longer chains
are for the proofs; depth 3 is a callback, a hook
it causes and a hook that one causes, which is where `iCurrent` has two values to restore.
The iterations are two in `sched_hooks` and for ever in `sched_requests`, since the code tests for zero and for negative.
Serial port: words of two bits, with parity and one stop bit, three cycles to a bit, a counter of 5 bits, a bit
count of 3, bytes of 2, an edge buffer of two and room for one byte, so that each of them wraps or overflows with
two words on the line. Three words without `enableRx` (13 million states, `MaxSent` 3, `MaxSwitches` 0) and larger
buffers hold as well. Two bounds describe the program around the port and are part of the result.
`MaxPause`: at most one bit time begins between the two reads of `rxBits()`; with two, `NoneMissing` is
violated, because the edges of a word may arrive after `available()` said there are none, and the stop bit made up
for it cuts the word in two, which no flag tells. `PollWithin`: an unfinished word is looked at before the
bits since its last edge overflow their `uint8_t`; up to `BitSpan` - 1 bit times everything holds, with
`BitSpan` (256 on the device, 27 ms at 9600 baud) `NoneMissing` is violated.
TCP: one slot for two clients is the resource they fight for; a queue of three is full with an event of each client and
a CLEAR, which brings the jam within reach. In `async_tcp` callbacks call nothing, and a timeout in a callback closes the client; with writes, closes and aborts from callbacks
and connects and closes from `loop()`, its three invariants hold over the 9.4 million states.
Libraries: a little more than the code can confuse: three nodes and a capacity of three for a list that is added to, erased and moved, two
sessions and two packets, two `File`s for two descriptors and a directory, two servers and two pcbs on one port, one round of each ESP-NOW
sketch. Numbers are cut down with their types: a clock of 6 values, with delays and timeouts below half of it, wraps
in every state of a task; lengths are modulo 4, the cursor modulo 5; a display has 3 columns of 3 bytes, with coordinates
that begin above, inside and on the last row, and lengths that end within a byte, on its edge and below the display.
Registers of the radio have their 8 bits.

Fairness. Star: `loop()` is called for ever (weak fairness of the steps a loop
is made of), a raised interrupt is served, a packet being sent comes to its end.
The slave's loop has strong fairness: an interrupt suspends it and each packet
takes about a second of airtime against microseconds of handler, so it gets the
processor between any two interrupts; under weak fairness an
endless train of packets could starve it, which the hardware excludes. A reset or a packet
need never come. Queue: the consumer's steps only (weak): interrupts return, and the loop they
interrupt goes on, however often the producer pushes or if it never does. Scheduler: `loop()` calls
`execute()` for ever, whatever else it calls (strong fairness of `execute`), and user code returns (weak fairness of `Pass`, `Returns`, `AllLoop`); a task that
is looked at again and again is found due at some of these times (strong fairness of `Run` for each task), because its
delay passes. Nothing makes user code call anything. `PassEnds` is checked for callbacks that add no task: two that take
themselves out of the chain and add themselves at its end can keep one pass going. TCP: while lwIP's thread has a packet
to queue or a call to serve, or a task has a step to take, one of the three goes on (weak fairness of their disjunction, less than what the scheduler gives each
of them). No peer need answer and `loop()` need not call. The libraries have no liveness property.

## 4. Proofs

Assumptions on the constants: the node table is a non-empty sequence of ids that are not the master's
(`SlaveNodeAssumption`), `NoPacket` is no packet (`RadioAssumption`), the
buffer has at least one slot and there is a value (`BufSizeAssumption`), NULL is no task (`TasksAssumption`), and the tasks with hooks and timeouts are
tasks, requests are not (`SchedulerAssumption`), a word fits the bytes and the bit count of the port and a latency is shorter
than a bit (`PortAssumption`), and there are slots and room in the queue of `AsyncTCP` (`AsyncAssumption`). In the libraries, NULL is no
server and the root no path, sizes and counts are numbers (`ServerAssumption`, `TlsAssumption`, `FileAssumption`, `StarAssumption`), a delay or a timeout, with the time by which a task is late at most, stays below
half of the clock's span (`TimeAssumption`), a custom element is none of the parser's own (`GpsAssumption`), lwIP's send buffer is
smaller than the span of a length (`EspAssumption`), a transmit power has 8 bits and a frequency fits its three registers (`RegisterAssumption`), a list has nodes and
NULL is none of them (`NodesAssumption`), sizes of buffers and windows are numbers (`StreamAssumption`, `SyncAssumption`), and a word has bits, no more than a byte
(`TransmitAssumption`). `PowersOfTwo` and `Doubling` are no assumptions on the code but the law of powers for the few exponents that occur, which the provers do not compute. TLC evaluates all of them.

A theorem of the form `A /\ Spec => []P` has a further assumption `A` on what the program around the code does; each is a constant of the
model whose other value is a run that violates `P`, a bound of section 3, or a line of section 5.

**Star network** (`StarNetwork_proofs`). `Invariance` proves `IInv`, a conjunction of

- `TypeOK`;
- `RadioInv`: mode and flags of a radio agree with its node's place in `loop()`.
  Without it nothing excludes that a packet changes in the FIFO it is sent from;
- `LockInv`: a receiver is locked only on somebody who is sending, so what arrives is what is
  in the sender's FIFO now; a good packet's flag means a packet is there;
- `PacketInv`: every packet anywhere was built by a node: the master's are copies of server
  rows on the clock of one of its boots, the slaves' are telemetry for the master;
- `SyncInv`: a slave with a reply to make has its clock from a packet;
- `ObeyInv`: obeyed, arrived, about to be sent: in this order no newer;
- `OrderInv`: stored, arrived, unsent, not yet built: each made before the next.

Each part is proved preserved by lemmas per node (`MasterObey`, `SlaveObey`, ...) that rest on
lemmas about the driver's operators (`ReceivedEffect`, `ParsePacketEffect`, ...).
From it follow `TypeCorrect`, `TimeSync`, `FifoSafe`, `Listen`, and `Implements`: every step of the
network is a step of `StarService` or changes nothing it sees.

**Ring buffer.** `CircularQueue_proofs` proves `QueueInv` (what the producer has
checked stays true because the consumer only makes more room; the consumer's
positions stay in order between `m_outPos` and `m_inPos`, and what it has read is still there)
and from it `SlotsApart`. On it rests `IsQueue`: `Contents` reads the
queue off the buffer through `Place`, which during `for_each_rev_requeue`
has three pieces (unvisited, kept, pushed since), and each step of the buffer is one of `Fifo` or a stutter.

`NothingIsLost` is about producers that take turns at the mutex and a consumer that requeues. `OwedInv` says that
the elements still owed are those in the buffer from `First` on, which is `m_outPos` except between the answer of the callback and
the store of `m_outPos`, where it is the slot behind; `RequeueInv`, that the end of the requeue lies ahead of it. The
theorem needs that no push begins inside `for_each_requeue` (`~PushDuringRequeue`), and `queue_requeue_race` shows that it does.

**Task scheduler.** `TaskScheduler_proofs` proves first that `addTask` and `deleteTask` keep `ChainInv`:
first, last and both links of every task are those of a sequence without duplicates. Then it
reduces every step to a typed one that touches the chain through these two only (`NextGood`),
which gives `TypeCorrect` and `ChainWhole` for any `Calls` and any `Liberties`. What comes after it assumes
`Careful` (neither `deleteNext` nor `startNowInside` is among the liberties) and proves
`PassInv`, the conjunction of

- `StackInv`: what `execute()` itself called is at the bottom of the stack, and only there;
- `NestInv`: each frame saved the task of the user code below it, so that restoring
  in reverse order restores what was there;
- `WholePass`: what was in the chain all along is seen if it is before the task the pass goes on at, and not otherwise.

The steps are first sorted into the few kinds that matter (`UserStep`, `PassStep`, `PassReturn`, `NoStep`), and the
invariant is proved for those. `PassIsWhole` and `CurrentKept` follow. Without
`Careful` both are false, which the code itself shows at lines 956 and 841.

`RunsAreAsSet` says that the callback of a task has run as often as its iterations were set, less those to go. Its invariant `RunInv` has
one exception, a task whose `restart()` waits for a hook to return (`Restarting`), which has begun anew with no run;
each step treats a task in one of a few ways, and each of them keeps the sum. It needs no assumption on the program.
`NoBadPointer` says that no step follows a pointer to a task that is destroyed or NULL, for programs that are `Prudent`: `Careful`, no
task destroyed in its own hook or while it is enabled and out of the chain, and no task destroyed at all where others
wait for one. `FaultInv` adds to `NoFault` that the chain and the frames on the stack hold tasks that exist (`Safe`), and that what is enabled is in
the chain and what waits has a request to wait for (`TasksSafe`). `sched_hooks` runs a prudent program, `sched_delete_in_hook` one that is not.

**Serial port.** `SoftwareSerial_proofs` proves `ParityStaysInStep`: the mask of the next parity bit and
the number of parity bytes are remainder and quotient of the position of the first one plus the bytes that wait.
It is inductive with the types of the positions and the limit of the byte queue, which also gives that the push of
a full parity byte finds room (`ParityRoom`). The steps are `StoreKeeps`, `TakeKeeps` and `FlushKeeps`, on lemmas on
quotients and on rings. `LossesTold` proves that a loss leaves a flag, from what `rxBits(isrCycle)` does to `m_overflow`
(`TakeEdgeStores`). Both use `PortAssumption` alone, so neither needs the bounds on the pace of `loop()`.

What is read does need them. `ReadsAsSent`, `NoWordIsMissing`, `WordsComeInOrder` and `QuietLineEndsWord` hold for every format, rate, size of the
queues and list of words under `Paced`: an interrupt is late by less than half a bit, which is what the rounding in
`rxBits(isrCycle)` bears; at most one bit begins between the two reads of `rxBits()`; an unfinished word is looked at before
its bits overflow their count; and the counter spans as many bits. The first is the rate the port is used at, the next two are the bounds on `loop()` above,
without which TLC finds words lost, the last is 2^32 cycles against the 255 bits of a count of 8 bits.
`MCSoftwareSerial` assumes it, so TLC evaluates it on the instance. The invariant is `ReceiverInv`, which was checked on small formats before it was proved:

- `LineInv`: what is left of the word on the line are its levels from `Pos` on;
- `HistoryInv`: how long edges have waited, and when the line is `dirty`;
- `OrderInv`: the edges wait in the order of words, and each has the level of the bit `at` which it begins;
- `PairInv` and `LatestInv`: of two edges in a row the second comes as many bits after the first as their cycles say, and the levels between them do not
  change (`Steady`); the last edge and the line now are such a pair;
- `DecoderInv`: what the decoder has of its word are the bits before the `at` of its last edge (`Has`), and no later word has arrived;
- `CallInv`: an edge that came between the two reads of a call is one, at most a bit old.

`BitTimeKeeps`, `ByteCallsKeep`, `CheckKeeps`, `EachEdgeKeeps` and `SwitchKeeps` show it for each action. That an edge
shifts in as many bits of one level as the word has there is arithmetic on the low bits of a byte (`LowBits`).
`WordsInv` adds that the bytes that wait and their bits in the parity queue are those of the words, which needs `ParityInv` for
their slots; from it follows `ReadAsSent`.

**TCP.** `AsyncTCP_proofs` proves `SlotsAreAccounted`, for any number of clients, slots and packets: a slot is taken exactly while a live client
holds it, and by that one only. `SlotInv` adds that an object that is not alive holds none (`Unheld`); `WorkTypes` adds what the steps need of
packets and tasks, above all that a step that ends a client's life (`GoodbyeKeepsSlots`) gives its slot back first. There is a lemma for each
thread (`ServiceKeeps`, `LwipKeeps`, `NetworkKeeps`, `LoopKeeps`) and for what tasks share (`StepKeeps`).

`OrderIsKept` and `DeletedIsAtRest` follow from `OrderInv`. As long as lwIP has queued nothing in the middle of a removal (`~mixed`), `QuietInv(exposed)` holds:

- `QueueInv`: the queue is a rotation of itself in order, cut where the removal has come to (`Cut`, `Ordered`), and what
  was put back is of other clients (`Swept`);
- `NumbersInv`: what waits for a client lies between the last event it has seen and the last there is, and what lwIP's thread is
  about to queue comes after it;
- `TaskInv`: a call of a task into lwIP is one that the task waits for;
- `ClientInv` for each client that is not in `exposed`: what its connection is follows from the packets and steps that are still to
  come (`ConnectionInv`, `PacketInv`), and when it is closed or its program deletes it nothing of this is left (`CloseInv`).

Most steps concern one client: `Elsewhere` shows once that all others keep their `ClientInv`. `exposed` grows while the program runs, so the lemmas about steps hold it
fixed at what it is after the step (`O`), and `QuietWeakens` says that less is to be kept for a larger one.

**Libraries.** One inductive invariant for each part, and a lemma for each of its steps.

- `EspNowIsKept`: `StarInv`, in which the display has copied exactly the fields up to `recvPc` (`RecvInv`) and shown those up to where
  `updateDisplay()` is (`ShowInv`), and frames travel between peers only (`HearInv`).
- `ServerIsKept`: `ServerInv`. While `quiet`, a server's pcb is its own as far as `begin()` or `end()` has come with it (`HoldInv`), and a connection that waits
  is in one packet, of a server that can take it (`WaitInv`). `NetworkIsKept` is both.
- `TlsIsKept`: `TlsInv`. Sessions differ in number and connection (`SessionsInv`), contexts are counted by their sessions (`BooksInv`), only the session that
  is being read has a packet (`PacketInv`), and what a write has counted is with the session it writes (`WriteInv`).
- `FilesAreKept`: `FileInv`. What an open object tells of its path and size is what the file has, the size only while the cached
  one is valid, and every descriptor is that of an object (`DescriptorsOwned`).
- `TimesAreKept`: `TimeInv`. The difference of clock and start, taken with its wrap, is the delay less the time to go; from this follows that differences
  are compared rightly at every wrap.
- `OnlyCheckedIsRead`: `GpsInv`. What the sentence has given is staged under its number (`StagedInv`), what is committed came in one accepted (`CommitInv`), and the
  list of custom elements is sorted, without which `Candidates` would miss one.
- `EspClientIsKept`: `EspInv`. Between callbacks no abort is left untold, a connection lwIP knows has a client that can still tell of its end, and
  the bytes counted as unacknowledged and unsent are those lwIP holds. It needs that no client is connected again after an abort (`~Reuse`), and `Handler` lets a
  handler do nothing, close or delete its client, not call `abort()`: the theorem says nothing of `SyncClient`'s data handler when it
  runs out of memory (SyncClient.cpp:292), where the code breaks the promise of ESPAsyncTCP.cpp:339-340 (section 5).
- `RadioIsKept`: `SettingsInv` and `ReadInv`. A register is written through one field of it (`WithField`), and the fields of each register are shown
  apart (`Modem1Fields` and the lemmas after it); an `Effect` lemma says for each setter what its setting becomes and which registers stay, and
  `SettingsApart` that the other settings stay with them.
- `DelegatesAreKept`: `DelegateInv`, by which a union holds the member of its kind and no other, and `MultiInv`: the nodes an object has listed are a chain in the
  order in which their delegates were added, its unused ones are a chain too, in order of a rank, and the chains of all objects are apart and together the nodes there
  are (`Placed`). During a call the iterator stands at a listed node behind all that were called and before all that must be (`Calling`). The links are followed by
  a recursive function; `Covered` and `ReachIsChain` show that it meets exactly the nodes of the chain.
- `StreamsAreKept`: for the send buffer `TxInv`, by which what lwIP has and what waits in the chain is what was written (`TxFlow`) and no chunk but the last is empty
  (`ChainInv`), and `RxInv`, by which what the readers have, what is left and what is on its way to them is what was received; for `SyncClient` `SyncInv`: `RxPart` says the same of its
  chunks, `AckPart` that no more is acknowledged than waits, `PutPart` that a write in its loop has put what it need not send any more. A chain is flattened and its lengths are summed
  by recursive functions; what they give for one chunk more or less is proved with a least counterexample.
- `TransmitIsKept`: `TransmitInv`. Between two bytes the levels driven so far (`Driven`), with the periods that are counted and not yet driven (`Runs`), are those of the frames sent so far
  (`Sent`), and `InFrame` says the same within a frame. Interrupts are on only where the line is `Calm` up to the end of a frame. The loop over the bits is
  followed by a least counterexample. The byte that `write()` inverts has inverted bits, an even number of which have the parity of the byte: `TransmitKept`
  speaks of the parity of words of even length only (finding 4).

Only model-checked:

- liveness (`ReplyEventually`, `LoopReturns`, `ConsumerEnds`; `PassEnds`, `WaiterLetGo`,
  `EnabledRuns`; `EveryGoodbye`): the prover has no fairness;
- `DisplayKept`, whose circles are loops over their pixels and whose text is folded over its characters: each shape would be an induction of its own;
- the violations below.

## 5. Findings

1. *A stale command is sent again* (`star_stale_command`). `getDataFromServer` leaves the
   transmit packet alone on any answer but 200, and `send()` transmits it. The master's
   Readme says a packet that is not new is ignored and the master builds its own. The
   order is still safe (`StarService` holds): what is repeated is never older than what the slave obeyed.
2. *A push into `for_each_requeue`* (`queue_requeue_race`). On a full queue the requeue stores
   `m_inPos` = `m_outPos` and gives the mutex up before it stores `m_outPos`: the queue looks
   empty, and a push overwrites it.
3. *A task that is destroyed in its `OnDisable`* (`sched_delete_in_hook`). `disable()` goes on through the
   `iScheduler` of the task, which `deleteTask` has set to NULL. The header announces support for
   self-destruction in `OnDisable`, and example 20 does it.
4. *Parity of words with 5 or 7 bits* (`serial_parity`). `write()` computes the parity of the inverted byte and takes the opposite one, which is
   right for an even number of bits only. The README of the library offers every combination and names 7E2.

Also seen while translating, with no run of their own: `onReceive` takes the clock from every
packet, another slave's too, though its comment says the master's (it is the master's
in the end, `StoredTimesAreMasters`, but late); `endPacket` leaves an `RxDone` standing that was raised after the last
`parsePacket`, and the next one then returns the master's own packet, which is dropped only for its addressee;
a callback that destroys the task the pass goes to next leaves `nextTask` dangling;
a task that waits for the status request of a task keeps its pointer when that task is destroyed, and the pass follows it (`sched_requests`); `startNow()` from a callback
leaves `iCurrent` at NULL; an enabled task that is taken out of the chain and
then destroyed goes through a NULL `iScheduler`; the status request of a task that its own `OnDisable` starts
again is completed all the same; `waitFor(NULL)` on a waiting task clears one of two fields that belong together. In
`SoftwareSerial`: the two cases under *Bounds* above; `end()` leaves `m_rxValid` set with the
buffers gone; a word that ends in bits of the stop level needs a second call if edges waited when
the first was made; the branch for further stop bits (lines 472-476) is never taken, since the first one ends the word.

In the libraries, where the modules exclude it or their properties say "unless":

- `AsyncTCP`: on a full queue lwIP's thread and the service task can wait for each other for ever (`Jam`): `xQueueSend` has no
  timeout, and the service task may be inside a call that lwIP's thread must serve. `_remove_events_with_arg` can put the events of other
  clients behind newer ones. A client that connects has slot -1, so the check against a reused pcb does not cover it.
  `_error` and a second `connect()` lose a pcb, `_free_closed_slot` takes no lock, and CLEAR removes the events of a new
  client at the same address. A deleted client is used in three cases (the clients in `exposed`). (1) lwIP holds a RECV of an accepted client while `loop()` closes it, and the
  service task handles CLEAR before the RECV is queued: `onDisconnect` deletes the client, then the RECV is handled. (2) lwIP's thread handles a FIN when `_close()` has tested
  `_pcb`: the calls that take the callbacks away do nothing, the FIN is queued behind CLEAR and reaches the client that
  `onDisconnect` has deleted. (3) The FIN of a client that connects comes before its CONNECTED was handled: `_lwip_fin` finds no `_pcb` and closes nothing, CONNECTED then sets
  it, and the deletion in `onDisconnect` closes the connection and calls `onDisconnect` again.
- `AsyncServer`: after a failed bind `_pcb` is left dangling, so that `begin()` does nothing and `end()` closes it again; after a failed listen
  the bound pcb is lost and keeps the port. `end()` takes away the argument before the callback, so that an accept in
  between is called with NULL; ACCEPT packets of a deleted server are handed to it.
- `ESPAsyncTCP`: a client that is connected again after an abort returns the wrong error to lwIP (`Reuse = TRUE` violates
  `EspClientKept`); an `abort()` called by a handler, as SyncClient.cpp:292 does, has lwIP call `_error` before it sets ERR_ABRT, so the callback returns ERR_OK after an abort, against the comment at ESPAsyncTCP.cpp:339-340, and a client that `onDisconnect` deletes is used; the counts of unacknowledged bytes survive a
  reconnect; a connect that fails after the name was resolved is told to nobody.
- `AsyncTCPbuffer`: `stop()` leaves the client's callbacks pointing to a deleted buffer, and a connection lost to the peer never calls the
  done callback. `SyncClient::write()` begins anew at the start of the data after each wait, and loses what the client does not take;
  `AsyncPrinter` panics exactly when its buffer was allocated; chunks of an old connection are acknowledged on the new one.
- TLS: freeing with no session dereferences NULL; a handler that frees its own session leaves `tcp_ssl_read` with freed memory.
- `TinyGPS++`: a sentence that leaves a field empty commits what was staged before, be it by a sentence that failed its checksum.
- `OLEDDisplay`: shapes drawn with INVERSE touch some pixels twice, `fillCircle` leaves the rightmost pixel out, an image byte that begins
  above the display is not drawn, a centred text counts blank lines that are not drawn, the cursor of a line wraps after 255 pixels, and `setLogBuffer`
  with no room keeps the old size with the buffer gone. `OLEDDisplayUi`: manual control during a transition loses the automatic direction, and
  `switchToFrame` during one leaves the next frame stale; the time budget of 8 bits wraps after 161 ms.
- `MultiDelegate`: a move assignment leaks the nodes of its target, assigning `nullptr` leaves the pointers to deleted nodes, a callback that erases
  itself or an earlier node corrupts the list, and the guard against recursion is shared by all objects of a type.
- `FS`: `size()` between a write and its flush fixes the old size; a failed `open` converts to true; with no descriptor left
  `exists()`, `remove()` and `rename()` say no.
- `TaskScheduler`: delays of half the clock's span and more make `timeUntilNextIteration` zero, and `setTimeout` without reset counts from whatever
  start was last set; a task whose `OnEnable` refuses when it is enabled again leaves its status request open.
- ESP-NOW: a node whose `setup()` stopped early still acknowledges what it never reads; a display that is written while a message
  arrives shows parts of both; the status shown is that of an earlier frame.

## 6. Not modelled, and why

- `MAX6675`, `TokenIterator`, the Heltec board class, `ghostl.h`, fonts: bus transfers, a string walk, tables.
- The other `ComponentCodes` sketches: input and output around one call.
- `Painless_Mesh`, `SPIFFS`: examples and documentation only, the source is absent. Examples of the libraries.
- `ESPAsyncTCP`: the server and its pending TLS connections (the TLS build of it does not compile), key files, the getters.
- `AsyncTCP`: start and stop of the service task, the getters, a pcb whose address lwIP uses again. The five calls of `_close()` from `tcp_arg` on are one step: a FIN between
  `tcp_arg` and `tcp_recv` would call `_lwip_fin` on NULL. A FIN after them, which lwIP answers itself, is no event of the model.
- `SoftwareSerial`: `rxBitSyncISR` for rates above what edges can carry, `readBytes`, `onReceive`.
- `OLEDDisplay`: `drawRect`, `drawXbm`, `drawProgressBar`, the commands to the panel; `OLEDDisplayUi`: where frames and indicators are drawn.
- `LoRa`: preamble, sync word, RSSI, sleep, and the SPI transfers, which interrupt and `loop()` share.
- `TaskScheduler`: layered priorities, object callbacks, the idle sleep, load counters.
- `capacity()` of the queues, which does not compile when used; the locks of `MultiDelegate`.
- Numbers on clocks in the star network: `syncMillis` subtracts a signed from an unsigned 32-bit clock; the model has
  the clocks' identities only.

## 7. What could follow

The shapes and texts of the display (`DisplayKept`) are the invariant without a proof; each shape needs an induction over its pixels. The server of `ESPAsyncTCP` shares its pcb and pending list with
lwIP's callbacks and would be the next module once it compiles. The time synchronisation of a slave as numbers is the largest gap in the star network.
