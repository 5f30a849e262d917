------------------------------ MODULE AsyncImpl ------------------------------
(***************************************************************************)
(* AsyncImpl and its serial-port subclass SerialImpl                       *)
(* (src/util/AsyncImpl.cpp, src/util/BufferedSerial.cpp): a port that one  *)
(* client thread opens, writes, reads and closes, and that an io_service   *)
(* thread (a "runner", one per open()) serves by running the handlers the  *)
(* class posts.  boost::asio is external: its ready queue, its reactor and *)
(* the cancellation done by serial_port::close() are modelled from how the *)
(* class relies on them.                                                   *)
(*                                                                         *)
(* Code under write_mutex or read_mutex is one step; everything else that  *)
(* two threads can see separately is a step of its own.                    *)
(***************************************************************************)
EXTENDS DelimSearch, FiniteSets

CONSTANTS
    Byte,            \* what client and device send
    Junk,            \* a byte read from freed memory: any value at all
    Nul,             \* what memset leaves in read_buffer
    Outgoing,        \* the data of the successive write() calls
    DeviceOut,       \* what the device sends, in order
    Delim,           \* the delimiter given to readStringUntil
    ReadBufferSize,  \* read_buffer_size
    MaxOpens         \* bound on successful open() calls

ASSUME SizesAssumption == ReadBufferSize \in Nat \ {0} /\ MaxOpens \in Nat \ {0}
ASSUME DataAssumption ==
    Outgoing \in Seq(Seq(Byte)) /\ DeviceOut \in Seq(Byte) /\ Delim \in Seq(Byte)
ASSUME ByteAssumption == Junk \notin Byte /\ Nul \notin Byte

VARIABLES
    is_open, error,             \* the two atomics of the class
    serial_open,                \* serial.is_open(): the descriptor exists
    stopped,                    \* io_service: stop() called, reset() not yet
    ioq,                        \* io_service: handlers ready to run, FIFO
    runner,                     \* what the thread of each open() is doing
    readOps, writeOps,          \* reactor: reads pending; bytes left to write
    read_buffer, read_queue,
    write_buffer, write_queue,  \* write_buffer_size = Len(write_buffer)
    client,                     \* where the client thread is
    opens, written,             \* calls so far: open() that succeeded, write()
    pos, taken,                 \* bytes of DeviceOut received, given to client
    accepted, wire,             \* history: bytes write() took, bytes sent
    closed,                     \* history: a close() got past its is_open test
    torn,                       \* history: a close() freed a write_buffer in use,
                                \* or an empty write() left it looking free
    faulted                     \* history: the device failed an operation

portVars   == <<is_open, serial_open>>
ioVars     == <<stopped, ioq, runner, readOps, writeOps>>
readVars   == <<read_buffer, read_queue, pos, taken>>
writeVars  == <<write_buffer, write_queue, accepted, wire, written>>
clientVars == <<client, opens>>
ghostVars  == <<closed, torn, faulted>>
vars == <<portVars, error, ioVars, readVars, writeVars, clientVars, ghostVars>>
------------------------------------------------------------------------------
Runners == 1..MaxOpens

\* A handler bound and posted, or started by a completed operation:
\* readOk/readFail are finishRead without/with an error code, writeOk and
\* writeFail likewise; n is finishRead's bytes_transferred.
Task(call, n) == [call |-> call, n |-> n]
Calls == {"startRead", "startWrite", "readOk", "readFail", "writeOk", "writeFail"}
Tasks == [call : Calls, n : 0..ReadBufferSize]

\* Besides running a handler, a thread is not yet started, in the loop of
\* io_service::run, doing I/O on the descriptor, or returned.
Place(p) == Task(p, 0)
Places == {Place(p) : p \in {"none", "poll", "io", "exited"}}

At(call, step) == [call |-> call, step |-> step]
Idle == At("none", "idle")
ClientStates ==
    {Idle, At("write", "locked"), At("read", "locked"),
     At("close", "reset"), At("close", "port"),
     At("open", "reset"), At("open", "port"),
     At("open", "configure"), At("open", "start")}

Moves(i, task) == runner' = [runner EXCEPT ![i] = task]
Posts(task) == ioq' = Append(ioq, task)

\* write_buffer.reset() while operations still point into the old array.
Freed(ops) == [k \in DOMAIN ops |-> [j \in DOMAIN ops[k] |-> Junk]]

Repeat(task, n) == [k \in 1..n |-> task]

Init ==
    /\ is_open = FALSE /\ error = FALSE /\ serial_open = FALSE
    /\ stopped = FALSE /\ ioq = <<>>
    /\ runner = [i \in Runners |-> Place("none")]
    /\ readOps = 0 /\ writeOps = <<>>
    /\ read_buffer = Repeat(Nul, ReadBufferSize) /\ read_queue = <<>>
    /\ write_buffer = <<>> /\ write_queue = <<>>
    /\ client = Idle /\ opens = 0 /\ written = 0
    /\ pos = 0 /\ taken = 0 /\ accepted = <<>> /\ wire = <<>>
    /\ closed = FALSE /\ torn = FALSE /\ faulted = FALSE
------------------------------------------------------------------------------
(* Mistakes one could make in the operations below, each in its own        *)
(* operation: what the properties must notice.  No behaviour of Spec uses  *)
(* them.                                                                   *)

\* write() without the test of write_buffer_size: it always starts a write.
WriteLockedAlwaysStarts ==
    /\ client = At("write", "locked")
    /\ write_buffer' = Outgoing[written + 1]
    /\ writeOps' = Freed(writeOps)
    /\ Posts(Task("startWrite", 0))
    /\ accepted' = accepted \o Outgoing[written + 1]
    /\ written' = written + 1
    /\ client' = Idle
    /\ UNCHANGED <<portVars, error, stopped, runner, readOps, readVars, write_queue,
                   wire, opens, ghostVars>>

\* readStringUntil() that erases up to the delimiter and leaves it behind.
ReadLockedKeepsDelim ==
    /\ client = At("read", "locked")
    /\ \/ \E p \in FirstHit(read_queue, Delim) :
            /\ taken' = taken + (p - 1)
            /\ read_queue' = SubSeq(read_queue, p, Len(read_queue))
       \/ /\ FirstHit(read_queue, Delim) = {}
          /\ UNCHANGED <<taken, read_queue>>
    /\ client' = Idle
    /\ UNCHANGED <<portVars, error, ioVars, read_buffer, pos, writeVars, opens,
                   ghostVars>>

\* close() without its early return.
CloseBeginUnchecked(call) ==
    /\ client = Idle
    /\ call = "open" => opens < MaxOpens
    /\ stopped' = TRUE
    /\ closed' = TRUE
    /\ client' = At(call, "reset")
    /\ UNCHANGED <<portVars, error, ioq, runner, readOps, writeOps, readVars,
                   writeVars, opens, torn, faulted>>

\* A failed _configure() that leaves an error code behind for the next open().
ConfigureThrowsSticky ==
    /\ client = At("open", "configure")
    /\ serial_open' \in {serial_open, TRUE}
    /\ error' = TRUE
    /\ client' = Idle
    /\ UNCHANGED <<is_open, ioVars, readVars, writeVars, opens, ghostVars>>

\* _configure() that starts reading itself, as open() will do again.
ConfigurePosts ==
    /\ client = At("open", "configure") /\ ~serial_open
    /\ serial_open' = TRUE
    /\ is_open' = TRUE
    /\ Posts(Task("startRead", 0))
    /\ client' = At("open", "start")
    /\ UNCHANGED <<error, stopped, runner, readOps, writeOps, readVars, writeVars,
                   opens, ghostVars>>

\* The thread runs AsyncImpl::run(), which looks at is_open, instead of
\* io_service::run().
ExitWhenNotOpen(i) ==
    /\ runner[i] = Place("poll") /\ stopped /\ ~is_open
    /\ Moves(i, Place("exited"))
    /\ UNCHANGED <<portVars, error, stopped, ioq, readOps, writeOps, readVars,
                   writeVars, clientVars, ghostVars>>

\* finishRead that copies the whole of read_buffer, not bytes_transferred.
FinishReadWholeBuffer(i) ==
    /\ runner[i].call = "readOk"
    /\ read_queue' = read_queue \o read_buffer
    /\ Posts(Task("startRead", 0))
    /\ Moves(i, Place("poll"))
    /\ UNCHANGED <<portVars, error, stopped, readOps, writeOps, read_buffer, pos,
                   taken, writeVars, clientVars, ghostVars>>

\* finishRead that keeps what it read only while read_queue is empty.
FinishReadDropsBehind(i) ==
    /\ runner[i].call = "readOk"
    /\ read_queue' = IF read_queue = <<>> THEN SubSeq(read_buffer, 1, runner[i].n)
                     ELSE read_queue
    /\ Posts(Task("startRead", 0))
    /\ Moves(i, Place("poll"))
    /\ UNCHANGED <<portVars, error, stopped, readOps, writeOps, read_buffer, pos,
                   taken, writeVars, clientVars, ghostVars>>

\* finishWrite that forgets to post startWrite for the refilled buffer.
FinishWriteNoPost(i) ==
    /\ runner[i].call = "writeOk"
    /\ write_buffer' = write_queue
    /\ write_queue' = <<>>
    /\ Moves(i, Place("poll"))
    /\ UNCHANGED <<portVars, error, stopped, ioq, readOps, writeOps, readVars,
                   accepted, wire, written, clientVars, ghostVars>>

\* finish* that takes an aborted operation for no error.
FinishFailedIgnored(i) ==
    /\ runner[i].call \in {"readFail", "writeFail"}
    /\ Moves(i, Place("poll"))
    /\ UNCHANGED <<portVars, error, stopped, ioq, readOps, writeOps, readVars,
                   writeVars, clientVars, ghostVars>>
------------------------------------------------------------------------------
(* The client thread: write and readStringUntil.  Both test error before   *)
(* they lock; a call that throws there changes nothing.                    *)

WriteCheck ==
    /\ client = Idle /\ ~error /\ written < Len(Outgoing)
    /\ client' = At("write", "locked")
    /\ UNCHANGED <<portVars, error, ioVars, readVars, writeVars, opens, ghostVars>>

WriteLocked ==
    LET data == Outgoing[written + 1] IN
    /\ client = At("write", "locked")
    /\ \/ /\ write_buffer = <<>>
          /\ write_buffer' = data
          /\ writeOps' = Freed(writeOps)
          /\ Posts(Task("startWrite", 0))
          /\ UNCHANGED write_queue
       \/ /\ write_buffer # <<>>
          /\ write_queue' = write_queue \o data
          /\ UNCHANGED <<write_buffer, writeOps, ioq>>
    /\ torn' = (torn \/ (write_buffer = <<>> /\ data = <<>>))
    /\ accepted' = accepted \o data
    /\ written' = written + 1
    /\ client' = Idle
    /\ UNCHANGED <<portVars, error, stopped, runner, readOps, readVars, wire,
                   opens, closed, faulted>>

ReadCheck ==
    /\ client = Idle /\ ~error
    /\ client' = At("read", "locked")
    /\ UNCHANGED <<portVars, error, ioVars, readVars, writeVars, opens, ghostVars>>

ReadLocked ==
    /\ client = At("read", "locked")
    /\ \/ \E p \in FirstHit(read_queue, Delim) :
            /\ taken' = taken + CutLength(p, Delim)
            /\ read_queue' = Remainder(read_queue, p, Delim)
       \/ /\ FirstHit(read_queue, Delim) = {}
          /\ UNCHANGED <<taken, read_queue>>
    /\ client' = Idle
    /\ UNCHANGED <<portVars, error, ioVars, read_buffer, pos, writeVars, opens,
                   ghostVars>>
------------------------------------------------------------------------------
(* The client thread: close and open.  open() begins with close().         *)

\* io.stop().  A close() on a port that is not open returns at once.
CloseBegin(call) ==
    /\ client = Idle /\ is_open
    /\ call = "open" => opens < MaxOpens
    /\ stopped' = TRUE
    /\ closed' = TRUE
    /\ client' = At(call, "reset")
    /\ UNCHANGED <<portVars, error, ioq, runner, readOps, writeOps, readVars,
                   writeVars, opens, torn, faulted>>

CloseReset(call) ==
    /\ client = At(call, "reset")
    /\ write_buffer' = <<>>
    /\ writeOps' = Freed(writeOps)
    /\ torn' = (torn \/ write_buffer # <<>>)
    /\ client' = At(call, "port")
    /\ UNCHANGED <<portVars, error, stopped, ioq, runner, readOps, readVars,
                   write_queue, accepted, wire, written, opens, closed, faulted>>

\* serial.close(): the descriptor goes and what was pending on it completes
\* with operation_aborted, reads first.
SerialClose ==
    /\ serial_open' = FALSE
    /\ ioq' = ioq \o Repeat(Task("readFail", 0), readOps)
                  \o Repeat(Task("writeFail", 0), Len(writeOps))
    /\ readOps' = 0
    /\ writeOps' = <<>>

\* _close(), then the return of close() or the next step of open().
ClosePort(call) ==
    /\ client = At(call, "port")
    /\ SerialClose
    /\ is_open' = FALSE
    /\ client' = IF call = "open" THEN At("open", "configure") ELSE Idle
    /\ UNCHANGED <<error, stopped, runner, readVars, writeVars, opens, ghostVars>>

\* serial.close() throws: the descriptor is gone but is_open stays set.
ClosePortThrows(call) ==
    /\ client = At(call, "port")
    /\ SerialClose
    /\ client' = Idle
    /\ UNCHANGED <<is_open, error, stopped, runner, readVars, writeVars, opens,
                   ghostVars>>

OpenBegin ==
    /\ client = Idle /\ ~is_open /\ opens < MaxOpens
    /\ client' = At("open", "configure")
    /\ UNCHANGED <<portVars, error, ioVars, readVars, writeVars, opens, ghostVars>>

\* _configure() throws: serial.open() fails (it always does on a port already
\* open), or it succeeds and a set_option() fails.  The branches that set error
\* here and in open() are never taken: a serial.open() that returns has opened.
ConfigureThrows ==
    /\ client = At("open", "configure")
    /\ serial_open' \in {serial_open, TRUE}
    /\ client' = Idle
    /\ UNCHANGED <<is_open, error, ioVars, readVars, writeVars, opens, ghostVars>>

Configure ==
    /\ client = At("open", "configure") /\ ~serial_open
    /\ serial_open' = TRUE
    /\ is_open' = TRUE
    /\ client' = At("open", "start")
    /\ UNCHANGED <<error, ioVars, readVars, writeVars, opens, ghostVars>>

\* io.reset(), the post of startRead and the start of the thread.  Nothing
\* waits for the thread of an earlier open().
OpenStart ==
    /\ client = At("open", "start")
    /\ stopped' = FALSE
    /\ Posts(Task("startRead", 0))
    /\ Moves(opens + 1, Place("poll"))
    /\ opens' = opens + 1
    /\ client' = Idle
    /\ UNCHANGED <<portVars, error, readOps, writeOps, readVars, writeVars,
                   ghostVars>>
------------------------------------------------------------------------------
(* io_service::run in the thread of the i-th open().                       *)

Pick(i) ==
    /\ runner[i] = Place("poll") /\ ~stopped /\ ioq # <<>>
    /\ Moves(i, Head(ioq))
    /\ ioq' = Tail(ioq)
    /\ UNCHANGED <<portVars, error, stopped, readOps, writeOps, readVars,
                   writeVars, clientVars, ghostVars>>

EnterReactor(i) ==
    /\ runner[i] = Place("poll") /\ ~stopped
    /\ Moves(i, Place("io"))
    /\ UNCHANGED <<portVars, error, stopped, ioq, readOps, writeOps, readVars,
                   writeVars, clientVars, ghostVars>>

\* Nothing was ready, or another handler was posted.
LeaveReactor(i) ==
    /\ runner[i] = Place("io")
    /\ Moves(i, Place("poll"))
    /\ UNCHANGED <<portVars, error, stopped, ioq, readOps, writeOps, readVars,
                   writeVars, clientVars, ghostVars>>

Exit(i) ==
    /\ runner[i] = Place("poll") /\ stopped
    /\ Moves(i, Place("exited"))
    /\ UNCHANGED <<portVars, error, stopped, ioq, readOps, writeOps, readVars,
                   writeVars, clientVars, ghostVars>>

\* A completed operation's handler is run by the thread that did the I/O, or
\* put in the ready queue when that thread has another completion to run.
Completes(i, task) ==
    \/ Moves(i, task) /\ UNCHANGED ioq
    \/ Posts(task) /\ Moves(i, Place("poll"))

PerformRead(i) ==
    /\ runner[i] = Place("io") /\ readOps > 0
    /\ \E n \in 1..ReadBufferSize :
         /\ pos + n <= Len(DeviceOut)
         /\ read_buffer' = [k \in 1..ReadBufferSize |->
                              IF k <= n THEN DeviceOut[pos + k] ELSE read_buffer[k]]
         /\ pos' = pos + n
         /\ Completes(i, Task("readOk", n))
    /\ readOps' = readOps - 1
    /\ UNCHANGED <<portVars, error, stopped, writeOps, read_queue, taken,
                   writeVars, clientVars, ghostVars>>

\* async_write sends what the port accepts and starts over with the rest.
PerformWrite(i) ==
    /\ runner[i] = Place("io") /\ writeOps # <<>>
    /\ \E n \in 1..Len(Head(writeOps)) :
         LET op == Head(writeOps) IN
         /\ wire' = wire \o SubSeq(op, 1, n)
         /\ \/ /\ n = Len(op)
               /\ writeOps' = Tail(writeOps)
               /\ Completes(i, Task("writeOk", 0))
            \/ /\ n < Len(op)
               /\ writeOps' = Append(Tail(writeOps), SubSeq(op, n + 1, Len(op)))
               /\ UNCHANGED <<runner, ioq>>
    /\ UNCHANGED <<portVars, error, stopped, readOps, readVars, write_buffer,
                   write_queue, accepted, written, clientVars, ghostVars>>

\* The device fails: end of file on an unplugged port, an I/O error.
ReadFault(i) ==
    /\ runner[i] = Place("io") /\ readOps > 0
    /\ readOps' = readOps - 1
    /\ Completes(i, Task("readFail", 0))
    /\ faulted' = TRUE
    /\ UNCHANGED <<portVars, error, stopped, writeOps, readVars, writeVars,
                   clientVars, closed, torn>>

WriteFault(i) ==
    /\ runner[i] = Place("io") /\ writeOps # <<>>
    /\ writeOps' = Tail(writeOps)
    /\ Completes(i, Task("writeFail", 0))
    /\ faulted' = TRUE
    /\ UNCHANGED <<portVars, error, stopped, readOps, readVars, writeVars,
                   clientVars, closed, torn>>
------------------------------------------------------------------------------
(* The handlers of the class, run by thread i.                             *)

\* async_read_some tries at once (the thread goes on to "io"); on a closed
\* port it completes with bad_descriptor.
StartRead(i) ==
    /\ runner[i].call = "startRead"
    /\ read_buffer' = Repeat(Nul, ReadBufferSize)
    /\ \/ /\ serial_open
          /\ readOps' = readOps + 1
          /\ Moves(i, Place("io"))
          /\ UNCHANGED ioq
       \/ /\ ~serial_open
          /\ Posts(Task("readFail", 0))
          /\ Moves(i, Place("poll"))
          /\ UNCHANGED readOps
    /\ UNCHANGED <<portVars, error, stopped, writeOps, read_queue, pos, taken,
                   writeVars, clientVars, ghostVars>>

\* Writing no bytes completes at once, on a closed port too.
StartWrite(i) ==
    /\ runner[i].call = "startWrite"
    /\ \/ /\ write_buffer = <<>>
          /\ Posts(Task("writeOk", 0))
          /\ Moves(i, Place("poll"))
          /\ UNCHANGED writeOps
       \/ /\ write_buffer # <<>> /\ serial_open
          /\ writeOps' = Append(writeOps, write_buffer)
          /\ Moves(i, Place("io"))
          /\ UNCHANGED ioq
       \/ /\ write_buffer # <<>> /\ ~serial_open
          /\ Posts(Task("writeFail", 0))
          /\ Moves(i, Place("poll"))
          /\ UNCHANGED writeOps
    /\ UNCHANGED <<portVars, error, stopped, readOps, readVars, writeVars,
                   clientVars, ghostVars>>

FinishRead(i) ==
    /\ runner[i].call = "readOk"
    /\ read_queue' = read_queue \o SubSeq(read_buffer, 1, runner[i].n)
    /\ Posts(Task("startRead", 0))
    /\ Moves(i, Place("poll"))
    /\ UNCHANGED <<portVars, error, stopped, readOps, writeOps, read_buffer, pos,
                   taken, writeVars, clientVars, ghostVars>>

FinishWrite(i) ==
    /\ runner[i].call = "writeOk"
    /\ write_buffer' = write_queue
    /\ write_queue' = <<>>
    /\ \/ /\ write_queue = <<>>
          /\ UNCHANGED <<ioq, writeOps>>
       \/ /\ write_queue # <<>>
          /\ writeOps' = Freed(writeOps)
          /\ Posts(Task("startWrite", 0))
    /\ Moves(i, Place("poll"))
    /\ UNCHANGED <<portVars, error, stopped, readOps, readVars, accepted, wire,
                   written, clientVars, ghostVars>>

\* finishRead or finishWrite with an error code.
FinishFailed(i) ==
    /\ runner[i].call \in {"readFail", "writeFail"}
    /\ error' = TRUE
    /\ Moves(i, Place("poll"))
    /\ UNCHANGED <<portVars, stopped, ioq, readOps, writeOps, readVars, writeVars,
                   clientVars, ghostVars>>
------------------------------------------------------------------------------
ClientNext ==
    \/ WriteCheck \/ WriteLocked \/ ReadCheck \/ ReadLocked
    \/ \E call \in {"open", "close"} :
         CloseBegin(call) \/ CloseReset(call) \/ ClosePort(call) \/ ClosePortThrows(call)
    \/ OpenBegin \/ ConfigureThrows \/ Configure \/ OpenStart

Handler(i) ==
    StartRead(i) \/ StartWrite(i) \/ FinishRead(i) \/ FinishWrite(i) \/ FinishFailed(i)

Reactor(i) ==
    \/ EnterReactor(i) \/ LeaveReactor(i)
    \/ PerformRead(i) \/ PerformWrite(i) \/ ReadFault(i) \/ WriteFault(i)

RunnerNext(i) == Pick(i) \/ Exit(i) \/ Reactor(i) \/ Handler(i)

Next == ClientNext \/ \E i \in Runners : RunnerNext(i)

Spec == Init /\ [][Next]_vars

\* run() returns only when stopped, takes handlers in the order they were
\* posted and gives the reactor its turn among them; the device goes on
\* accepting bytes and finish* always returns.  Nothing obliges the client to
\* call anything, but a call it has begun goes on.
Fairness ==
    /\ WF_vars(WriteLocked) /\ WF_vars(ReadLocked)
    /\ WF_vars(\E call \in {"open", "close"} :
                 CloseReset(call) \/ ClosePort(call) \/ ClosePortThrows(call))
    /\ WF_vars(ConfigureThrows \/ Configure) /\ WF_vars(OpenStart)
    /\ \A i \in Runners :
         /\ WF_vars(Handler(i)) /\ WF_vars(Exit(i)) /\ WF_vars(LeaveReactor(i))
         /\ SF_vars(Pick(i)) /\ SF_vars(EnterReactor(i)) /\ SF_vars(PerformWrite(i))

FairSpec == Spec /\ Fairness
------------------------------------------------------------------------------
(* Correctness.                                                            *)

PortType ==
    /\ is_open \in BOOLEAN /\ error \in BOOLEAN /\ serial_open \in BOOLEAN
    /\ closed \in BOOLEAN /\ torn \in BOOLEAN /\ faulted \in BOOLEAN

IoType ==
    /\ stopped \in BOOLEAN
    /\ ioq \in Seq(Tasks)
    /\ runner \in [Runners -> Tasks \cup Places]
    /\ readOps \in Nat /\ writeOps \in Seq(Seq(Byte \cup {Junk}))

ReadType ==
    /\ read_buffer \in [1..ReadBufferSize -> Byte \cup {Nul}]
    /\ read_queue \in Seq(Byte \cup {Nul})
    /\ pos \in 0..Len(DeviceOut) /\ taken \in Nat

WriteType ==
    /\ write_buffer \in Seq(Byte) /\ write_queue \in Seq(Byte)
    /\ accepted \in Seq(Byte) /\ wire \in Seq(Byte \cup {Junk})
    /\ written \in 0..Len(Outgoing)

ClientType ==
    /\ client \in ClientStates /\ opens \in 0..MaxOpens
    /\ client.call = "open" => opens < MaxOpens
    /\ client.call = "write" => written < Len(Outgoing)

\* Every variable keeps the type its declaration has in the class.
TypeOK == PortType /\ IoType /\ ReadType /\ WriteType /\ ClientType

\* Where a chain of handlers is: tasks in the ready queue, in the threads.
Queued(calls) == {k \in 1..Len(ioq) : ioq[k].call \in calls}
Running(calls) == {i \in Runners : runner[i].call \in calls}
Tokens(calls) == Cardinality(Queued(calls)) + Cardinality(Running(calls))

ReadChains == readOps + Tokens({"startRead", "readOk"})
WriteChains == Len(writeOps) + Tokens({"startWrite", "writeOk"})

InitialPart(s, t) ==
    Len(s) <= Len(t) /\ \A k \in 1..Len(s) : s[k] = t[k]

\* What has left the port is an initial part of what write() accepted: no
\* byte lost, repeated, overtaken or freed under the operation, although the
\* client refills write_queue while a thread drains it through write_buffer and
\* closes and reopens the port meanwhile.  Until a close() frees a write_buffer
\* that is in use, or a write() of no bytes leaves it looking free.
WriteFifo == ~torn => InitialPart(wire, accepted)

\* write() posts startWrite only when write_buffer is empty and otherwise
\* relies on finishWrite to look at write_queue: accepted bytes never wait
\* without a write in progress, unless one has failed.
NothingStranded ==
    ~torn =>
        \/ wire = accepted
        \/ WriteChains = 1
        \/ error \/ Tokens({"writeFail"}) > 0

\* The client and read_queue hold the device's bytes in order, with no gap,
\* no byte twice and none overwritten in the shared read_buffer before
\* finishRead copies it.
ReadFifo ==
    ~closed =>
        /\ taken + Len(read_queue) <= pos
        /\ read_queue = SubSeq(DeviceOut, taken + 1, taken + Len(read_queue))

\* Every open() adds at most one chain of reads: one read in flight on a port
\* opened once, and never more than one per thread that was ever started.
ReadChainsPerOpen == ReadChains <= opens

\* Until error is set, each open() has its read: it goes on, under a later
\* open() too, or was aborted and the failure is still on its way.  So a port
\* that is opened again either reads twice at a time or is about to fail with
\* what the close() before has aborted.
ReadsKept == ~error => ReadChains + Tokens({"readFail"}) = opens

\* Nobody clears error, so nothing but a failing device, or the operations a
\* close() aborts, may set it.
ErrorHasCause == error => faulted \/ closed

\* A port whose set_option() threw in _configure(): the descriptor is open,
\* is_open is not.
HalfOpen == serial_open /\ ~is_open

\* ... is lost: close() returns early and serial.open() throws, for ever.
HalfOpenForever == [][HalfOpen => HalfOpen']_vars

\* Every byte write() took is sent in the end, unless the port is not open, has
\* failed, or lost what it was sending to a close().
AllSent == <>[](is_open /\ serial_open /\ ~torn /\ ~error => wire = accepted)

\* Every byte a completed read delivered gets to read_queue.
AllReceived == <>[](~closed /\ ~error => taken + Len(read_queue) = pos)

\* After io.stop() the thread leaves run(), unless open() comes first: its
\* io.reset() may take the stop back before the thread has seen it.
ThreadsEnd ==
    \A i \in Runners :
        stopped ~> (~stopped \/ runner[i].call \in {"none", "exited"})

\* Until the first close() of an open port, or the first write() of no bytes,
\* the class is the stream BufferedIO promises.
Stream == INSTANCE ByteStream WITH
    Messages <- {Outgoing[k] : k \in 1..Len(Outgoing)}, down <- closed \/ torn
ImplementsStream == Stream!Spec
------------------------------------------------------------------------------
(* The inductive invariant behind WriteFifo, NothingStranded and ReadFifo: *)
(* one chain of handlers writes, whichever threads run it, and until the   *)
(* first close() one chain reads, each in one of a few phases.             *)

NoTask(calls) == Queued(calls) = {} /\ Running(calls) = {}

\* One task of the chain is queued or running, and it is this call.
OneTask(call, calls) ==
    \/ /\ Running(calls) = {}
       /\ \E k \in 1..Len(ioq) : Queued(calls) = {k} /\ ioq[k].call = call
    \/ /\ Queued(calls) = {}
       /\ \E i \in Runners : Running(calls) = {i} /\ runner[i].call = call

SomeTask(calls) == Queued(calls) # {} \/ Running(calls) # {}

\* A thread starts with the open() it belongs to.
ThreadPerOpen == \A i \in Runners : i > opens => runner[i] = Place("none")

OpenedOnce ==
    ~closed =>
        /\ ~stopped /\ opens \in {0, 1}
        /\ is_open = (opens = 1 \/ client = At("open", "start"))
        /\ is_open => serial_open
        /\ client.call = "open" => opens = 0
        /\ client \in {Idle, At("write", "locked"), At("read", "locked"),
                       At("open", "configure"), At("open", "start")}

WriteCalls == {"startWrite", "writeOk"}

WriteIdle ==
    /\ NoTask(WriteCalls) /\ writeOps = <<>>
    /\ write_buffer = <<>> /\ write_queue = <<>> /\ wire = accepted

WritePosted ==
    /\ OneTask("startWrite", WriteCalls) /\ writeOps = <<>> /\ write_buffer # <<>>
    /\ accepted = (wire \o write_buffer) \o write_queue

WriteInFlight ==
    /\ NoTask(WriteCalls) /\ write_buffer # <<>>
    /\ Len(writeOps) = 1 /\ writeOps[1] # <<>>
    /\ accepted = (wire \o writeOps[1]) \o write_queue

WriteDone ==
    /\ OneTask("writeOk", WriteCalls) /\ writeOps = <<>> /\ write_buffer # <<>>
    /\ accepted = wire \o write_queue

WriteFailed ==
    /\ NoTask(WriteCalls) /\ writeOps = <<>> /\ write_buffer # <<>>
    /\ error \/ SomeTask({"writeFail"})
    /\ InitialPart(wire, accepted)

WritePhase ==
    ~torn =>
        WriteIdle \/ WritePosted \/ WriteInFlight \/ WriteDone \/ WriteFailed

ReadCalls == {"startRead", "readOk"}

ReadIdle == NoTask(ReadCalls) /\ readOps = 0 /\ taken + Len(read_queue) = pos

ReadPosted ==
    /\ OneTask("startRead", ReadCalls) /\ readOps = 0
    /\ taken + Len(read_queue) = pos

ReadInFlight == NoTask(ReadCalls) /\ readOps = 1 /\ taken + Len(read_queue) = pos

\* n bytes of read_buffer wait for finishRead.
Buffered(n) ==
    /\ taken + Len(read_queue) + n = pos
    /\ \A k \in 1..n : read_buffer[k] = DeviceOut[pos - n + k]

ReadDone ==
    /\ OneTask("readOk", ReadCalls) /\ readOps = 0
    /\ \A k \in Queued(ReadCalls) : Buffered(ioq[k].n)
    /\ \A i \in Running(ReadCalls) : Buffered(runner[i].n)

ReadPhase ==
    ~closed =>
        /\ ReadIdle \/ ReadPosted \/ ReadInFlight \/ ReadDone
        /\ opens = 0 => ReadIdle
        /\ \A k \in 1..Len(read_queue) : read_queue[k] = DeviceOut[taken + k]
------------------------------------------------------------------------------
(* The inductive invariants behind ErrorHasCause, HalfOpenForever,         *)
(* ReadChainsPerOpen and ReadsKept.                                        *)

Failures == {"readFail", "writeFail"}

\* A failure has its cause from the moment the operation completes with it.
FailureHasCause == error \/ SomeTask(Failures) => faulted \/ closed

\* close() goes on only with a port that is open.
ClosingIsOpen == client.step \in {"reset", "port"} => is_open

\* Where the read an open() started is now, the failure that ends it included.
Reads == readOps + Tokens(ReadCalls \cup {"readFail"})

\* What finishes a read starts the next, and only what sets error does not.
ReadsCounted == Reads <= opens /\ (~error => Reads = opens)
==============================================================================
