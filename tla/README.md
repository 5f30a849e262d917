# Chambermaid in TLA+

Chambermaid is a C++ program that talks to brewing controllers ("BrewPi"
firmware on an Arduino or Spark) over a serial port, records what they say in a
database and shows it through a CGI panel.  This directory holds its formal
model: TLA+ modules translated from the source, TLC configurations that check
them on small instances, and theorems about them that TLAPS proves for every
value of the constants.

All paths below are relative to the repository; `src/src/util/AsyncImpl.cpp`
here is `src/util/AsyncImpl.cpp` of the upstream tree.

## 1. The system

| part | state it keeps | operations | talks to |
|---|---|---|---|
| `AsyncImpl`, `SerialImpl` (`util/AsyncImpl.cpp`, `util/BufferedSerial.cpp`) | two atomics `is_open`, `error`; a write buffer and a write queue, a read buffer and a read queue, a mutex for each pair; an `io_service` and the thread that runs it | `open`, `close`, `write`, `readStringUntil`; the handlers `startRead`, `finishRead`, `startWrite`, `finishWrite` | the client thread calls it, boost::asio calls its handlers |
| `BufferedIO` (`util/BufferedIO.cpp`) | a pointer to an `AsyncImpl` | `write`; a `readStringUntil` that polls every 100 ms until a deadline | `AsyncImpl` |
| serial queries (`util/serial.cpp`) | none between calls | `get_version_info` with up to ten tries, four getters, `sound_alarm` | `BufferedIO`, and through it the firmware |
| startup (`daemon/brewpippd.cpp`, `tables.hpp`, `tables/*.hpp`) | the tables and the rows of `lcd`, in the database | `main`, `init_tables`, `init_lcd_lines` | database, and the groups it starts |
| daemon (`daemon/brewpippd.cpp`) | the ports in use and a mutex for them, a map of ports, a map of mutexes | a thread `monitor_group` per group, `get_serial_port` | database, serial queries |
| `Log` (`util/Log.cpp`) | a text stream, a shared mutex | `operator<<`, `write_entry` | daemon, database |
| `VersionCode` (`util/version.cpp`) | 16-bit components | parse, `operator<` | daemon |
| `ip`, `netmask` (`util/ip.cpp`) | 16 bytes | from a text or from bytes, `to_string`, `&`, `==` | sessions |
| `Options` (`Options.cpp`) | the settings | configuration file, then the command line | every program |
| panel (`cgi/panel.cpp`) | none | the accept loop | `Options`, database |
| secure sessions (`SecureConnection.cpp`) | two string streams, a TLS socket | `send`, `receive`, `accept`, key generation | OpenSSL |
| `Request`, `Authorities`, tables, port enumeration, JSON helpers | none, or constant | lookups and conversions | |

The hard behaviour is in the first five rows.  A port is shared by the client
thread and a thread that runs handlers; two buffers are handed from one to the
other under mutexes, but `is_open`, `error`, `io.stop()` and `io.reset()` are
outside them; a port can be closed and opened again while the thread of the
first `open()` is still running; every operation of the device can be slow,
partial or fail.  Above it, a query protocol without identifiers, which tells
replies apart only by their first letter, retries on a timeout.  Above that,
threads of several groups look for a port each, and daemons that may be killed
and started again, or beside one another, prepare one database.

### What makes each part correct

- **Port.** Bytes leave in the order `write()` took them and arrive in the order
  the device sent them, none lost, doubled or read from a buffer somebody else
  has filled; accepted bytes do not wait without a write in progress; a port
  that failed or was closed says so, and only then.
- **Queries.** Each returns or throws within a bounded number of commands; the
  answer it returns belongs to it.
- **Daemon.** No two groups share a port; a mutex taken is given back; a
  firmware that is too old is not accepted and one that is not is not refused.
- **Startup.** A thread runs only for a group whose lcd has one row; a `main` that
  returns has left every table; a start cut short does not spoil the next.
- **Addresses.** A text reads as what it means, and what is written reads back.
- **Settings.** The last flag decides, then the file, then the default; a password
  is what was typed for it.
- **Replies.** What is written can be read and has the same values.
- **Sessions.** Messages arrive in order and whole; a handshake and a call end.
- **Keys.** Whatever is cut short, the files fit each other or are refused.

## 2. The modules

`PROJECT.json` has, for each definition, the lines of the source it stands for.
Modules are named after the class or file they model, actions after the
function or, where a function is several atomic steps, after what the step does.

| module | models | state and actions |
|---|---|---|
| `DelimSearch` | the search loop of `AsyncImpl::readStringUntil` | operators only: `FirstHit`, `Remainder` |
| `AsyncImpl` | `AsyncImpl`, `SerialImpl` | below |
| `ByteStream` | what `BufferedIO` promises: two streams of bytes, until it goes down | `Accept`, `Send`, `Receive`, `TakeLine`, `GoDown` |
| `SerialQuery` | `get_version_info`, the getters, `sound_alarm`, the polled `BufferedIO::readStringUntil`, with the firmware as environment | below |
| `VersionCode` | the constructor and `operator<` | operators only; `Older` is the order they are measured against |
| `MonitorGroup` | `monitor_group`, `get_serial_port`, the end of `main`; extends `VersionCode` | below |
| `GroupStart` | a group of `MonitorGroup` composed with the `SerialQuery` it makes | below |
| `Startup` | `main`, `init_tables`, `init_lcd_lines`, `list_creates` and the ten `create` texts | below |
| `IpText` | both constructors of `ip`, `ip::to_string`, `netmask` | `Read`, `ReadBytes`, `Write`, `ReadBack`, `Copy` over operators `Readings`, `FromBytes`, `Printed`, `IsMapped` |
| `Options` | both constructors and `optionsGetConfigFile` | one action per branch of the two loops |
| `MessagePipe` | what a `SecureSession` promises: whole messages, in order, until an end is gone | `Begin`, `Send`, `HandOut`, `HandOutRest`, `Leave` |
| `SecureSession` | the constructor of `SecureClient` and `SecureServer::accept`, `send` and `receive` of two ends, and their end | below |
| `Replies` | the classes of `serial.hpp`, each from a document and to one | `Get`, `GetTerminates`, `Write`, `ReadAgain` over a table of members |
| `ServerKeys` | `generateRSAKey`, `generateCertificate`, constructor and destructor of `SecureServer` | one action per open, write and close of a file |
| `MC…` | values for constants; run X is checked under `X.cfg` | |
| `…Proofs` | theorems | |

`AsyncImpl` extends `DelimSearch` and is shown to implement `ByteStream`;
`SerialQuery` extends `DelimSearch` and takes from `AsyncImpl` what that is
shown to be, a FIFO of bytes with this search at its end. `SecureSession` is shown
to implement `MessagePipe`. `MonitorGroup`
extends `VersionCode`; of the port it opens it keeps whether it is open, and
`GroupStart`, which extends it, instantiates `SerialQuery` for what one group asks
through that port.

**AsyncImpl.** Code that runs under `read_mutex` or `write_mutex` is one step;
what two threads can see separately is a step each. A `write` is `WriteCheck`
(the test of `error` before the lock; nothing tests `is_open`) and `WriteLocked`;
`readStringUntil` likewise `ReadCheck` and `ReadLocked`; `close` is `CloseBegin`,
`CloseReset`, then `ClosePort` or `ClosePortThrows`; `open` is `OpenBegin` (which
calls `close`), `Configure` or `ConfigureThrows`, then `OpenStart`. `runner[i]`
is the thread of the i-th `open()`; a thread takes handlers from `ioq` (`Pick`)
and runs them as one step each: `StartRead`, `StartWrite`, `FinishRead`,
`FinishWrite`, `FinishFailed`. Of boost::asio, modelled from how the class uses
it: the ready queue is FIFO, the reactor takes its turn in it (`EnterReactor`),
performs operations in part or whole (`PerformRead`, `PerformWrite`) and posts
their completion, `stop()` makes `run()` return before the next handler, and
`serial_port::close()` completes pending operations with an error. `accepted`
and `wire` record what was taken and sent; `closed` and `faulted` that a close()
or a failure has happened, `torn` that a `close()` has freed a `write_buffer` in
use or that a write of no bytes has left one looking free. Bytes read from a
buffer that `close()` has freed are `Junk`, or none.

**SerialQuery.** A query writes its letter (`Begin`) and polls (`PollMiss`), each
poll costing one of `Timeout` sleeps; it takes a line (`GetterReads`,
`VersionReads`) or times out (`GetterTimesOut`, `VersionTimesOut`, which in
`get_version_info` writes again; either write may throw, `VersionRetryThrows` and
`VersionRewriteThrows`). `elapsed` may jump, for a thread that is late.
`Alarm` only writes. A line is its text, one byte, and its CR LF; the text carries its first letter,
whether its JSON parses, and, as history, the command it answers.

**MonitorGroup.** Each access to a global is a step: the lock with its timeout
(`LockLocations`, `LockTimesOut`), the test and the reservation (`Check`, `Mark`),
the exception (`Refuse`), the maps (`LockPort`, `StorePort`, `MapBreaks`), the
port (`OpenPort`, `OpenThrows`), the version (`Answered`, `VersionThrows`, `Connect`,
`Compare`). Where a thread has ended tells how far it came: before its reservation
(`ended`), at it (`refused`), behind it by an exception (`failed`) or by a verdict.
`StorePort` may close the port: the class the daemon names is not in the
repository, and a `BufferedSerial` shares its port with the temporary it is
assigned from, whose destructor closes it.

**GroupStart.** While the thread of the group `Watched` is at `version`, its steps are
those of `SerialQuery` with the program `<<"n">>` (`Asks`), and `Returns` hands the
result to `Answered` or `VersionThrows`; the firmware and the line (`DeviceSteps`)
and the threads of the other groups (`Others`) go on beside it.

**Startup.** Each SQL statement is a step: `Create` or `CreateThrows` for the text at
`next` in `list_creates`, then for each group `SelectLines`, `InsertLine` or
`UpdateLine` or `WriteThrows`, and `Spawn`. A text is the columns it declares, those
its keys name and the tables it refers to. `rules` is what the database looks at:
databases differ, and the same texts pass one and fail another. `Killed` may come
between any two steps, `Start` after any end, `AddGroup` at any time. `Breaks` is any
other exception: the database goes, or no thread can be made (`brewpippd.cpp:90`).

**SecureSession.** The bytes an end sends are numbered from 1, so that the k-th
byte an end is handed must be k. A record holds a range of them; `ReadSome` takes
up to `MaxLength` bytes of one record, as OpenSSL's read does, and goes on or
returns by whether it got all of them. `Connect` may come before `Accept`, since
the server listens from its constructor on; both ends then wait in the handshake,
which returns first at the server or throws (`HandshakeThrows`), and no call has a
timeout.

**ServerKeys.** A file holds the number of the pair it is of. What is written is
in memory (`unwritten`) until the destructor of its BIO closes the file, where a
failure is not seen. `Killed` may happen between any two steps.

**Replies, Options, IpText** are sequential. They are modelled for their data:
the table `Fields` gives each member the keys it is looked for under, its
conversion, and whether it is written; `IpText` keeps what colons, dots and empty
places mean, takes the text of a number for the number, and lets a text with too
few numbers be read as any of what may stand behind them; `Options` has the lines
of the standard input, of which one may be too long for the buffer.

## 3. What is checked

`Spec` is every module's safety specification. All runs have
`CHECK_DEADLOCK FALSE`: a program that has made its bounded number of calls
stops, and so do a daemon whose process has ended and a device with no more to
say. That nobody waits for ever who should not is stated as liveness instead.
A module's `TypeOK` is proved where section 4 says so and is not repeated in a run.

| run | states | bounds | shows |
|---|---|---|---|
| `Port` | 278,672 | 3 writes (2, 1, 1 bytes), 2 lines of the device, read buffer of 2, one `open()` | `ReadFifo`, `ErrorHasCause`, refinement `ImplementsStream`; liveness `AllSent`, `AllReceived`, `ThreadsEnd` |
| `PortReopen` | 5,910,523 | two `open()`s, writes of 1, 0 and 1 bytes at any time, one byte of the device, read buffer of 1 | `WriteFifo`, `NothingStranded`, `ReadChainsPerOpen`, `ReadsKept`; action property `HalfOpenForever` |
| `Query` | 821,968 | `get_version_info`, a poll, an alarm, a poll; 2 tries, timeout of 2 sleeps, one unsolicited line, replies that parse or not | `NeverCaughtUp`, `AnswersAreStale`, `AnswersInOrder`, `WritesBounded`; liveness `QueriesReturn` |
| `Ports` | 466,216 | 2 groups, 2 ports and the empty name, 6 versions; of one group the query with 2 tries and a timeout of 1 sleep | `Exclusive`, `MutexGivenBack`, `OldNotAccepted`, `SilenceAccepted`; liveness `GroupSettles` |
| `Starts` | 523,441 | 2 daemons, 2 groups, every subset of what a database may look at, tables there before or not | `OneRowEach`, `ReturnedComplete`, `UndisturbedReturns`, `OnlyLenientStarts` |
| `Addresses` | 302,031 | every text over {0, 1} of up to nine numbers with any of them left out, mapped addresses and their neighbours, byte strings of 4, 5 and 16 | `ReadsAsMeant`, `ReadsInside`, `ReadsBack`, `ElidesBest`, `TakenForMapped` |
| `Settings` | 6,568,308 | every command line of up to 3 of 11 words, 6 files, 6 inputs of up to 3 lines, every set of places | `LastFlagWins`, `PasswordOfLastPrompt` |
| `Session` | 544,793 | buffer of 2, records of up to 4, 5 bytes each way, one record on the way | `ReturnsAtMessage`, refinement `ImplementsPipe`; liveness `CallsEnd` |
| `Documents` | 3,002 | five getters; one key at a time over 15 values or missing, with the widths of integers scaled to 300 and 400 | `ReadsInRange`, `WrittenReadsBack` |
| `ServerFiles` | 7,535 | 3 pairs, with and without a password | `PairsMatch`, `ServesSound`; `NeverAgain` |
| `PortRefused`, `SessionWaits` | | as above or smaller | two disagreements, section 5 |

**Why the bounds are enough to see the cases.** With three writes the second is
queued behind the first and the third may find the buffer being emptied, taken
or free. A read buffer of 2 and four bytes make a read that fills the buffer, one
that does not, and a delimiter at its end. Two opens are what it takes for a
thread, a handler or an error of the first to meet the second; a third would
meet the same. With two tries `get_version_info` passes its loop's first, middle
and last turn. Two groups that may be given one port race for it, and each place
where one can stop is met by the other. Two daemons are what it takes for one to
come between the two statements of another; any number is proved. A
buffer of 2 with messages of 1 to 5 bytes and records of 4 has messages shorter
than, equal to, longer than the buffer, and of one record or two. Three pairs let
a public and a private key that are both old be of different pairs.
Prompts come from any of three arguments, with inputs that end before the first,
that end before the last, and that have a line too long before, at and behind the
last. In `PortReopen` the three writes can fall before the first `close()`, between
the opens and behind them; it has safety properties only, because liveness with
two opens and writes is beyond what can be checked in reasonable time.

**Fairness.** `AsyncImpl!Fairness` is that of a thread inside `io_service::run`:
a handler it has picked is run (weak), it takes the next one and gives the
reactor its turn again and again (strong, because another thread may be first),
the device takes bytes if it can again and again, and a call that has begun goes
on. The client need not call anything; nothing has to arrive, and the device
may fail. `SerialQuery!FairSpec` asks only that the calling thread runs: the
firmware owes it nothing. `GroupStart!StartSpec` asks that of the watched thread,
whose waits all have a timeout, and of nobody else. `SecureSession!LiveSpec` asks
that a call that can go on does, a handshake among them; nobody has to call or to
close. A handshake throws in the end if the other end has gone. That it does when the
server's `accept()` has only failed is not assumed: the server keeps the socket open,
and whether OpenSSL tells the client is the library's affair.

**Properties that say what the code does, though one may wish it otherwise.**
`NeverCaughtUp`, `AnswersAreStale`, `HalfOpenForever`, `ReadsKept`, `NeverAgain`,
`SilenceAccepted`, `OnlyLenientStarts`, `PasswordOfLastPrompt`, `ReadsInside`, the
exceptions in `WriteFifo`, `OldNotAccepted`, `ElidesBest` and `TakenForMapped`. They
describe consequences of small decisions that show only after several steps, and a
change that removes one should be deliberate.

**What no property catches.** `WriteFifo` and `NothingStranded` are claimed while the
port is not `torn`. So they say nothing of the three hazards that tear it: a write of no
bytes into a free buffer, a `close()` that frees the buffer of a running write, and the
race of `close()` with `startWrite`. The model contains the steps and what they do to the
bytes; the properties claim the order up to them. Likewise the comparison of a dangling
netmask may have either answer, and `ReadsBack` and `ReadsAsMeant` hold for both.
`PROJECT.json` lists these hazards without a property.

**Mistakes.** Each module has a section of definitions named after an operation
and what is wrong in them (`FinishWriteNoPost`, `CheckUnlocks`,
`LookForDhAgain`…). No specification uses them; `PROJECT.json` pairs each with a
property, which TLC finds violated when the operation is replaced by it.

## 4. What is proved

All theorems hold for every value of the constants under the named assumptions
of the modules. Those give constants their types and sizes that are not zero,
and: `SecureSession!LengthAssumption` takes the largest record for a multiple of
the buffer, as 16384 is of 1024; `Options!WorldAssumption` and
`IpText!WorldAssumption` say that a command line is a sequence of words, an input a
sequence of lines, a text a sequence of numbers and empty places.
`Options!ConfFilesAssumption` has no key twice in a file, which the parser refuses.
`Replies!DocumentsAssumption` says that the keys of a document hold JSON values,
`Replies!WidthAssumption` that an unsigned int holds the 255 of a filter.

| module | theorem | for |
|---|---|---|
| `AsyncImplProofs` | `TypeCorrect`, `WriteFifoCorrect`, `NothingStrandedCorrect`, `ReadFifoCorrect`, `HalfOpenForeverCorrect`, `ErrorHasCauseCorrect`, `ReadChainsPerOpenCorrect`, `ReadsKeptCorrect`, `ImplementsStreamCorrect` | any sequence of writes, any output of the device, any delimiter, any buffer, any number of opens |
| `SerialQueryProofs` | `TypeCorrect`, `NeverCaughtUpCorrect`, `WritesBoundedCorrect`, `AnswersInOrderCorrect`, `AnswersAreStaleCorrect`, `QueryRunsOutCorrect`; of `Replies` `RepliesTypeCorrect`, `ReadsInRangeCorrect`, `WrittenReadsBackCorrect` | any program of queries, any firmware, any number of tries, any timeout; any documents |
| `DaemonProofs` | `TypeCorrect`, `ExclusiveCorrect`, `MutexGivenBackCorrect`, `OldNotAcceptedCorrect`, `AcceptedIsShorterCorrect`, `RefusedForAnotherCorrect`, `ReservedOnceCorrect`, `ShortConnectsCorrect`, of `GroupStart` `StartImplementsDaemon`, `StartImplementsQuery`, `SilenceAcceptedCorrect`; of `VersionCode` the lemmas `ParsedVersion`, `OlderIsLess`, `BelowZeros` | any groups, ports, device table, versions, minimum |
| `SecureSessionProofs` | `TypeCorrect`, `InOrderCorrect`, `ReturnsAtMessageCorrect`, `ImplementsPipeCorrect`, `WaitsAfterFullReadsCorrect` | any two ends, buffer, record, room |
| `StartupProofs` | `TypeCorrect`, `OneRowEachCorrect`, `ReturnedCompleteCorrect`, `UndisturbedReturnsCorrect`, `OnlyLenientStartsCorrect` | any number of daemons and groups |
| `ServerKeysProofs` | `TypeCorrect`, `PairsMatchCorrect`, `ServesSoundCorrect`, `NeverAgainCorrect` | any passwords, any number of pairs |
| `OptionsProofs` | `TypeCorrect`, `LastFlagWinsCorrect`, `PasswordOfLastPromptCorrect` | any command lines, files, inputs, length of a line |
| `IpTextProofs` | `TypeCorrect`, `ReadsInsideCorrect`, `ReadsAsMeantCorrect`, `ReadsBackCorrect`, `ElidesBestCorrect`, `TakenForMappedCorrect` | any texts, any bytes |

**AsyncImpl.** `WriteFifo` alone is not inductive: whether the next byte on the wire
is right depends on where the one chain of write handlers is, and that there is one
holds across reopens as long as nothing is `torn`: a `close()` that finds
`write_buffer` free leaves no chain behind. `OpenedOnce` says that until the first
`close()` the port is opened at most once, so that one thread runs and one chain
reads; `WritePhase` that the write chain is idle, posted,
in flight, done or failed, and in each how `accepted` is `wire`, the buffer and the
queue in this order; `ReadPhase` the same of reads. Frame lemmas (`ChainUntouched`,
`ChainPosts`, `ChainPicked`, `ChainStops`, `RunnerFrame`) say what the actions do to
a chain they do not touch. `NothingStranded` follows from `WritePhase` with
`TokenCounts`, which turns "one task" into a cardinality.

`ErrorHasCause` needs that the failure of an operation has its cause before any
handler sees it (`FailureHasCause`), `HalfOpenForever` that a `close()` is never
under way with a port that is not open (`ClosingIsOpen`). The two properties of the
read chains come from `ReadsCounted`, which counts, over any number of opens and
threads, the reads in flight, the tasks that belong to a read and the failures still
on their way: what finishes a read starts the next, and what does not sets `error`.
The lemmas `CountMoves`, `CountPosts`, `CountPicked` and `CountAborted` say how each
way of handling tasks changes such a count.

`ImplementsStreamCorrect` maps each step: `WriteLocked` is `Accept`, or `GoDown` if
it writes no bytes with the buffer free; `PerformWrite` is `Send`, `PerformRead` is
`Receive`, `ReadLocked` that finds a line is `TakeLine`, `CloseBegin` is `GoDown`, and
everything else leaves the stream as it is. `WritePhase` is what makes the byte that
`PerformWrite` takes from the buffer the next one accepted, `ReadFifo` what makes the
line found in `read_queue` the next one received. Once the stream is down
nothing is asked of the port, and `HistoryStays` says that it stays down.

**SerialQuery.** `NeverCaughtUp` rests on `SomethingLeft`, that the search takes a
newline only with a byte behind it. `WritesCounted` relates the commands sent
since the last result to the tries that are used up. `Pipeline` follows a command
from the firmware through the bytes under way, the line the loop holds and the
results: in each the numbers increase, and those further on are below those
that come after, so that no answer overtakes another. `AnswersFollow` says what stands behind a
line's end when the device only answers; with it, the byte that `readStringUntil` leaves
behind a line belongs to a later command, so that the line was outdated.
`QueryRunsOut` is the safety half of `QueriesReturn`: `StepsLeft` counts the sleeps of
the tries that are left, is positive while a query runs, and each step that is not
the device's lowers it. That the calling thread takes such steps is fairness.

**Replies.** `Made` says where the object and the document come from: the object
has been converted from a document, the document is the one `to_string` makes of
the object. `FieldsWellKeyed` goes through the tables of all classes: the key that a
member is written under is looked for by no other member, in its long form or its
compact one, and a member that is not written may be missing. `ConvertedHolds`
shows, conversion by conversion, that what is read fits its member;
`PrintedReadsBack` that what is printed of such a value converts back to it: an
empty word, a temperature of 0 and a missing mode are written as null and read
from null.

**MonitorGroup.** `Exclusive` is about open ports; `Reservation` is about everything
past the reservation: the mutex is held by whoever is in the section, a claimed
location is marked, one about to be marked is not, claims differ. `Tested` says
what the two tests of a version have found, and `OlderIsLess` and `BelowZeros` what
`operator<` can miss. From it follows `AcceptedIsShorter`, too: no version of as many
components as the minimum passes, the minimum itself included. `Reserved` is true of
the threads that have set their location in `serial_ports_in_use`, and not of those that
ended or were refused before. `InUseReserved` gives every location in use such a thread,
and with it `RefusedForAnother` says what is left of the message "already in use" that
`PortRefused` refutes. The other way round `InUseLasts` says that a reservation stays,
and with `MarksFree` that no second thread makes one for the same location
(`ReservedOnce`), also when the first has failed.

`MutexGivenBack` is the part of `Reservation` about the mutex. `StartSteps` shows that
each step of `GroupStart` is a step of `MonitorGroup` or leaves it alone, `StartQueries`
the same for `SerialQuery`; so the theorems of both hold of the daemon with a group
that asks query by query. `SilenceAccepted` has two hypotheses, that the minimum
begins with a zero and has more than one component, which are so for "0.2.4"
(`brewpippd.cpp:35`); `SilenceJudged` says that a thread that got a default object
judges by the version of one component, and nothing else, to the end.

**SecureSession.** `Chains`: for each direction the bytes handed over, those in
the reader and those of the records under way are 1, 2, 3, … up to the last one
sent, each the next of the one before; only when the peer is gone may the last
of them be missing.  `Typed` adds to the types that no record under way is
empty, without which a read could take nothing. `Marked`: a message that is being
sent ends where it was announced to end (`Aimed`), and a record that ends
elsewhere is a multiple of the buffer long (`CutWhole`), so that only the last
read of a message is short. It needs the assumption on lengths: with a record of
another length `receive()` would return in the middle of a message.
`FullReads`, that a `receive()` which goes on has had full reads only, bounds the wait
that `SessionWaits` shows: it comes of a message that fills the buffer, and of
nothing else.

`ImplementsPipeCorrect` maps each step: `Send` is `Begin`, `WriteRecord` is `Send`, a
`ReadSome` that does not fill the buffer is `HandOut`, `ReadEnd` is `HandOutRest`, `Close`
and what throws in a client's constructor are `Leave`, and everything else leaves the
pipe as it is. `Chains` makes what is handed out the next bytes, `Marked` makes it end
with a message. `InOrder` is an invariant of the pipe, too, and is proved of
`SecureSession` directly; the run checks it as part of `ImplementsPipe`.

**Startup.** `CreatedSoFar` says which tables a daemon at a place of `list_creates` can
count on, `RowsKept` which rows: a daemon that has looked a row up or inserted it
keeps it, because rows are only ever inserted where there is none. `Alone` is the
case of one daemon, for which a row it has not found stays missing. `StrictStarts`
says how far a database that looks lets anybody get: to the first text.

**ServerKeys.** `Order`: no file holds a key of a pair not generated yet, and while
one is generated its keys are in no certificate and, until the files are closed,
in no file that can be read. `Matching`: what closing the files can leave of the
pair in hand, if nothing has failed. `Signed`: a certificate that names the pair
of the private key there is was signed with it, because the pair that signed
another one is gone. `DhSpoilt`, the file of the parameters cannot be read and
nobody is making it, is what no step undoes; `NeverAgain` follows from that.

**Options.** What the two properties say of the whole file and the whole command
line is said, in `FlagsSoFar` and `PasswordSoFar`, of the part that the two loops have
read. That needs `FlagNext`, the loop stands at a flag and never at a value, and for
the password `LinesTaken`: while `std::cin` is good each prompt has had a line of
its own, and once it is not, a line at an earlier prompt was too long or missing.
`FlagAt` says without recursion where flags stand: behind an argument that takes
no value, every other one of a row that do.

**IpText.** The inductive invariant is small, `Came`, where the address and the text
come from; the weight is on the operators. `FilledUp` counts the places of a text
that an empty one stands for, `CompressedReads` that a text with one `::` reads as
the two sides with zeros between. `ElisionIs` shows that what
`to_string` writes is such a text, colons at either end included, so that
`BackAgain` follows from the reader's lemma. `LongestIs`, `ChosenIs` and `Around` relate the
loop over the pairs to runs of zeros: no run reaches beyond the one chosen, unless
that is open at the end. `SameBits`, `Masks` and `AllButOne` go bit by bit through a
byte of the mask: 0xF7 leaves one bit out and 0 all, so that `TakenForMapped` is
exact for all addresses.

**Only model-checked.** All liveness (`AllSent`, `AllReceived`, `ThreadsEnd`,
`QueriesReturn`, `GroupSettles`, `CallsEnd`), which is out of the prover's reach. Every
other property of a run that is expected to pass is a theorem.

## 5. Disagreements

Two are checked: a run states what a comment or a message in the code says, and
TLC finds a behaviour that contradicts it.

- `PortRefused` (`RefusedOnlyIfInUse`): a reservation is never taken back (`brewpippd.cpp:112`), so a port
  that could not be opened is "already in use" for every other group.
- `SessionWaits` (`ReceiveReturns`): `receive()` waits for another read after a message whose last
  record fills the buffer (`SecureConnection.cpp:110`).

The following were seen while modelling. The models contain them; no run is
dedicated to them.

- `readStringUntil` does not look at the last place of `read_queue`
  (`AsyncImpl.cpp:92`), though "Wait until delim has been read" (`BufferedIO.hpp:52`):
  a poll returns nothing although the delimiter has come. `NeverCaughtUp` and
  `AnswersAreStale` are what follows for a program.
- An empty `write()` leaves `write_buffer_size` at 0 with `startWrite` posted, and
  the next write is sent twice, or not at all when the running `finishWrite` takes it for
  sent and frees it (`AsyncImpl.cpp:70`); `PortReopen` has one.
- `get_version_info` leaves answers to its repeated commands in the queue, and the
  getter after it returns a default object for the wrong first letter.
- A run of zeros at the end of an address is elided although a longer one stands
  before it (`ip.cpp:157`); a mask that ends in a byte has holes, 0xF7 for /96
  (`ip.cpp:54`); a `netmask` keeps references to temporaries (`ip.hpp:64`).
- `-conf` is stored after the file has been read (`Options.cpp:145`). The test for
  `-P` is inverted (`Options.cpp:178`): `--debug`, `-dsn` and `-db` ask for a password.
- Exceptions of Boost's property tree (`Options.cpp:95`) and of jsoncpp
  (`serial.cpp:281`) are not in the exception specifications they pass through:
  the program is terminated.
- `0.2.4 < 0.2.4` and `1.0.0 < 0.2.4` hold (`version.cpp:55`); a silent device, whose
  version has one component, and "0.2" are accepted.
- A `BufferedIO` can be copied, and the destructor of either copy closes the port of
  both (`BufferedIO.cpp:64`).
- The text of `authority` refers to two tables that are created after it, and it and
  that of `net_addresses` have keys of columns they do not declare
  (`tables/authority.hpp:69`, `tables/net_addresses.hpp:64`); "Daemon starting up" has
  eighteen characters, the line it is written to sixteen (`brewpippd.cpp:80`).
- A server whose `accept()` has failed keeps the connection open
  (`SecureConnection.cpp:163`): a client that is not told otherwise stays in its
  handshake until the server is destroyed.
- A key lost when its file is closed goes unnoticed (`SecureConnection.cpp:203`).
- `roomTemp` is never written; `tempFormat`, `pidMax`, `Kp`, `Ki`, `Kd` are never
  read; a filter is cut to eight bits; `true` for a mode reads as `Test`.

## 6. Assumptions and what is not modelled

- One client thread uses a port. The order of writes is claimed until a `close()`
  frees a buffer in use or a write has no bytes, that of reads up to the first
  `close()`.
- The destructor of `AsyncImpl` is left out: it frees what a detached thread is
  using. So are two branches that are never taken: `open` and `set_option` without an
  error code throw, and the tests behind them (`BufferedSerial.cpp:124`) and in `open()`
  (`AsyncImpl.cpp:40`) find nothing. Of the data race on `write_buffer` between
  `close()` and `startWrite` the outcomes are whole or no buffer; both come after a
  `close()` that tears.
- The daemon's file is not in a build target and does not compile as it stands
  (`constexpr const char compatible_fw_version = "0.2.4"`, a version that is a
  `Json::Value`); it is modelled by what its text says.
- What the address constructor reads behind the end of its vector is any value; that
  it may crash there is left out. So are the Windows branches, `operator&` and the
  `operator==` of addresses.
- The database of `Startup` is external: which of the texts it takes depends on what
  it looks at, `rules`, and on nothing else but `Breaks`, a refusal for any reason.
- `Replies` takes the widths of integers from constants. The run has small ones, so
  that values on either side of each are in it; the proof is for all.
- Where the answer of a dangling reference matters (`IpText!Write`) it is either.
- One program at a time uses the server's files.
- **Not modelled:** `Log`, which does not compile; the panel, whose loop ends at its
  first request; the declarations of the tables for sqlpp11, which are types;
  `Request` and `Authorities`, lookups and constant answers; port enumeration, one
  pass over a directory; string and JSON helpers.

## 7. Plan

Order of the modules: port, queries, daemon and startup (the parts above), then the
sequential parts. Next:

1. More of the system: a reopened port under a running query (a composition of
   `AsyncImpl` and `SerialQuery` at message granularity); `VersionCode::to_string`;
   `operator&` of addresses; port enumeration as an operator.
2. More proofs: from `ImplementsStreamCorrect` the FIFO that `SerialQuery` takes the
   port for, which needs a device whose output depends on what it is sent; that no
   thread of `MonitorGroup` but its own changes what is proved of a group.
