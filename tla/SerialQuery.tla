----------------------------- MODULE SerialQuery ------------------------------
(***************************************************************************)
(* The queries of src/util/serial.cpp over BufferedIO (src/util/           *)
(* BufferedIO.cpp): a program that calls get_version_info and the getters  *)
(* one after the other, each a one-letter command and a polled read of one *)
(* line, and the firmware that answers.                                    *)
(*                                                                         *)
(* The port is what AsyncImpl is shown to be: a FIFO of bytes each way, and *)
(* readStringUntil its DelimSearch.  A line is the text of the message, one *)
(* "byte" here, and the bytes that end it.  The firmware is external.      *)
(***************************************************************************)
EXTENDS DelimSearch, FiniteSetsExt

CONSTANTS
    Program,         \* the calls the program makes, by their command letter
    Tries,           \* tries of get_version_info (10 in the code)
    Timeout,         \* of one read, in sleeps of 100 ms (10 in the code)
    JsonOK,          \* whether the JSON of a reply may be: well formed, or not
    MaxUnsolicited   \* bound on lines the firmware sends of its own accord

ReplyHead == [n |-> "N", t |-> "T", s |-> "S", c |-> "C", v |-> "V"]
Queries == DOMAIN ReplyHead

\* "a" is either letter of sound_alarm, which reads no reply.
Letters == Queries \cup {"a"}

ASSUME ProgramAssumption == Program \in Seq(Letters)
ASSUME LimitsAssumption ==
    Tries \in Nat \ {0} /\ Timeout \in Nat \ {0} /\ MaxUnsolicited \in Nat
ASSUME JsonAssumption == JsonOK \in SUBSET BOOLEAN

\* The text of a line: its first letter, whether a JSON document that parses
\* follows, and (history) the command it answers, 0 for none.
Text(head, json, cmd) == [head |-> head, json |-> json, cmd |-> cmd]
Cr == Text("cr", FALSE, 0)
Nl == Text("nl", FALSE, 0)
Line(text) == <<text, Cr, Nl>>
Newline == <<Nl>>

\* A log line, an empty line, and one with nothing but its end.
Unsolicited == {Line(Text("D", FALSE, 0)), <<Cr, Nl>>, <<Nl>>}

VARIABLES
    call,         \* queries begun
    reading,      \* readStringUntil is running
    elapsed,      \* ... for so long
    tries, line,  \* the locals of get_version_info
    error,        \* the port has failed: write and read throw
    sent,         \* commands written
    commands,     \* ... and not yet seen by the firmware
    booting,      \* opening the port has restarted the firmware
    link,         \* bytes of the firmware on their way
    read_queue,
    unsolicited,  \* lines the firmware sent of its own accord
    lost,         \* commands the firmware never saw
    taken,        \* lines taken out of read_queue
    results       \* what each query returned

clientVars == <<call, reading, elapsed, tries, line>>
deviceVars == <<commands, booting, link, unsolicited, lost>>
vars == <<clientVars, error, sent, deviceVars, read_queue, taken, results>>

Outcomes == {"info", "default", "timeout", "throws", "sent"}
------------------------------------------------------------------------------
Query == Program[call]

Writes(letter) ==
    /\ sent' = sent + 1
    /\ commands' = Append(commands, [letter |-> letter, cmd |-> sent + 1])

\* The call of readStringUntil; its first look at the clock may come late.
StartsReading == reading' = TRUE /\ elapsed' \in 0..Timeout

\* strip_carriage_return: what stands before the last one, if there is one.
Strip(data) ==
    LET crs == {k \in 1..Len(data) : data[k] = Cr}
    IN  IF crs = {} THEN data ELSE SubSeq(data, 1, Max(crs) - 1)

\* line[0] is the letter of the reply ...
Begins(l, letter) == l # <<>> /\ l[1].head = ReplyHead[letter]

\* ... and the rest of the line parses: an answer, not a default object.
Outcome(l, letter) == IF Begins(l, letter) /\ l[1].json THEN "info" ELSE "default"

Answered(l) == IF l = <<>> THEN 0 ELSE l[1].cmd

\* The query returns or throws; last is the last command it has written.
Ends(outcome, l, last) ==
    /\ results' = Append(results, [outcome |-> outcome, cmd |-> Answered(l), last |-> last])
    /\ reading' = FALSE

Init ==
    /\ call = 0 /\ reading = FALSE /\ elapsed = 0 /\ tries = 0 /\ line = <<>>
    /\ error = FALSE /\ sent = 0
    /\ commands = <<>> /\ booting \in BOOLEAN /\ link = <<>>
    /\ unsolicited = 0 /\ lost = 0
    /\ read_queue = <<>> /\ taken = 0 /\ results = <<>>
\* The condition of the for loop of get_version_info, after its tries--.
GoesOn(l) == tries' # 0 /\ ~Begins(l, "n")

------------------------------------------------------------------------------
(* Mistakes one could make in the operations below: what the properties    *)
(* must notice.  No behaviour of Spec uses them.                           *)

\* A poll that returns the line and leaves it in read_queue.
TakesAndKeeps(p) ==
    /\ elapsed < Timeout /\ ~error
    /\ UNCHANGED read_queue
    /\ taken' = taken + 1

\* A timeout that is not counted as a try, and asks again.
VersionTimesOutFree ==
    /\ reading /\ elapsed = Timeout /\ Query = "n" /\ ~error
    /\ Writes("n")
    /\ StartsReading
    /\ UNCHANGED <<call, tries, line, error, booting, link, unsolicited, lost,
                   read_queue, taken, results>>

\* ... and that does not ask again either.
VersionTimesOutSilent ==
    /\ reading /\ elapsed = Timeout /\ Query = "n" /\ ~error
    /\ StartsReading
    /\ UNCHANGED <<call, tries, line, error, sent, deviceVars, read_queue, taken,
                   results>>
------------------------------------------------------------------------------
\* The write of the command and the first call of readStringUntil.
Begin ==
    /\ ~reading /\ call < Len(Program) /\ ~error
    /\ Program[call + 1] \in Queries
    /\ call' = call + 1
    /\ Writes(Program[call + 1])
    /\ StartsReading
    /\ tries' = Tries /\ line' = <<>>
    /\ UNCHANGED <<error, booting, link, unsolicited, lost, read_queue, taken, results>>

\* sound_alarm: the write alone.
Alarm ==
    /\ ~reading /\ call < Len(Program) /\ ~error
    /\ Program[call + 1] = "a"
    /\ call' = call + 1
    /\ Writes("a")
    /\ Ends("sent", <<>>, sent')
    /\ UNCHANGED <<elapsed, tries, line, error, booting, link, unsolicited, lost,
                   read_queue, taken>>

BeginThrows ==
    /\ ~reading /\ call < Len(Program) /\ error
    /\ call' = call + 1
    /\ Ends("throws", <<>>, sent)
    /\ UNCHANGED <<elapsed, tries, line, error, sent, deviceVars, read_queue, taken>>

\* A poll that finds no line, and the sleep after it.
PollMiss ==
    /\ reading /\ elapsed < Timeout /\ ~error
    /\ FirstHit(read_queue, Newline) = {}
    /\ elapsed' \in elapsed + 1..Timeout
    /\ UNCHANGED <<call, reading, tries, line, error, sent, deviceVars, read_queue,
                   taken, results>>

PollThrows ==
    /\ reading /\ elapsed < Timeout /\ error
    /\ Ends("throws", <<>>, sent)
    /\ UNCHANGED <<call, elapsed, tries, line, error, sent, deviceVars, read_queue, taken>>

\* The line cut off at p.
Takes(p) ==
    /\ elapsed < Timeout /\ ~error
    /\ read_queue' = Remainder(read_queue, p, Newline)
    /\ taken' = taken + 1

Data(p) == SubSeq(read_queue, 1, p - 1)

\* get_temperatures and the other getters: one line, whatever it is.
GetterReads ==
    /\ reading /\ Query # "n"
    /\ \E p \in FirstHit(read_queue, Newline) :
         /\ Takes(p)
         /\ Ends(Outcome(Strip(Data(p)), Query), Strip(Data(p)), sent)
    /\ UNCHANGED <<call, elapsed, tries, line, error, sent, deviceVars>>

GetterTimesOut ==
    /\ reading /\ elapsed = Timeout /\ Query # "n"
    /\ Ends("timeout", <<>>, sent)
    /\ UNCHANGED <<call, elapsed, tries, line, error, sent, deviceVars, read_queue, taken>>

VersionReads ==
    /\ reading /\ Query = "n"
    /\ \E p \in FirstHit(read_queue, Newline) :
         /\ Takes(p)
         /\ line' = IF Data(p) = <<>> THEN line ELSE Strip(Data(p))
         /\ \/ Data(p) = <<>> /\ Writes("n")
            \/ Data(p) # <<>> /\ UNCHANGED <<sent, commands>>
    /\ tries' = tries - 1
    /\ \/ GoesOn(line') /\ StartsReading /\ UNCHANGED results
       \/ ~GoesOn(line') /\ Ends(Outcome(line', "n"), line', sent') /\ UNCHANGED elapsed
    /\ UNCHANGED <<call, error, booting, link, unsolicited, lost>>

\* The catch of TimeoutException: ask again.
VersionTimesOut ==
    /\ reading /\ elapsed = Timeout /\ Query = "n" /\ ~error
    /\ Writes("n")
    /\ tries' = tries - 1
    /\ \/ GoesOn(line) /\ StartsReading /\ UNCHANGED results
       \/ ~GoesOn(line) /\ Ends(Outcome(line, "n"), line, sent') /\ UNCHANGED elapsed
    /\ UNCHANGED <<call, line, error, booting, link, unsolicited, lost, read_queue, taken>>

\* ... and the write in the catch throws.
VersionRetryThrows ==
    /\ reading /\ elapsed = Timeout /\ Query = "n" /\ error
    /\ Ends("throws", <<>>, sent)
    /\ UNCHANGED <<call, elapsed, tries, line, error, sent, deviceVars, read_queue, taken>>

\* An empty line again, and the write for it throws: the port has failed since
\* the poll.
VersionRewriteThrows ==
    /\ reading /\ Query = "n"
    /\ \E p \in FirstHit(read_queue, Newline) : Data(p) = <<>> /\ Takes(p)
    /\ error' = TRUE
    /\ Ends("throws", <<>>, sent)
    /\ UNCHANGED <<call, elapsed, tries, line, sent, deviceVars>>
------------------------------------------------------------------------------
(* The firmware and the line.                                              *)

DeviceAnswers ==
    /\ commands # <<>> /\ ~booting /\ Head(commands).letter \in Queries
    /\ commands' = Tail(commands)
    /\ \E json \in JsonOK :
         LET command == Head(commands)
         IN  link' = link \o Line(Text(ReplyHead[command.letter], json, command.cmd))
    /\ UNCHANGED <<clientVars, error, sent, booting, unsolicited, lost, read_queue,
                   taken, results>>

\* The alarm goes on or off, and nothing is said of it.
DeviceObeys ==
    /\ commands # <<>> /\ ~booting /\ Head(commands).letter = "a"
    /\ commands' = Tail(commands)
    /\ UNCHANGED <<clientVars, error, sent, booting, link, unsolicited, lost, read_queue,
                   taken, results>>

DeviceMisses ==
    /\ commands # <<>> /\ booting
    /\ commands' = Tail(commands)
    /\ lost' = lost + 1
    /\ UNCHANGED <<clientVars, error, sent, booting, link, unsolicited, read_queue,
                   taken, results>>

BootEnds ==
    /\ booting
    /\ booting' = FALSE
    /\ UNCHANGED <<clientVars, error, sent, commands, link, unsolicited, lost,
                   read_queue, taken, results>>

DeviceSpeaks ==
    /\ ~booting /\ unsolicited < MaxUnsolicited
    /\ unsolicited' = unsolicited + 1
    /\ \E l \in Unsolicited : link' = link \o l
    /\ UNCHANGED <<clientVars, error, sent, commands, booting, lost, read_queue,
                   taken, results>>

Arrive ==
    /\ ~error
    /\ \E n \in 1..Len(link) :
         /\ read_queue' = read_queue \o SubSeq(link, 1, n)
         /\ link' = SubSeq(link, n + 1, Len(link))
    /\ UNCHANGED <<clientVars, error, sent, commands, booting, unsolicited, lost,
                   taken, results>>

PortFails ==
    /\ ~error
    /\ error' = TRUE
    /\ UNCHANGED <<clientVars, sent, deviceVars, read_queue, taken, results>>
------------------------------------------------------------------------------
Reads ==
    \/ PollMiss \/ PollThrows \/ GetterReads \/ GetterTimesOut
    \/ VersionReads \/ VersionTimesOut \/ VersionRetryThrows \/ VersionRewriteThrows

Device ==
    \/ DeviceAnswers \/ DeviceObeys \/ DeviceMisses \/ BootEnds \/ DeviceSpeaks
    \/ Arrive \/ PortFails

Next == Begin \/ Alarm \/ BeginThrows \/ Reads \/ Device

Spec == Init /\ [][Next]_vars

\* Only the program's own thread has to run: the device owes it nothing.
FairSpec == Spec /\ WF_vars(Reads)
------------------------------------------------------------------------------
Bytes == [head : {"N", "T", "S", "C", "V", "D", "cr", "nl"}, json : BOOLEAN, cmd : Nat]

\* Every variable keeps its type.
TypeOK ==
    /\ call \in 0..Len(Program) /\ reading \in BOOLEAN /\ elapsed \in 0..Timeout
    /\ reading => call > 0
    /\ tries \in 0..Tries /\ line \in Seq(Bytes)
    /\ reading => tries > 0
    /\ error \in BOOLEAN /\ sent \in Nat
    /\ commands \in Seq([letter : Letters, cmd : Nat])
    /\ booting \in BOOLEAN /\ link \in Seq(Bytes) /\ read_queue \in Seq(Bytes)
    /\ unsolicited \in 0..MaxUnsolicited /\ lost \in Nat /\ taken \in Nat
    /\ results \in Seq([outcome : Outcomes, cmd : Nat, last : Nat])

\* Once a line has been taken out, something of a later line is always left
\* in read_queue: the program never catches up with the device, because
\* readStringUntil finds a newline only when another byte has followed it.
NeverCaughtUp == taken > 0 => read_queue # <<>>

\* With a device that only answers, the line that ends a query is never the
\* answer to the last command the query wrote: it was already outdated when
\* that command went out, and so is every reading get_temperatures returns.
AnswersAreStale ==
    unsolicited = 0 =>
        \A k \in 1..Len(results) : results[k].cmd # 0 => results[k].cmd < results[k].last

\* Answers reach the queries in the order of the commands, none twice: a
\* query never gets an answer from before one an earlier query has had.
AnswersInOrder ==
    \A j, k \in 1..Len(results) :
        j < k /\ results[j].cmd # 0 /\ results[k].cmd # 0 => results[j].cmd < results[k].cmd

\* A get_version_info writes its "n" at most once more than it has tries,
\* whatever empty lines and timeouts it meets.
VersionWrites(k) == IF Program[k] = "n" THEN Tries + 1 ELSE 1
WritesBounded ==
    \A k \in 1..Len(results) :
        results[k].last <= (IF k = 1 THEN 0 ELSE results[k - 1].last) + VersionWrites(k)

\* Every query comes back, from a device that has gone silent too.
QueriesReturn == reading ~> ~reading
------------------------------------------------------------------------------
(* The inductive invariants behind WritesBounded, AnswersInOrder and       *)
(* AnswersAreStale.                                                        *)

LastOf(k) == IF k = 0 THEN 0 ELSE results[k].last

\* Each query has one result, the one that is running none yet; since the last
\* result a command has gone out for the query and for each try it has used.
WritesCounted ==
    /\ call = Len(results) + (IF reading THEN 1 ELSE 0)
    /\ sent <= LastOf(Len(results))
               + (IF ~reading THEN 0 ELSE IF Query = "n" THEN 1 + Tries - tries ELSE 1)
    /\ WritesBounded

\* The commands a sequence is about, in results, lines and commands alike.
Numbers(s) == {s[k].cmd : k \in 1..Len(s)} \ {0}
Below(S, T) == \A a \in S, b \in T : a < b
Increasing(s) ==
    \A j, k \in 1..Len(s) : j < k /\ s[j].cmd # 0 /\ s[k].cmd # 0 => s[j].cmd < s[k].cmd

\* The bytes between the firmware and the program, and the line the loop of
\* get_version_info still has.
Stream == read_queue \o link
Held == IF reading THEN line ELSE <<>>

\* A command passes from commands to the stream, to the line and to a result,
\* and does not overtake the ones before it.
Pipeline ==
    /\ Increasing(results) /\ Increasing(Stream) /\ Increasing(commands)
    /\ Below(Numbers(results), Numbers(Held))
    /\ Below(Numbers(results) \cup Numbers(Held), Numbers(Stream))
    /\ Below(Numbers(results) \cup Numbers(Held) \cup Numbers(Stream), Numbers(commands))
    /\ \A k \in 1..Len(commands) : commands[k].cmd # 0
    /\ Below(Numbers(results) \cup Numbers(Held) \cup Numbers(Stream) \cup Numbers(commands),
             {sent + 1})

\* A device that only answers: the end of a line is followed by an answer.
AnswersFollow ==
    unsolicited = 0 =>
        \A k \in 1..Len(Stream) - 1 : Stream[k] = Nl => Stream[k + 1].cmd # 0
==============================================================================
