--------------------------- MODULE SerialQueryProofs --------------------------
(* Proofs about the queries.  SerialQuery: its types, that the program     *)
(* never catches up with the device, what a query may write, and the order *)
(* in which answers reach the queries.  Replies: what the documents of     *)
(* those answers are read as, and that to_string's are read back.          *)
EXTENDS SerialQuery, Replies, SequenceTheorems, WellFoundedInduction, TLAPS

\* A set of positions that is not empty has a last one.
LEMMA LastPosition ==
  ASSUME NEW n \in Nat, NEW T \in SUBSET (1..n), T # {}
  PROVE  Max(T) \in T /\ \A y \in T : y <= Max(T)
<1>. DEFINE D == {n - x : x \in T}
<1>1. D \subseteq Nat /\ D # {}
  <2>1. PICK x \in T : TRUE
    OBVIOUS
  <2>2. n - x \in D
    BY <2>1
  <2>. QED
    BY <2>2
<1>2. PICK d \in D : \A y \in D : ~(<<y, d>> \in OpToRel(<, Nat))
  <2>. HIDE DEF D
  <2>. QED
    BY <1>1, WFMin, NatLessThanWellFounded
<1>3. \A y \in D : d <= y
  <2>. HIDE DEF D
  <2>. SUFFICES ASSUME NEW y \in D PROVE d <= y
    OBVIOUS
  <2>1. d \in Nat /\ y \in Nat /\ <<y, d>> \in Nat \X Nat
    BY <1>1
  <2>2. y < d => <<y, d>> \in OpToRel(<, Nat)
    BY <2>1 DEF OpToRel
  <2>3. ~(y < d)
    BY <1>2, <2>2, Zenon
  <2>. QED
    BY <2>1, <2>3
<1>4. n - d \in T /\ \A y \in T : n - d >= y
  BY <1>3
<1>. QED
  BY <1>4 DEF Max

\* What strip_carriage_return() returns is a first part of what it is given.
LEMMA Stripped ==
  ASSUME NEW data \in Seq(Bytes)
  PROVE  \E m \in 0..Len(data) : Strip(data) = SubSeq(data, 1, m)
<1>. DEFINE crs == {k \in 1..Len(data) : data[k] = Cr}
<1>1. CASE crs = {}
  <2>1. Strip(data) = data
    BY <1>1 DEF Strip
  <2>2. data = SubSeq(data, 1, Len(data)) /\ Len(data) \in 0..Len(data)
    BY SubSeqFull
  <2>. QED
    BY <2>1, <2>2
<1>2. CASE crs # {}
  <2>1. Max(crs) \in 1..Len(data)
    <3>1. crs \in SUBSET (1..Len(data)) /\ Len(data) \in Nat
      OBVIOUS
    <3>. HIDE DEF crs
    <3>. QED
      BY <1>2, <3>1, LastPosition
  <2>2. Strip(data) = SubSeq(data, 1, Max(crs) - 1)
    BY <1>2 DEF Strip
  <2>3. Max(crs) - 1 \in 0..Len(data)
    BY <2>1
  <2>. QED
    BY <2>2, <2>3
<1>. QED
  BY <1>1, <1>2

\* ... so it is a line, and about the same command unless nothing is left of it.
LEMMA StrippedLine ==
  ASSUME NEW data \in Seq(Bytes)
  PROVE  /\ Strip(data) \in Seq(Bytes)
         /\ Numbers(Strip(data)) \subseteq Numbers(data)
         /\ Strip(data) # <<>> => data # <<>> /\ Strip(data)[1] = data[1]
<1>1. PICK m \in 0..Len(data) : Strip(data) = SubSeq(data, 1, m)
  BY Stripped
<1>2. /\ SubSeq(data, 1, m) \in Seq(Bytes) /\ Len(SubSeq(data, 1, m)) = m
      /\ \A k \in 1..m : SubSeq(data, 1, m)[k] = data[k]
  OBVIOUS
<1>3. m # 0 => data # <<>>
  OBVIOUS
<1>. QED
  BY <1>1, <1>2, <1>3 DEF Numbers

LEMMA SomethingLeft ==
  ASSUME NEW S, NEW queue \in Seq(S), NEW T, NEW delim \in Seq(T),
         NEW p \in FirstHit(queue, delim)
  PROVE  Remainder(queue, p, delim) \in Seq(S) \ {<<>>}
<1>1. /\ p \in Nat /\ Len(queue) \in Nat /\ Len(delim) \in Nat
      /\ p + Len(delim) \in 1..Len(queue)
  BY DEF FirstHit, Hits, Visited
<1>2. /\ Remainder(queue, p, delim) \in Seq(S)
      /\ Len(Remainder(queue, p, delim)) = Len(queue) - (p + Len(delim)) + 1
  BY <1>1 DEF Remainder
<1>. QED
  BY <1>1, <1>2

Commands == [letter : Letters, cmd : Nat]
ResultType == [outcome : Outcomes, cmd : Nat, last : Nat]

LEMMA WritesType ==
  ASSUME TypeOK, NEW letter \in Letters, Writes(letter)
  PROVE  sent' \in Nat /\ commands' \in Seq(Commands)
BY DEF TypeOK, Writes, Commands

LEMMA EndsType ==
  ASSUME TypeOK, NEW outcome \in Outcomes, NEW l \in Seq(Bytes), NEW last \in Nat,
         Ends(outcome, l, last)
  PROVE  results' \in Seq(ResultType) /\ reading' = FALSE
<1>1. Answered(l) \in Nat
  <2>1. l # <<>> => l[1] \in Bytes
    OBVIOUS
  <2>. QED
    BY <2>1 DEF Answered, Bytes
<1>2. [outcome |-> outcome, cmd |-> Answered(l), last |-> last] \in ResultType
  BY <1>1 DEF ResultType
<1>3. results \in Seq(ResultType)
  BY DEF TypeOK, ResultType
<1>. QED
  BY <1>2, <1>3 DEF Ends

\* A line of the queue is a line, and so is what the poll leaves of the queue.
LEMMA LineTaken ==
  ASSUME TypeOK, NEW p \in FirstHit(read_queue, Newline), Takes(p)
  PROVE  /\ read_queue' \in Seq(Bytes) \ {<<>>} /\ taken' \in Nat
         /\ p \in Nat /\ p + 1 \in 1..Len(read_queue) /\ read_queue[p] = Nl
         /\ read_queue' = SubSeq(read_queue, p + 1, Len(read_queue))
         /\ Data(p) \in Seq(Bytes) /\ Strip(Data(p)) \in Seq(Bytes)
<1>1. Newline \in Seq({Nl}) /\ Len(Newline) = 1 /\ Newline[1] = Nl /\ read_queue \in Seq(Bytes)
  BY DEF Newline, TypeOK
<1>2. p \in Nat /\ p + 1 \in 1..Len(read_queue) /\ p >= 1 /\ read_queue[p] = Nl
  BY <1>1 DEF FirstHit, Hits, Visited, StandsAt
<1>3. read_queue' = SubSeq(read_queue, p + 1, Len(read_queue))
  BY <1>1 DEF Takes, Remainder
<1>4. read_queue' \in Seq(Bytes) \ {<<>>}
  BY <1>1, SomethingLeft DEF Takes
<1>5. Data(p) \in Seq(Bytes)
  BY <1>1, <1>2 DEF Data
<1>. QED
  BY <1>2, <1>3, <1>4, <1>5, StrippedLine DEF TypeOK, Takes

LEMMA OutcomeType ==
  ASSUME NEW l, NEW letter
  PROVE  Outcome(l, letter) \in Outcomes
BY DEF Outcome, Outcomes

LEMMA TypeInit == Init => TypeOK
<1>. SUFFICES ASSUME Init PROVE TypeOK
  OBVIOUS
<1>1. Len(Program) \in Nat /\ Tries \in Nat /\ Timeout \in Nat /\ MaxUnsolicited \in Nat
  BY ProgramAssumption, LimitsAssumption
<1>2. /\ <<>> \in Seq(Bytes) /\ <<>> \in Seq([letter : Letters, cmd : Nat])
      /\ <<>> \in Seq([outcome : Outcomes, cmd : Nat, last : Nat])
  OBVIOUS
<1>3. 0 \in 0..Len(Program) /\ 0 \in 0..Tries /\ 0 \in 0..Timeout /\ 0 \in 0..MaxUnsolicited
  BY <1>1
<1>4. /\ reading = FALSE /\ error = FALSE /\ booting \in BOOLEAN
      /\ reading \in BOOLEAN /\ error \in BOOLEAN
  BY DEF Init
<1>5. sent \in Nat /\ lost \in Nat /\ taken \in Nat
  BY DEF Init
<1>. QED
  BY <1>2, <1>3, <1>4, <1>5, Zenon DEF Init, TypeOK

LEMMA TypeQueries == TypeOK /\ [Begin \/ Alarm \/ BeginThrows \/ Reads]_vars => TypeOK'
<1>. SUFFICES ASSUME TypeOK, [Begin \/ Alarm \/ BeginThrows \/ Reads]_vars PROVE TypeOK'
  OBVIOUS
<1>. USE LimitsAssumption
<1>1. /\ {"n", "a"} \subseteq Letters /\ Len(Program) \in Nat
      /\ \A k \in 1..Len(Program) : Program[k] \in Letters
  BY ProgramAssumption DEF Letters, Queries, ReplyHead
<1>2. <<>> \in Seq(Bytes) /\ {"throws", "timeout", "sent"} \subseteq Outcomes
  BY DEF Outcomes
<1>3. CASE Begin
  <2>1. Program[call + 1] \in Letters /\ call' \in 0..Len(Program) /\ call' > 0
    BY <1>1, <1>3 DEF Begin, TypeOK
  <2>2. sent' \in Nat /\ commands' \in Seq(Commands)
    BY <1>3, <2>1, WritesType DEF Begin
  <2>. QED
    BY <1>2, <1>3, <2>1, <2>2 DEF Begin, StartsReading, TypeOK, Commands
<1>4. CASE Alarm
  <2>1. sent' \in Nat /\ commands' \in Seq(Commands)
    BY <1>1, <1>4, WritesType DEF Alarm
  <2>2. results' \in Seq(ResultType) /\ reading' = FALSE
    BY <1>2, <1>4, <2>1, EndsType DEF Alarm
  <2>3. call' \in 0..Len(Program)
    BY <1>1, <1>4 DEF Alarm, TypeOK
  <2>. QED
    BY <1>4, <2>1, <2>2, <2>3 DEF Alarm, TypeOK, Commands, ResultType
<1>5. CASE BeginThrows \/ PollThrows \/ GetterTimesOut \/ VersionRetryThrows
  <2>1. /\ UNCHANGED <<elapsed, tries, line, error, sent, deviceVars, read_queue, taken>>
        /\ call' \in 0..Len(Program)
        /\ \E outcome \in {"throws", "timeout"} : Ends(outcome, <<>>, sent)
    BY <1>1, <1>5 DEF BeginThrows, PollThrows, GetterTimesOut, VersionRetryThrows, TypeOK
  <2>2. results' \in Seq(ResultType) /\ reading' = FALSE
    BY <1>2, <2>1, EndsType DEF TypeOK
  <2>. QED
    BY <2>1, <2>2 DEF TypeOK, deviceVars, ResultType
<1>6. CASE PollMiss
  BY <1>6 DEF PollMiss, TypeOK, deviceVars
<1>7. CASE GetterReads
  <2>1. PICK p \in FirstHit(read_queue, Newline) :
          Takes(p) /\ Ends(Outcome(Strip(Data(p)), Query), Strip(Data(p)), sent)
    BY <1>7 DEF GetterReads
  <2>2. read_queue' \in Seq(Bytes) /\ taken' \in Nat /\ Strip(Data(p)) \in Seq(Bytes)
    BY <2>1, LineTaken
  <2>3. results' \in Seq(ResultType) /\ reading' = FALSE
    BY <2>1, <2>2, EndsType, OutcomeType DEF TypeOK
  <2>. QED
    BY <1>7, <2>2, <2>3 DEF GetterReads, TypeOK, deviceVars, ResultType
<1>8. CASE VersionReads
  <2>1. PICK p \in FirstHit(read_queue, Newline) :
          /\ Takes(p)
          /\ line' = IF Data(p) = <<>> THEN line ELSE Strip(Data(p))
          /\ UNCHANGED <<sent, commands>> \/ Writes("n")
    BY <1>8 DEF VersionReads
  <2>2. read_queue' \in Seq(Bytes) /\ taken' \in Nat /\ line' \in Seq(Bytes)
    BY <2>1, LineTaken DEF TypeOK
  <2>3. sent' \in Nat /\ commands' \in Seq(Commands)
    BY <1>1, <2>1, WritesType DEF TypeOK, Commands
  <2>4. /\ results' \in Seq(ResultType)
        /\ tries' \in 0..Tries /\ elapsed' \in 0..Timeout /\ reading' \in BOOLEAN
        /\ reading' => tries' > 0
    <3>1. tries' \in 0..Tries
      BY <1>8 DEF VersionReads, TypeOK
    <3>2. CASE GoesOn(line') /\ StartsReading /\ UNCHANGED results
      BY <3>1, <3>2 DEF GoesOn, StartsReading, TypeOK, ResultType
    <3>3. CASE Ends(Outcome(line', "n"), line', sent') /\ UNCHANGED elapsed
      <4>1. results' \in Seq(ResultType) /\ reading' = FALSE
        BY <2>2, <2>3, <3>3, EndsType, OutcomeType
      <4>. QED
        BY <3>1, <3>3, <4>1 DEF TypeOK
    <3>. QED
      BY <1>8, <3>2, <3>3 DEF VersionReads
  <2>. QED
    BY <1>8, <2>2, <2>3, <2>4 DEF VersionReads, TypeOK, Commands, ResultType
<1>9. CASE VersionTimesOut
  <2>1. sent' \in Nat /\ commands' \in Seq(Commands)
    BY <1>1, <1>9, WritesType DEF VersionTimesOut
  <2>2. /\ results' \in Seq(ResultType)
        /\ tries' \in 0..Tries /\ elapsed' \in 0..Timeout /\ reading' \in BOOLEAN
        /\ reading' => tries' > 0
    <3>1. tries' \in 0..Tries
      BY <1>9 DEF VersionTimesOut, TypeOK
    <3>2. CASE GoesOn(line) /\ StartsReading /\ UNCHANGED results
      BY <3>1, <3>2 DEF GoesOn, StartsReading, TypeOK, ResultType
    <3>3. CASE Ends(Outcome(line, "n"), line, sent') /\ UNCHANGED elapsed
      <4>1. results' \in Seq(ResultType) /\ reading' = FALSE
        BY <2>1, <3>3, EndsType, OutcomeType DEF TypeOK
      <4>. QED
        BY <3>1, <3>3, <4>1 DEF TypeOK
    <3>. QED
      BY <1>9, <3>2, <3>3 DEF VersionTimesOut
  <2>. QED
    BY <1>9, <2>1, <2>2 DEF VersionTimesOut, TypeOK, Commands, ResultType
<1>10. CASE VersionRewriteThrows
  <2>1. PICK p \in FirstHit(read_queue, Newline) : Takes(p)
    BY <1>10 DEF VersionRewriteThrows
  <2>2. read_queue' \in Seq(Bytes) /\ taken' \in Nat
    BY <2>1, LineTaken
  <2>3. error' = TRUE /\ Ends("throws", <<>>, sent)
    BY <1>10 DEF VersionRewriteThrows
  <2>4. results' \in Seq(ResultType) /\ reading' = FALSE
    BY <1>2, <2>3, EndsType DEF TypeOK
  <2>. QED
    BY <1>10, <2>2, <2>3, <2>4 DEF VersionRewriteThrows, TypeOK, deviceVars, ResultType
<1>11. CASE UNCHANGED vars
  BY <1>11 DEF vars, clientVars, deviceVars, TypeOK
<1>. QED
  BY <1>3, <1>4, <1>5, <1>6, <1>7, <1>8, <1>9, <1>10, <1>11 DEF Reads

LEMMA LineType ==
  ASSUME NEW letter \in Queries, NEW json \in BOOLEAN, NEW cmd \in Nat
  PROVE  Line(Text(ReplyHead[letter], json, cmd)) \in Seq(Bytes)
<1>1. ReplyHead[letter] \in {"N", "T", "S", "C", "V"}
  BY DEF Queries, ReplyHead
<1>. QED
  BY <1>1 DEF Line, Text, Cr, Nl, Bytes

LEMMA UnsolicitedType == Unsolicited \subseteq Seq(Bytes)
BY DEF Unsolicited, Line, Text, Cr, Nl, Bytes

\* The firmware takes the first command.
LEMMA CommandTaken ==
  ASSUME TypeOK, commands # <<>>, commands' = Tail(commands)
  PROVE  /\ commands \in Seq(Commands) /\ commands' \in Seq(Commands)
         /\ Head(commands) \in Commands /\ Head(commands) = commands[1]
         /\ Len(commands) = Len(commands') + 1
         /\ \A k \in 1..Len(commands') : commands'[k] = commands[k + 1]
<1>1. commands \in Seq(Commands)
  BY DEF TypeOK, Commands
<1>. QED
  BY <1>1, HeadTailProperties

\* The bytes that arrive leave the link at its front: the stream is the same.
LEMMA ArriveMoves ==
  ASSUME TypeOK, Arrive
  PROVE  /\ read_queue' \in Seq(Bytes) \ {<<>>} /\ link' \in Seq(Bytes)
         /\ Stream' = Stream
<1>1. PICK n \in 1..Len(link) :
        /\ read_queue' = read_queue \o SubSeq(link, 1, n)
        /\ link' = SubSeq(link, n + 1, Len(link))
  BY DEF Arrive
<1>. DEFINE first == SubSeq(link, 1, n)
<1>2. read_queue \in Seq(Bytes) /\ link \in Seq(Bytes) /\ n \in 1..Len(link)
  BY DEF TypeOK
<1>3. first \in Seq(Bytes) /\ link' \in Seq(Bytes) /\ Len(first) = n /\ n # 0
  BY <1>1, <1>2, SubSeqProperties
<1>4. first \o link' = link
  BY <1>1, <1>2
<1>. HIDE DEF first
<1>5. read_queue' = read_queue \o first
  BY <1>1 DEF first
<1>6. read_queue' \in Seq(Bytes) \ {<<>>}
  BY <1>2, <1>3, <1>5
<1>7. (read_queue \o first) \o link' = read_queue \o (first \o link')
  BY <1>2, <1>3, ConcatAssociative, SMTT(30)
<1>. QED
  BY <1>3, <1>4, <1>5, <1>6, <1>7 DEF Stream

LEMMA TypeDevice == TypeOK /\ Device => TypeOK'
<1>. SUFFICES ASSUME TypeOK, Device PROVE TypeOK'
  OBVIOUS
<1>. USE LimitsAssumption
<1>1. CASE DeviceAnswers
  <2>1. PICK json \in JsonOK :
          link' = link \o Line(Text(ReplyHead[Head(commands).letter], json,
                                    Head(commands).cmd))
    BY <1>1 DEF DeviceAnswers
  <2>2. /\ commands' \in Seq(Commands)
        /\ Head(commands).letter \in Queries /\ Head(commands).cmd \in Nat
    BY <1>1, CommandTaken DEF DeviceAnswers, Commands
  <2>3. link' \in Seq(Bytes)
    BY <2>1, <2>2, LineType, JsonAssumption, ConcatProperties DEF TypeOK
  <2>. QED
    BY <1>1, <2>2, <2>3 DEF DeviceAnswers, clientVars, TypeOK, Commands
<1>2. CASE DeviceObeys \/ DeviceMisses
  <2>1. commands' \in Seq(Commands)
    BY <1>2, CommandTaken DEF DeviceObeys, DeviceMisses
  <2>2. CASE DeviceObeys
    BY <2>1, <2>2 DEF DeviceObeys, clientVars, TypeOK, Commands
  <2>3. CASE DeviceMisses
    BY <2>1, <2>3 DEF DeviceMisses, clientVars, TypeOK, Commands
  <2>. QED
    BY <1>2, <2>2, <2>3
<1>3. CASE BootEnds
  BY <1>3 DEF BootEnds, clientVars, TypeOK
<1>6. CASE PortFails
  BY <1>6 DEF PortFails, clientVars, deviceVars, TypeOK
<1>4. CASE DeviceSpeaks
  <2>1. link' \in Seq(Bytes)
    BY <1>4, UnsolicitedType, ConcatProperties DEF DeviceSpeaks, TypeOK
  <2>. QED
    BY <1>4, <2>1 DEF DeviceSpeaks, clientVars, TypeOK
<1>5. CASE Arrive
  BY <1>5, ArriveMoves DEF Arrive, clientVars, TypeOK
<1>. QED
  BY <1>1, <1>2, <1>3, <1>4, <1>5, <1>6 DEF Device

LEMMA TypeKept == TypeOK /\ [Next]_vars => TypeOK'
BY TypeQueries, TypeDevice DEF Next

\* Every variable keeps its type, for every program, every number of tries and
\* sleeps, and whatever the firmware sends: get_version_info never decrements
\* its tries below zero.
THEOREM TypeCorrect == Spec => []TypeOK
BY TypeInit, TypeKept, PTL DEF Spec

\* Once a line has been taken out, read_queue is never empty again, for every
\* program, number of tries and timeout, and whatever the firmware sends: the
\* program stays at least a byte, and so an answer, behind.
THEOREM NeverCaughtUpCorrect == Spec => []NeverCaughtUp
<1>1. Init => NeverCaughtUp
  BY DEF Init, NeverCaughtUp
<1>2. TypeOK /\ NeverCaughtUp /\ [Next]_vars => NeverCaughtUp'
  <2>. SUFFICES ASSUME TypeOK, NeverCaughtUp, [Next]_vars PROVE NeverCaughtUp'
    OBVIOUS
  <2>1. CASE GetterReads \/ VersionReads \/ VersionRewriteThrows
    BY <2>1, LineTaken DEF GetterReads, VersionReads, VersionRewriteThrows, NeverCaughtUp
  <2>2. CASE Arrive
    BY <2>2, ArriveMoves DEF NeverCaughtUp
  <2>3. CASE UNCHANGED <<read_queue, taken>>
    BY <2>3 DEF NeverCaughtUp
  <2>. QED
    BY <2>1, <2>2, <2>3 DEF Next, Reads, Device, Begin, Alarm, BeginThrows, PollMiss,
       PollThrows, GetterTimesOut, VersionTimesOut, VersionRetryThrows, DeviceAnswers,
       DeviceObeys, DeviceMisses, BootEnds, DeviceSpeaks, PortFails, vars
<1>. QED
  BY <1>1, <1>2, TypeCorrect, PTL DEF Spec

\* A result that comes with no more writes than a query has keeps the bound.
LEMMA ResultCounted ==
  ASSUME TypeOK, WritesBounded, NEW outcome, NEW l, NEW last \in Nat,
         Ends(outcome, l, last),
         last <= LastOf(Len(results)) + VersionWrites(Len(results) + 1)
  PROVE  /\ WritesBounded'
         /\ Len(results') = Len(results) + 1 /\ LastOf(Len(results))' = last
<1>. DEFINE new == [outcome |-> outcome, cmd |-> Answered(l), last |-> last]
<1>1. results \in Seq(ResultType) /\ Len(results) \in Nat
  BY DEF TypeOK, ResultType
<1>2. results' = Append(results, new) /\ new.last = last
  BY DEF Ends
<1>. HIDE DEF new
<1>3. /\ Len(results') = Len(results) + 1 /\ results'[Len(results) + 1] = new
      /\ \A k \in 1..Len(results) : results'[k] = results[k]
  BY <1>1, <1>2
<1>4. ASSUME NEW k \in 1..Len(results')
      PROVE  results'[k].last <= (IF k = 1 THEN 0 ELSE results'[k - 1].last) + VersionWrites(k)
  <2>1. CASE k = Len(results) + 1
    <3>1. LastOf(Len(results)) = IF k = 1 THEN 0 ELSE results'[k - 1].last
      BY <1>1, <1>3, <2>1 DEF LastOf
    <3>. QED
      BY <1>2, <1>3, <2>1, <3>1
  <2>2. CASE k # Len(results) + 1
    <3>1. k \in 1..Len(results) /\ (k # 1 => k - 1 \in 1..Len(results))
      BY <1>1, <1>3, <2>2
    <3>. QED
      BY <1>3, <3>1 DEF WritesBounded
  <2>. QED
    BY <2>1, <2>2
<1>5. LastOf(Len(results))' = last
  BY <1>1, <1>2, <1>3 DEF LastOf
<1>. QED
  BY <1>3, <1>4, <1>5 DEF WritesBounded, VersionWrites

LEMMA WritesCountedInit == Init => WritesCounted
BY DEF Init, WritesCounted, WritesBounded, LastOf

\* Each try costs a command at most, and the query that has used them all ends.
LEMMA WritesCountedKept == TypeOK /\ WritesCounted /\ [Next]_vars => WritesCounted'
<1>. SUFFICES ASSUME TypeOK, WritesCounted, [Next]_vars PROVE WritesCounted'
  OBVIOUS
<1>1. /\ Tries \in Nat \ {0} /\ sent \in Nat /\ tries \in 0..Tries /\ call \in Nat
      /\ Len(results) \in Nat /\ LastOf(Len(results)) \in Nat
      /\ reading \in BOOLEAN /\ (reading => tries > 0)
  <2>1. results \in Seq(ResultType)
    BY DEF TypeOK, ResultType
  <2>2. Len(results) # 0 => results[Len(results)] \in ResultType
    BY <2>1
  <2>3. Len(results) # 0 => results[Len(results)].last \in Nat
    BY <2>2 DEF ResultType
  <2>. QED
    BY <2>1, <2>3, LimitsAssumption, ProgramAssumption DEF TypeOK, LastOf
<1>2. ASSUME NEW last \in Nat, NEW outcome, NEW l, Ends(outcome, l, last), last = sent',
             call' = Len(results) + 1,
             last <= LastOf(Len(results)) + VersionWrites(Len(results) + 1)
      PROVE  WritesCounted'
  <2>1. /\ WritesBounded' /\ Len(results') = Len(results) + 1
        /\ LastOf(Len(results))' = last
    BY <1>2, ResultCounted DEF WritesCounted
  <2>2. reading' = FALSE
    BY <1>2 DEF Ends
  <2>. QED
    BY <1>1, <1>2, <2>1, <2>2 DEF WritesCounted
<1>3. ASSUME UNCHANGED <<call, reading, results, sent>>, reading => tries' = tries
      PROVE  WritesCounted'
  BY <1>3 DEF WritesCounted, WritesBounded, LastOf, VersionWrites, Query
<1>4. CASE Begin
  <2>1. /\ ~reading /\ reading' = TRUE /\ call' = call + 1 /\ sent' = sent + 1
        /\ tries' = Tries /\ results' = results
    BY <1>4 DEF Begin, Writes, StartsReading
  <2>. QED
    BY <1>1, <2>1 DEF WritesCounted, WritesBounded, LastOf, VersionWrites, Query
<1>5. CASE Alarm
  <2>1. ~reading /\ sent' = sent + 1 /\ call' = call + 1 /\ Ends("sent", <<>>, sent')
    BY <1>5 DEF Alarm, Writes
  <2>. QED
    BY <1>1, <1>2, <2>1 DEF WritesCounted, VersionWrites
<1>6. CASE BeginThrows
  <2>1. ~reading /\ sent' = sent /\ call' = call + 1 /\ Ends("throws", <<>>, sent)
    BY <1>6 DEF BeginThrows
  <2>. QED
    BY <1>1, <1>2, <2>1 DEF WritesCounted, VersionWrites
<1>7. CASE \/ PollThrows \/ GetterTimesOut \/ VersionRetryThrows
           \/ GetterReads \/ VersionRewriteThrows
  <2>1. /\ reading /\ sent' = sent /\ call' = call
        /\ \E outcome, l : Ends(outcome, l, sent)
    BY <1>7 DEF PollThrows, GetterTimesOut, VersionRetryThrows, GetterReads,
       VersionRewriteThrows
  <2>. QED
    BY <1>1, <1>2, <2>1 DEF WritesCounted, VersionWrites, Query
<1>8. CASE VersionReads \/ VersionTimesOut
  <2>1. /\ reading /\ Query = "n" /\ call' = call /\ tries' = tries - 1
        /\ sent' \in {sent, sent + 1}
        /\ \/ tries' # 0 /\ reading' = TRUE /\ results' = results
           \/ \E outcome, l : Ends(outcome, l, sent')
    BY <1>8 DEF VersionReads, VersionTimesOut, Writes, GoesOn, StartsReading
  <2>2. CASE tries' # 0 /\ reading' = TRUE /\ results' = results
    <3>1. WritesBounded' /\ Len(results') = Len(results) /\ Query' = Query
          /\ LastOf(Len(results))' = LastOf(Len(results))
      BY <2>1, <2>2 DEF WritesCounted, WritesBounded, LastOf, VersionWrites, Query
    <3>. QED
      BY <1>1, <2>1, <2>2, <3>1 DEF WritesCounted
  <2>3. CASE \E outcome, l : Ends(outcome, l, sent')
    BY <1>1, <1>2, <2>1, <2>3 DEF WritesCounted, VersionWrites, Query
  <2>. QED
    BY <2>1, <2>2, <2>3
<1>9. CASE PollMiss \/ UNCHANGED vars
  BY <1>3, <1>9 DEF PollMiss, vars, clientVars
<1>10. CASE Device
  BY <1>3, <1>10 DEF Device, DeviceAnswers, DeviceObeys, DeviceMisses, BootEnds,
     DeviceSpeaks, Arrive, PortFails, clientVars
<1>. QED
  BY <1>4, <1>5, <1>6, <1>7, <1>8, <1>9, <1>10 DEF Next, Reads

\* Whatever empty lines, timeouts and failures it meets, get_version_info writes
\* its "n" at most once more than it has tries, and a getter its letter once.
THEOREM WritesBoundedCorrect == Spec => []WritesBounded
<1>1. WritesCounted => WritesBounded
  BY DEF WritesCounted
<1>. QED
  BY <1>1, WritesCountedInit, WritesCountedKept, TypeCorrect, PTL DEF Spec

------------------------------------------------------------------------------
(* That a query cannot go on for ever: what a step of it counts down.  With *)
(* the fairness of FairSpec it is the reason for QueriesReturn.            *)

\* The sleeps of the try that is running and those of the tries left, and one for
\* the end of each try.
StepsLeft == tries * (Timeout + 1) - elapsed

\* As long as a query runs, each step is one of the device's, which leaves the
\* program where it is, or brings the query nearer to its end.
QueryRunsOut ==
    [][reading /\ reading' =>
         \/ Device /\ UNCHANGED clientVars
         \/ StepsLeft' < StepsLeft]_vars

\* The count is at most Tries * (Timeout + 1), and above zero while a query runs.
StepsLeftBounded ==
    reading => StepsLeft \in 1..Tries * (Timeout + 1)

LEMMA TryUsedUp ==
  ASSUME NEW t \in Nat, NEW e \in 0..Timeout, NEW d \in 0..Timeout
  PROVE  (t - 1) * (Timeout + 1) - d < t * (Timeout + 1) - e
<1>1. (t - 1) * (Timeout + 1) = t * (Timeout + 1) - (Timeout + 1)
  BY LimitsAssumption
<1>2. t * (Timeout + 1) \in Int /\ Timeout \in Nat
  BY LimitsAssumption
<1>. DEFINE product == t * (Timeout + 1)
<1>. HIDE DEF product
<1>3. product - (Timeout + 1) - d < product - e
  BY <1>2 DEF product
<1>. QED
  BY <1>1, <1>3 DEF product

LEMMA TriesOfSteps ==
  ASSUME NEW t \in 1..Tries, NEW e \in 0..Timeout
  PROVE  t * (Timeout + 1) - e \in 1..Tries * (Timeout + 1)
<1>. DEFINE turn == Timeout + 1
<1>1. turn \in Nat \ {0} /\ Tries \in Nat /\ e \in Nat /\ e < turn
  BY LimitsAssumption
<1>. HIDE DEF turn
<1>2. t * turn = (t - 1) * turn + turn /\ (t - 1) * turn \in Nat
  BY <1>1
<1>3. Tries * turn = t * turn + (Tries - t) * turn /\ (Tries - t) * turn \in Nat
  BY <1>1
<1>4. \A a, b \in Nat : a + turn - e >= 1 /\ a + turn - e <= a + turn + b
  BY <1>1
<1>. DEFINE a == (t - 1) * turn
            b == (Tries - t) * turn
<1>. HIDE DEF a, b
<1>5. a + turn - e >= 1 /\ a + turn - e <= a + turn + b
  BY <1>2, <1>3, <1>4 DEF a, b
<1>. QED
  BY <1>1, <1>2, <1>3, <1>5 DEF a, b, turn

\* A query is over after at most Tries * (Timeout + 1) steps of its own, whatever
\* the device does between them: for any number of tries and any timeout.
THEOREM QueryRunsOutCorrect == Spec => []StepsLeftBounded /\ QueryRunsOut
<1>1. TypeOK => StepsLeftBounded
  <2>. SUFFICES ASSUME TypeOK, reading PROVE StepsLeft \in 1..Tries * (Timeout + 1)
    BY DEF StepsLeftBounded
  <2>1. tries \in 1..Tries /\ elapsed \in 0..Timeout
    BY LimitsAssumption DEF TypeOK
  <2>. QED
    BY <2>1, TriesOfSteps DEF StepsLeft
<1>2. TypeOK /\ [Next]_vars =>
        [reading /\ reading' =>
           \/ Device /\ UNCHANGED clientVars
           \/ StepsLeft' < StepsLeft]_vars
  <2>. SUFFICES ASSUME TypeOK, Next, reading, reading', ~(Device /\ UNCHANGED clientVars)
                PROVE  StepsLeft' < StepsLeft
    OBVIOUS
  <2>0. tries \in Nat /\ elapsed \in 0..Timeout /\ Timeout \in Nat
    BY LimitsAssumption DEF TypeOK
  <2>1. Reads
    BY DEF Next, Begin, Alarm, BeginThrows, Device, DeviceAnswers, DeviceObeys,
      DeviceMisses, BootEnds, DeviceSpeaks, Arrive, PortFails
  <2>2. PollMiss \/ VersionReads \/ VersionTimesOut
    BY <2>1 DEF Reads, PollThrows, GetterReads, GetterTimesOut, VersionRetryThrows,
      VersionRewriteThrows, Ends
  <2>3. CASE PollMiss
    <3>1. elapsed' \in elapsed + 1..Timeout /\ tries' = tries
      BY <2>3 DEF PollMiss
    <3>2. tries * (Timeout + 1) \in Int
      BY <2>0
    <3>3. elapsed \in Int /\ elapsed' \in Int /\ elapsed < elapsed'
      BY <2>0, <3>1
    <3>4. \A m, e, d \in Int : e < d => m - d < m - e
      OBVIOUS
    <3>5. tries * (Timeout + 1) - elapsed' < tries * (Timeout + 1) - elapsed
      BY <3>2, <3>3, <3>4
    <3>. QED
      BY <3>1, <3>5 DEF StepsLeft
  <2>4. CASE VersionReads \/ VersionTimesOut
    <3>1. tries' = tries - 1 /\ elapsed' \in 0..Timeout
      BY <2>4 DEF VersionReads, VersionTimesOut, StartsReading, Ends
    <3>2. (tries - 1) * (Timeout + 1) - elapsed' < tries * (Timeout + 1) - elapsed
      BY <2>0, <3>1, TryUsedUp
    <3>. QED
      BY <3>1, <3>2 DEF StepsLeft
  <2>. QED
    BY <2>2, <2>3, <2>4
<1>. QED
  BY <1>1, <1>2, TypeCorrect, PTL DEF Spec, QueryRunsOut
------------------------------------------------------------------------------
LEMMA NumbersOfConcat ==
  ASSUME NEW S, NEW s \in Seq(S), NEW t \in Seq(S)
  PROVE  Numbers(s \o t) = Numbers(s) \cup Numbers(t)
<1>1. /\ Len(s \o t) = Len(s) + Len(t) /\ Len(s) \in Nat /\ Len(t) \in Nat
      /\ \A k \in 1..Len(s) : (s \o t)[k] = s[k]
      /\ \A k \in 1..Len(t) : (s \o t)[Len(s) + k] = t[k]
  OBVIOUS
<1>2. Numbers(s) \cup Numbers(t) \subseteq Numbers(s \o t)
  <2>1. \A k \in 1..Len(s) : k \in 1..Len(s \o t)
    BY <1>1
  <2>2. \A k \in 1..Len(t) : Len(s) + k \in 1..Len(s \o t)
    BY <1>1
  <2>. QED
    BY <1>1, <2>1, <2>2 DEF Numbers
<1>3. ASSUME NEW k \in 1..Len(s \o t), (s \o t)[k].cmd # 0
      PROVE  (s \o t)[k].cmd \in Numbers(s) \cup Numbers(t)
  <2>1. CASE k \in 1..Len(s)
    BY <1>1, <1>3, <2>1 DEF Numbers
  <2>2. CASE k \notin 1..Len(s)
    <3>1. k - Len(s) \in 1..Len(t) /\ Len(s) + (k - Len(s)) = k
      BY <1>1, <2>2
    <3>2. (s \o t)[k] = t[k - Len(s)]
      BY <1>1, <3>1
    <3>. QED
      BY <1>3, <3>1, <3>2 DEF Numbers
  <2>. QED
    BY <2>1, <2>2
<1>. QED
  BY <1>2, <1>3 DEF Numbers

LEMMA IncreasingConcat ==
  ASSUME NEW S, NEW s \in Seq(S), NEW t \in Seq(S),
         Increasing(s), Increasing(t), Below(Numbers(s), Numbers(t))
  PROVE  Increasing(s \o t)
<1>1. /\ Len(s \o t) = Len(s) + Len(t) /\ Len(s) \in Nat /\ Len(t) \in Nat
      /\ \A k \in 1..Len(s) : (s \o t)[k] = s[k]
      /\ \A k \in 1..Len(t) : (s \o t)[Len(s) + k] = t[k]
  OBVIOUS
<1>2. SUFFICES ASSUME NEW j \in 1..Len(s \o t), NEW k \in 1..Len(s \o t), j < k,
                      (s \o t)[j].cmd # 0, (s \o t)[k].cmd # 0
               PROVE  (s \o t)[j].cmd < (s \o t)[k].cmd
  BY DEF Increasing
<1>3. CASE k \in 1..Len(s)
  <2>1. j \in 1..Len(s)
    BY <1>1, <1>2, <1>3
  <2>. QED
    BY <1>1, <1>2, <1>3, <2>1 DEF Increasing
<1>4. CASE k \notin 1..Len(s)
  <2>1. k - Len(s) \in 1..Len(t) /\ (s \o t)[k] = t[k - Len(s)]
    <3>1. k - Len(s) \in 1..Len(t) /\ Len(s) + (k - Len(s)) = k
      BY <1>1, <1>4
    <3>. QED
      BY <1>1, <3>1
  <2>2. CASE j \in 1..Len(s)
    BY <1>1, <1>2, <2>1, <2>2 DEF Below, Numbers
  <2>3. CASE j \notin 1..Len(s)
    <3>1. j - Len(s) \in 1..Len(t) /\ Len(s) + (j - Len(s)) = j
      BY <1>1, <2>3
    <3>2. (s \o t)[j] = t[j - Len(s)] /\ j - Len(s) < k - Len(s)
      BY <1>1, <1>2, <3>1
    <3>. QED
      BY <1>2, <2>1, <3>1, <3>2 DEF Increasing
  <2>. QED
    BY <2>2, <2>3
<1>. QED
  BY <1>3, <1>4

\* What follows a position of an increasing sequence is increasing, and above
\* what stands before it.
LEMMA IncreasingRest ==
  ASSUME NEW S, NEW s \in Seq(S), NEW p \in 1..Len(s), Increasing(s)
  PROVE  LET before == SubSeq(s, 1, p - 1)
             rest   == SubSeq(s, p + 1, Len(s))
         IN  /\ Numbers(before) \subseteq Numbers(s) /\ Numbers(rest) \subseteq Numbers(s)
             /\ Increasing(rest) /\ Below(Numbers(before), Numbers(rest))
             /\ \A k \in 1..Len(rest) : rest[k] = s[p + k]
             /\ Len(rest) = Len(s) - p
<1>. DEFINE before == SubSeq(s, 1, p - 1)
            rest   == SubSeq(s, p + 1, Len(s))
<1>1. /\ Len(before) = p - 1 /\ Len(rest) = Len(s) - p /\ Len(s) \in Nat /\ p \in Nat
      /\ \A k \in 1..(p - 1) : before[k] = s[k]
      /\ \A k \in 1..(Len(s) - p) : rest[k] = s[p + k]
  OBVIOUS
<1>. HIDE DEF before, rest
<1>2. \A k \in 1..Len(before) : k \in 1..Len(s) /\ k < p /\ before[k] = s[k]
  BY <1>1
<1>3. \A k \in 1..Len(rest) : p + k \in 1..Len(s) /\ p < p + k /\ rest[k] = s[p + k]
  BY <1>1
<1>4. Numbers(before) \subseteq Numbers(s) /\ Numbers(rest) \subseteq Numbers(s)
  BY <1>2, <1>3 DEF Numbers
<1>5. Increasing(rest)
  <2>1. SUFFICES ASSUME NEW j \in 1..Len(rest), NEW k \in 1..Len(rest), j < k,
                        rest[j].cmd # 0, rest[k].cmd # 0
                 PROVE  rest[j].cmd < rest[k].cmd
    BY DEF Increasing
  <2>2. p + j < p + k
    BY <1>1, <2>1
  <2>. QED
    BY <1>3, <2>1, <2>2 DEF Increasing
<1>6. Below(Numbers(before), Numbers(rest))
  <2>1. SUFFICES ASSUME NEW j \in 1..Len(before), NEW k \in 1..Len(rest),
                        before[j].cmd # 0, rest[k].cmd # 0
                 PROVE  before[j].cmd < rest[k].cmd
    BY DEF Below, Numbers
  <2>2. j < p + k
    BY <1>1, <2>1
  <2>. QED
    BY <1>2, <1>3, <2>1, <2>2 DEF Increasing
<1>. QED
  BY <1>1, <1>4, <1>5, <1>6 DEF before, rest

\* A line is about a command it has the number of, or about none.
LEMMA AnsweredNumber ==
  ASSUME NEW l \in Seq(Bytes)
  PROVE  Answered(l) \in Numbers(l) \cup {0}
<1>1. l # <<>> => 1 \in 1..Len(l)
  OBVIOUS
<1>. QED
  BY <1>1 DEF Answered, Numbers

LEMMA WritesNumbers ==
  ASSUME TypeOK, Pipeline, NEW letter, Writes(letter)
  PROVE  /\ Numbers(commands') = Numbers(commands) \cup {sent + 1} /\ sent' = sent + 1
         /\ Increasing(commands') /\ \A k \in 1..Len(commands') : commands'[k].cmd # 0
<1>. DEFINE S == [letter : Letters \cup {letter}, cmd : Nat]
            new == [letter |-> letter, cmd |-> sent + 1]
<1>1. commands \in Seq(S) /\ sent \in Nat
  <2>1. [letter : Letters, cmd : Nat] \subseteq S
    OBVIOUS
  <2>. QED
    BY <2>1, SeqMonotonic DEF TypeOK
<1>2. commands' = commands \o <<new>> /\ <<new>> \in Seq(S) /\ new.cmd = sent + 1
  <2>1. new \in S /\ commands' = Append(commands, new) /\ new.cmd = sent + 1
    BY <1>1 DEF Writes
  <2>. HIDE DEF new, S
  <2>. QED
    BY <1>1, <2>1, AppendIsConcat
<1>3. Numbers(<<new>>) = {sent + 1} /\ Increasing(<<new>>)
  <2>. HIDE DEF new
  <2>. QED
    BY <1>1, <1>2 DEF Numbers, Increasing
<1>4. Below(Numbers(commands), {sent + 1})
  BY DEF Pipeline, Below
<1>5. Numbers(commands') = Numbers(commands) \cup {sent + 1} /\ Increasing(commands')
  <2>. HIDE DEF new, S
  <2>1. Numbers(commands \o <<new>>) = Numbers(commands) \cup Numbers(<<new>>)
    <3>. DEFINE tail == <<new>>
    <3>1. commands \in Seq(S) /\ tail \in Seq(S)
      BY <1>1, <1>2
    <3>. HIDE DEF tail
    <3>2. Numbers(commands \o tail) = Numbers(commands) \cup Numbers(tail)
      BY <3>1, NumbersOfConcat
    <3>. QED
      BY <3>2 DEF tail
  <2>2. Increasing(commands) /\ Below(Numbers(commands), Numbers(<<new>>))
    BY <1>3, <1>4 DEF Pipeline
  <2>3. Increasing(commands')
    BY <1>1, <1>2, <1>3, <2>2, IncreasingConcat
  <2>. QED
    BY <1>2, <1>3, <2>1, <2>3
<1>6. \A k \in 1..Len(commands') : commands'[k].cmd # 0
  <2>1. \A k \in 1..Len(commands') :
          \/ k \in 1..Len(commands) /\ commands'[k] = commands[k]
          \/ commands'[k] = new
    BY <1>1, <1>2
  <2>. HIDE DEF new
  <2>. QED
    BY <1>1, <1>2, <2>1 DEF Pipeline
<1>. QED
  BY <1>5, <1>6 DEF Writes

LEMMA EndsNumbers ==
  ASSUME TypeOK, Pipeline, NEW outcome, NEW l \in Seq(Bytes), NEW last,
         Ends(outcome, l, last), Below(Numbers(results), Numbers(l))
  PROVE  /\ Numbers(results') \subseteq Numbers(results) \cup Numbers(l)
         /\ Increasing(results') /\ Held' = <<>>
<1>. DEFINE S == [outcome : Outcomes \cup {outcome}, cmd : Nat, last : Nat \cup {last}]
            new == [outcome |-> outcome, cmd |-> Answered(l), last |-> last]
<1>1. results \in Seq(S)
  <2>1. [outcome : Outcomes, cmd : Nat, last : Nat] \subseteq S
    OBVIOUS
  <2>. QED
    BY <2>1, SeqMonotonic DEF TypeOK
<1>2. Answered(l) \in Nat
  <2>1. l # <<>> => l[1] \in Bytes
    OBVIOUS
  <2>. QED
    BY <2>1 DEF Answered, Bytes
<1>3. results' = results \o <<new>> /\ <<new>> \in Seq(S) /\ new.cmd = Answered(l)
  <2>1. new \in S /\ results' = Append(results, new) /\ new.cmd = Answered(l)
    BY <1>1, <1>2 DEF Ends
  <2>. HIDE DEF new, S
  <2>. QED
    BY <1>1, <2>1, AppendIsConcat
<1>4. Numbers(<<new>>) \subseteq Numbers(l) /\ Increasing(<<new>>)
  <2>1. Answered(l) \in Numbers(l) \cup {0}
    BY AnsweredNumber
  <2>. HIDE DEF new
  <2>. QED
    BY <1>3, <2>1 DEF Numbers, Increasing
<1>5. Below(Numbers(results), Numbers(<<new>>))
  BY <1>4 DEF Below
<1>6. Numbers(results') \subseteq Numbers(results) \cup Numbers(l) /\ Increasing(results')
  <2>. HIDE DEF new, S
  <2>1. Numbers(results \o <<new>>) = Numbers(results) \cup Numbers(<<new>>)
    <3>. DEFINE tail == <<new>>
    <3>1. results \in Seq(S) /\ tail \in Seq(S)
      BY <1>1, <1>3
    <3>. HIDE DEF tail
    <3>2. Numbers(results \o tail) = Numbers(results) \cup Numbers(tail)
      BY <3>1, NumbersOfConcat
    <3>. QED
      BY <3>2 DEF tail
  <2>2. Increasing(results)
    BY DEF Pipeline
  <2>3. Increasing(results')
    BY <1>1, <1>3, <1>4, <1>5, <2>2, IncreasingConcat
  <2>. QED
    BY <1>3, <1>4, <2>1, <2>3
<1>. QED
  BY <1>6 DEF Ends, Held

\* A step of a query with the line l: the stream may lose its front, a command
\* may go out, and the query goes on with l or returns it.
LEMMA PipelineQuery ==
  ASSUME TypeOK, Pipeline, NEW l \in Seq(Bytes),
         Numbers(Stream') \subseteq Numbers(Stream), Increasing(Stream'),
         Below(Numbers(results), Numbers(l)), Below(Numbers(l), Numbers(Stream')),
         Below(Numbers(l), Numbers(commands)), Below(Numbers(l), {sent + 1}),
         UNCHANGED <<sent, commands>> \/ \E letter : Writes(letter),
         \/ results' = results /\ Held' \in {l, <<>>}
         \/ \E outcome, last : Ends(outcome, l, last)
  PROVE  Pipeline'
<1>1. /\ Numbers(results') \subseteq Numbers(results) \cup Numbers(l)
      /\ Increasing(results') /\ Numbers(Held') \subseteq Numbers(l)
      /\ Below(Numbers(results'), Numbers(Held'))
  <2>1. Numbers(<<>>) = {}
    BY DEF Numbers
  <2>2. CASE results' = results /\ Held' \in {l, <<>>}
    BY <2>1, <2>2 DEF Pipeline, Below
  <2>3. CASE \E outcome, last : Ends(outcome, l, last)
    BY <2>1, <2>3, EndsNumbers DEF Below
  <2>. QED
    BY <2>2, <2>3
<1>2. /\ Numbers(commands') \subseteq Numbers(commands) \cup {sent + 1}
      /\ (sent' = sent /\ Numbers(commands') = Numbers(commands)) \/ sent' = sent + 1
      /\ Increasing(commands') /\ \A k \in 1..Len(commands') : commands'[k].cmd # 0
  BY WritesNumbers DEF Pipeline
<1>3. /\ Below(Numbers(results) \cup Numbers(Stream'), Numbers(commands) \cup {sent + 1})
      /\ Below(Numbers(results), Numbers(Stream'))
      /\ Below(Numbers(commands), {sent + 1})
  BY DEF Pipeline, Below
<1>4. \A a \in Numbers(results) \cup Numbers(Stream) \cup Numbers(l) \cup Numbers(commands) :
        a \in Nat
  <2>1. \A k \in 1..Len(results) : results[k].cmd \in Nat
    <3>1. results \in Seq(ResultType)
      BY DEF TypeOK, ResultType
    <3>2. \A k \in 1..Len(results) : results[k] \in ResultType
      BY <3>1, ElementOfSeq
    <3>. QED
      BY <3>2 DEF ResultType
  <2>2. \A k \in 1..Len(commands) : commands[k].cmd \in Nat
    <3>1. commands \in Seq(Commands)
      BY DEF TypeOK, Commands
    <3>2. \A k \in 1..Len(commands) : commands[k] \in Commands
      BY <3>1, ElementOfSeq
    <3>. QED
      BY <3>2 DEF Commands
  <2>3. ASSUME NEW s \in Seq(Bytes) PROVE \A k \in 1..Len(s) : s[k].cmd \in Nat
    <3>1. \A k \in 1..Len(s) : s[k] \in Bytes
      OBVIOUS
    <3>. QED
      BY <3>1 DEF Bytes
  <2>4. Stream \in Seq(Bytes)
    BY DEF TypeOK, Stream
  <2>. QED
    BY <2>1, <2>2, <2>3, <2>4 DEF Numbers
<1>5. Below(Numbers(results') \cup Numbers(Held'), Numbers(Stream'))
  BY <1>1, <1>3 DEF Below
<1>6. Below(Numbers(results') \cup Numbers(Held') \cup Numbers(Stream'), Numbers(commands'))
  BY <1>1, <1>2, <1>3 DEF Below
<1>7. Below(Numbers(results') \cup Numbers(Held') \cup Numbers(Stream') \cup Numbers(commands'),
            {sent' + 1})
  <2>1. sent \in Nat
    BY DEF TypeOK
  <2>2. \A a \in Numbers(results') \cup Numbers(Held') \cup Numbers(Stream') \cup Numbers(commands) :
          a \in Nat /\ a < sent + 1
    BY <1>1, <1>3, <1>4 DEF Below
  <2>. QED
    BY <1>2, <2>1, <2>2 DEF Below
<1>. QED
  BY <1>1, <1>2, <1>5, <1>6, <1>7 DEF Pipeline

\* Taking the line at p takes the front of the stream.
LEMMA StreamTaken ==
  ASSUME TypeOK, Pipeline, NEW p \in FirstHit(read_queue, Newline), Takes(p), link' = link
  PROVE  LET l == Strip(Data(p)) IN
         /\ Numbers(Stream') \subseteq Numbers(Stream) /\ Increasing(Stream')
         /\ l \in Seq(Bytes) /\ Numbers(l) \subseteq Numbers(Stream)
         /\ Below(Numbers(l), Numbers(Stream'))
<1>1. /\ p \in Nat /\ p + 1 \in 1..Len(read_queue) /\ Data(p) \in Seq(Bytes)
      /\ read_queue' = SubSeq(read_queue, p + 1, Len(read_queue))
      /\ read_queue \in Seq(Bytes) /\ link \in Seq(Bytes) /\ p >= 1
  BY LineTaken DEF TypeOK, FirstHit, Hits, Visited
<1>2. p \in 1..Len(Stream) /\ Stream \in Seq(Bytes)
  BY <1>1 DEF Stream
<1>3. Data(p) = SubSeq(Stream, 1, p - 1)
  BY <1>1 DEF Data, Stream
<1>4. Stream' = SubSeq(Stream, p + 1, Len(Stream))
  BY <1>1 DEF Stream
<1>5. /\ Numbers(Stream') \subseteq Numbers(Stream) /\ Increasing(Stream')
      /\ Numbers(Data(p)) \subseteq Numbers(Stream)
      /\ Below(Numbers(Data(p)), Numbers(Stream'))
  BY <1>2, <1>3, <1>4, IncreasingRest DEF Pipeline
<1>6. /\ Strip(Data(p)) \in Seq(Bytes)
      /\ Numbers(Strip(Data(p))) \subseteq Numbers(Data(p))
  BY <1>1, StrippedLine
<1>. QED
  BY <1>5, <1>6 DEF Below

LEMMA PipelineQueries ==
  TypeOK /\ Pipeline /\ [Begin \/ Alarm \/ BeginThrows \/ Reads]_vars => Pipeline'
<1>. SUFFICES ASSUME TypeOK, Pipeline, [Begin \/ Alarm \/ BeginThrows \/ Reads]_vars
              PROVE  Pipeline'
  OBVIOUS
<1>1. Numbers(<<>>) = {} /\ <<>> \in Seq(Bytes)
  BY DEF Numbers
<1>2. Held \in Seq(Bytes) /\ line \in Seq(Bytes)
  BY DEF TypeOK, Held
\* A line taken from the stream, or the one the query already has, or none.
<1>3. ASSUME NEW p \in FirstHit(read_queue, Newline), Takes(p), link' = link, reading,
             NEW l \in {<<>>, line, Strip(Data(p))},
             UNCHANGED <<sent, commands>> \/ Writes("n"),
             \/ results' = results /\ Held' = l
             \/ \E outcome, last : Ends(outcome, l, last)
      PROVE  Pipeline'
  <2>1. /\ Numbers(Stream') \subseteq Numbers(Stream) /\ Increasing(Stream')
        /\ Strip(Data(p)) \in Seq(Bytes) /\ Numbers(Strip(Data(p))) \subseteq Numbers(Stream)
        /\ Below(Numbers(Strip(Data(p))), Numbers(Stream'))
    BY <1>3, StreamTaken
  <2>2. /\ l \in Seq(Bytes)
        /\ Below(Numbers(results), Numbers(l)) /\ Below(Numbers(l), Numbers(Stream'))
        /\ Below(Numbers(l), Numbers(commands)) /\ Below(Numbers(l), {sent + 1})
    BY <1>1, <1>2, <1>3, <2>1 DEF Pipeline, Below, Held
  <2>. QED
    BY <1>3, <2>1, <2>2, PipelineQuery
\* No line is taken.
<1>4. ASSUME UNCHANGED <<read_queue, link>>, NEW l \in {<<>>, Held},
             UNCHANGED <<sent, commands>> \/ \E letter : Writes(letter),
             \/ results' = results /\ Held' = l
             \/ \E outcome, last : Ends(outcome, l, last)
      PROVE  Pipeline'
  <2>1. Stream' = Stream
    BY <1>4 DEF Stream
  <2>2. /\ l \in Seq(Bytes)
        /\ Below(Numbers(results), Numbers(l)) /\ Below(Numbers(l), Numbers(Stream'))
        /\ Below(Numbers(l), Numbers(commands)) /\ Below(Numbers(l), {sent + 1})
    BY <1>1, <1>2, <2>1 DEF Pipeline, Below
  <2>3. Increasing(Stream')
    BY <2>1 DEF Pipeline
  <2>. QED
    BY <1>4, <2>1, <2>2, <2>3, PipelineQuery
<1>5. CASE GetterReads
  BY <1>3, <1>5 DEF GetterReads, deviceVars
<1>6. CASE VersionReads
  <2>1. PICK p \in FirstHit(read_queue, Newline) :
          /\ Takes(p)
          /\ line' \in {line, Strip(Data(p))}
          /\ UNCHANGED <<sent, commands>> \/ Writes("n")
    BY <1>6 DEF VersionReads
  <2>2. /\ reading /\ link' = link
        /\ \/ results' = results /\ reading' = TRUE
           \/ \E outcome, last : Ends(outcome, line', last)
    BY <1>6 DEF VersionReads, StartsReading
  <2>3. \/ results' = results /\ Held' = line'
        \/ \E outcome, last : Ends(outcome, line', last)
    BY <2>2 DEF Held
  <2>. QED
    BY <1>3, <2>1, <2>2, <2>3
<1>7. CASE VersionTimesOut
  <2>1. /\ reading /\ UNCHANGED <<line, read_queue, link>> /\ Writes("n")
        /\ \/ results' = results /\ reading' = TRUE
           \/ \E outcome, last : Ends(outcome, line, last)
    BY <1>7 DEF VersionTimesOut, StartsReading
  <2>2. /\ Held = line
        /\ \/ results' = results /\ Held' = line
           \/ \E outcome, last : Ends(outcome, line, last)
    BY <2>1 DEF Held
  <2>. QED
    BY <1>4, <2>1, <2>2
<1>8. CASE Begin
  <2>1. /\ UNCHANGED <<read_queue, link, results>> /\ reading' = TRUE /\ line' = <<>>
        /\ \E letter : Writes(letter)
    BY <1>8 DEF Begin, StartsReading
  <2>. QED
    BY <1>4, <2>1 DEF Held
<1>9. CASE Alarm \/ BeginThrows \/ PollThrows \/ GetterTimesOut \/ VersionRetryThrows
  <2>1. /\ UNCHANGED <<read_queue, link>> /\ \E outcome, last : Ends(outcome, <<>>, last)
        /\ UNCHANGED <<sent, commands>> \/ \E letter : Writes(letter)
    BY <1>9 DEF Alarm, BeginThrows, PollThrows, GetterTimesOut, VersionRetryThrows, deviceVars
  <2>. QED
    BY <1>4, <2>1
<1>10. CASE PollMiss \/ UNCHANGED vars
  <2>1. UNCHANGED <<read_queue, link, reading, line, sent, commands, results>>
    BY <1>10 DEF PollMiss, vars, clientVars, deviceVars
  <2>2. results' = results /\ Held' = Held
    BY <2>1 DEF Held
  <2>. QED
    BY <1>4, <2>1, <2>2
<1>11. CASE VersionRewriteThrows
  <2>1. PICK p \in FirstHit(read_queue, Newline) : Takes(p)
    BY <1>11 DEF VersionRewriteThrows
  <2>2. /\ reading /\ UNCHANGED <<link, sent, commands>>
        /\ \E outcome, last : Ends(outcome, <<>>, last)
    BY <1>11 DEF VersionRewriteThrows, deviceVars
  <2>. QED
    BY <1>3, <2>1, <2>2
<1>. QED
  BY <1>5, <1>6, <1>7, <1>8, <1>9, <1>10, <1>11 DEF Reads

LEMMA CommandNumbers ==
  ASSUME TypeOK, Pipeline, commands # <<>>, commands' = Tail(commands)
  PROVE  LET first == Head(commands).cmd IN
         /\ first \in Numbers(commands) /\ first # 0 /\ first \in Nat
         /\ Numbers(commands') \subseteq Numbers(commands) /\ Increasing(commands')
         /\ \A k \in 1..Len(commands') : commands'[k].cmd # 0
         /\ Below({first}, Numbers(commands'))
<1>1. /\ commands' \in Seq(Commands) /\ Head(commands) \in Commands
      /\ Head(commands) = commands[1]
      /\ Len(commands) = Len(commands') + 1 /\ Len(commands') \in Nat
      /\ \A k \in 1..Len(commands') : commands'[k] = commands[k + 1]
  BY CommandTaken
<1>2. 1 \in 1..Len(commands) /\ \A k \in 1..Len(commands') : k + 1 \in 1..Len(commands)
  BY <1>1
<1>3. Numbers(commands') \subseteq Numbers(commands) /\ commands[1].cmd \in Numbers(commands)
  BY <1>1, <1>2 DEF Numbers, Pipeline
<1>4. Increasing(commands')
  <2>1. SUFFICES ASSUME NEW j \in 1..Len(commands'), NEW k \in 1..Len(commands'), j < k
                 PROVE  commands'[j].cmd < commands'[k].cmd
    BY DEF Increasing
  <2>2. j + 1 < k + 1
    BY <1>1, <2>1
  <2>. QED
    BY <1>1, <1>2, <2>2 DEF Pipeline, Increasing
<1>5. Below({commands[1].cmd}, Numbers(commands'))
  <2>1. SUFFICES ASSUME NEW k \in 1..Len(commands')
                 PROVE  commands[1].cmd < commands'[k].cmd
    BY DEF Below, Numbers
  <2>2. 1 < k + 1
    BY <1>1, <2>1
  <2>. QED
    BY <1>1, <1>2, <2>2 DEF Pipeline, Increasing
<1>6. \A k \in 1..Len(commands') : commands'[k].cmd # 0
  BY <1>1, <1>2 DEF Pipeline
<1>. QED
  BY <1>1, <1>2, <1>3, <1>4, <1>5, <1>6 DEF Pipeline, Commands

\* What the firmware sends comes behind everything on its way.
LEMMA StreamGrows ==
  ASSUME TypeOK, Pipeline, NEW l \in Seq(Bytes), link' = link \o l, read_queue' = read_queue,
         Increasing(l), Below(Numbers(Stream), Numbers(l))
  PROVE  /\ Stream' = Stream \o l /\ Stream \in Seq(Bytes)
         /\ Numbers(Stream') = Numbers(Stream) \cup Numbers(l) /\ Increasing(Stream')
<1>1. read_queue \in Seq(Bytes) /\ link \in Seq(Bytes) /\ Stream \in Seq(Bytes)
  BY DEF TypeOK, Stream
<1>2. Stream' = Stream \o l
  <2>1. read_queue \o (link \o l) = (read_queue \o link) \o l
    BY <1>1, ConcatAssociative, SMTT(30)
  <2>. QED
    BY <2>1 DEF Stream
<1>3. Numbers(Stream \o l) = Numbers(Stream) \cup Numbers(l)
  BY <1>1, NumbersOfConcat
<1>4. Increasing(Stream \o l)
  BY <1>1, IncreasingConcat DEF Pipeline
<1>. QED
  BY <1>1, <1>2, <1>3, <1>4

LEMMA LineNumbers ==
  ASSUME NEW head, NEW json, NEW cmd
  PROVE  LET l == Line(Text(head, json, cmd)) IN
         /\ Numbers(l) = {cmd} \ {0} /\ Increasing(l) /\ Len(l) = 3
         /\ l[1].cmd = cmd /\ l[1].head = head /\ l[2] = Cr /\ l[3] = Nl
<1>. DEFINE l == Line(Text(head, json, cmd))
<1>1. /\ Len(l) = 3 /\ l[1] = Text(head, json, cmd) /\ l[2] = Cr /\ l[3] = Nl
  BY DEF Line
<1>2. /\ Text(head, json, cmd).cmd = cmd /\ Text(head, json, cmd).head = head
      /\ Cr.cmd = 0 /\ Nl.cmd = 0
  BY DEF Text, Cr, Nl
<1>. HIDE DEF l
<1>3. 1..Len(l) = {1, 2, 3}
  BY <1>1
<1>4. Numbers(l) = {cmd} \ {0}
  BY <1>1, <1>2, <1>3 DEF Numbers
<1>5. Increasing(l)
  BY <1>1, <1>2, <1>3 DEF Increasing
<1>. QED
  BY <1>1, <1>2, <1>4, <1>5 DEF l

LEMMA UnsolicitedNumbers ==
  ASSUME NEW l \in Unsolicited
  PROVE  Numbers(l) = {} /\ Increasing(l)
<1>1. Cr.cmd = 0 /\ Nl.cmd = 0
  BY DEF Text, Cr, Nl
<1>2. CASE l = Line(Text("D", FALSE, 0))
  <2>1. PICK json : l = Line(Text("D", json, 0))
    BY <1>2, Zenon
  <2>2. Numbers(Line(Text("D", json, 0))) = {0} \ {0} /\ Increasing(Line(Text("D", json, 0)))
    BY LineNumbers
  <2>. QED
    BY <2>1, <2>2
<1>3. CASE l \in {<<Cr, Nl>>, <<Nl>>}
  BY <1>1, <1>3 DEF Numbers, Increasing
<1>. QED
  BY <1>2, <1>3 DEF Unsolicited

LEMMA PipelineDevice == TypeOK /\ Pipeline /\ Device => Pipeline'
<1>. SUFFICES ASSUME TypeOK, Pipeline, Device PROVE Pipeline'
  OBVIOUS
<1>1. UNCHANGED <<results, reading, line, sent>> /\ Held' = Held
  BY DEF Device, DeviceAnswers, DeviceObeys, DeviceMisses, BootEnds, DeviceSpeaks, Arrive,
     PortFails, clientVars, Held
<1>2. CASE DeviceAnswers
  <2>. DEFINE cmd == Head(commands).cmd
  <2>1. PICK json \in JsonOK :
          link' = link \o Line(Text(ReplyHead[Head(commands).letter], json, cmd))
    BY <1>2 DEF DeviceAnswers
  <2>. DEFINE l == Line(Text(ReplyHead[Head(commands).letter], json, cmd))
  <2>2. /\ cmd \in Numbers(commands) /\ cmd # 0 /\ cmd \in Nat
        /\ Numbers(commands') \subseteq Numbers(commands) /\ Increasing(commands')
        /\ \A k \in 1..Len(commands') : commands'[k].cmd # 0
        /\ Below({cmd}, Numbers(commands'))
    BY <1>2, CommandNumbers DEF DeviceAnswers
  <2>3. l \in Seq(Bytes) /\ Numbers(l) = {cmd} /\ Increasing(l)
    <3>1. Head(commands).letter \in Queries /\ json \in BOOLEAN
      BY <1>2, JsonAssumption DEF DeviceAnswers
    <3>2. Numbers(l) = {cmd} \ {0} /\ Increasing(l)
      BY LineNumbers
    <3>. QED
      BY <2>2, <3>1, <3>2, LineType
  <2>. HIDE DEF l
  <2>4. link' = link \o l /\ read_queue' = read_queue
    BY <1>2, <2>1 DEF DeviceAnswers, l
  <2>5. Below(Numbers(Stream), Numbers(l))
    BY <2>2, <2>3 DEF Pipeline, Below
  <2>6. Numbers(Stream') = Numbers(Stream) \cup {cmd} /\ Increasing(Stream')
    BY <2>3, <2>4, <2>5, StreamGrows
  <2>. HIDE DEF cmd
  <2>. DEFINE Past == Numbers(results) \cup Numbers(Held)
  <2>7. Below(Past, Numbers(Stream')) /\ Past = (Numbers(results) \cup Numbers(Held))'
    BY <1>1, <2>2, <2>6 DEF Pipeline, Below
  <2>8. Below(Past \cup Numbers(Stream'), Numbers(commands'))
    BY <2>2, <2>6 DEF Pipeline, Below
  <2>9. Below(Past \cup Numbers(Stream') \cup Numbers(commands'), {sent' + 1})
    BY <1>1, <2>2, <2>6 DEF Pipeline, Below
  <2>. QED
    BY <1>1, <2>2, <2>6, <2>7, <2>8, <2>9 DEF Pipeline
<1>3. CASE DeviceObeys \/ DeviceMisses
  <2>1. Stream' = Stream
    BY <1>3 DEF DeviceObeys, DeviceMisses, Stream
  <2>2. /\ Numbers(commands') \subseteq Numbers(commands) /\ Increasing(commands')
        /\ \A k \in 1..Len(commands') : commands'[k].cmd # 0
    BY <1>3, CommandNumbers DEF DeviceObeys, DeviceMisses
  <2>. QED
    BY <1>1, <2>1, <2>2 DEF Pipeline, Below
<1>4. CASE DeviceSpeaks
  <2>1. PICK l \in Unsolicited : link' = link \o l
    BY <1>4 DEF DeviceSpeaks
  <2>2. l \in Seq(Bytes) /\ Numbers(l) = {} /\ Increasing(l)
    BY UnsolicitedType, UnsolicitedNumbers
  <2>3. Numbers(Stream') = Numbers(Stream) /\ Increasing(Stream')
    BY <1>4, <2>1, <2>2, StreamGrows DEF DeviceSpeaks, Below
  <2>4. commands' = commands
    BY <1>4 DEF DeviceSpeaks
  <2>. QED
    BY <1>1, <2>3, <2>4 DEF Pipeline
<1>5. CASE Arrive \/ BootEnds \/ PortFails
  <2>1. Stream' = Stream
    BY <1>5, ArriveMoves DEF BootEnds, PortFails, deviceVars, Stream
  <2>2. commands' = commands
    BY <1>5 DEF Arrive, BootEnds, PortFails, deviceVars
  <2>. QED
    BY <1>1, <2>1, <2>2 DEF Pipeline
<1>. QED
  BY <1>2, <1>3, <1>4, <1>5 DEF Device

LEMMA PipelineInit == Init => Pipeline
BY DEF Init, Pipeline, Increasing, Numbers, Below, Stream, Held

LEMMA PipelineCorrect == Spec => [](TypeOK /\ Pipeline)
<1>1. TypeOK /\ Pipeline /\ [Next]_vars => Pipeline'
  BY PipelineQueries, PipelineDevice DEF Next
<1>. QED
  BY <1>1, PipelineInit, TypeCorrect, PTL DEF Spec

\* Answers reach the queries in the order of the commands and none twice, though
\* replies carry nothing to tell them apart, commands are lost while the device
\* starts, and a query may give up before its answer comes.
THEOREM AnswersInOrderCorrect == Spec => []AnswersInOrder
<1>1. Pipeline => AnswersInOrder
  BY DEF Pipeline, Increasing, AnswersInOrder
<1>. QED
  BY <1>1, PipelineCorrect, PTL

\* The byte behind the end of a line is an answer, to a later command than the
\* line, and it was sent before.
LEMMA LineIsStale ==
  ASSUME TypeOK, Pipeline, AnswersFollow, unsolicited = 0,
         NEW p \in FirstHit(read_queue, Newline), Takes(p), link' = link
  PROVE  LET l == Strip(Data(p)) IN Answered(l) # 0 => Answered(l) < sent
<1>. DEFINE l == Strip(Data(p))
            next == Stream[p + 1].cmd
<1>1. /\ p \in Nat /\ p >= 1 /\ p + 1 \in 1..Len(read_queue) /\ read_queue[p] = Nl
      /\ read_queue' = SubSeq(read_queue, p + 1, Len(read_queue))
      /\ read_queue \in Seq(Bytes) /\ link \in Seq(Bytes) /\ Stream \in Seq(Bytes)
  BY LineTaken DEF TypeOK, FirstHit, Hits, Visited, Stream
<1>2. /\ p \in 1..Len(Stream) - 1 /\ Stream[p] = Nl
      /\ p + 1 \in 1..Len(Stream) /\ Stream' = SubSeq(Stream, p + 1, Len(Stream))
  BY <1>1 DEF Stream
<1>3. next # 0
  BY <1>2 DEF AnswersFollow
<1>4. 1 \in 1..Len(Stream') /\ Stream'[1] = Stream[p + 1]
  BY <1>1, <1>2
<1>5. next \in Numbers(Stream') /\ next \in Numbers(Stream)
  BY <1>2, <1>3, <1>4 DEF Numbers
<1>6. Stream[p + 1] \in Bytes
  BY <1>1, <1>2
<1>7. next \in Nat /\ sent \in Nat
  BY <1>6 DEF Bytes, TypeOK
<1>8. next < sent + 1
  BY <1>5 DEF Pipeline, Below
<1>9. l \in Seq(Bytes) /\ Below(Numbers(l), Numbers(Stream'))
  BY StreamTaken
<1>10. Answered(l) \in Nat /\ Answered(l) \in Numbers(l) \cup {0}
  <2>1. l # <<>> => l[1] \in Bytes
    BY <1>9
  <2>. QED
    BY <1>9, <2>1, AnsweredNumber DEF Answered, Bytes
<1>11. Answered(l) # 0 => Answered(l) < next
  BY <1>5, <1>9, <1>10 DEF Below
<1>. HIDE DEF l, next
<1>12. Answered(l) # 0 => Answered(l) < sent
  BY <1>7, <1>8, <1>10, <1>11
<1>. QED
  BY <1>12 DEF l

LEMMA ResultStale ==
  ASSUME TypeOK, AnswersAreStale, NEW outcome, NEW l, NEW last, Ends(outcome, l, last),
         unsolicited' = unsolicited,
         unsolicited = 0 /\ Answered(l) # 0 => Answered(l) < last
  PROVE  AnswersAreStale'
<1>. DEFINE new == [outcome |-> outcome, cmd |-> Answered(l), last |-> last]
<1>1. results \in Seq(ResultType) /\ Len(results) \in Nat
  BY DEF TypeOK, ResultType
<1>2. results' = Append(results, new) /\ new.cmd = Answered(l) /\ new.last = last
  BY DEF Ends
<1>. HIDE DEF new
<1>3. \A k \in 1..Len(results') :
        (k \in 1..Len(results) /\ results'[k] = results[k]) \/ results'[k] = new
  BY <1>1, <1>2
<1>. QED
  BY <1>2, <1>3 DEF AnswersAreStale

LEMMA FollowKept == TypeOK /\ Pipeline /\ AnswersFollow /\ [Next]_vars => AnswersFollow'
<1>. SUFFICES ASSUME TypeOK, Pipeline, AnswersFollow, [Next]_vars PROVE AnswersFollow'
  OBVIOUS
<1>1. CASE UNCHANGED <<read_queue, link, unsolicited>>
  BY <1>1 DEF AnswersFollow, Stream
<1>2. CASE GetterReads \/ VersionReads \/ VersionRewriteThrows
  <2>1. PICK p \in FirstHit(read_queue, Newline) : Takes(p)
    BY <1>2 DEF GetterReads, VersionReads, VersionRewriteThrows
  <2>2. UNCHANGED <<link, unsolicited>>
    BY <1>2 DEF GetterReads, VersionReads, VersionRewriteThrows, deviceVars
  <2>3. /\ p \in Nat /\ p >= 1 /\ p + 1 \in 1..Len(read_queue)
        /\ read_queue' = SubSeq(read_queue, p + 1, Len(read_queue))
        /\ read_queue \in Seq(Bytes) /\ link \in Seq(Bytes) /\ Stream \in Seq(Bytes)
    BY <2>1, LineTaken DEF TypeOK, FirstHit, Hits, Visited, Stream
  <2>4. Stream' = SubSeq(Stream, p + 1, Len(Stream)) /\ p \in 1..Len(Stream)
    BY <2>2, <2>3 DEF Stream
  <2>5. /\ Len(Stream') = Len(Stream) - p
        /\ \A k \in 1..Len(Stream') : Stream'[k] = Stream[p + k]
    BY <2>3, <2>4
  <2>6. ASSUME NEW k \in 1..Len(Stream') - 1
        PROVE  /\ p + k \in 1..Len(Stream) - 1 /\ Stream'[k] = Stream[p + k]
               /\ Stream'[k + 1] = Stream[(p + k) + 1]
    <3>1. Len(Stream') \in Nat /\ Len(Stream) \in Nat /\ p + (k + 1) = (p + k) + 1
      BY <2>3, <2>4, <2>5
    <3>2. k \in 1..Len(Stream') /\ k + 1 \in 1..Len(Stream')
      BY <3>1
    <3>3. p + k \in 1..Len(Stream) - 1
      <4>1. p \in Nat /\ p >= 1 /\ k \in Nat /\ k >= 1 /\ k <= Len(Stream') - 1
        BY <2>3, <3>1
      <4>. QED
        BY <2>5, <3>1, <4>1
    <3>. QED
      BY <2>5, <3>1, <3>2, <3>3
  <2>. QED
    BY <2>2, <2>6 DEF AnswersFollow
<1>3. CASE DeviceAnswers
  <2>1. PICK json \in JsonOK :
          link' = link \o Line(Text(ReplyHead[Head(commands).letter], json,
                                    Head(commands).cmd))
    BY <1>3 DEF DeviceAnswers
  <2>. DEFINE l == Line(Text(ReplyHead[Head(commands).letter], json, Head(commands).cmd))
  <2>2. Head(commands).cmd # 0 /\ Head(commands).cmd \in Nat
    BY <1>3, CommandNumbers DEF DeviceAnswers
  <2>3. l \in Seq(Bytes)
    <3>1. Head(commands).letter \in Queries /\ json \in BOOLEAN
      BY <1>3, JsonAssumption DEF DeviceAnswers
    <3>. QED
      BY <2>2, <3>1, LineType
  <2>4. Len(l) = 3 /\ l[1].cmd # 0 /\ l[2] # Nl
    <3>1. Len(l) = 3 /\ l[1].cmd = Head(commands).cmd /\ l[2] = Cr
      BY LineNumbers
    <3>2. Cr # Nl
      BY DEF Cr, Nl, Text
    <3>. QED
      BY <2>2, <3>1, <3>2
  <2>5. l[1] # Nl
    BY <2>4 DEF Nl, Text
  <2>. HIDE DEF l
  <2>6. /\ Stream' = Stream \o l /\ Stream \in Seq(Bytes) /\ unsolicited' = unsolicited
    <3>1. read_queue \in Seq(Bytes) /\ link \in Seq(Bytes)
      BY DEF TypeOK
    <3>2. link' = link \o l /\ read_queue' = read_queue /\ unsolicited' = unsolicited
      BY <1>3, <2>1 DEF DeviceAnswers, l
    <3>3. read_queue \o link \in Seq(Bytes)
      BY <3>1
    <3>4. read_queue \o (link \o l) = (read_queue \o link) \o l
      BY <2>3, <3>1, ConcatAssociative, SMTT(30)
    <3>. QED
      BY <3>2, <3>3, <3>4 DEF Stream
  <2>7. ASSUME NEW k \in 1..Len(Stream') - 1, unsolicited = 0, Stream'[k] = Nl
        PROVE  Stream'[k + 1].cmd # 0
    <3>1. /\ Len(Stream') = Len(Stream) + 3 /\ Len(Stream) \in Nat
          /\ \A j \in 1..Len(Stream) : Stream'[j] = Stream[j]
          /\ Stream'[Len(Stream) + 1] = l[1] /\ Stream'[Len(Stream) + 2] = l[2]
      <4>1. /\ Len(Stream \o l) = Len(Stream) + Len(l)
            /\ \A j \in 1..Len(Stream) : (Stream \o l)[j] = Stream[j]
            /\ \A j \in 1..Len(l) : (Stream \o l)[Len(Stream) + j] = l[j]
        BY <2>3, <2>6
      <4>2. 1 \in 1..Len(l) /\ 2 \in 1..Len(l) /\ Len(Stream) \in Nat
        BY <2>4, <2>6
      <4>. QED
        BY <2>4, <2>6, <4>1, <4>2
    <3>2. CASE k < Len(Stream)
      <4>1. /\ k \in 1..Len(Stream) - 1 /\ k \in 1..Len(Stream) /\ k + 1 \in 1..Len(Stream)
        BY <3>1, <3>2
      <4>2. Stream[k] = Nl /\ Stream'[k + 1] = Stream[k + 1]
        BY <2>7, <3>1, <4>1
      <4>. QED
        BY <2>7, <4>1, <4>2 DEF AnswersFollow
    <3>3. CASE k = Len(Stream)
      BY <2>4, <3>1, <3>3
    <3>4. CASE k > Len(Stream)
      BY <2>4, <2>5, <2>7, <3>1, <3>4
    <3>. QED
      BY <3>1, <3>2, <3>3, <3>4
  <2>. QED
    BY <2>6, <2>7 DEF AnswersFollow
<1>4. CASE DeviceSpeaks
  BY <1>4 DEF DeviceSpeaks, TypeOK, AnswersFollow
<1>5. CASE Arrive
  BY <1>5, ArriveMoves DEF Arrive, AnswersFollow
<1>. QED
  BY <1>1, <1>2, <1>3, <1>4, <1>5 DEF Next, Begin, Alarm, BeginThrows, Reads, PollMiss,
     PollThrows, GetterTimesOut, VersionTimesOut, VersionRetryThrows, Device, DeviceObeys,
     DeviceMisses, BootEnds, PortFails, vars, deviceVars

LEMMA StaleKept ==
  TypeOK /\ Pipeline /\ AnswersFollow /\ AnswersAreStale /\ [Next]_vars => AnswersAreStale'
<1>. SUFFICES ASSUME TypeOK, Pipeline, AnswersFollow, AnswersAreStale, [Next]_vars
              PROVE  AnswersAreStale'
  OBVIOUS
<1>1. ASSUME results' = results, unsolicited' = 0 => unsolicited = 0 PROVE AnswersAreStale'
  BY <1>1 DEF AnswersAreStale
\* What get_version_info already had is from before the command it has just sent.
<1>2. reading /\ Answered(line) # 0 => Answered(line) < sent + 1
  <2>1. line \in Seq(Bytes)
    BY DEF TypeOK
  <2>. QED
    BY <2>1, AnsweredNumber DEF Pipeline, Below, Held
<1>3. CASE GetterReads
  <2>1. PICK p \in FirstHit(read_queue, Newline) :
          Takes(p) /\ Ends(Outcome(Strip(Data(p)), Query), Strip(Data(p)), sent)
    BY <1>3 DEF GetterReads
  <2>2. UNCHANGED <<link, unsolicited>>
    BY <1>3 DEF GetterReads, deviceVars
  <2>. QED
    BY <2>1, <2>2, LineIsStale, ResultStale
<1>4. CASE VersionReads
  <2>1. PICK p \in FirstHit(read_queue, Newline) :
          /\ Takes(p)
          /\ line' = IF Data(p) = <<>> THEN line ELSE Strip(Data(p))
          /\ \/ Data(p) = <<>> /\ Writes("n")
             \/ Data(p) # <<>> /\ UNCHANGED <<sent, commands>>
    BY <1>4 DEF VersionReads
  <2>2. /\ UNCHANGED <<link, unsolicited>> /\ reading
        /\ results' = results \/ \E outcome : Ends(outcome, line', sent')
    BY <1>4 DEF VersionReads
  <2>3. unsolicited = 0 /\ Answered(line') # 0 => Answered(line') < sent'
    <3>1. CASE Data(p) = <<>>
      BY <1>2, <2>1, <2>2, <3>1 DEF Writes
    <3>2. CASE Data(p) # <<>>
      BY <2>1, <2>2, <3>2, LineIsStale
    <3>. QED
      BY <3>1, <3>2
  <2>. QED
    BY <1>1, <2>2, <2>3, ResultStale
<1>5. CASE VersionTimesOut
  <2>1. /\ reading /\ unsolicited' = unsolicited /\ sent' = sent + 1
        /\ results' = results \/ \E outcome : Ends(outcome, line, sent')
    BY <1>5 DEF VersionTimesOut, Writes
  <2>. QED
    BY <1>1, <1>2, <2>1, ResultStale
<1>6. CASE \/ Alarm \/ BeginThrows \/ PollThrows \/ GetterTimesOut
           \/ VersionRetryThrows \/ VersionRewriteThrows
  <2>1. unsolicited' = unsolicited /\ \E outcome, last : Ends(outcome, <<>>, last)
    BY <1>6 DEF Alarm, BeginThrows, PollThrows, GetterTimesOut, VersionRetryThrows,
       VersionRewriteThrows, deviceVars
  <2>2. Answered(<<>>) = 0
    BY DEF Answered
  <2>. QED
    BY <2>1, <2>2, ResultStale
<1>7. CASE Begin \/ PollMiss \/ UNCHANGED vars
  BY <1>1, <1>7 DEF Begin, PollMiss, vars, deviceVars
<1>8. CASE Device
  <2>1. results' = results /\ unsolicited' \in {unsolicited, unsolicited + 1}
    BY <1>8 DEF Device, DeviceAnswers, DeviceObeys, DeviceMisses, BootEnds, DeviceSpeaks,
       Arrive, PortFails, deviceVars
  <2>. QED
    BY <1>1, <2>1 DEF TypeOK
<1>. QED
  BY <1>3, <1>4, <1>5, <1>6, <1>7, <1>8 DEF Next, Reads

\* With a device that only answers, no query returns the answer to the last
\* command it wrote, whatever is lost, late or tried again: every reading is from
\* before it was asked for.
THEOREM AnswersAreStaleCorrect == Spec => []AnswersAreStale
<1>1. Init => AnswersFollow /\ AnswersAreStale
  BY DEF Init, AnswersFollow, AnswersAreStale, Stream
<1>2. TypeOK /\ Pipeline /\ AnswersFollow /\ AnswersAreStale /\ [Next]_vars
        => AnswersFollow' /\ AnswersAreStale'
  BY FollowKept, StaleKept
<1>. QED
  BY <1>1, <1>2, PipelineCorrect, PTL DEF Spec
------------------------------------------------------------------------------
(* Replies: what a document is read as, and what is written of it.  The    *)
(* tables of the members first.                                            *)

\* The types a member may have, as Converted knows them.
MemberTypes ==
    {"double", "double or null", "time", "word or null", "filter", "flag", "state", "mode",
     "any", "any or false", "any or empty"}

\* Every member has one of the types; a key that is written is one member's
\* alone, in either form; what is not written may be missing.
WellKeyed(fields) ==
    \A m \in DOMAIN fields :
        /\ fields[m].type \in MemberTypes
        /\ \A o \in DOMAIN fields :
               fields[o].written /\ fields[o].key \in {fields[m].key, fields[m].compact} => o = m
        /\ fields[m].written \/ fields[m].type = "double or null"

\* What a table says of a member.
LEMMA FieldParts ==
  ASSUME NEW compact, NEW key, NEW type
  PROVE  /\ Field(compact, key, type).compact = compact
         /\ Field(compact, key, type).key = key
         /\ Field(compact, key, type).type = type
         /\ Field(compact, key, type).written
         /\ Unwritten(Field(compact, key, type)).compact = compact
         /\ Unwritten(Field(compact, key, type)).key = key
         /\ Unwritten(Field(compact, key, type)).type = type
         /\ ~Unwritten(Field(compact, key, type)).written
  BY DEF Field, Unwritten

\* Members under one key each are well keyed.
LEMMA PlainWellKeyed ==
  ASSUME NEW fields,
         \A m \in DOMAIN fields : \E type \in MemberTypes : fields[m] = Field(m, m, type)
  PROVE  WellKeyed(fields)
<1>. SUFFICES ASSUME NEW m \in DOMAIN fields
              PROVE  /\ fields[m].type \in MemberTypes /\ fields[m].written
                     /\ fields[m].key = m /\ fields[m].compact = m
  BY DEF WellKeyed
<1>. QED
  BY FieldParts

LEMMA TemperaturesWellKeyed == WellKeyed(Temperatures)
<1>. DEFINE written == {"beerReading", "beerSetting", "beerAnnotation", "fridgeReading",
                        "fridgeSetting", "fridgeAnnotation", "state"}
<1>1. DOMAIN Temperatures = written \cup {"roomTemp"}
  BY DEF Temperatures
<1>2. /\ Temperatures["beerReading"].key = "BeerTemp"
      /\ Temperatures["beerSetting"].key = "BeerSet"
      /\ Temperatures["beerAnnotation"].key = "BeerAnn"
      /\ Temperatures["fridgeReading"].key = "FridgeTemp"
      /\ Temperatures["fridgeSetting"].key = "FridgeSet"
      /\ Temperatures["fridgeAnnotation"].key = "FridgeAnn"
      /\ Temperatures["state"].key = "State"
      /\ Temperatures["roomTemp"].key = "RoomTemp"
  BY DEF Temperatures, Field, Unwritten
<1>3. /\ Temperatures["beerReading"].compact = "bt"
      /\ Temperatures["beerSetting"].compact = "bs"
      /\ Temperatures["beerAnnotation"].compact = "ba"
      /\ Temperatures["fridgeReading"].compact = "ft"
      /\ Temperatures["fridgeSetting"].compact = "fs"
      /\ Temperatures["fridgeAnnotation"].compact = "fa"
      /\ Temperatures["state"].compact = "s"
      /\ Temperatures["roomTemp"].compact = "rt"
  BY DEF Temperatures, Field, Unwritten
<1>4. /\ Temperatures["beerReading"].type = "double or null"
      /\ Temperatures["beerSetting"].type = "double or null"
      /\ Temperatures["beerAnnotation"].type = "word or null"
      /\ Temperatures["fridgeReading"].type = "double or null"
      /\ Temperatures["fridgeSetting"].type = "double or null"
      /\ Temperatures["fridgeAnnotation"].type = "word or null"
      /\ Temperatures["state"].type = "state"
      /\ Temperatures["roomTemp"].type = "double or null"
  BY DEF Temperatures, Field, Unwritten
<1>5. /\ Temperatures["beerReading"].written
      /\ Temperatures["beerSetting"].written
      /\ Temperatures["beerAnnotation"].written
      /\ Temperatures["fridgeReading"].written
      /\ Temperatures["fridgeSetting"].written
      /\ Temperatures["fridgeAnnotation"].written
      /\ Temperatures["state"].written
      /\ ~Temperatures["roomTemp"].written
  BY DEF Temperatures, Field, Unwritten
<1>6. \A m \in written : Temperatures[m].type \in MemberTypes
  BY <1>4 DEF MemberTypes
<1>7. \A m \in written \cup {"roomTemp"} :
          Temperatures[m].compact \in {"bt", "bs", "ba", "ft", "fs", "fa", "s", "rt"}
  BY <1>3
<1>8. \A m \in written \cup {"roomTemp"}, o \in written : Temperatures[m].key = Temperatures[o].key => o = m
  BY <1>2
<1>9. \A o \in written : Temperatures[o].key \notin {"bt", "bs", "ba", "ft", "fs", "fa", "s", "rt"}
  BY <1>2
<1>10. \A m \in written : Temperatures[m].written
  BY <1>5
<1>. HIDE DEF written
<1>. QED
  BY <1>1, <1>4, <1>5, <1>6, <1>7, <1>8, <1>9, <1>10 DEF WellKeyed, MemberTypes

\* The members of every class are well keyed.
LEMMA FieldsWellKeyed == \A c \in Class : WellKeyed(Fields[c])
<1>1. WellKeyed(FwVersionInfo)
  <2>. \A m \in DOMAIN FwVersionInfo :
          \E type \in MemberTypes : FwVersionInfo[m] = Field(m, m, type)
    BY DEF FwVersionInfo, Plain, MemberTypes, \uplus
  <2>. QED
    BY PlainWellKeyed
<1>2. WellKeyed(ControlSettings)
  <2>. \A m \in DOMAIN ControlSettings :
          \E type \in MemberTypes : ControlSettings[m] = Field(m, m, type)
    BY DEF ControlSettings, Plain, MemberTypes, \uplus
  <2>. QED
    BY PlainWellKeyed
<1>3. WellKeyed(ControlConstants)
  <2>. \A m \in DOMAIN ControlConstants :
          \E type \in MemberTypes : ControlConstants[m] = Field(m, m, type)
    BY DEF ControlConstants, Plain, MemberTypes, \uplus
  <2>. QED
    BY PlainWellKeyed
<1>4. WellKeyed(ControlVariables)
  <2>. \A m \in DOMAIN ControlVariables :
          \E type \in MemberTypes : ControlVariables[m] = Field(m, m, type)
    BY DEF ControlVariables, Plain, MemberTypes
  <2>. QED
    BY PlainWellKeyed
<1>. QED
  BY <1>1, <1>2, <1>3, <1>4, TemperaturesWellKeyed DEF Class, Fields

LEMMA JsonParts ==
  /\ \A v \in Values : v.n \in Int /\ v = Json(v.kind, v.n)
  /\ \A n \in Int : /\ Number(n) \in Values /\ Number(n).kind = "number" /\ Number(n).n = n
                   /\ Word(n) \in Values /\ Word(n).kind = "word" /\ Word(n).n = n
  /\ Null \in Values /\ Null.kind = "null" /\ Null.n = 0
  BY DEF Values, Json, Null, Number, Word

LEMMA LetterCodes ==
  /\ Letter.none = 0 /\ Letter.digit \in Int /\ Letter.t \in Int /\ Letter.f \in Int
  /\ Modes \subseteq Int /\ 0 \notin Modes
  BY DEF Letter, Modes

\* What is taken for a string is one.
LEMMA StringOf ==
  ASSUME NEW v \in Values, NEW w \in AsString(v)
  PROVE  w \in Values /\ w.kind = "word"
<1>1. CASE v.kind = "word"
  BY <1>1 DEF AsString
<1>2. CASE v.kind # "word"
  <2>1. PICK n \in {Letter.none, Letter.digit, Letter.t, Letter.f} : w = Word(n)
    BY <1>2 DEF AsString
  <2>. QED
    BY <2>1, LetterCodes, JsonParts
<1>. QED
  BY <1>1, <1>2

\* A conversion that does not throw makes a value of its type.
LEMMA ConvertedHolds ==
  ASSUME NEW type \in MemberTypes, NEW v \in Values, NEW w \in Converted(type, v)
  PROVE  w \in Values /\ Holds(type, w)
<1>1. CASE type \in {"double", "double or null"}
  <2>1. w = Number(v.n)
    BY <1>1 DEF Converted, AsDouble
  <2>. QED
    BY <1>1, <2>1, JsonParts DEF Holds
<1>2. CASE type = "time"
  BY <1>2 DEF Converted, AsDouble, AsInt64, Holds, Values, Number, Json
<1>3. CASE type = "word or null"
  <2>1. w \in AsString(v)
    BY <1>3 DEF Converted
  <2>. QED
    BY <1>3, <2>1, StringOf DEF Holds
<1>4. CASE type = "filter"
  <2>1. PICK d \in AsUInt(v) : w = Number(d.n % 256)
    BY <1>4 DEF Converted
  <2>2. d.n \in Nat
    BY <2>1, WidthAssumption DEF AsUInt
  <2>3. d.n % 256 \in Int /\ d.n % 256 \in 0..255
    BY <2>2
  <2>. QED
    BY <2>1, <2>3, <1>4 DEF Holds, Values, Number, Json
<1>5. CASE type = "flag"
  BY <1>5 DEF Converted, AsDouble, AsBool, Bool, Holds, Values, Number, Json
<1>6. CASE type = "state"
  BY <1>6 DEF Converted, ReadState, Holds, Values, Number, Json
<1>7. CASE type = "mode"
  <2>1. PICK u \in AsString(v) : w = ReadMode(u)
    BY <1>7 DEF Converted
  <2>2. u \in Values /\ u.kind = "word"
    BY <2>1, StringOf
  <2>. QED
    BY <1>7, <2>1, <2>2 DEF ReadMode, Holds, Values, Word, Json, Letter, Modes
<1>8. CASE type \in {"any", "any or false", "any or empty"}
  BY <1>8 DEF Converted, Holds
<1>. QED
  BY <1>1, <1>2, <1>3, <1>4, <1>5, <1>6, <1>7, <1>8 DEF MemberTypes

\* What is printed of a member is read back as it was.
LEMMA PrintedReadsBack ==
  ASSUME NEW type \in MemberTypes, NEW w \in Values, Holds(type, w)
  PROVE  Printed(type, w) \in Values /\ Converted(type, Printed(type, w)) = {w}
<1>0. w.n \in Int /\ w = Json(w.kind, w.n) /\ Null \in Values /\ Number(w.n) \in Values
  BY DEF Values, Json, Null, Number
<1>1. CASE type = "double"
  <2>1. w = Number(w.n) /\ Printed(type, w) = w
    BY <1>0, <1>1 DEF Holds, Printed, Number
  <2>. QED
    BY <1>0, <1>1, <2>1 DEF Holds, Converted, AsDouble
<1>2. CASE type = "double or null"
  <2>1. w = Number(w.n) /\ w.kind = "number"
    BY <1>0, <1>2 DEF Holds, Number
  <2>2. CASE w.n = 0
    <3>1. Printed(type, w) = Null
      BY <1>2, <2>2 DEF Printed
    <3>2. AsDouble(Null) = {w}
      BY <2>1, <2>2, JsonParts DEF AsDouble
    <3>. QED
      BY <1>0, <1>2, <2>1, <2>2, <3>1, <3>2 DEF Converted
  <2>3. CASE w.n # 0
    <3>1. Printed(type, w) = w
      BY <1>2, <2>3 DEF Printed
    <3>. QED
      BY <1>0, <1>2, <2>1, <3>1 DEF Converted, AsDouble
  <2>. QED
    BY <2>2, <2>3
<1>3. CASE type = "time"
  <2>1. w = Number(w.n) /\ w.kind = "number" /\ w.n \in -MaxInt64 - 1..MaxInt64
    BY <1>0, <1>3 DEF Holds, Number
  <2>2. Printed(type, w) = w
    BY <1>3 DEF Printed
  <2>3. AsDouble(w) = {w}
    BY <2>1 DEF AsDouble
  <2>. QED
    BY <1>3, <2>1, <2>2, <2>3 DEF Converted, AsInt64
<1>4. CASE type = "word or null"
  <2>1. w.kind = "word"
    BY <1>4 DEF Holds
  <2>2. CASE w.n = 0
    <3>1. Printed(type, w) = Null
      BY <1>4, <2>2 DEF Printed
    <3>2. AsString(Null) = {w}
      BY <1>0, <2>1, <2>2 DEF AsString, Null, Word, Json, Letter
    <3>. QED
      BY <1>0, <1>4, <2>1, <2>2, <3>1, <3>2 DEF Converted
  <2>3. CASE w.n # 0
    <3>1. Printed(type, w) = w
      BY <1>4, <2>3 DEF Printed
    <3>. QED
      BY <1>4, <2>1, <3>1 DEF Converted, AsString
  <2>. QED
    BY <2>2, <2>3
<1>5. CASE type = "filter"
  <2>1. w = Number(w.n) /\ w.kind = "number" /\ w.n \in 0..255
    BY <1>0, <1>5 DEF Holds, Number
  <2>2. Printed(type, w) = w
    BY <1>5 DEF Printed
  <2>3. AsDouble(w) = {w}
    BY <2>1 DEF AsDouble
  <2>4. AsUInt(w) = {w} /\ w.n % 256 = w.n
    BY <2>1, <2>3, WidthAssumption DEF AsUInt
  <2>. QED
    BY <1>5, <2>1, <2>2, <2>4 DEF Converted
<1>6. CASE type = "flag"
  <2>1. w.kind = "bool" /\ (w.n = 0 \/ w.n = 1)
    BY <1>6 DEF Holds
  <2>2. Printed(type, w) = Number(w.n) /\ w = Bool(w.n # 0)
    BY <1>0, <1>6, <2>1 DEF Printed, Bool
  <2>3. AsBool(Number(w.n)) = {w}
    BY <2>2 DEF AsBool, AsDouble, Number, Json
  <2>. QED
    BY <1>0, <1>6, <2>2, <2>3 DEF Converted
<1>7. CASE type = "state"
  <2>1. w = Number(w.n) /\ w.kind = "number" /\ (w.n = -1 \/ w.n \in 0..9)
    BY <1>0, <1>7 DEF Holds, Number
  <2>2. CASE w.n = -1
    <3>1. Printed(type, w) = Null
      BY <1>7, <2>2 DEF Printed
    <3>. QED
      BY <1>0, <1>7, <2>1, <2>2, <3>1 DEF Converted, ReadState, Null, Json
  <2>3. CASE w.n \in 0..9
    <3>1. Printed(type, w) = w
      BY <1>7, <2>3 DEF Printed
    <3>. QED
      BY <1>7, <2>1, <2>3, <3>1 DEF Converted, ReadState
  <2>. QED
    BY <2>1, <2>2, <2>3
<1>8. CASE type = "mode"
  <2>1. w.kind = "word" /\ (w.n = 0 \/ w.n \in Modes) /\ 0 \notin Modes
    BY <1>8 DEF Holds, Letter, Modes
  <2>2. CASE w.n = 0
    <3>1. Printed(type, w) = Null
      BY <1>8, <2>2 DEF Printed
    <3>2. AsString(Null) = {w}
      BY <1>0, <2>1, <2>2 DEF AsString, Null, Word, Json, Letter
    <3>. QED
      BY <1>0, <1>8, <2>1, <2>2, <3>1, <3>2 DEF Converted, ReadMode, Word, Letter
  <2>3. CASE w.n # 0
    <3>1. Printed(type, w) = w
      BY <1>8, <2>3 DEF Printed
    <3>2. AsString(w) = {w}
      BY <2>1 DEF AsString
    <3>. QED
      BY <1>8, <2>1, <2>3, <3>1, <3>2 DEF Converted, ReadMode
  <2>. QED
    BY <2>2, <2>3
<1>9. CASE type \in {"any", "any or false", "any or empty"}
  <2>1. Printed(type, w) = w
    BY <1>9 DEF Printed
  <2>. QED
    BY <1>9, <2>1 DEF Converted
<1>. QED
  BY <1>1, <1>2, <1>3, <1>4, <1>5, <1>6, <1>7, <1>8, <1>9 DEF MemberTypes

\* What a key of a document holds, or null.
LEMMA SourceValue ==
  ASSUME NEW d, \A key \in DOMAIN d.keys : d.keys[key] \in Values, NEW field
  PROVE  Source(d, field) \in Values
<1>1. \A key : At(d, key) \in Values
  BY JsonParts DEF At
<1>2. Bool(FALSE) \in Values /\ Word(Letter.none) \in Values
  BY LetterCodes, JsonParts DEF Bool, Values, Json
<1>. QED
  BY <1>1, <1>2 DEF Source

\* The object made of a document that can be read.
LEMMA ObjectOfReadable ==
  ASSUME NEW c \in Class, NEW d, \A key \in DOMAIN d.keys : d.keys[key] \in Values,
         Readable(c, d)
  PROVE  /\ Object(c, d) \in [DOMAIN Fields[c] -> Values]
         /\ \A m \in DOMAIN Fields[c] :
                /\ Object(c, d)[m] \in Converted(Fields[c][m].type, Source(d, Fields[c][m]))
                /\ Holds(Fields[c][m].type, Object(c, d)[m])
<1>1. ASSUME NEW m \in DOMAIN Fields[c]
      PROVE  /\ Object(c, d)[m] \in Converted(Fields[c][m].type, Source(d, Fields[c][m]))
             /\ Object(c, d)[m] \in Values /\ Holds(Fields[c][m].type, Object(c, d)[m])
  <2>. DEFINE values == Converted(Fields[c][m].type, Source(d, Fields[c][m]))
  <2>1. values # {}
    BY DEF Readable
  <2>2. (CHOOSE v \in values : TRUE) \in values
    BY <2>1
  <2>3. Object(c, d)[m] = CHOOSE v \in values : TRUE
    BY DEF Object
  <2>4. Object(c, d)[m] \in values
    BY <2>2, <2>3
  <2>5. Fields[c][m].type \in MemberTypes /\ Source(d, Fields[c][m]) \in Values
    BY FieldsWellKeyed, SourceValue DEF WellKeyed
  <2>. QED
    BY <2>4, <2>5, ConvertedHolds
<1>2. Object(c, d) = [m \in DOMAIN Fields[c] |-> Object(c, d)[m]]
  BY DEF Object
<1>. QED
  BY <1>1, <1>2

\* What to_string writes of an object: a document of the members it writes,
\* each under its key.
LEMMA WrittenKeys ==
  ASSUME NEW c \in Class, NEW o, NEW m \in Written(c)
  PROVE  /\ Fields[c][m].key \in DOMAIN WrittenDocument(c, o).keys
         /\ WrittenDocument(c, o).keys[Fields[c][m].key] = Printed(Fields[c][m].type, o[m])
<1>. DEFINE keys == {Fields[c][n].key : n \in Written(c)}
            member(key) == CHOOSE n \in Written(c) : Fields[c][n].key = key
<1>1. WrittenDocument(c, o).keys =
          [key \in keys |-> Printed(Fields[c][member(key)].type, o[member(key)])]
  BY DEF WrittenDocument, Document
<1>2. member(Fields[c][m].key) \in Written(c)
      /\ Fields[c][member(Fields[c][m].key)].key = Fields[c][m].key
  OBVIOUS
<1>3. member(Fields[c][m].key) = m
  BY <1>2, FieldsWellKeyed DEF WellKeyed, Written
<1>4. Fields[c][m].key \in keys
  OBVIOUS
<1>. HIDE DEF keys, member
<1>. QED
  BY <1>1, <1>3, <1>4

\* A member that is written is looked for where it has been written.
LEMMA WrittenSource ==
  ASSUME NEW c \in Class, NEW o, NEW m \in Written(c)
  PROVE  Source(WrittenDocument(c, o), Fields[c][m]) = Printed(Fields[c][m].type, o[m])
<1>. DEFINE d == WrittenDocument(c, o)
            field == Fields[c][m]
<1>1. field.key \in DOMAIN d.keys /\ At(d, field.key) = Printed(field.type, o[m])
  BY WrittenKeys DEF At
<1>2. field.compact \in DOMAIN d.keys => field.compact = field.key
  <2>1. DOMAIN d.keys = {Fields[c][n].key : n \in Written(c)}
    BY DEF WrittenDocument, Document
  <2>2. SUFFICES ASSUME NEW n \in Written(c), Fields[c][n].key = field.compact
                 PROVE  field.compact = field.key
    BY <2>1
  <2>3. n = m
    BY <2>2, FieldsWellKeyed DEF WellKeyed, Written
  <2>. QED
    BY <2>2, <2>3
<1>. HIDE DEF d, field
<1>. QED
  BY <1>1, <1>2 DEF Source, d, field

\* A member that is not written is found missing.
LEMMA UnwrittenSource ==
  ASSUME NEW c \in Class, NEW o, NEW m \in DOMAIN Fields[c], m \notin Written(c)
  PROVE  /\ Source(WrittenDocument(c, o), Fields[c][m]) = Null
         /\ Fields[c][m].type = "double or null"
<1>. DEFINE d == WrittenDocument(c, o)
            field == Fields[c][m]
<1>1. DOMAIN d.keys = {Fields[c][n].key : n \in Written(c)}
  BY DEF WrittenDocument, Document
<1>2. field.compact \notin DOMAIN d.keys /\ field.key \notin DOMAIN d.keys
  <2>1. \A n \in Written(c) : Fields[c][n].key \notin {field.key, field.compact}
    BY FieldsWellKeyed DEF WellKeyed, Written
  <2>. QED
    BY <1>1, <2>1
<1>3. field.type = "double or null"
  BY FieldsWellKeyed DEF WellKeyed, Written
<1>. HIDE DEF d, field
<1>4. Source(d, field) = Null
  BY <1>2, <1>3 DEF Source, At
<1>. QED
  BY <1>3, <1>4 DEF d, field

\* An object whose members are of their types.
Sound(c, o) ==
    /\ o \in [DOMAIN Fields[c] -> Values]
    /\ \A m \in DOMAIN Fields[c] : Holds(Fields[c][m].type, o[m])

\* What is written of a sound object is a document that can be read, and read
\* as it was.
LEMMA WrittenIsReadable ==
  ASSUME NEW c \in Class, NEW o, Sound(c, o)
  PROVE  /\ \A key \in DOMAIN WrittenDocument(c, o).keys :
                WrittenDocument(c, o).keys[key] \in Values
         /\ Readable(c, WrittenDocument(c, o))
         /\ \A m \in Written(c) :
                Converted(Fields[c][m].type, Source(WrittenDocument(c, o), Fields[c][m])) = {o[m]}
<1>. DEFINE d == WrittenDocument(c, o)
<1>1. ASSUME NEW m \in Written(c)
      PROVE  /\ Printed(Fields[c][m].type, o[m]) \in Values
             /\ Converted(Fields[c][m].type, Printed(Fields[c][m].type, o[m])) = {o[m]}
  <2>1. m \in DOMAIN Fields[c] /\ o[m] \in Values /\ Holds(Fields[c][m].type, o[m])
    BY DEF Sound, Written
  <2>2. Fields[c][m].type \in MemberTypes
    BY <2>1, FieldsWellKeyed DEF WellKeyed
  <2>. QED
    BY <2>1, <2>2, PrintedReadsBack
<1>2. \A key \in DOMAIN d.keys : d.keys[key] \in Values
  <2>1. DOMAIN d.keys = {Fields[c][n].key : n \in Written(c)}
    BY DEF WrittenDocument, Document
  <2>2. SUFFICES ASSUME NEW n \in Written(c) PROVE d.keys[Fields[c][n].key] \in Values
    BY <2>1
  <2>. QED
    BY <1>1, WrittenKeys
<1>3. \A m \in Written(c) : Converted(Fields[c][m].type, Source(d, Fields[c][m])) = {o[m]}
  BY <1>1, WrittenSource
<1>4. ASSUME NEW m \in DOMAIN Fields[c]
      PROVE  Converted(Fields[c][m].type, Source(d, Fields[c][m])) # {}
  <2>1. CASE m \in Written(c)
    BY <1>3, <2>1
  <2>2. CASE m \notin Written(c)
    <3>1. Source(d, Fields[c][m]) = Null /\ Fields[c][m].type = "double or null"
      BY <2>2, UnwrittenSource
    <3>2. AsDouble(Null) # {}
      BY JsonParts DEF AsDouble
    <3>. QED
      BY <3>1, <3>2 DEF Converted
  <2>. QED
    BY <2>1, <2>2
<1>5. d.root = "object"
  BY DEF WrittenDocument, Document
<1>. QED
  BY <1>2, <1>3, <1>4, <1>5 DEF Readable
-----------------------------------------------------------------------------

\* What the proofs keep: the types, and where the object and the document come
\* from.
ReplyKept == ReplyTypeOK /\ Made

LEMMA ReplyInitKept == ReplyInit => ReplyKept
  BY DocumentsAssumption DEF ReplyInit, ReplyKept, ReplyTypeOK, Made

LEMMA ReplyStepKept == ReplyKept /\ [ReplyNext]_replyVars => ReplyKept'
<1>. SUFFICES ASSUME ReplyKept, [ReplyNext]_replyVars PROVE ReplyKept'
  OBVIOUS
<1>. USE DEF ReplyKept
<1>1. class \in Class
  BY DEF ReplyTypeOK
<1>2. CASE Get
  <2>1. /\ Object(class, doc) \in [DOMAIN Fields[class] -> Values]
        /\ \A m \in DOMAIN Fields[class] : Holds(Fields[class][m].type, Object(class, doc)[m])
    BY <1>1, <1>2, ObjectOfReadable DEF ReplyTypeOK, Get
  <2>. QED
    BY <1>2, <2>1 DEF Get, ReplyTypeOK, Made
<1>3. CASE GetTerminates
  BY <1>3 DEF GetTerminates, ReplyTypeOK, Made
<1>4. CASE Write
  <2>1. Sound(class, object)
    BY <1>4 DEF Write, ReplyTypeOK, Made, Sound
  <2>2. \A key \in DOMAIN WrittenDocument(class, object).keys :
           WrittenDocument(class, object).keys[key] \in Values
    BY <1>1, <2>1, WrittenIsReadable
  <2>. QED
    BY <1>4, <2>2 DEF Write, ReplyTypeOK, Made
<1>5. CASE ReadAgain
  <2>1. Object(class, doc) \in [DOMAIN Fields[class] -> Values]
    BY <1>1, <1>5, ObjectOfReadable DEF ReplyTypeOK, ReadAgain
  <2>. QED
    BY <1>5, <2>1 DEF ReadAgain, ReplyTypeOK, Made
<1>6. CASE UNCHANGED replyVars
  BY <1>6 DEF replyVars, ReplyTypeOK, Made
<1>. QED
  BY <1>2, <1>3, <1>4, <1>5, <1>6 DEF ReplyNext

LEMMA RepliesKept == ReplySpec => []ReplyKept
<1>. QED
  BY ReplyInitKept, ReplyStepKept, PTL DEF ReplySpec

\* Every variable of Replies keeps its type, whatever the firmware answers.
THEOREM RepliesTypeCorrect == ReplySpec => []ReplyTypeOK
<1>1. ReplyKept => ReplyTypeOK
  BY DEF ReplyKept
<1>. QED
  BY <1>1, RepliesKept, PTL

\* Whatever a firmware sends, in documents of any keys and values, each member
\* of the object that a getter returns holds a value of its type.
THEOREM ReadsInRangeCorrect == ReplySpec => []ReadsInRange
<1>1. ReplyKept => ReadsInRange
  <2>. SUFFICES ASSUME ReplyKept PROVE ReadsInRange
    OBVIOUS
  <2>1. ASSUME step = "again" PROVE \A m \in DOMAIN again : Holds(Fields[class][m].type, again[m])
    <3>1. class \in Class /\ again = Object(class, doc) /\ Sound(class, object)
      BY <2>1 DEF ReplyKept, ReplyTypeOK, Made, Sound
    <3>2. /\ Readable(class, doc)
          /\ \A key \in DOMAIN doc.keys : doc.keys[key] \in Values
      BY <2>1, <3>1, WrittenIsReadable DEF ReplyKept, Made
    <3>3. /\ Object(class, doc) \in [DOMAIN Fields[class] -> Values]
          /\ \A m \in DOMAIN Fields[class] : Holds(Fields[class][m].type, Object(class, doc)[m])
      BY <3>1, <3>2, ObjectOfReadable
    <3>. QED
      BY <3>1, <3>3
  <2>. QED
    BY <2>1 DEF ReplyKept, Made, ReadsInRange
<1>. QED
  BY <1>1, RepliesKept, PTL

\* Whatever a firmware has answered, the document to_string writes of what a
\* getter made of it can be read, and gives every member it writes its value.
THEOREM WrittenReadsBackCorrect == ReplySpec => []WrittenReadsBack
<1>1. ReplyKept => WrittenReadsBack
  <2>. SUFFICES ASSUME ReplyKept, step \in {"written", "again"}
                PROVE  /\ Readable(class, doc)
                       /\ step = "again" => \A m \in Written(class) : again[m] = object[m]
    BY DEF WrittenReadsBack
  <2>1. class \in Class /\ doc = WrittenDocument(class, object) /\ Sound(class, object)
    BY DEF ReplyKept, ReplyTypeOK, Made, Sound
  <2>2. Readable(class, doc) /\ \A key \in DOMAIN doc.keys : doc.keys[key] \in Values
    BY <2>1, WrittenIsReadable
  <2>3. ASSUME step = "again", NEW m \in Written(class) PROVE again[m] = object[m]
    <3>1. again = Object(class, doc) /\ m \in DOMAIN Fields[class]
      BY <2>3 DEF ReplyKept, Made, Written
    <3>2. again[m] \in Converted(Fields[class][m].type, Source(doc, Fields[class][m]))
      BY <2>1, <2>2, <3>1, ObjectOfReadable
    <3>3. Converted(Fields[class][m].type, Source(doc, Fields[class][m])) = {object[m]}
      BY <2>1, WrittenIsReadable
    <3>. QED
      BY <3>2, <3>3
  <2>. QED
    BY <2>2, <2>3
<1>. QED
  BY <1>1, RepliesKept, PTL
==============================================================================
