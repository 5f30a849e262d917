--------------------------- MODULE AsyncImplProofs ---------------------------
(***************************************************************************)
(* The invariants of AsyncImpl, and the stream it implements, for every    *)
(* value of its constants.  The argument for the order of bytes: there is  *)
(* one chain of write handlers, until a close() frees a buffer in use, and *)
(* one of read handlers, until the first close(), and each step of a       *)
(* thread or of the client takes a chain from one of its phases to the     *)
(* next.  The last sections: where an error may come from, that the reads  *)
(* an open() starts are neither lost nor multiplied, and that the class is *)
(* the stream of ByteStream until a close() takes it down.                 *)
(***************************************************************************)
EXTENDS AsyncImpl, SequenceTheorems, FiniteSetTheorems, FunctionTheorems, TLAPS

LEMMA TaskTypes ==
    /\ \A call \in Calls, n \in 0..ReadBufferSize : Task(call, n) \in Tasks
    /\ \A p \in {"none", "poll", "io", "exited"} : Place(p) \in Places
BY DEF Task, Tasks, Place, Places

LEMMA FreedType ==
    ASSUME NEW ops \in Seq(Seq(Byte \cup {Junk}))
    PROVE  Freed(ops) \in Seq(Seq(Byte \cup {Junk}))
<1> DEFINE S == Byte \cup {Junk}
           row(k) == [j \in DOMAIN ops[k] |-> Junk]
<1>1. DOMAIN ops = 1..Len(ops) /\ Len(ops) \in Nat
  OBVIOUS
<1>2. ASSUME NEW k \in 1..Len(ops) PROVE row(k) \in Seq(S)
  <2>1. ops[k] \in Seq(S)
    OBVIOUS
  <2>2. DOMAIN ops[k] = 1..Len(ops[k]) /\ Len(ops[k]) \in Nat
    BY <2>1, LenProperties
  <2>3. row(k) \in [1..Len(ops[k]) -> S]
    BY <2>2
  <2>. QED
    BY <2>2, <2>3, SeqDef
<1>3. Freed(ops) \in [1..Len(ops) -> Seq(S)]
  <2> HIDE DEF row
  <2>1. [k \in 1..Len(ops) |-> row(k)] \in [1..Len(ops) -> Seq(S)]
    BY <1>2
  <2>. QED
    BY <2>1, <1>1 DEF Freed, row
<1>4. Freed(ops) \in UNION {[1..n -> Seq(S)] : n \in Nat}
  BY <1>1, <1>3
<1>. QED
  BY <1>4, SeqDef

LEMMA RepeatType ==
    ASSUME NEW S, NEW x \in S, NEW n \in Nat
    PROVE  Repeat(x, n) \in Seq(S) /\ Len(Repeat(x, n)) = n
BY DEF Repeat

LEMMA SubSeqType ==
    ASSUME NEW S, NEW s \in Seq(S), NEW m \in 1..Len(s) + 1, NEW n \in 0..Len(s)
    PROVE  SubSeq(s, m, n) \in Seq(S)
OBVIOUS
------------------------------------------------------------------------------

LEMMA PostsType ==
    ASSUME ioq \in Seq(Tasks), NEW call \in Calls, NEW n \in 0..ReadBufferSize,
           Posts(Task(call, n))
    PROVE  ioq' \in Seq(Tasks)
BY TaskTypes DEF Posts

LEMMA MovesType ==
    ASSUME runner \in [Runners -> Tasks \cup Places], NEW i \in Runners,
           NEW task \in Tasks \cup Places, Moves(i, task)
    PROVE  runner' \in [Runners -> Tasks \cup Places]
BY DEF Moves

LEMMA CompletesType ==
    ASSUME IoType, NEW i \in Runners, NEW call \in Calls,
           NEW n \in 0..ReadBufferSize, Completes(i, Task(call, n))
    PROVE  /\ ioq' \in Seq(Tasks)
           /\ runner' \in [Runners -> Tasks \cup Places]
BY TaskTypes, MovesType, PostsType DEF Completes, IoType

\* The variables keep their types: counters stay within their bounds, buffers
\* hold bytes, threads and ready queue hold handlers of the class.
THEOREM TypeCorrect == Spec => []TypeOK
<1>. USE SizesAssumption, DataAssumption, TaskTypes
<1>1. Init => TypeOK
  <2>. SUFFICES ASSUME Init PROVE TypeOK
    OBVIOUS
  <2>. USE DEF Init
  <2>1. PortType
    BY DEF PortType
  <2>2. IoType
    BY EmptySeq DEF IoType
  <2>3. ReadType
    BY EmptySeq DEF ReadType, Repeat
  <2>4. WriteType
    BY EmptySeq DEF WriteType
  <2>5. ClientType
    BY DEF ClientType, ClientStates, Idle, At
  <2>. QED
    BY <2>1, <2>2, <2>3, <2>4, <2>5 DEF TypeOK
<1>2. TypeOK /\ [Next]_vars => TypeOK'
  <2>. SUFFICES ASSUME TypeOK, [Next]_vars PROVE TypeOK'
    OBVIOUS
  <2>. USE DEF portVars, ioVars, readVars, writeVars, clientVars, ghostVars, Idle, At
  <2>0. PortType /\ IoType /\ ReadType /\ WriteType /\ ClientType
    BY DEF TypeOK
  <2>1. CASE WriteCheck
    BY <2>0, <2>1 DEF WriteCheck, TypeOK, PortType, IoType, ReadType, WriteType,
       ClientType, ClientStates
  <2>2. CASE WriteLocked
    <3>. USE <2>2 DEF WriteLocked
    <3>1. Outgoing[written + 1] \in Seq(Byte) /\ written + 1 \in 0..Len(Outgoing)
      <4>1. written \in 0..Len(Outgoing) /\ written < Len(Outgoing)
        BY <2>0 DEF ClientType, WriteType
      <4>2. Len(Outgoing) \in Nat
        BY LenProperties
      <4>3. written + 1 \in 1..Len(Outgoing) /\ written + 1 \in 0..Len(Outgoing)
        BY <4>1, <4>2
      <4>. QED
        BY <4>3, ElementOfSeq
    <3>2. WriteType'
      <4>1. /\ write_queue \o Outgoing[written + 1] \in Seq(Byte)
            /\ accepted \o Outgoing[written + 1] \in Seq(Byte)
        BY <2>0, <3>1, ConcatProperties DEF WriteType
      <4>. QED
        BY <2>0, <3>1, <4>1 DEF WriteType
    <3>3. IoType'
      <4>1. ioq' \in Seq(Tasks)
        BY <2>0, PostsType DEF IoType, Calls
      <4>2. writeOps' \in Seq(Seq(Byte \cup {Junk}))
        BY <2>0, FreedType DEF IoType
      <4>. QED
        BY <2>0, <4>1, <4>2 DEF IoType
    <3>. QED
      BY <2>0, <3>2, <3>3 DEF TypeOK, PortType, ReadType, ClientType, ClientStates
  <2>3. CASE ReadCheck
    BY <2>0, <2>3 DEF ReadCheck, TypeOK, PortType, IoType, ReadType, WriteType,
       ClientType, ClientStates
  <2>4. CASE ReadLocked
    <3>. USE <2>4 DEF ReadLocked
    <3>1. ReadType'
      <4>1. CASE FirstHit(read_queue, Delim) = {}
        BY <2>0, <4>1 DEF ReadType
      <4>2. ASSUME NEW p \in FirstHit(read_queue, Delim),
                   taken' = taken + CutLength(p, Delim),
                   read_queue' = Remainder(read_queue, p, Delim)
            PROVE  ReadType'
        <5>1. p \in 1..Len(read_queue) - Len(Delim) /\ Len(Delim) \in Nat
          BY <2>0 DEF FirstHit, Hits, Visited, ReadType
        <5>2. CutLength(p, Delim) \in Nat
          BY <5>1 DEF CutLength
        <5>3. Remainder(read_queue, p, Delim) \in Seq(Byte \cup {Nul})
          BY <2>0, <5>1, SubSeqType DEF Remainder, ReadType
        <5>. QED
          BY <2>0, <4>2, <5>2, <5>3 DEF ReadType
      <4>. QED
        BY <4>1, <4>2
    <3>. QED
      BY <2>0, <3>1 DEF TypeOK, PortType, IoType, WriteType, ClientType, ClientStates
  <2>5. ASSUME NEW call \in {"open", "close"}, CloseBegin(call)
        PROVE  TypeOK'
    BY <2>0, <2>5 DEF CloseBegin, TypeOK, PortType, IoType, ReadType, WriteType,
       ClientType, ClientStates
  <2>6. ASSUME NEW call \in {"open", "close"}, CloseReset(call)
        PROVE  TypeOK'
    <3>. USE <2>6 DEF CloseReset
    <3>1. IoType'
      BY <2>0, FreedType DEF IoType
    <3>2. WriteType'
      BY <2>0, EmptySeq DEF WriteType
    <3>. QED
      BY <2>0, <3>1, <3>2 DEF TypeOK, PortType, ReadType, ClientType, ClientStates
  <2>7. ASSUME SerialClose, IoType, UNCHANGED <<stopped, runner>>
        PROVE  IoType'
    <3>1. Len(writeOps) \in Nat /\ readOps \in Nat
      BY <2>0 DEF IoType
    <3>2. /\ Repeat(Task("readFail", 0), readOps) \in Seq(Tasks)
          /\ Repeat(Task("writeFail", 0), Len(writeOps)) \in Seq(Tasks)
      BY <3>1, RepeatType DEF Calls
    <3>3. ioq' \in Seq(Tasks)
      BY <2>0, <2>7, <3>2, ConcatProperties DEF SerialClose, IoType
    <3>. QED
      BY <2>0, <2>7, <3>3, EmptySeq DEF SerialClose, IoType
  <2>8. ASSUME NEW call \in {"open", "close"},
               ClosePort(call) \/ ClosePortThrows(call)
        PROVE  TypeOK'
    <3>1. IoType'
      BY <2>0, <2>7, <2>8 DEF ClosePort, ClosePortThrows
    <3>2. PortType' /\ ReadType' /\ WriteType'
      BY <2>0, <2>8 DEF ClosePort, ClosePortThrows, SerialClose, PortType, ReadType,
         WriteType
    <3>3. ClientType'
      BY <2>0, <2>8 DEF ClosePort, ClosePortThrows, ClientType, ClientStates
    <3>. QED
      BY <3>1, <3>2, <3>3 DEF TypeOK
  <2>9. CASE OpenBegin
    BY <2>0, <2>9 DEF OpenBegin, TypeOK, PortType, IoType, ReadType, WriteType,
       ClientType, ClientStates
  <2>10. CASE ConfigureThrows \/ Configure
    <3>1. PortType' /\ IoType' /\ ReadType' /\ WriteType'
      BY <2>0, <2>10 DEF ConfigureThrows, Configure, PortType, IoType, ReadType,
         WriteType
    <3>2. ClientType'
      <4>1. CASE ConfigureThrows
        BY <2>0, <4>1 DEF ConfigureThrows, ClientType, ClientStates
      <4>2. CASE Configure
        <5>1. client' = At("open", "start") /\ UNCHANGED <<opens, written>>
          BY <4>2 DEF Configure
        <5>2. opens < MaxOpens
          BY <2>0, <4>2 DEF Configure, ClientType
        <5>. QED
          BY <2>0, <5>1, <5>2 DEF ClientType, ClientStates
      <4>. QED
        BY <2>10, <4>1, <4>2
    <3>. QED
      BY <3>1, <3>2 DEF TypeOK
  <2>11. CASE OpenStart
    <3>. USE <2>11 DEF OpenStart
    <3>1. opens + 1 \in Runners
      BY <2>0 DEF ClientType, At, Runners
    <3>2. IoType'
      <4>1. ioq' \in Seq(Tasks)
        BY <2>0, PostsType DEF IoType, Calls
      <4>2. runner' \in [Runners -> Tasks \cup Places]
        BY <2>0, <3>1, MovesType DEF IoType
      <4>. QED
        BY <2>0, <4>1, <4>2 DEF IoType
    <3>. QED
      BY <2>0, <3>1, <3>2 DEF TypeOK, PortType, ReadType, WriteType, ClientType,
         ClientStates, Runners, Idle, At
  <2>12. ASSUME NEW i \in Runners, Pick(i)
         PROVE  TypeOK'
    <3>. USE <2>12 DEF Pick
    <3>1. Head(ioq) \in Tasks /\ Tail(ioq) \in Seq(Tasks)
      BY <2>0, HeadTailProperties DEF IoType
    <3>2. IoType'
      BY <2>0, <3>1, MovesType DEF IoType
    <3>. QED
      BY <2>0, <3>2 DEF TypeOK, PortType, ReadType, WriteType, ClientType
  <2>13. ASSUME NEW i \in Runners, EnterReactor(i) \/ LeaveReactor(i) \/ Exit(i)
         PROVE  TypeOK'
    <3>1. IoType'
      BY <2>0, <2>13, MovesType DEF IoType, EnterReactor, LeaveReactor, Exit
    <3>2. UNCHANGED <<portVars, error, readVars, writeVars, clientVars, ghostVars>>
      BY <2>13, Zenon DEF EnterReactor, LeaveReactor, Exit
    <3>3. PortType' /\ ReadType' /\ WriteType' /\ ClientType'
      BY <2>0, <3>2 DEF portVars, readVars, writeVars, clientVars, ghostVars,
         PortType, ReadType, WriteType, ClientType
    <3>. QED
      BY <3>1, <3>3 DEF TypeOK
  <2>14. ASSUME NEW i \in Runners, PerformRead(i)
         PROVE  TypeOK'
    <3>1. PICK n \in 1..ReadBufferSize :
            /\ pos + n <= Len(DeviceOut)
            /\ read_buffer' = [k \in 1..ReadBufferSize |->
                                 IF k <= n THEN DeviceOut[pos + k] ELSE read_buffer[k]]
            /\ pos' = pos + n
            /\ Completes(i, Task("readOk", n))
      BY <2>14 DEF PerformRead
    <3>2. ReadType'
      <4>1. \A k \in 1..n : DeviceOut[pos + k] \in Byte
        BY <2>0, <3>1 DEF ReadType
      <4>. QED
        BY <2>0, <2>14, <3>1, <4>1 DEF ReadType, PerformRead
    <3>3. IoType'
      BY <2>0, <2>14, <3>1, CompletesType DEF IoType, PerformRead, Calls
    <3>. QED
      BY <2>0, <2>14, <3>2, <3>3 DEF PerformRead, TypeOK, PortType, WriteType,
         ClientType
  <2>15. ASSUME NEW i \in Runners, PerformWrite(i)
         PROVE  TypeOK'
    <3>. DEFINE op == Head(writeOps)
    <3>. USE <2>15 DEF PerformWrite
    <3>1. op \in Seq(Byte \cup {Junk}) /\ Tail(writeOps) \in Seq(Seq(Byte \cup {Junk}))
      BY <2>0, HeadTailProperties DEF IoType
    <3>2. PICK n \in 1..Len(op) :
            /\ wire' = wire \o SubSeq(op, 1, n)
            /\ \/ /\ n = Len(op)
                  /\ writeOps' = Tail(writeOps)
                  /\ Completes(i, Task("writeOk", 0))
               \/ /\ n < Len(op)
                  /\ writeOps' = Append(Tail(writeOps), SubSeq(op, n + 1, Len(op)))
                  /\ UNCHANGED <<runner, ioq>>
      OBVIOUS
    <3>3. /\ SubSeq(op, 1, n) \in Seq(Byte \cup {Junk})
          /\ n < Len(op) => SubSeq(op, n + 1, Len(op)) \in Seq(Byte \cup {Junk})
      <4>1. Len(op) \in Nat /\ n \in 0..Len(op) /\ 1 \in 1..Len(op) + 1
        BY <3>1, <3>2, LenProperties
      <4>2. SubSeq(op, 1, n) \in Seq(Byte \cup {Junk})
        BY <3>1, <4>1, SubSeqType
      <4>3. ASSUME n < Len(op)
            PROVE  SubSeq(op, n + 1, Len(op)) \in Seq(Byte \cup {Junk})
        <5>1. n + 1 \in 1..Len(op) + 1 /\ Len(op) \in 0..Len(op)
          BY <4>1
        <5>. HIDE DEF op
        <5>. QED
          BY <3>1, <5>1, SubSeqType
      <4>. QED
        BY <4>2, <4>3
    <3>. HIDE DEF op
    <3>4. WriteType'
      BY <2>0, <3>2, <3>3, ConcatProperties DEF WriteType
    <3>5. writeOps' \in Seq(Seq(Byte \cup {Junk}))
      <4>1. CASE writeOps' = Tail(writeOps)
        BY <3>1, <4>1
      <4>2. CASE n < Len(op) /\ writeOps' = Append(Tail(writeOps), SubSeq(op, n + 1, Len(op)))
        BY <3>1, <3>3, <4>2, AppendProperties
      <4>. QED
        BY <3>2, <4>1, <4>2
    <3>6. ioq' \in Seq(Tasks) /\ runner' \in [Runners -> Tasks \cup Places]
      <4>1. CASE Completes(i, Task("writeOk", 0))
        BY <2>0, <4>1, CompletesType DEF Calls
      <4>2. CASE UNCHANGED <<runner, ioq>>
        BY <2>0, <4>2 DEF IoType
      <4>. QED
        BY <3>2, <4>1, <4>2
    <3>7. IoType'
      BY <2>0, <3>5, <3>6 DEF IoType
    <3>. QED
      BY <2>0, <3>4, <3>7 DEF TypeOK, PortType, ReadType, ClientType
  <2>16. ASSUME NEW i \in Runners, ReadFault(i) \/ WriteFault(i)
         PROVE  TypeOK'
    <3>. USE <2>16 DEF ReadFault, WriteFault
    <3>1. readOps' \in Nat /\ writeOps' \in Seq(Seq(Byte \cup {Junk}))
      <4>1. CASE ReadFault(i)
        BY <2>0, <4>1 DEF IoType
      <4>2. CASE WriteFault(i)
        <5>1. Tail(writeOps) \in Seq(Seq(Byte \cup {Junk}))
          BY <2>0, <4>2, HeadTailProperties DEF IoType
        <5>. QED
          BY <2>0, <4>2, <5>1 DEF IoType
      <4>. QED
        BY <4>1, <4>2
    <3>2. IoType'
      BY <2>0, <3>1, CompletesType DEF IoType, Calls
    <3>. QED
      BY <2>0, <3>2 DEF TypeOK, PortType, ReadType, WriteType, ClientType
  <2>17. ASSUME NEW i \in Runners, StartRead(i)
         PROVE  TypeOK'
    <3>. USE <2>17 DEF StartRead
    <3>1. IoType'
      BY <2>0, MovesType, PostsType DEF IoType, Calls
    <3>2. ReadType'
      BY <2>0 DEF ReadType, Repeat
    <3>. QED
      BY <2>0, <3>1, <3>2 DEF TypeOK, PortType, WriteType, ClientType
  <2>18. ASSUME NEW i \in Runners, StartWrite(i)
         PROVE  TypeOK'
    <3>. USE <2>18 DEF StartWrite
    <3>1. write_buffer \in Seq(Byte \cup {Junk})
      BY <2>0, SeqMonotonic DEF WriteType
    <3>2. writeOps' \in Seq(Seq(Byte \cup {Junk}))
      <4>1. Append(writeOps, write_buffer) \in Seq(Seq(Byte \cup {Junk}))
        BY <2>0, <3>1, AppendProperties DEF IoType
      <4>. QED
        BY <2>0, <4>1 DEF IoType
    <3>3. IoType'
      BY <2>0, <3>2, MovesType, PostsType DEF IoType, Calls
    <3>. QED
      BY <2>0, <3>3 DEF TypeOK, PortType, ReadType, WriteType, ClientType
  <2>19. ASSUME NEW i \in Runners, FinishRead(i)
         PROVE  TypeOK'
    <3>. USE <2>19 DEF FinishRead
    <3>1. IoType'
      BY <2>0, MovesType, PostsType DEF IoType, Calls
    <3>2. runner[i].n \in 0..ReadBufferSize
      BY <2>0 DEF IoType, Tasks, Places, Place, Task
    <3>3. read_buffer \in Seq(Byte \cup {Nul}) /\ Len(read_buffer) = ReadBufferSize
      BY <2>0, SeqDef DEF ReadType
    <3>4. SubSeq(read_buffer, 1, runner[i].n) \in Seq(Byte \cup {Nul})
      BY <3>2, <3>3, SubSeqType
    <3>5. ReadType'
      BY <2>0, <3>4, ConcatProperties DEF ReadType
    <3>. QED
      BY <2>0, <3>1, <3>5 DEF TypeOK, PortType, WriteType, ClientType
  <2>20. ASSUME NEW i \in Runners, FinishWrite(i)
         PROVE  TypeOK'
    <3>. USE <2>20 DEF FinishWrite
    <3>1. IoType'
      <4>1. writeOps' \in Seq(Seq(Byte \cup {Junk}))
        BY <2>0, FreedType DEF IoType
      <4>2. ioq' \in Seq(Tasks)
        BY <2>0, PostsType DEF IoType, Calls
      <4>3. runner' \in [Runners -> Tasks \cup Places]
        BY <2>0, MovesType DEF IoType
      <4>. QED
        BY <2>0, <4>1, <4>2, <4>3 DEF IoType
    <3>2. WriteType'
      BY <2>0, EmptySeq DEF WriteType
    <3>. QED
      BY <2>0, <3>1, <3>2 DEF TypeOK, PortType, ReadType, ClientType
  <2>21. ASSUME NEW i \in Runners, FinishFailed(i)
         PROVE  TypeOK'
    <3>. USE <2>21 DEF FinishFailed
    <3>1. IoType'
      BY <2>0, MovesType DEF IoType
    <3>. QED
      BY <2>0, <3>1 DEF TypeOK, PortType, ReadType, WriteType, ClientType
  <2>22. CASE UNCHANGED vars
    BY <2>0, <2>22 DEF vars, TypeOK, PortType, IoType, ReadType, WriteType, ClientType
  <2>. QED
    BY <2>1, <2>2, <2>3, <2>4, <2>5, <2>6, <2>8, <2>9, <2>10, <2>11, <2>12, <2>13,
       <2>14, <2>15, <2>16, <2>17, <2>18, <2>19, <2>20, <2>21, <2>22
       DEF Next, ClientNext, RunnerNext, Reactor, Handler
<1>. QED
  BY <1>1, <1>2, PTL DEF Spec
------------------------------------------------------------------------------
(* What posting a task, and moving a thread on, do to a chain.             *)

LEMMA QueuedPosts ==
    ASSUME IoType, NEW call \in Calls, NEW n \in 0..ReadBufferSize,
           Posts(Task(call, n)), NEW calls
    PROVE  /\ Queued(calls)' = Queued(calls) \cup
                                 (IF call \in calls THEN {Len(ioq) + 1} ELSE {})
           /\ Len(ioq) \in Nat /\ Len(ioq') = Len(ioq) + 1
           /\ \A k \in 1..Len(ioq) : ioq'[k] = ioq[k]
           /\ ioq'[Len(ioq) + 1] = Task(call, n)
<1>1. /\ Len(ioq) \in Nat /\ Len(ioq') = Len(ioq) + 1
      /\ \A k \in 1..Len(ioq) : ioq'[k] = ioq[k]
      /\ ioq'[Len(ioq) + 1] = Task(call, n)
  BY TaskTypes, AppendProperties, LenProperties DEF IoType, Posts
<1>2. Task(call, n).call = call
  BY DEF Task
<1>3. 1..Len(ioq') = 1..Len(ioq) \cup {Len(ioq) + 1}
  BY <1>1
<1>. QED
  BY <1>1, <1>2, <1>3 DEF Queued

LEMMA RunningMoves ==
    ASSUME IoType, NEW i \in Runners, NEW task, Moves(i, task), NEW calls
    PROVE  /\ Running(calls)' = (Running(calls) \ {i}) \cup
                                  (IF task.call \in calls THEN {i} ELSE {})
           /\ runner'[i] = task
           /\ \A j \in Runners : j # i => runner'[j] = runner[j]
BY DEF IoType, Moves, Running

LEMMA QueuedPick ==
    ASSUME IoType, ioq # <<>>, ioq' = Tail(ioq), NEW calls
    PROVE  /\ Len(ioq) \in Nat \ {0} /\ Len(ioq') = Len(ioq) - 1
           /\ \A k \in 1..Len(ioq') : ioq'[k] = ioq[k + 1]
           /\ Queued(calls)' = {k \in 1..Len(ioq) - 1 : k + 1 \in Queued(calls)}
           /\ 1 \in Queued(calls) <=> Head(ioq).call \in calls
<1>1. /\ Len(ioq) \in Nat \ {0} /\ Len(ioq') = Len(ioq) - 1
      /\ \A k \in 1..Len(ioq') : ioq'[k] = ioq[k + 1]
      /\ Head(ioq) = ioq[1]
  BY HeadTailProperties, EmptySeq DEF IoType
<1>. QED
  BY <1>1 DEF Queued

\* A step that touches no task of the chain.
LEMMA ChainUntouched ==
    ASSUME IoType, NEW calls, NEW i \in Runners, NEW task,
           Moves(i, task), task.call \notin calls, runner[i].call \notin calls,
           \/ UNCHANGED ioq
           \/ \E call \in Calls \ calls, n \in 0..ReadBufferSize : Posts(Task(call, n))
    PROVE  /\ NoTask(calls) => NoTask(calls)'
           /\ \A c : OneTask(c, calls) => OneTask(c, calls)'
           /\ SomeTask(calls) => SomeTask(calls)'
           /\ Queued(calls)' = Queued(calls) /\ Running(calls)' = Running(calls)
           /\ \A k \in Queued(calls) : ioq'[k] = ioq[k]
           /\ \A j \in Running(calls) : runner'[j] = runner[j]
<1>1. /\ Running(calls)' = Running(calls)
      /\ \A j \in Running(calls) : runner'[j] = runner[j]
  BY RunningMoves DEF Running
<1>2. /\ Queued(calls)' = Queued(calls)
      /\ \A k \in Queued(calls) : ioq'[k] = ioq[k]
  <2>1. CASE UNCHANGED ioq
    BY <2>1 DEF Queued
  <2>2. ASSUME NEW call \in Calls \ calls, NEW n \in 0..ReadBufferSize,
               Posts(Task(call, n))
        PROVE  <1>2
    BY <2>2, QueuedPosts DEF Queued
  <2>. QED
    BY <2>1, <2>2
<1>3. ASSUME NEW c, OneTask(c, calls)
      PROVE  OneTask(c, calls)'
  <2>1. CASE Running(calls) = {}
    <3>1. PICK k \in 1..Len(ioq) : Queued(calls) = {k} /\ ioq[k].call = c
      BY <1>3, <2>1 DEF OneTask
    <3>2. k \in Queued(calls)' /\ ioq'[k].call = c
      BY <1>2, <3>1
    <3>3. k \in 1..Len(ioq')
      BY <3>2 DEF Queued
    <3>. QED
      BY <1>1, <1>2, <2>1, <3>1, <3>2, <3>3 DEF OneTask
  <2>2. CASE Running(calls) # {}
    <3>1. PICK j \in Runners : Running(calls) = {j} /\ runner[j].call = c
      BY <1>3, <2>2 DEF OneTask
    <3>. QED
      BY <1>1, <1>2, <1>3, <2>2, <3>1 DEF OneTask
  <2>. QED
    BY <2>1, <2>2
<1>4. NoTask(calls) => NoTask(calls)'
  BY <1>1, <1>2 DEF NoTask
<1>5. SomeTask(calls) => SomeTask(calls)'
  BY <1>1, <1>2 DEF SomeTask
<1>. QED
  BY <1>1, <1>2, <1>3, <1>4, <1>5

\* The thread's task ends and the chain's next one is not a task yet.
LEMMA ChainStops ==
    ASSUME IoType, NEW calls, NEW i \in Runners, NEW task, NEW c,
           OneTask(c, calls), runner[i].call \in calls,
           Moves(i, task), task.call \notin calls,
           \/ UNCHANGED ioq
           \/ \E call \in Calls \ calls, n \in 0..ReadBufferSize : Posts(Task(call, n))
    PROVE  NoTask(calls)'
<1>1. Running(calls) = {i} /\ Queued(calls) = {}
  BY DEF OneTask, Running
<1>2. Running(calls)' = {}
  BY <1>1, RunningMoves
<1>3. Queued(calls)' = {}
  <2>1. CASE UNCHANGED ioq
    BY <1>1, <2>1 DEF Queued
  <2>2. ASSUME NEW call \in Calls \ calls, NEW n \in 0..ReadBufferSize,
               Posts(Task(call, n))
        PROVE  <1>3
    BY <1>1, <2>2, QueuedPosts
  <2>. QED
    BY <2>1, <2>2
<1>. QED
  BY <1>2, <1>3 DEF NoTask

\* The chain's next task is posted, by its running task or by none.
LEMMA ChainPosts ==
    ASSUME IoType, NEW calls, NEW c \in Calls \cap calls, NEW n \in 0..ReadBufferSize,
           Queued(calls) = {}, Posts(Task(c, n)), Running(calls)' = {}
    PROVE  /\ OneTask(c, calls)'
           /\ \A k \in Queued(calls)' : ioq'[k] = Task(c, n)
<1>1. /\ Queued(calls)' = {Len(ioq) + 1}
      /\ ioq'[Len(ioq) + 1] = Task(c, n) /\ Len(ioq) + 1 \in 1..Len(ioq')
  BY QueuedPosts
<1>2. Task(c, n).call = c
  BY DEF Task
<1>. QED
  BY <1>1, <1>2 DEF OneTask

\* A thread takes a task from the ready queue.
LEMMA ChainPicked ==
    ASSUME IoType, NEW calls \in SUBSET Calls, NEW i \in Runners, Pick(i)
    PROVE  /\ NoTask(calls) => NoTask(calls)'
           /\ \A c : OneTask(c, calls) => OneTask(c, calls)'
           /\ SomeTask(calls) => SomeTask(calls)'
<1>1. /\ ioq # <<>> /\ ioq' = Tail(ioq) /\ Moves(i, Head(ioq))
      /\ i \notin Running(calls)
  BY DEF Pick, Running, Place, Task, Calls
<1>2. /\ Running(calls)' = Running(calls) \cup
                             (IF Head(ioq).call \in calls THEN {i} ELSE {})
      /\ runner'[i] = Head(ioq)
      /\ \A j \in Runners : j # i => runner'[j] = runner[j]
  BY <1>1, RunningMoves
<1>3. /\ Len(ioq) \in Nat \ {0} /\ Len(ioq') = Len(ioq) - 1
      /\ \A k \in 1..Len(ioq') : ioq'[k] = ioq[k + 1]
      /\ Queued(calls)' = {k \in 1..Len(ioq) - 1 : k + 1 \in Queued(calls)}
      /\ 1 \in Queued(calls) <=> Head(ioq).call \in calls
  BY <1>1, QueuedPick
<1>4. Head(ioq) = ioq[1]
  BY <1>1, HeadTailProperties DEF IoType
<1>5. Queued(calls) \subseteq 1..Len(ioq)
  BY DEF Queued
<1>6. NoTask(calls) => NoTask(calls)'
  BY <1>2, <1>3 DEF NoTask
<1>7. ASSUME NEW c, OneTask(c, calls)
      PROVE  OneTask(c, calls)'
  <2>1. CASE 1 \in Queued(calls)
    <3>1. Queued(calls) = {1} /\ ioq[1].call = c /\ Running(calls) = {}
      BY <1>7, <2>1 DEF OneTask
    <3>2. Queued(calls)' = {}
      BY <1>3, <3>1
    <3>3. Running(calls)' = {i} /\ runner'[i].call = c
      BY <1>2, <1>3, <1>4, <2>1, <3>1
    <3>. QED
      BY <3>2, <3>3 DEF OneTask
  <2>2. CASE 1 \notin Queued(calls)
    <3>1. Running(calls)' = Running(calls)
      BY <1>2, <1>3, <2>2
    <3>2. CASE Queued(calls) = {}
      <4>1. Queued(calls)' = {}
        BY <1>3, <3>2
      <4>2. PICK j \in Runners : Running(calls) = {j} /\ runner[j].call = c
        BY <1>7, <3>2 DEF OneTask
      <4>3. runner'[j] = runner[j]
        BY <1>1, <1>2, <4>2
      <4>. QED
        BY <3>1, <4>1, <4>2, <4>3 DEF OneTask
    <3>3. CASE Queued(calls) # {}
      <4>1. PICK k \in 1..Len(ioq) : Queued(calls) = {k} /\ ioq[k].call = c
        BY <1>7, <3>3 DEF OneTask
      <4>2. Running(calls) = {}
        BY <1>7, <3>3 DEF OneTask
      <4>3. k - 1 \in 1..Len(ioq) - 1
        BY <1>3, <2>2, <4>1
      <4>4. Queued(calls)' = {k - 1} /\ ioq'[k - 1].call = c
        BY <1>3, <4>1, <4>3
      <4>. QED
        BY <1>3, <3>1, <4>2, <4>3, <4>4 DEF OneTask
    <3>. QED
      BY <3>2, <3>3
  <2>. QED
    BY <2>1, <2>2
<1>8. ASSUME SomeTask(calls) PROVE SomeTask(calls)'
  <2>1. CASE Running(calls) # {} \/ 1 \in Queued(calls)
    BY <1>2, <1>3, <2>1 DEF SomeTask
  <2>2. CASE Queued(calls) # {} /\ 1 \notin Queued(calls)
    <3>1. PICK k \in Queued(calls) : k # 1
      BY <2>2
    <3>2. k - 1 \in Queued(calls)'
      BY <1>3, <1>5, <3>1
    <3>. QED
      BY <3>2 DEF SomeTask
  <2>. QED
    BY <1>8, <2>1, <2>2 DEF SomeTask
<1>. QED
  BY <1>6, <1>7, <1>8
------------------------------------------------------------------------------
\* A step of a thread leaves what the client decides alone.
LEMMA RunnerFrame ==
    ASSUME NEW i \in Runners, RunnerNext(i)
    PROVE  /\ runner[i] # Place("none")
           /\ runner' = runner \/ \E task : Moves(i, task)
           /\ UNCHANGED <<stopped, closed, torn, opens, is_open, serial_open, client,
                          accepted, written>>
<1>. USE DEF portVars, ioVars, readVars, writeVars, clientVars, ghostVars
<1>1. CASE Pick(i) \/ Exit(i) \/ EnterReactor(i) \/ LeaveReactor(i)
  BY <1>1 DEF Pick, Exit, EnterReactor, LeaveReactor, Place, Task
<1>2. CASE PerformRead(i) \/ PerformWrite(i) \/ ReadFault(i) \/ WriteFault(i)
  <2>1. Place("io") # Place("none")
    BY DEF Place, Task
  <2>2. CASE PerformRead(i)
    BY <2>1, <2>2 DEF PerformRead, Completes
  <2>3. CASE PerformWrite(i)
    BY <2>1, <2>3 DEF PerformWrite, Completes
  <2>4. CASE ReadFault(i) \/ WriteFault(i)
    BY <2>1, <2>4 DEF ReadFault, WriteFault, Completes
  <2>. QED
    BY <1>2, <2>2, <2>3, <2>4
<1>3. CASE Handler(i)
  BY <1>3 DEF Handler, StartRead, StartWrite, FinishRead, FinishWrite, FinishFailed,
     Place, Task
<1>. QED
  BY <1>1, <1>2, <1>3 DEF RunnerNext, Reactor

LEMMA HistoryStays == [Next]_vars => (closed => closed') /\ (torn => torn')
<1>. SUFFICES ASSUME [Next]_vars PROVE (closed => closed') /\ (torn => torn')
  OBVIOUS
<1>1. ASSUME NEW i \in Runners, RunnerNext(i)
      PROVE  (closed => closed') /\ (torn => torn')
  BY <1>1, RunnerFrame
<1>2. CASE ClientNext
  <2>1. CASE WriteLocked
    <3>1. closed' = closed /\ torn' = (torn \/ (write_buffer = <<>> /\ Outgoing[written + 1] = <<>>))
      BY <2>1 DEF WriteLocked
    <3>. QED
      BY <3>1
  <2>2. ASSUME NEW call \in {"open", "close"}, CloseReset(call)
        PROVE  (closed => closed') /\ (torn => torn')
    <3>1. closed' = closed /\ torn' = (torn \/ write_buffer # <<>>)
      BY <2>2 DEF CloseReset
    <3>. QED
      BY <3>1
  <2>3. ASSUME NEW call \in {"open", "close"}, CloseBegin(call)
        PROVE  (closed => closed') /\ (torn => torn')
    BY <2>3 DEF CloseBegin
  <2>4. ASSUME NEW call \in {"open", "close"}, ClosePort(call) \/ ClosePortThrows(call)
        PROVE  (closed => closed') /\ (torn => torn')
    BY <2>4 DEF ClosePort, ClosePortThrows, ghostVars
  <2>5. CASE \/ WriteCheck \/ ReadCheck \/ ReadLocked \/ OpenBegin \/ ConfigureThrows
             \/ Configure \/ OpenStart
    <3>1. UNCHANGED <<closed, torn>>
      BY <2>5 DEF WriteCheck, ReadCheck, ReadLocked, OpenBegin, ConfigureThrows,
         Configure, OpenStart, ghostVars
    <3>. QED
      BY <3>1
  <2>. QED
    BY <1>2, <2>1, <2>2, <2>3, <2>4, <2>5 DEF ClientNext
<1>3. CASE UNCHANGED vars
  BY <1>3 DEF vars, ghostVars
<1>. QED
  BY <1>1, <1>2, <1>3 DEF Next

LEMMA ThreadPerOpenStep == TypeOK /\ ThreadPerOpen /\ [Next]_vars => ThreadPerOpen'
<1>. SUFFICES ASSUME TypeOK, ThreadPerOpen, [Next]_vars PROVE ThreadPerOpen'
  OBVIOUS
<1>. USE DEF portVars, ioVars, readVars, writeVars, clientVars, ghostVars
<1>1. CASE OpenStart
  <2>1. opens \in Nat /\ opens' = opens + 1 /\ Moves(opens + 1, Place("poll"))
    BY <1>1, SizesAssumption DEF OpenStart, TypeOK, ClientType
  <2>2. runner' = [runner EXCEPT ![opens + 1] = Place("poll")]
    BY <2>1 DEF Moves
  <2>3. ASSUME NEW i \in Runners, i > opens + 1 PROVE runner'[i] = Place("none")
    <3>1. i \in Nat /\ i # opens + 1 /\ i > opens
      BY <2>1, <2>3, SizesAssumption DEF Runners
    <3>. QED
      BY <2>2, <3>1 DEF ThreadPerOpen, TypeOK, IoType
  <2>. QED
    BY <2>1, <2>3 DEF ThreadPerOpen
<1>2. CASE ClientNext /\ ~OpenStart
  <2>1. UNCHANGED <<runner, opens>>
    BY <1>2 DEF ClientNext, WriteCheck, WriteLocked, ReadCheck, ReadLocked,
       CloseBegin, CloseReset, ClosePort, ClosePortThrows, OpenBegin,
       ConfigureThrows, Configure
  <2>. QED
    BY <2>1 DEF ThreadPerOpen
<1>3. ASSUME NEW i \in Runners, RunnerNext(i) PROVE ThreadPerOpen'
  BY <1>3, RunnerFrame DEF ThreadPerOpen, Moves, TypeOK, IoType
<1>4. CASE UNCHANGED vars
  BY <1>4 DEF vars, ThreadPerOpen
<1>. QED
  BY <1>1, <1>2, <1>3, <1>4 DEF Next

LEMMA OpenedOnceStep == TypeOK /\ OpenedOnce /\ [Next]_vars => OpenedOnce'
<1>. SUFFICES ASSUME TypeOK, OpenedOnce, [Next]_vars, ~closed' PROVE OpenedOnce'
  BY DEF OpenedOnce
<1>. USE DEF portVars, ioVars, readVars, writeVars, clientVars, ghostVars, Idle, At
<1>1. CASE ~closed
  <2>1. CASE WriteCheck \/ WriteLocked \/ ReadCheck \/ ReadLocked
    BY <1>1, <2>1 DEF WriteCheck, WriteLocked, ReadCheck, ReadLocked, OpenedOnce
  <2>2. ASSUME NEW call \in {"open", "close"}
        PROVE  ~CloseBegin(call) /\ ~CloseReset(call) /\ ~ClosePort(call)
                 /\ ~ClosePortThrows(call)
    BY <1>1 DEF CloseBegin, CloseReset, ClosePort, ClosePortThrows, OpenedOnce
  <2>3. CASE OpenBegin
    BY <1>1, <2>3 DEF OpenBegin, OpenedOnce
  <2>4. CASE ConfigureThrows
    BY <1>1, <2>4 DEF ConfigureThrows, OpenedOnce
  <2>5. CASE Configure
    BY <1>1, <2>5 DEF Configure, OpenedOnce
  <2>6. CASE OpenStart
    <3>1. opens = 0 /\ opens' = 1
      BY <1>1, <2>6 DEF OpenStart, OpenedOnce
    <3>. QED
      BY <1>1, <2>6, <3>1 DEF OpenStart, OpenedOnce
  <2>7. ASSUME NEW i \in Runners, RunnerNext(i)
        PROVE  OpenedOnce'
    BY <1>1, <2>7, RunnerFrame DEF OpenedOnce
  <2>8. CASE UNCHANGED vars
    BY <1>1, <2>8 DEF vars, OpenedOnce
  <2>. QED
    BY <2>1, <2>2, <2>3, <2>4, <2>5, <2>6, <2>7, <2>8 DEF Next, ClientNext
<1>2. CASE closed
  BY <1>2, HistoryStays
<1>. QED
  BY <1>1, <1>2
------------------------------------------------------------------------------
(* The write chain.                                                        *)

\* A step that leaves the chain's tasks and the write side's data alone.
LEMMA WriteFrame ==
    ASSUME WriteIdle \/ WritePosted \/ WriteInFlight \/ WriteDone \/ WriteFailed,
           NoTask(WriteCalls) => NoTask(WriteCalls)',
           \A c : OneTask(c, WriteCalls) => OneTask(c, WriteCalls)',
           error \/ SomeTask({"writeFail"}) => error' \/ SomeTask({"writeFail"})',
           UNCHANGED <<writeOps, write_buffer, write_queue, wire, accepted>>
    PROVE  (WriteIdle \/ WritePosted \/ WriteInFlight \/ WriteDone \/ WriteFailed)'
<1>1. CASE WriteIdle
  BY <1>1 DEF WriteIdle
<1>2. CASE WritePosted
  BY <1>2 DEF WritePosted
<1>3. CASE WriteInFlight
  BY <1>3 DEF WriteInFlight
<1>4. CASE WriteDone
  BY <1>4 DEF WriteDone
<1>5. CASE WriteFailed
  BY <1>5 DEF WriteFailed, InitialPart
<1>. QED
  BY <1>1, <1>2, <1>3, <1>4, <1>5

LEMMA InitialPartOfConcat ==
    ASSUME NEW S, NEW s \in Seq(S), NEW t \in Seq(S)
    PROVE  InitialPart(s, s \o t)
<1>1. Len(s) \in Nat /\ Len(t) \in Nat /\ Len(s \o t) = Len(s) + Len(t)
  BY LenProperties, ConcatProperties
<1>2. \A k \in 1..Len(s) : (s \o t)[k] = s[k]
  BY <1>1, ConcatProperties
<1>. QED
  BY <1>1, <1>2 DEF InitialPart

\* Data appended behind a queue lies behind what the queue lies behind.
LEMMA Regrouped ==
    ASSUME NEW s \in Seq(Byte \cup {Junk}), NEW t \in Seq(Byte \cup {Junk}),
           NEW u \in Seq(Byte \cup {Junk})
    PROVE  (s \o t) \o u = s \o (t \o u)
BY ConcatAssociative

\* What is sent before the bytes of a write in progress comes first.
LEMMA SentFirst ==
    ASSUME TypeOK, NEW op \in Seq(Byte \cup {Junk}),
           accepted = (wire \o op) \o write_queue
    PROVE  InitialPart(wire, accepted)
<1>. DEFINE rest == op \o write_queue
            S == Byte \cup {Junk}
<1>1. wire \in Seq(S) /\ write_queue \in Seq(S)
  BY SeqMonotonic DEF TypeOK, WriteType
<1>. HIDE DEF S
<1>2. rest \in Seq(S)
  BY <1>1, ConcatProperties DEF S
<1>3. accepted = wire \o rest
  BY <1>1, Regrouped DEF S
<1>. HIDE DEF rest
<1>. QED
  BY <1>1, <1>2, <1>3, InitialPartOfConcat

LEMMA PostedInitial == TypeOK /\ WritePosted => InitialPart(wire, accepted)
<1>. SUFFICES ASSUME TypeOK, WritePosted PROVE InitialPart(wire, accepted)
  OBVIOUS
<1>1. write_buffer \in Seq(Byte \cup {Junk})
  BY SeqMonotonic DEF TypeOK, WriteType
<1>. QED
  BY <1>1, SentFirst DEF WritePosted

LEMMA FlightInitial == TypeOK /\ WriteInFlight => InitialPart(wire, accepted)
<1>. SUFFICES ASSUME TypeOK, WriteInFlight PROVE InitialPart(wire, accepted)
  OBVIOUS
<1>. DEFINE S == Byte \cup {Junk}
<1>1. writeOps \in Seq(Seq(S)) /\ 1 \in 1..Len(writeOps)
  BY DEF WriteInFlight, TypeOK, IoType
<1>. HIDE DEF S
<1>2. writeOps[1] \in Seq(S)
  BY <1>1, ElementOfSeq
<1>. QED
  BY <1>2, SentFirst DEF WriteInFlight, S

\* serial.close() posts failures behind what is queued: the reads, the writes.
LEMMA SerialClosePosts ==
    ASSUME IoType, SerialClose, NEW n, n = Len(ioq) + readOps
    PROVE  /\ Len(ioq) \in Nat /\ n \in Nat /\ n >= Len(ioq) /\ Len(writeOps) \in Nat
           /\ Len(ioq') = n + Len(writeOps)
           /\ \A k \in 1..Len(ioq) : k \in 1..Len(ioq') /\ ioq'[k] = ioq[k]
           /\ \A k \in 1..Len(ioq') : k \notin 1..Len(ioq) =>
                 ioq'[k].call = (IF k <= n THEN "readFail" ELSE "writeFail")
<1>. DEFINE reads == Repeat(Task("readFail", 0), readOps)
            writes == Repeat(Task("writeFail", 0), Len(writeOps))
            tail == reads \o writes
<1>1. /\ readOps \in Nat /\ Len(writeOps) \in Nat /\ ioq \in Seq(Tasks)
      /\ Len(ioq) \in Nat /\ 0 \in 0..ReadBufferSize
      /\ writeOps # <<>> => Len(writeOps) # 0
  BY LenProperties, EmptySeq, SizesAssumption DEF IoType
<1>2. /\ reads \in Seq(Tasks) /\ Len(reads) = readOps
      /\ writes \in Seq(Tasks) /\ Len(writes) = Len(writeOps)
  BY <1>1, TaskTypes, RepeatType DEF Calls
<1>3. /\ \A k \in 1..readOps : reads[k].call = "readFail"
      /\ \A k \in 1..Len(writeOps) : writes[k].call = "writeFail"
  BY <1>1 DEF Repeat, Task
<1>4. ioq' = (ioq \o reads) \o writes
  BY DEF SerialClose
<1>. HIDE DEF reads, writes
<1>5. /\ ioq \o reads \in Seq(Tasks) /\ Len(ioq \o reads) = Len(ioq) + readOps
      /\ \A k \in 1..Len(ioq) + readOps :
            (ioq \o reads)[k] = IF k <= Len(ioq) THEN ioq[k] ELSE reads[k - Len(ioq)]
  <2>1. /\ ioq \o reads \in Seq(Tasks) /\ Len(ioq \o reads) = Len(ioq) + Len(reads)
        /\ \A k \in 1..Len(ioq) + Len(reads) :
              (ioq \o reads)[k] = IF k <= Len(ioq) THEN ioq[k]
                                  ELSE reads[k - Len(ioq)]
    <3>1. ioq \in Seq(Tasks) /\ reads \in Seq(Tasks)
      BY <1>1, <1>2
    <3>. QED
      BY <3>1, ConcatProperties
  <2>. QED
    BY <1>2, <2>1
<1>. DEFINE front == ioq \o reads
<1>6. /\ Len(front \o writes) = n + Len(writeOps)
      /\ \A k \in 1..n + Len(writeOps) :
            (front \o writes)[k] = IF k <= n THEN front[k] ELSE writes[k - n]
  <2>1. front \in Seq(Tasks) /\ Len(front) = n
    BY <1>5
  <2>. HIDE DEF front
  <2>2. /\ Len(front \o writes) = Len(front) + Len(writes)
        /\ \A k \in 1..Len(front) + Len(writes) :
              (front \o writes)[k] = IF k <= Len(front) THEN front[k]
                                     ELSE writes[k - Len(front)]
    <3>1. front \in Seq(Tasks) /\ writes \in Seq(Tasks)
      BY <1>2, <2>1
    <3>. QED
      BY <3>1, ConcatProperties
  <2>3. Len(front) = n /\ Len(writes) = Len(writeOps)
    BY <1>2, <2>1
  <2>. QED
    BY <2>2, <2>3
<1>7. Len(ioq') = n + Len(writeOps) /\ n \in Nat /\ n >= Len(ioq)
  BY <1>1, <1>4, <1>6
<1>8. \A k \in 1..Len(ioq) : k \in 1..Len(ioq') /\ ioq'[k] = ioq[k]
  BY <1>1, <1>4, <1>5, <1>6, <1>7
<1>9. \A k \in 1..Len(ioq') : k \notin 1..Len(ioq) =>
         ioq'[k].call = (IF k <= n THEN "readFail" ELSE "writeFail")
  <2>. SUFFICES ASSUME NEW k \in 1..Len(ioq'), k \notin 1..Len(ioq)
                PROVE  ioq'[k].call = (IF k <= n THEN "readFail" ELSE "writeFail")
    OBVIOUS
  <2>0. k > Len(ioq) /\ k \in Nat
    BY <1>1, <1>7
  <2>1. CASE k <= n
    <3>1. k \in 1..n /\ k - Len(ioq) \in 1..readOps
      BY <1>1, <1>7, <2>0, <2>1
    <3>2. ioq'[k] = front[k]
      BY <1>1, <1>4, <1>6, <1>7, <2>1
    <3>3. front[k] = reads[k - Len(ioq)]
      BY <1>1, <1>5, <2>0, <3>1
    <3>. QED
      BY <1>3, <2>1, <3>1, <3>2, <3>3
  <2>2. CASE ~(k <= n)
    <3>1. k - n \in 1..Len(writeOps)
      BY <1>1, <1>7, <2>0, <2>2
    <3>2. ioq'[k] = writes[k - n]
      BY <1>1, <1>4, <1>6, <1>7, <2>2
    <3>. QED
      BY <1>3, <2>2, <3>1, <3>2
  <2>. QED
    BY <2>1, <2>2
<1>. QED
  BY <1>1, <1>7, <1>8, <1>9

LEMMA SerialCloses ==
    ASSUME IoType, SerialClose, UNCHANGED runner
    PROVE  /\ NoTask(WriteCalls) => NoTask(WriteCalls)'
           /\ \A c : OneTask(c, WriteCalls) => OneTask(c, WriteCalls)'
           /\ SomeTask({"writeFail"}) => SomeTask({"writeFail"})'
           /\ writeOps # <<>> => SomeTask({"writeFail"})'
<1>1. PICK n : n = Len(ioq) + readOps
  OBVIOUS
<1>7. /\ Len(ioq) \in Nat /\ n \in Nat /\ n >= Len(ioq) /\ Len(writeOps) \in Nat
      /\ Len(ioq') = n + Len(writeOps)
      /\ writeOps # <<>> => Len(writeOps) # 0
  BY <1>1, SerialClosePosts, EmptySeq DEF IoType
<1>8. \A k \in 1..Len(ioq) : k \in 1..Len(ioq') /\ ioq'[k] = ioq[k]
  BY <1>1, SerialClosePosts
<1>9. \A k \in 1..Len(ioq') : k \notin 1..Len(ioq) =>
         ioq'[k].call = (IF k <= n THEN "readFail" ELSE "writeFail")
  BY <1>1, SerialClosePosts
<1>10. /\ Queued(WriteCalls)' = Queued(WriteCalls)
       /\ Queued({"writeFail"}) \subseteq Queued({"writeFail"})'
       /\ \A calls : Running(calls)' = Running(calls)
  <2>1. "readFail" \notin WriteCalls /\ "writeFail" \notin WriteCalls
    BY DEF WriteCalls
  <2>. QED
    BY <1>8, <1>9, <2>1 DEF Queued, Running
<1>11. writeOps # <<>> => SomeTask({"writeFail"})'
  <2>. SUFFICES ASSUME writeOps # <<>> PROVE SomeTask({"writeFail"})'
    OBVIOUS
  <2>1. Len(ioq') \in 1..Len(ioq') /\ Len(ioq') > n /\ Len(ioq') \notin 1..Len(ioq)
    BY <1>7
  <2>2. ioq'[Len(ioq')].call = "writeFail"
    BY <1>7, <1>9, <2>1
  <2>. QED
    BY <2>1, <2>2 DEF SomeTask, Queued
<1>12. ASSUME NEW c, OneTask(c, WriteCalls) PROVE OneTask(c, WriteCalls)'
  BY <1>8, <1>10, <1>12 DEF OneTask
<1>. QED
  BY <1>10, <1>11, <1>12 DEF NoTask, SomeTask

LEMMA WritePhaseClose ==
    ASSUME TypeOK, WritePhase, ~torn, ~torn', NEW call \in {"open", "close"},
           CloseReset(call) \/ ClosePort(call) \/ ClosePortThrows(call)
    PROVE  WritePhase'
<1>. USE DEF portVars, ioVars, readVars, writeVars, clientVars, ghostVars
<1>0. WriteIdle \/ WritePosted \/ WriteInFlight \/ WriteDone \/ WriteFailed
  BY DEF WritePhase
<1>1. CASE CloseReset(call)
  <2>1. write_buffer = <<>>
    BY <1>1 DEF CloseReset
  <2>2. WriteIdle
    BY <1>0, <2>1 DEF WritePosted, WriteInFlight, WriteDone, WriteFailed
  <2>3. /\ writeOps' = Freed(<<>>) /\ write_buffer' = <<>>
        /\ UNCHANGED <<ioq, runner, write_queue, wire, accepted>>
    BY <1>1, <2>2 DEF CloseReset, WriteIdle
  <2>4. writeOps' = <<>>
    BY <2>3 DEF Freed
  <2>5. NoTask(WriteCalls)'
    BY <2>2, <2>3 DEF WriteIdle, NoTask, Queued, Running
  <2>. QED
    BY <2>2, <2>3, <2>4, <2>5 DEF WritePhase, WriteIdle
<1>2. CASE ClosePort(call) \/ ClosePortThrows(call)
  <2>1. /\ SerialClose /\ writeOps' = <<>>
        /\ UNCHANGED <<runner, error, write_buffer, write_queue, wire, accepted>>
    BY <1>2 DEF ClosePort, ClosePortThrows, SerialClose
  <2>2. /\ NoTask(WriteCalls) => NoTask(WriteCalls)'
        /\ \A c : OneTask(c, WriteCalls) => OneTask(c, WriteCalls)'
        /\ SomeTask({"writeFail"}) => SomeTask({"writeFail"})'
        /\ writeOps # <<>> => SomeTask({"writeFail"})'
    BY <2>1, SerialCloses DEF TypeOK
  <2>3. CASE WriteInFlight
    <3>1. writeOps # <<>>
      <4>1. Len(<<>>) = 0 /\ Len(writeOps) # 0
        BY <2>3, EmptySeq DEF WriteInFlight
      <4>. QED
        BY <4>1
    <3>2. InitialPart(wire, accepted)
      BY <2>3, FlightInitial DEF WriteInFlight
    <3>. QED
      BY <2>1, <2>2, <2>3, <3>1, <3>2 DEF WriteInFlight, WriteFailed, WritePhase, InitialPart
  <2>4. CASE WriteIdle \/ WritePosted \/ WriteDone \/ WriteFailed
    <3>1. UNCHANGED writeOps
      BY <2>1, <2>4 DEF WriteIdle, WritePosted, WriteDone, WriteFailed
    <3>. QED
      BY <1>0, <2>1, <2>2, <3>1, WriteFrame DEF WritePhase
  <2>. QED
    BY <1>0, <2>3, <2>4
<1>. QED
  BY <1>1, <1>2

LEMMA WritePhaseClient ==
    ASSUME TypeOK, ThreadPerOpen, WritePhase, ~torn, ~torn', ClientNext
    PROVE  WritePhase'
<1>. USE DEF portVars, ioVars, readVars, writeVars, clientVars, ghostVars, Idle, At
<1>0. WriteIdle \/ WritePosted \/ WriteInFlight \/ WriteDone \/ WriteFailed
  BY DEF WritePhase
<1>1. CASE WriteCheck \/ ReadCheck \/ ReadLocked \/ OpenBegin \/ ConfigureThrows
             \/ Configure \/ \E call \in {"open", "close"} : CloseBegin(call)
  <2>1. UNCHANGED <<ioq, runner, error, writeOps, write_buffer, write_queue, wire,
                    accepted>>
    BY <1>1 DEF WriteCheck, ReadCheck, ReadLocked, OpenBegin, ConfigureThrows,
       Configure, CloseBegin
  <2>2. /\ NoTask(WriteCalls) => NoTask(WriteCalls)'
        /\ \A c : OneTask(c, WriteCalls) => OneTask(c, WriteCalls)'
        /\ SomeTask({"writeFail"}) => SomeTask({"writeFail"})'
    BY <2>1 DEF NoTask, OneTask, SomeTask, Queued, Running
  <2>. QED
    BY <1>0, <2>1, <2>2, WriteFrame DEF WritePhase
<1>2. CASE OpenStart
  <2>. DEFINE j == opens + 1
  <2>1. j \in Runners /\ Moves(j, Place("poll")) /\ Posts(Task("startRead", 0))
    <3>1. opens \in 0..MaxOpens /\ opens < MaxOpens
      BY <1>2 DEF OpenStart, TypeOK, ClientType
    <3>2. j \in Runners
      BY <3>1, SizesAssumption DEF Runners
    <3>. QED
      BY <1>2, <3>2 DEF OpenStart
  <2>2. runner[j] = Place("none")
    BY <1>2, <2>1, SizesAssumption DEF ThreadPerOpen, TypeOK, ClientType
  <2>3. \A calls : calls \subseteq WriteCalls \cup {"writeFail"} =>
          /\ Place("none").call \notin calls /\ Place("poll").call \notin calls
          /\ "startRead" \in Calls \ calls /\ 0 \in 0..ReadBufferSize
    BY SizesAssumption DEF WriteCalls, Place, Task, Calls
  <2>4. /\ NoTask(WriteCalls) => NoTask(WriteCalls)'
        /\ \A c : OneTask(c, WriteCalls) => OneTask(c, WriteCalls)'
        /\ SomeTask({"writeFail"}) => SomeTask({"writeFail"})'
    BY <2>1, <2>2, <2>3, ChainUntouched DEF TypeOK
  <2>. QED
    BY <1>0, <1>2, <2>4, WriteFrame DEF WritePhase, OpenStart
<1>3. CASE WriteLocked
  <2>. DEFINE data == Outgoing[written + 1]
              S == Byte \cup {Junk}
  <2>1. data \in Seq(S) /\ (write_buffer = <<>> => data # <<>>)
    <3>1. written + 1 \in 1..Len(Outgoing)
      <4>1. written \in 0..Len(Outgoing) /\ written < Len(Outgoing)
        BY <1>3 DEF WriteLocked, TypeOK, ClientType, WriteType
      <4>2. Len(Outgoing) \in Nat
        BY DataAssumption, LenProperties
      <4>. QED
        BY <4>1, <4>2
    <3>2. data \in Seq(Byte)
      BY <3>1, DataAssumption, ElementOfSeq
    <3>. QED
      BY <1>3, <3>2, SeqMonotonic DEF WriteLocked
  <2>2. /\ write_buffer \in Seq(S) /\ write_queue \in Seq(S)
        /\ accepted \in Seq(S) /\ wire \in Seq(S)
    BY SeqMonotonic DEF TypeOK, WriteType
  <2>3. accepted' = accepted \o data /\ UNCHANGED <<runner, wire, error>>
    BY <1>3 DEF WriteLocked
  <2>4. CASE write_buffer = <<>>
    <3>1. WriteIdle
      BY <1>0, <2>4 DEF WritePosted, WriteInFlight, WriteDone, WriteFailed
    <3>2. write_buffer' = data /\ write_queue' = <<>> /\ writeOps' = Freed(<<>>)
          /\ Posts(Task("startWrite", 0))
      BY <1>3, <2>4, <3>1 DEF WriteLocked, WriteIdle
    <3>3. writeOps' = <<>>
      BY <3>2 DEF Freed
    <3>4. OneTask("startWrite", WriteCalls)'
      <4>1. Queued(WriteCalls) = {} /\ Running(WriteCalls)' = {}
        BY <2>3, <3>1 DEF WriteIdle, NoTask, Running
      <4>2. "startWrite" \in Calls \cap WriteCalls /\ 0 \in 0..ReadBufferSize
        BY SizesAssumption DEF Calls, WriteCalls
      <4>. QED
        BY <3>2, <4>1, <4>2, ChainPosts DEF TypeOK
    <3>5. accepted' = (wire' \o write_buffer') \o write_queue'
      BY <2>1, <2>2, <2>3, <3>1, <3>2, ConcatEmptySeq DEF WriteIdle
    <3>. QED
      BY <2>1, <2>4, <3>2, <3>3, <3>4, <3>5 DEF WritePhase, WritePosted
  <2>5. CASE write_buffer # <<>>
    <3>1. write_queue' = write_queue \o data
          /\ UNCHANGED <<write_buffer, writeOps, ioq>>
      BY <1>3, <2>5 DEF WriteLocked
    <3>2. /\ NoTask(WriteCalls) => NoTask(WriteCalls)'
          /\ \A c : OneTask(c, WriteCalls) => OneTask(c, WriteCalls)'
          /\ SomeTask({"writeFail"}) => SomeTask({"writeFail"})'
      BY <2>3, <3>1 DEF NoTask, OneTask, SomeTask, Queued, Running
    <3>3. CASE WritePosted
      <4>1. accepted' = (wire \o write_buffer) \o (write_queue \o data)
        <5>. DEFINE sent == wire \o write_buffer
        <5>1. accepted = sent \o write_queue
          BY <3>3 DEF WritePosted
        <5>2. sent \in Seq(S)
          BY <2>2, ConcatProperties
        <5>. HIDE DEF data, S, sent
        <5>3. accepted' = sent \o (write_queue \o data)
          <6>1. (sent \o write_queue) \o data = sent \o (write_queue \o data)
            BY <2>1, <2>2, <5>2, Regrouped DEF S
          <6>. QED
            BY <2>3, <5>1, <6>1
        <5>. QED
          BY <5>3 DEF sent
      <4>. QED
        BY <2>3, <3>1, <3>2, <3>3, <4>1 DEF WritePhase, WritePosted
    <3>4. CASE WriteInFlight
      <4>0. writeOps[1] \in Seq(S)
        <5>1. writeOps \in Seq(Seq(S)) /\ 1 \in 1..Len(writeOps)
          BY <3>4 DEF WriteInFlight, TypeOK, IoType
        <5>. HIDE DEF S
        <5>. QED
          BY <5>1, ElementOfSeq
      <4>1. accepted' = (wire \o writeOps[1]) \o (write_queue \o data)
        <5>. DEFINE sent == wire \o writeOps[1]
        <5>1. accepted = sent \o write_queue
          BY <3>4 DEF WriteInFlight
        <5>2. sent \in Seq(S)
          BY <2>2, <4>0, ConcatProperties
        <5>. HIDE DEF data, S, sent
        <5>3. accepted' = sent \o (write_queue \o data)
          <6>1. (sent \o write_queue) \o data = sent \o (write_queue \o data)
            BY <2>1, <2>2, <5>2, Regrouped DEF S
          <6>. QED
            BY <2>3, <5>1, <6>1
        <5>. QED
          BY <5>3 DEF sent
      <4>. QED
        BY <2>3, <3>1, <3>2, <3>4, <4>1 DEF WritePhase, WriteInFlight
    <3>5. CASE WriteDone
      <4>1. accepted' = wire \o (write_queue \o data)
        <5>1. accepted = wire \o write_queue
          BY <3>5 DEF WriteDone
        <5>. HIDE DEF data, S
        <5>2. (wire \o write_queue) \o data = wire \o (write_queue \o data)
          BY <2>1, <2>2, Regrouped DEF S
        <5>. QED
          BY <2>3, <5>1, <5>2
      <4>. QED
        BY <2>3, <3>1, <3>2, <3>5, <4>1 DEF WritePhase, WriteDone
    <3>6. CASE WriteFailed
      <4>1. InitialPart(wire, accepted')
        <5>1. Len(accepted) \in Nat /\ Len(data) \in Nat /\ Len(wire) \in Nat
              /\ Len(accepted') = Len(accepted) + Len(data)
              /\ \A k \in 1..Len(accepted) : accepted'[k] = accepted[k]
          BY <2>1, <2>2, <2>3, LenProperties, ConcatProperties
        <5>. QED
          BY <3>6, <5>1 DEF WriteFailed, InitialPart
      <4>. QED
        BY <2>3, <3>1, <3>2, <3>6, <4>1 DEF WritePhase, WriteFailed, InitialPart
    <3>. QED
      BY <1>0, <2>5, <3>3, <3>4, <3>5, <3>6 DEF WriteIdle
  <2>. QED
    BY <2>4, <2>5
<1>. QED
  BY <1>1, <1>2, <1>3, WritePhaseClose DEF ClientNext

LEMMA WritePhaseReactor ==
    ASSUME TypeOK, WritePhase, ~torn, NEW i \in Runners,
           PerformWrite(i) \/ WriteFault(i)
    PROVE  (WriteInFlight \/ WriteDone \/ WriteFailed)'
<1>. USE DEF portVars, ioVars, readVars, writeVars, clientVars, ghostVars
<1>. DEFINE op == Head(writeOps)
            S == Byte \cup {Junk}
<1>1. WriteInFlight /\ runner[i] = Place("io")
  BY DEF WritePhase, PerformWrite, WriteFault, WriteIdle, WritePosted, WriteDone,
     WriteFailed
<1>2. op = writeOps[1] /\ op \in Seq(S) /\ op # <<>> /\ Tail(writeOps) = <<>>
  <2>1. writeOps \in Seq(Seq(S)) /\ Len(writeOps) = 1 /\ writeOps[1] # <<>>
    BY <1>1 DEF WriteInFlight, TypeOK, IoType
  <2>. HIDE DEF S
  <2>2. writeOps # <<>>
    <3>1. Len(<<>>) = 0
      BY EmptySeq
    <3>2. Len(writeOps) # 0
      BY <2>1
    <3>. QED
      BY <3>1, <3>2
  <2>3. Head(writeOps) \in Seq(S) /\ Tail(writeOps) \in Seq(Seq(S))
        /\ Len(Tail(writeOps)) = 0
    BY <2>1, <2>2, HeadTailProperties
  <2>4. Tail(writeOps) = <<>>
    BY <2>3, EmptySeq
  <2>. QED
    BY <2>1, <2>2, <2>3, <2>4
<1>3. /\ Queued(WriteCalls) = {} /\ Running(WriteCalls) = {}
      /\ "writeOk" \in Calls \cap WriteCalls
      /\ "writeFail" \in Calls \ WriteCalls /\ "writeFail" \in Calls \cap {"writeFail"}
      /\ 0 \in 0..ReadBufferSize
      /\ \A calls \in SUBSET Calls :
            Place("poll").call \notin calls /\ Place("io").call \notin calls
  <2>1. /\ Place("poll").call = "poll" /\ Place("io").call = "io"
        /\ "poll" \notin Calls /\ "io" \notin Calls
    BY DEF Place, Task, Calls
  <2>. QED
    BY <1>1, <2>1, SizesAssumption DEF WriteInFlight, NoTask, WriteCalls, Calls
<1>4. /\ wire \in Seq(S) /\ write_queue \in Seq(S) /\ accepted \in Seq(S)
  BY SeqMonotonic DEF TypeOK, WriteType
<1>5. accepted = (wire \o op) \o write_queue /\ write_buffer # <<>>
  BY <1>1, <1>2 DEF WriteInFlight
<1>. HIDE DEF op, S
<1>6. CASE PerformWrite(i)
  <2>1. PICK n \in 1..Len(op) :
          /\ wire' = wire \o SubSeq(op, 1, n)
          /\ \/ /\ n = Len(op)
                /\ writeOps' = Tail(writeOps)
                /\ Completes(i, Task("writeOk", 0))
             \/ /\ n < Len(op)
                /\ writeOps' = Append(Tail(writeOps), SubSeq(op, n + 1, Len(op)))
                /\ UNCHANGED <<runner, ioq>>
    BY <1>6 DEF PerformWrite, op
  <2>2. UNCHANGED <<write_buffer, write_queue, accepted>>
    BY <1>6 DEF PerformWrite
  <2>3. CASE n = Len(op) /\ writeOps' = Tail(writeOps) /\ Completes(i, Task("writeOk", 0))
    <3>1. SubSeq(op, 1, n) = op
      BY <1>2, <2>3, SubSeqFull
    <3>2. accepted' = wire' \o write_queue'
      BY <1>5, <2>1, <2>2, <3>1
    <3>3. OneTask("writeOk", WriteCalls)'
      <4>1. CASE Moves(i, Task("writeOk", 0)) /\ UNCHANGED ioq
        <5>1. Task("writeOk", 0).call = "writeOk"
          BY DEF Task
        <5>2. Running(WriteCalls)' = {i} /\ runner'[i].call = "writeOk"
          BY <1>3, <4>1, <5>1, RunningMoves DEF TypeOK
        <5>3. Queued(WriteCalls)' = {}
          BY <1>3, <4>1 DEF Queued
        <5>. QED
          BY <5>2, <5>3 DEF OneTask
      <4>2. CASE Posts(Task("writeOk", 0)) /\ Moves(i, Place("poll"))
        <5>1. WriteCalls \subseteq Calls
          BY DEF WriteCalls, Calls
        <5>2. Running(WriteCalls)' = {}
          BY <1>3, <4>2, <5>1, RunningMoves DEF TypeOK
        <5>. QED
          BY <1>3, <4>2, <5>2, ChainPosts DEF TypeOK
      <4>. QED
        BY <2>3, <4>1, <4>2 DEF Completes
    <3>. QED
      BY <1>2, <1>5, <2>2, <2>3, <3>2, <3>3 DEF WriteDone
  <2>4. CASE /\ n < Len(op)
             /\ writeOps' = Append(Tail(writeOps), SubSeq(op, n + 1, Len(op)))
             /\ UNCHANGED <<runner, ioq>>
    <3>. DEFINE sent == SubSeq(op, 1, n)
                rest == SubSeq(op, n + 1, Len(op))
    <3>1. Len(op) \in Nat /\ n \in 1..Len(op) /\ n + 1 \in 1..Len(op)
      <4>1. Len(op) \in Nat
        BY <1>2, LenProperties
      <4>. QED
        BY <2>1, <2>4, <4>1
    <3>2. sent \in Seq(S) /\ rest \in Seq(S) /\ Len(rest) = Len(op) - n
      BY <1>2, <3>1
    <3>3. sent \o rest = op
      <4>1. SubSeq(op, 1, n) \o SubSeq(op, n + 1, Len(op)) = SubSeq(op, 1, Len(op))
        BY <1>2, <3>1, ConcatAdjacentSubSeq
      <4>. QED
        BY <1>2, <4>1, SubSeqFull
    <3>4. writeOps' = <<rest>>
      <4>1. writeOps' = Append(<<>>, rest)
        BY <1>2, <2>4
      <4>. QED
        BY <4>1
    <3>5. rest # <<>>
      BY <2>4, <3>1, <3>2
    <3>. HIDE DEF sent, rest
    <3>6. wire \o op = (wire \o sent) \o rest
      <4>1. wire \in Seq(S) /\ sent \in Seq(S) /\ rest \in Seq(S)
        BY <1>4, <3>2
      <4>2. (wire \o sent) \o rest = wire \o (sent \o rest)
        BY <4>1
      <4>. QED
        BY <3>3, <4>2
    <3>7. accepted' = (wire' \o rest) \o write_queue'
      BY <1>5, <2>1, <2>2, <3>6 DEF sent
    <3>8. NoTask(WriteCalls)'
      BY <1>3, <2>4 DEF NoTask, Queued, Running
    <3>. QED
      BY <1>5, <2>2, <3>4, <3>5, <3>7, <3>8 DEF WriteInFlight
  <2>. QED
    BY <2>1, <2>3, <2>4
<1>7. CASE WriteFault(i)
  <2>1. /\ writeOps' = <<>> /\ Completes(i, Task("writeFail", 0))
        /\ UNCHANGED <<error, wire, write_buffer, accepted>>
    BY <1>2, <1>7 DEF WriteFault
  <2>2. NoTask(WriteCalls)' /\ SomeTask({"writeFail"})'
    <3>1. CASE Moves(i, Task("writeFail", 0)) /\ UNCHANGED ioq
      <4>1. Task("writeFail", 0).call = "writeFail"
        BY DEF Task
      <4>2. Running({"writeFail"})' # {} /\ Running(WriteCalls)' = {}
        BY <1>3, <3>1, <4>1, RunningMoves DEF TypeOK
      <4>3. Queued(WriteCalls)' = {}
        BY <1>3, <3>1 DEF Queued
      <4>. QED
        BY <4>2, <4>3 DEF NoTask, SomeTask
    <3>2. CASE Posts(Task("writeFail", 0)) /\ Moves(i, Place("poll"))
      <4>1. WriteCalls \subseteq Calls
        BY DEF WriteCalls, Calls
      <4>2. Running(WriteCalls)' = {}
        BY <1>3, <3>2, <4>1, RunningMoves DEF TypeOK
      <4>3. Queued(WriteCalls)' = {}
        BY <1>3, <3>2, QueuedPosts DEF TypeOK
      <4>4. Queued({"writeFail"})' = Queued({"writeFail"}) \cup {Len(ioq) + 1}
        BY <1>3, <3>2, QueuedPosts DEF TypeOK
      <4>. QED
        BY <4>2, <4>3, <4>4 DEF NoTask, SomeTask
    <3>. QED
      BY <2>1, <3>1, <3>2 DEF Completes
  <2>3. InitialPart(wire, accepted)
    <3>. DEFINE rest == op \o write_queue
    <3>1. rest \in Seq(S)
      BY <1>2, <1>4, ConcatProperties
    <3>2. accepted = wire \o rest
      <4>1. wire \in Seq(S) /\ op \in Seq(S) /\ write_queue \in Seq(S)
        BY <1>2, <1>4
      <4>2. accepted = (wire \o op) \o write_queue
        BY <1>5
      <4>. QED
        BY <4>1, <4>2
    <3>. HIDE DEF rest
    <3>. QED
      BY <1>4, <3>1, <3>2, InitialPartOfConcat
  <2>. QED
    BY <1>5, <2>1, <2>2, <2>3 DEF WriteFailed, InitialPart
<1>. QED
  BY <1>6, <1>7
\* The steps of a thread that are not the write chain's own.
LEMMA WritePhaseOthers ==
    ASSUME TypeOK, WritePhase, ~torn, NEW i \in Runners,
           \/ Pick(i) \/ Exit(i) \/ EnterReactor(i) \/ LeaveReactor(i)
           \/ PerformRead(i) \/ ReadFault(i)
           \/ StartRead(i) \/ FinishRead(i) \/ FinishFailed(i)
    PROVE  (WriteIdle \/ WritePosted \/ WriteInFlight \/ WriteDone \/ WriteFailed)'
<1>. USE DEF portVars, ioVars, readVars, writeVars, clientVars, ghostVars
<1>0. WriteIdle \/ WritePosted \/ WriteInFlight \/ WriteDone \/ WriteFailed
  BY DEF WritePhase
<1>1. /\ WriteCalls \in SUBSET Calls /\ {"writeFail"} \in SUBSET Calls
      /\ 0 \in 0..ReadBufferSize
      /\ \A p \in {"none", "poll", "io", "exited"} :
            Place(p).call \notin WriteCalls /\ Place(p).call \notin {"writeFail"}
      /\ \A c \in {"startRead", "readOk", "readFail"} :
            c \in Calls \ WriteCalls /\ c \in Calls \ {"writeFail"}
      /\ \A call, n : Task(call, n).call = call
  BY SizesAssumption DEF WriteCalls, Calls, Place, Task
<1>2. CASE Pick(i)
  <2>1. UNCHANGED <<error, writeOps, write_buffer, write_queue, wire, accepted>>
    BY <1>2 DEF Pick
  <2>. QED
    BY <1>0, <1>1, <1>2, <2>1, ChainPicked, WriteFrame DEF TypeOK
\* One more step of the frame: thread i moves on, posting a read task at most.
<1>3. ASSUME NEW task, Moves(i, task),
             task.call \notin WriteCalls \cup {"writeFail"},
             runner[i].call \notin WriteCalls \cup {"writeFail"},
             \/ UNCHANGED ioq
             \/ \E c \in {"startRead", "readOk", "readFail"}, n \in 0..ReadBufferSize :
                   Posts(Task(c, n)),
             UNCHANGED <<error, writeOps, write_buffer, write_queue, wire, accepted>>
      PROVE  (WriteIdle \/ WritePosted \/ WriteInFlight \/ WriteDone \/ WriteFailed)'
  <2>1. /\ NoTask(WriteCalls) => NoTask(WriteCalls)'
        /\ \A c : OneTask(c, WriteCalls) => OneTask(c, WriteCalls)'
    BY <1>1, <1>3, ChainUntouched DEF TypeOK
  <2>2. SomeTask({"writeFail"}) => SomeTask({"writeFail"})'
    BY <1>1, <1>3, ChainUntouched DEF TypeOK
  <2>. QED
    BY <1>0, <1>3, <2>1, <2>2, WriteFrame
<1>4. CASE Exit(i) \/ EnterReactor(i) \/ LeaveReactor(i)
  BY <1>1, <1>3, <1>4 DEF Exit, EnterReactor, LeaveReactor
<1>5. CASE PerformRead(i)
  <2>1. PICK n \in 1..ReadBufferSize : Completes(i, Task("readOk", n))
    BY <1>5 DEF PerformRead
  <2>2. n \in 0..ReadBufferSize /\ runner[i] = Place("io")
        /\ UNCHANGED <<error, writeOps, write_buffer, write_queue, wire, accepted>>
    BY <1>5, SizesAssumption DEF PerformRead
  <2>. QED
    BY <1>1, <1>3, <2>1, <2>2 DEF Completes
<1>6. CASE ReadFault(i)
  BY <1>1, <1>3, <1>6 DEF ReadFault, Completes
<1>7. CASE StartRead(i)
  BY <1>1, <1>3, <1>7 DEF StartRead
<1>8. CASE FinishRead(i)
  BY <1>1, <1>3, <1>8 DEF FinishRead
<1>9. CASE FinishFailed(i)
  <2>1. /\ runner[i].call \notin WriteCalls /\ Moves(i, Place("poll")) /\ error'
        /\ UNCHANGED <<ioq, writeOps, write_buffer, write_queue, wire, accepted>>
    BY <1>9 DEF FinishFailed, WriteCalls
  <2>2. /\ NoTask(WriteCalls) => NoTask(WriteCalls)'
        /\ \A c : OneTask(c, WriteCalls) => OneTask(c, WriteCalls)'
    BY <1>1, <2>1, ChainUntouched DEF TypeOK
  <2>. QED
    BY <1>0, <2>1, <2>2, WriteFrame
<1>. QED
  BY <1>2, <1>4, <1>5, <1>6, <1>7, <1>8, <1>9

LEMMA WritePhaseHandlers ==
    ASSUME TypeOK, WritePhase, ~torn, NEW i \in Runners,
           StartWrite(i) \/ FinishWrite(i)
    PROVE  (WriteInFlight \/ WriteIdle \/ WritePosted \/ WriteFailed)'
<1>. USE DEF portVars, ioVars, readVars, writeVars, clientVars, ghostVars
<1>1. /\ 0 \in 0..ReadBufferSize
      /\ \A p \in {"none", "poll", "io", "exited"} : Place(p).call \notin WriteCalls
      /\ "startWrite" \in Calls \cap WriteCalls /\ "writeOk" \in WriteCalls
  BY SizesAssumption DEF WriteCalls, Calls, Place, Task
<1>2. CASE StartWrite(i)
  <2>1. i \in Running(WriteCalls) /\ runner[i].call = "startWrite"
    BY <1>1, <1>2 DEF StartWrite, Running
  <2>2. WritePosted
    BY <2>1 DEF WritePhase, WriteIdle, WriteInFlight, WriteDone, WriteFailed, NoTask,
       OneTask
  <2>3. CASE serial_open
    <3>1. /\ writeOps' = Append(<<>>, write_buffer) /\ Moves(i, Place("io"))
          /\ UNCHANGED <<ioq, write_buffer, write_queue, wire, accepted>>
      BY <1>2, <2>2, <2>3 DEF StartWrite, WritePosted
    <3>2. writeOps' = <<write_buffer>>
      BY <3>1
    <3>3. NoTask(WriteCalls)'
      BY <1>1, <2>1, <2>2, <3>1, ChainStops DEF WritePosted, TypeOK
    <3>. QED
      BY <2>2, <3>1, <3>2, <3>3 DEF WritePosted, WriteInFlight
  <2>4. CASE ~serial_open
    <3>1. /\ Posts(Task("writeFail", 0)) /\ Moves(i, Place("poll"))
          /\ UNCHANGED <<writeOps, write_buffer, write_queue, wire, accepted>>
      BY <1>2, <2>2, <2>4 DEF StartWrite, WritePosted
    <3>2. "writeFail" \in Calls \ WriteCalls /\ "writeFail" \in {"writeFail"}
      BY DEF Calls, WriteCalls
    <3>3. NoTask(WriteCalls)'
      BY <1>1, <2>1, <2>2, <3>1, <3>2, ChainStops DEF WritePosted, TypeOK
    <3>4. Len(ioq) + 1 \in Queued({"writeFail"})'
      BY <1>1, <3>1, <3>2, QueuedPosts DEF TypeOK
    <3>5. SomeTask({"writeFail"})'
      BY <3>4 DEF SomeTask
    <3>6. InitialPart(wire, accepted)
      BY <2>2, PostedInitial DEF WritePosted
    <3>. QED
      BY <2>2, <3>1, <3>3, <3>5, <3>6 DEF WritePosted, WriteFailed, InitialPart
  <2>. QED
    BY <2>3, <2>4
<1>3. CASE FinishWrite(i)
  <2>1. i \in Running(WriteCalls) /\ runner[i].call = "writeOk"
    BY <1>1, <1>3 DEF FinishWrite, Running
  <2>2. WriteDone
    BY <2>1 DEF WritePhase, WriteIdle, WriteInFlight, WritePosted, WriteFailed, NoTask,
       OneTask
  <2>3. /\ write_buffer' = write_queue /\ write_queue' = <<>>
        /\ Moves(i, Place("poll")) /\ UNCHANGED <<wire, accepted>>
    BY <1>3 DEF FinishWrite
  <2>4. write_queue \in Seq(Byte \cup {Junk}) /\ wire \in Seq(Byte \cup {Junk})
    BY SeqMonotonic DEF TypeOK, WriteType
  <2>5. CASE write_queue = <<>>
    <3>1. UNCHANGED <<ioq, writeOps>>
      BY <1>3, <2>5 DEF FinishWrite
    <3>2. NoTask(WriteCalls)'
      BY <1>1, <2>1, <2>2, <2>3, <3>1, ChainStops DEF WriteDone, TypeOK
    <3>3. wire' = accepted'
      BY <2>2, <2>3, <2>4, <2>5, ConcatEmptySeq DEF WriteDone
    <3>. QED
      BY <2>2, <2>3, <2>5, <3>1, <3>2, <3>3 DEF WriteDone, WriteIdle
  <2>6. CASE write_queue # <<>>
    <3>1. writeOps' = Freed(<<>>) /\ Posts(Task("startWrite", 0))
      BY <1>3, <2>2, <2>6 DEF FinishWrite, WriteDone
    <3>2. writeOps' = <<>>
      BY <3>1 DEF Freed
    <3>3. OneTask("startWrite", WriteCalls)'
      <4>1. Queued(WriteCalls) = {} /\ Running(WriteCalls) = {i}
        BY <2>1, <2>2 DEF WriteDone, OneTask
      <4>2. Running(WriteCalls)' = {}
        BY <1>1, <2>3, <4>1, RunningMoves DEF TypeOK
      <4>. QED
        BY <1>1, <3>1, <4>1, <4>2, ChainPosts DEF TypeOK
    <3>4. accepted' = (wire' \o write_buffer') \o write_queue'
      <4>1. wire \o write_queue \in Seq(Byte \cup {Junk})
        BY <2>4, ConcatProperties
      <4>2. accepted = wire \o write_queue
        BY <2>2 DEF WriteDone
      <4>. QED
        BY <2>3, <4>1, <4>2, ConcatEmptySeq
    <3>. QED
      BY <2>3, <2>6, <3>2, <3>3, <3>4 DEF WritePosted
  <2>. QED
    BY <2>5, <2>6
<1>. QED
  BY <1>2, <1>3

LEMMA WritePhaseStep ==
    TypeOK /\ ThreadPerOpen /\ WritePhase /\ [Next]_vars => WritePhase'
<1>. SUFFICES ASSUME TypeOK, ThreadPerOpen, WritePhase, [Next]_vars, ~torn'
              PROVE  WritePhase'
  BY DEF WritePhase
<1>0. ~torn
  BY HistoryStays
<1>1. CASE ClientNext
  BY <1>0, <1>1, WritePhaseClient
<1>2. ASSUME NEW i \in Runners, RunnerNext(i)
      PROVE  WritePhase'
  BY <1>0, <1>2, WritePhaseOthers, WritePhaseReactor, WritePhaseHandlers
     DEF RunnerNext, Reactor, Handler, WritePhase
<1>3. CASE UNCHANGED vars
  BY <1>3 DEF vars, portVars, ioVars, readVars, writeVars, clientVars, ghostVars,
     WritePhase, WriteIdle, WritePosted, WriteInFlight, WriteDone, WriteFailed,
     NoTask, OneTask, SomeTask, Queued, Running, InitialPart
<1>. QED
  BY <1>1, <1>2, <1>3 DEF Next

LEMMA WritePhaseCorrect == Spec => [](TypeOK /\ ThreadPerOpen /\ OpenedOnce /\ WritePhase)
<1>1. ASSUME Init PROVE OpenedOnce
  <2>1. Idle.call = "none" /\ Idle # At("open", "start")
    BY DEF Idle, At
  <2>2. is_open = FALSE /\ ~(opens = 1 \/ client = At("open", "start"))
    BY <1>1, <2>1 DEF Init
  <2>. QED
    BY <1>1, <2>1, <2>2 DEF Init, OpenedOnce
<1>2. Init => WritePhase
  BY DEF Init, WritePhase, WriteIdle, NoTask, Queued, Running, WriteCalls, Place, Task
<1>3. Init => ThreadPerOpen
  BY DEF Init, ThreadPerOpen
<1>4. /\ TypeOK /\ ThreadPerOpen /\ [Next]_vars => ThreadPerOpen'
      /\ TypeOK /\ OpenedOnce /\ [Next]_vars => OpenedOnce'
      /\ TypeOK /\ ThreadPerOpen /\ WritePhase /\ [Next]_vars => WritePhase'
  BY ThreadPerOpenStep, OpenedOnceStep, WritePhaseStep
<1>. QED
  BY <1>1, <1>2, <1>3, <1>4, TypeCorrect, PTL DEF Spec

\* What has left the port is an initial part of what write() accepted, however
\* client and threads interleave and however often the port is opened again,
\* until a close() frees a write_buffer in use or a write() has no bytes.
THEOREM WriteFifoCorrect == Spec => []WriteFifo
<1>1. ASSUME TypeOK, WritePhase PROVE WriteFifo
  <2>. SUFFICES ASSUME ~torn PROVE InitialPart(wire, accepted)
    BY DEF WriteFifo
  <2>1. CASE WriteIdle
    BY <2>1 DEF WriteIdle, InitialPart
  <2>2. CASE WritePosted
    BY <1>1, <2>2, PostedInitial
  <2>3. CASE WriteInFlight
    BY <1>1, <2>3, FlightInitial
  <2>4. CASE WriteDone
    <3>1. wire \in Seq(Byte \cup {Junk}) /\ write_queue \in Seq(Byte \cup {Junk})
      BY <1>1, SeqMonotonic DEF TypeOK, WriteType
    <3>. QED
      BY <2>4, <3>1, InitialPartOfConcat DEF WriteDone
  <2>5. CASE WriteFailed
    BY <2>5 DEF WriteFailed
  <2>. QED
    BY <1>1, <2>1, <2>2, <2>3, <2>4, <2>5 DEF WritePhase
<1>. QED
  BY <1>1, WritePhaseCorrect, PTL

LEMMA TokenCounts ==
    ASSUME TypeOK, NEW calls
    PROVE  /\ NoTask(calls) => Tokens(calls) = 0
           /\ \A c : OneTask(c, calls) => Tokens(calls) = 1
           /\ SomeTask(calls) => Tokens(calls) > 0
<1>1. IsFiniteSet(Queued(calls)) /\ IsFiniteSet(Running(calls))
  <2>1. Len(ioq) \in Nat /\ MaxOpens \in Nat
    BY LenProperties, SizesAssumption DEF TypeOK, IoType
  <2>2. IsFiniteSet(1..Len(ioq)) /\ IsFiniteSet(1..MaxOpens)
    BY <2>1, FS_Interval
  <2>. QED
    BY <2>2, FS_Subset DEF Queued, Running, Runners
<1>2. /\ Cardinality(Queued(calls)) \in Nat /\ Cardinality(Running(calls)) \in Nat
      /\ Cardinality(Queued(calls)) = 0 <=> Queued(calls) = {}
      /\ Cardinality(Running(calls)) = 0 <=> Running(calls) = {}
  BY <1>1, FS_CardinalityType, FS_EmptySet
<1>3. \A x : Cardinality({x}) = 1
  BY FS_Singleton
<1>4. NoTask(calls) => Tokens(calls) = 0
  BY <1>2 DEF NoTask, Tokens
<1>5. ASSUME NEW c, OneTask(c, calls) PROVE Tokens(calls) = 1
  <2>1. \/ Queued(calls) = {} /\ \E x : Running(calls) = {x}
        \/ Running(calls) = {} /\ \E x : Queued(calls) = {x}
    BY <1>5 DEF OneTask
  <2>2. \/ Cardinality(Queued(calls)) = 0 /\ Cardinality(Running(calls)) = 1
        \/ Cardinality(Running(calls)) = 0 /\ Cardinality(Queued(calls)) = 1
    BY <1>2, <1>3, <2>1
  <2>. QED
    BY <2>2 DEF Tokens
<1>6. SomeTask(calls) => Tokens(calls) > 0
  BY <1>2 DEF SomeTask, Tokens
<1>. QED
  BY <1>4, <1>5, <1>6

\* No accepted byte waits without a write in progress to send it, unless a
\* write has failed or a close() freed its buffer.
THEOREM NothingStrandedCorrect == Spec => []NothingStranded
<1>1. ASSUME TypeOK, WritePhase PROVE NothingStranded
  <2>. SUFFICES ASSUME ~torn
                PROVE  \/ wire = accepted \/ WriteChains = 1
                       \/ error \/ Tokens({"writeFail"}) > 0
    BY DEF NothingStranded
  <2>1. WriteChains = Len(writeOps) + Tokens(WriteCalls)
    BY DEF WriteChains, WriteCalls
  <2>2. CASE WriteIdle
    BY <2>2 DEF WriteIdle
  <2>3. CASE WritePosted \/ WriteDone
    <3>1. Tokens(WriteCalls) = 1 /\ writeOps = <<>>
      BY <1>1, <2>3, TokenCounts DEF WritePosted, WriteDone
    <3>. QED
      BY <2>1, <3>1
  <2>4. CASE WriteInFlight
    <3>1. Tokens(WriteCalls) = 0 /\ Len(writeOps) = 1
      BY <1>1, <2>4, TokenCounts DEF WriteInFlight
    <3>. QED
      BY <2>1, <3>1
  <2>5. CASE WriteFailed
    BY <1>1, <2>5, TokenCounts DEF WriteFailed
  <2>. QED
    BY <1>1, <2>2, <2>3, <2>4, <2>5 DEF WritePhase
<1>. QED
  BY <1>1, WritePhaseCorrect, PTL
------------------------------------------------------------------------------
(* The read chain.                                                         *)

\* A step that leaves the chain's tasks and the read side's data alone.
LEMMA ReadFrame ==
    ASSUME ReadPhase, ~closed, opens' = 0 => opens = 0,
           NoTask(ReadCalls) => NoTask(ReadCalls)',
           \A c : OneTask(c, ReadCalls) => OneTask(c, ReadCalls)',
           ReadDone => ReadDone',
           UNCHANGED <<readOps, read_queue, pos, taken>>
    PROVE  ReadPhase'
<1>1. CASE ReadIdle
  BY <1>1 DEF ReadPhase, ReadIdle
<1>2. CASE ReadPosted
  BY <1>2 DEF ReadPhase, ReadPosted, ReadIdle
<1>3. CASE ReadInFlight
  BY <1>3 DEF ReadPhase, ReadInFlight, ReadIdle
<1>4. CASE ReadDone
  BY <1>4 DEF ReadPhase, ReadDone, ReadIdle
<1>. QED
  BY <1>1, <1>2, <1>3, <1>4 DEF ReadPhase

\* A thread moves on, posting a task of the write chain at most.
LEMMA ReadUntouched ==
    ASSUME TypeOK, ReadPhase, ~closed, opens' = 0 => opens = 0,
           NEW i \in Runners, NEW task, Moves(i, task),
           task.call \notin ReadCalls, runner[i].call \notin ReadCalls,
           \/ UNCHANGED ioq
           \/ \E call \in Calls \ ReadCalls, n \in 0..ReadBufferSize :
                 Posts(Task(call, n)),
           UNCHANGED <<readOps, read_buffer, read_queue, pos, taken>>
    PROVE  ReadPhase'
<1>1. /\ NoTask(ReadCalls) => NoTask(ReadCalls)'
      /\ \A c : OneTask(c, ReadCalls) => OneTask(c, ReadCalls)'
      /\ Queued(ReadCalls)' = Queued(ReadCalls)
      /\ Running(ReadCalls)' = Running(ReadCalls)
      /\ \A k \in Queued(ReadCalls) : ioq'[k] = ioq[k]
      /\ \A j \in Running(ReadCalls) : runner'[j] = runner[j]
  BY ChainUntouched DEF TypeOK
<1>2. \A n : Buffered(n) => Buffered(n)'
  BY DEF Buffered
<1>3. ReadDone => ReadDone'
  BY <1>1, <1>2 DEF ReadDone
<1>. QED
  BY <1>1, <1>3, ReadFrame

\* erase() takes a line and its delimiter off the front of read_queue.
LEMMA LineTaken ==
    ASSUME NEW queue \in Seq(Byte \cup {Nul}), NEW p \in FirstHit(queue, Delim)
    PROVE  /\ CutLength(p, Delim) \in 0..Len(queue)
           /\ Remainder(queue, p, Delim) \in Seq(Byte \cup {Nul})
           /\ Len(Remainder(queue, p, Delim)) = Len(queue) - CutLength(p, Delim)
           /\ \A k \in 1..Len(Remainder(queue, p, Delim)) :
                 Remainder(queue, p, Delim)[k] = queue[CutLength(p, Delim) + k]
<1>. DEFINE S == Byte \cup {Nul}
            m == p + Len(Delim)
<1>1. /\ p \in 1..Len(queue) - Len(Delim) /\ Len(Delim) \in Nat /\ Len(queue) \in Nat
      /\ m \in 1..Len(queue)
  <2>1. Len(Delim) \in Nat /\ Len(queue) \in Nat
    BY DataAssumption, LenProperties
  <2>. QED
    BY <2>1 DEF FirstHit, Hits, Visited
<1>2. CutLength(p, Delim) = m - 1 /\ Remainder(queue, p, Delim) = SubSeq(queue, m, Len(queue))
  BY <1>1 DEF CutLength, Remainder
<1>3. /\ SubSeq(queue, m, Len(queue)) \in Seq(S)
      /\ Len(SubSeq(queue, m, Len(queue))) = Len(queue) - m + 1
      /\ \A k \in 1..Len(queue) - m + 1 : SubSeq(queue, m, Len(queue))[k] = queue[m + k - 1]
  <2>1. \A k \in m..Len(queue) : queue[k] \in S
    BY <1>1, ElementOfSeq
  <2>. HIDE DEF S, m
  <2>. QED
    BY <1>1, <2>1, SubSeqProperties
<1>4. CutLength(p, Delim) \in 0..Len(queue)
  BY <1>1, <1>2
<1>5. Len(Remainder(queue, p, Delim)) = Len(queue) - CutLength(p, Delim)
  BY <1>1, <1>2, <1>3
<1>6. ASSUME NEW k \in 1..Len(Remainder(queue, p, Delim))
      PROVE  Remainder(queue, p, Delim)[k] = queue[CutLength(p, Delim) + k]
  <2>1. k \in 1..Len(queue) - m + 1 /\ m + k - 1 = (m - 1) + k
    BY <1>1, <1>2, <1>3
  <2>. HIDE DEF m
  <2>. QED
    BY <1>2, <1>3, <2>1
<1>. QED
  BY <1>2, <1>3, <1>4, <1>5, <1>6

LEMMA ReadPhaseClient ==
    ASSUME TypeOK, OpenedOnce, ReadPhase, ~closed, ~closed', ClientNext
    PROVE  ReadPhase'
<1>. USE DEF portVars, ioVars, readVars, writeVars, clientVars, ghostVars, Idle, At
<1>1. ASSUME UNCHANGED <<runner, readOps, read_buffer, read_queue, pos, taken, opens>>,
             UNCHANGED ioq \/ Posts(Task("startWrite", 0))
      PROVE  ReadPhase'
  <2>1. /\ Queued(ReadCalls)' = Queued(ReadCalls)
        /\ \A k \in Queued(ReadCalls) : k \in 1..Len(ioq') /\ ioq'[k] = ioq[k]
    <3>1. CASE UNCHANGED ioq
      BY <3>1 DEF Queued
    <3>2. CASE Posts(Task("startWrite", 0))
      <4>1. "startWrite" \in Calls \ ReadCalls /\ 0 \in 0..ReadBufferSize
        BY SizesAssumption DEF Calls, ReadCalls
      <4>. QED
        BY <3>2, <4>1, QueuedPosts DEF TypeOK, Queued
    <3>. QED
      BY <1>1, <3>1, <3>2
  <2>2. Running(ReadCalls)' = Running(ReadCalls)
    BY <1>1 DEF Running
  <2>3. NoTask(ReadCalls) => NoTask(ReadCalls)'
    BY <2>1, <2>2 DEF NoTask
  <2>4. \A c : OneTask(c, ReadCalls) => OneTask(c, ReadCalls)'
    BY <1>1, <2>1, <2>2 DEF OneTask
  <2>5. \A n : Buffered(n) => Buffered(n)'
    BY <1>1 DEF Buffered
  <2>6. ReadDone => ReadDone'
    BY <1>1, <2>1, <2>2, <2>4, <2>5 DEF ReadDone
  <2>. QED
    BY <1>1, <2>3, <2>4, <2>6, ReadFrame
<1>2. CASE WriteCheck \/ WriteLocked \/ ReadCheck \/ OpenBegin \/ ConfigureThrows
             \/ Configure
  BY <1>1, <1>2 DEF WriteCheck, WriteLocked, ReadCheck, OpenBegin, ConfigureThrows,
     Configure
<1>3. CASE ReadLocked
  <2>1. CASE FirstHit(read_queue, Delim) = {}
    BY <1>1, <1>3, <2>1 DEF ReadLocked
  <2>2. ASSUME NEW p \in FirstHit(read_queue, Delim),
               taken' = taken + CutLength(p, Delim),
               read_queue' = Remainder(read_queue, p, Delim)
        PROVE  ReadPhase'
    <3>. DEFINE cut == CutLength(p, Delim)
    <3>1. /\ cut \in 0..Len(read_queue) /\ Len(read_queue) \in Nat /\ taken \in Nat
          /\ Len(read_queue') = Len(read_queue) - cut
          /\ \A k \in 1..Len(read_queue') : read_queue'[k] = read_queue[cut + k]
      BY <2>2, LineTaken, LenProperties DEF TypeOK, ReadType
    <3>2. UNCHANGED <<ioq, runner, readOps, read_buffer, pos, opens>> /\ taken' = taken + cut
      BY <1>3, <2>2 DEF ReadLocked
    <3>. HIDE DEF cut
    <3>3. taken' + Len(read_queue') = taken + Len(read_queue)
      BY <3>1, <3>2
    <3>4. \A k \in 1..Len(read_queue') : read_queue'[k] = DeviceOut[taken' + k]
      <4>1. \A k \in 1..Len(read_queue') :
               /\ cut + k \in 1..Len(read_queue)
               /\ taken + (cut + k) = taken' + k
        BY <3>1, <3>2
      <4>. QED
        BY <3>1, <4>1 DEF ReadPhase
    <3>5. \A n : Buffered(n) => Buffered(n)'
      BY <3>2, <3>3 DEF Buffered
    <3>6. /\ ReadIdle => ReadIdle'
          /\ ReadPosted => ReadPosted'
          /\ ReadInFlight => ReadInFlight'
          /\ ReadDone => ReadDone'
      BY <3>2, <3>3, <3>5 DEF ReadIdle, ReadPosted, ReadInFlight, ReadDone, NoTask,
         OneTask, Queued, Running
    <3>7. /\ ReadIdle \/ ReadPosted \/ ReadInFlight \/ ReadDone
          /\ opens = 0 => ReadIdle
      BY DEF ReadPhase
    <3>8. ReadIdle' \/ ReadPosted' \/ ReadInFlight' \/ ReadDone'
      BY <3>6, <3>7
    <3>9. (opens = 0 => ReadIdle)'
      <4>1. opens' = opens
        BY <3>2
      <4>. QED
        BY <4>1, <3>6, <3>7
    <3>. QED
      BY <3>4, <3>8, <3>9 DEF ReadPhase
  <2>. QED
    BY <1>3, <2>1, <2>2 DEF ReadLocked
<1>4. CASE OpenStart
  <2>. DEFINE j == opens + 1
  <2>1. /\ opens = 0 /\ opens' = 1 /\ Moves(j, Place("poll"))
        /\ Posts(Task("startRead", 0))
        /\ UNCHANGED <<readOps, read_queue, pos, taken>>
    BY <1>4 DEF OpenStart, OpenedOnce
  <2>2. j \in Runners
    BY <2>1, SizesAssumption DEF Runners
  <2>3. ReadIdle
    BY <2>1 DEF ReadPhase
  <2>4. /\ "startRead" \in Calls \cap ReadCalls /\ 0 \in 0..ReadBufferSize
        /\ Place("poll").call \notin ReadCalls
    BY SizesAssumption DEF Calls, ReadCalls, Place, Task
  <2>5. OneTask("startRead", ReadCalls)'
    <3>1. Queued(ReadCalls) = {} /\ Running(ReadCalls)' = {}
      BY <2>1, <2>2, <2>3, <2>4, RunningMoves DEF ReadIdle, NoTask, TypeOK
    <3>. QED
      BY <2>1, <2>4, <3>1, ChainPosts DEF TypeOK
  <2>. QED
    BY <2>1, <2>3, <2>5 DEF ReadPhase, ReadIdle, ReadPosted
<1>5. ASSUME NEW call \in {"open", "close"}
      PROVE  ~CloseBegin(call) /\ ~CloseReset(call) /\ ~ClosePort(call)
               /\ ~ClosePortThrows(call)
  BY DEF CloseBegin, CloseReset, ClosePort, ClosePortThrows, OpenedOnce
<1>. QED
  BY <1>2, <1>3, <1>4, <1>5 DEF ClientNext
LEMMA ReadPhaseRunner ==
    ASSUME TypeOK, ThreadPerOpen, OpenedOnce, ReadPhase, ~closed, NEW i \in Runners,
           RunnerNext(i)
    PROVE  ReadPhase'
<1>. USE DEF portVars, ioVars, readVars, writeVars, clientVars, ghostVars
<1>0. opens' = opens /\ opens = 1 /\ ~closed'
  <2>1. i <= opens
    BY RunnerFrame, SizesAssumption DEF ThreadPerOpen, TypeOK, ClientType, Runners
  <2>. QED
    BY <2>1, RunnerFrame DEF OpenedOnce, Runners
<1>1. /\ ReadCalls \in SUBSET Calls /\ 0 \in 0..ReadBufferSize
      /\ \A p \in {"none", "poll", "io", "exited"} : Place(p).call \notin ReadCalls
      /\ \A c \in Calls \ {"startRead", "readOk"} : c \in Calls \ ReadCalls
      /\ \A call, n : Task(call, n) = [call |-> call, n |-> n]
                        /\ Task(call, n).call = call /\ Task(call, n).n = n
      /\ "startRead" \in Calls \cap ReadCalls /\ "readOk" \in Calls \cap ReadCalls
  BY SizesAssumption DEF ReadCalls, Calls, Place, Task
<1>2. CASE Pick(i)
  <2>1. /\ UNCHANGED <<readOps, read_buffer, read_queue, pos, taken>>
        /\ runner[i] = Place("poll") /\ ioq # <<>> /\ ioq' = Tail(ioq)
        /\ Moves(i, Head(ioq))
    BY <1>2 DEF Pick
  <2>2. /\ NoTask(ReadCalls) => NoTask(ReadCalls)'
        /\ \A c : OneTask(c, ReadCalls) => OneTask(c, ReadCalls)'
    BY <1>1, <1>2, ChainPicked DEF TypeOK
  <2>3. \A n : Buffered(n) => Buffered(n)'
    BY <2>1 DEF Buffered
  <2>4. ReadDone => ReadDone'
    <3>. SUFFICES ASSUME ReadDone PROVE ReadDone'
      OBVIOUS
    <3>1. Head(ioq) = ioq[1]
      BY <2>1, HeadTailProperties DEF TypeOK, IoType
    <3>2. \A k \in Queued(ReadCalls)' : Buffered(ioq'[k].n)
      <4>. TAKE k \in Queued(ReadCalls)'
      <4>1. k + 1 \in Queued(ReadCalls) /\ ioq'[k] = ioq[k + 1]
        BY <2>1, QueuedPick DEF TypeOK, Queued
      <4>. QED
        BY <4>1 DEF ReadDone
    <3>3. \A j \in Running(ReadCalls)' : Buffered(runner'[j].n)
      <4>. TAKE j \in Running(ReadCalls)'
      <4>1. CASE j # i
        BY <2>1, <4>1, RunningMoves DEF TypeOK, ReadDone, Running
      <4>2. CASE j = i
        <5>1. runner'[i] = ioq[1] /\ ioq[1].call \in ReadCalls
          BY <2>1, <3>1, <4>2, RunningMoves DEF TypeOK, Running
        <5>2. 1 \in Queued(ReadCalls)
          BY <2>1, <3>1, <5>1, QueuedPick DEF TypeOK
        <5>. QED
          BY <4>2, <5>1, <5>2 DEF ReadDone
      <4>. QED
        BY <4>1, <4>2
    <3>. QED
      BY <2>1, <2>2, <2>3, <3>2, <3>3 DEF ReadDone
  <2>. QED
    BY <1>0, <2>1, <2>2, <2>4, ReadFrame
<1>3. CASE Exit(i) \/ EnterReactor(i) \/ LeaveReactor(i)
  BY <1>0, <1>1, <1>3, ReadUntouched DEF Exit, EnterReactor, LeaveReactor
<1>4. CASE PerformWrite(i)
  <2>1. /\ UNCHANGED <<readOps, read_buffer, read_queue, pos, taken>>
        /\ runner[i] = Place("io")
        /\ Completes(i, Task("writeOk", 0)) \/ UNCHANGED <<runner, ioq>>
    BY <1>4 DEF PerformWrite
  <2>2. CASE Completes(i, Task("writeOk", 0))
    BY <1>0, <1>1, <2>1, <2>2, ReadUntouched DEF Completes, Calls
  <2>3. CASE UNCHANGED <<runner, ioq>>
    <3>1. Moves(i, Place("io"))
      BY <2>1, <2>3 DEF Moves, TypeOK, IoType
    <3>. QED
      BY <1>0, <1>1, <2>1, <2>3, <3>1, ReadUntouched
  <2>. QED
    BY <2>1, <2>2, <2>3
<1>5. CASE WriteFault(i)
  BY <1>0, <1>1, <1>5, ReadUntouched DEF WriteFault, Completes, Calls
<1>6. CASE PerformRead(i) \/ ReadFault(i)
  <2>1. ReadInFlight /\ readOps' = 0
    BY <1>6 DEF PerformRead, ReadFault, ReadPhase, ReadIdle, ReadPosted, ReadDone,
       ReadInFlight
  <2>2. runner[i] = Place("io") /\ UNCHANGED <<taken, read_queue>>
    BY <1>6 DEF PerformRead, ReadFault
  <2>3. CASE ReadFault(i)
    <3>1. Completes(i, Task("readFail", 0)) /\ UNCHANGED pos
      BY <2>3 DEF ReadFault
    <3>2. NoTask(ReadCalls)'
      BY <1>1, <2>1, <2>2, <3>1, ChainUntouched
         DEF Completes, Calls, ReadInFlight, TypeOK
    <3>. QED
      BY <1>0, <2>1, <2>2, <3>1, <3>2 DEF ReadPhase, ReadInFlight, ReadIdle
  <2>4. CASE PerformRead(i)
    <3>1. PICK n \in 1..ReadBufferSize :
             /\ pos + n <= Len(DeviceOut)
             /\ read_buffer' = [k \in 1..ReadBufferSize |->
                                  IF k <= n THEN DeviceOut[pos + k] ELSE read_buffer[k]]
             /\ pos' = pos + n
             /\ Completes(i, Task("readOk", n))
      BY <2>4 DEF PerformRead
    <3>2. Buffered(n)'
      <4>1. taken' + Len(read_queue') + n = pos'
        BY <2>1, <2>2, <3>1 DEF ReadInFlight
      <4>2. \A k \in 1..n : k \in 1..ReadBufferSize /\ pos' - n + k = pos + k
        BY <3>1, SizesAssumption DEF TypeOK, ReadType
      <4>. QED
        BY <3>1, <4>1, <4>2 DEF Buffered
    <3>3. n \in 0..ReadBufferSize
      BY SizesAssumption
    <3>4. Queued(ReadCalls) = {} /\ Running(ReadCalls) = {}
      BY <2>1 DEF ReadInFlight, NoTask
    <3>5. CASE Moves(i, Task("readOk", n)) /\ UNCHANGED ioq
      <4>1. Running(ReadCalls)' = {i} /\ runner'[i] = Task("readOk", n)
        BY <1>1, <3>4, <3>5, RunningMoves DEF TypeOK
      <4>2. Queued(ReadCalls)' = {}
        BY <3>4, <3>5 DEF Queued
      <4>. QED
        BY <1>0, <1>1, <2>1, <2>2, <3>2, <4>1, <4>2 DEF ReadPhase, ReadDone, OneTask
    <3>6. CASE Posts(Task("readOk", n)) /\ Moves(i, Place("poll"))
      <4>1. Running(ReadCalls)' = {}
        BY <1>1, <3>4, <3>6, RunningMoves DEF TypeOK
      <4>2. /\ OneTask("readOk", ReadCalls)'
            /\ \A k \in Queued(ReadCalls)' : ioq'[k] = Task("readOk", n)
        BY <1>1, <3>3, <3>4, <3>6, <4>1, ChainPosts DEF TypeOK
      <4>. QED
        BY <1>0, <1>1, <2>1, <2>2, <3>2, <4>1, <4>2 DEF ReadPhase, ReadDone
    <3>. QED
      BY <3>1, <3>5, <3>6 DEF Completes
  <2>. QED
    BY <1>6, <2>3, <2>4
<1>7. CASE StartRead(i)
  <2>1. i \in Running(ReadCalls) /\ runner[i].call = "startRead"
    BY <1>1, <1>7 DEF StartRead, Running
  <2>2. ReadPosted
    BY <2>1 DEF ReadPhase, ReadIdle, ReadInFlight, ReadDone, NoTask, OneTask
  <2>3. serial_open
    BY <1>0 DEF OpenedOnce
  <2>4. /\ readOps' = 1 /\ Moves(i, Place("io"))
        /\ UNCHANGED <<ioq, read_queue, pos, taken>>
    BY <1>7, <2>2, <2>3 DEF StartRead, ReadPosted
  <2>5. NoTask(ReadCalls)'
    BY <1>1, <2>1, <2>2, <2>4, ChainStops DEF ReadPosted, TypeOK
  <2>. QED
    BY <1>0, <2>2, <2>4, <2>5 DEF ReadPhase, ReadPosted, ReadInFlight
<1>8. CASE FinishRead(i)
  <2>. DEFINE n == runner[i].n
  <2>1. i \in Running(ReadCalls) /\ runner[i].call = "readOk"
    BY <1>1, <1>8 DEF FinishRead, Running
  <2>2. ReadDone /\ Buffered(n)
    BY <2>1 DEF ReadPhase, ReadIdle, ReadInFlight, ReadPosted, ReadDone, NoTask, OneTask
  <2>3. /\ read_queue' = read_queue \o SubSeq(read_buffer, 1, n)
        /\ Posts(Task("startRead", 0)) /\ Moves(i, Place("poll"))
        /\ UNCHANGED <<readOps, pos, taken>>
    BY <1>8 DEF FinishRead
  <2>4. n \in 0..ReadBufferSize
    <3>1. runner[i] \in Tasks \cup Places
      BY DEF TypeOK, IoType
    <3>2. \A t \in Tasks \cup Places : t.n \in 0..ReadBufferSize
      BY <1>1 DEF Tasks, Places, Place, Task
    <3>. QED
      BY <3>1, <3>2
  <2>5. /\ Len(read_queue') = Len(read_queue) + n
        /\ \A k \in 1..Len(read_queue') :
              read_queue'[k] = IF k <= Len(read_queue) THEN read_queue[k]
                               ELSE read_buffer[k - Len(read_queue)]
        /\ Len(read_queue) \in Nat
    <3>. DEFINE S == Byte \cup {Nul}
                part == SubSeq(read_buffer, 1, n)
    <3>1. part \in Seq(S) /\ Len(part) = n /\ \A k \in 1..n : part[k] = read_buffer[k]
      <4>1. \A k \in 1..n : read_buffer[k] \in S
        BY <2>4, SizesAssumption DEF TypeOK, ReadType
      <4>. HIDE DEF S, n
      <4>2. /\ part \in Seq(S) /\ Len(part) = (IF 1 <= n THEN n - 1 + 1 ELSE 0)
            /\ \A k \in 1..n - 1 + 1 : part[k] = read_buffer[1 + k - 1]
        BY <2>4, <4>1, SubSeqProperties, SizesAssumption
      <4>. QED
        BY <2>4, <4>2, SizesAssumption
    <3>2. read_queue \in Seq(S) /\ Len(read_queue) \in Nat
      BY LenProperties DEF TypeOK, ReadType
    <3>. HIDE DEF S, part, n
    <3>3. /\ Len(read_queue \o part) = Len(read_queue) + Len(part)
          /\ \A k \in 1..Len(read_queue) + Len(part) :
                (read_queue \o part)[k] = IF k <= Len(read_queue) THEN read_queue[k]
                                          ELSE part[k - Len(read_queue)]
      BY <3>1, <3>2, ConcatProperties
    <3>4. read_queue' = read_queue \o part
      BY <2>3 DEF part
    <3>. QED
      BY <2>4, <3>1, <3>2, <3>3, <3>4, SizesAssumption
  <2>. HIDE DEF n
  <2>6. taken' + Len(read_queue') = pos'
    <3>1. taken + Len(read_queue) + n = pos /\ taken \in Nat /\ n \in Nat
      BY <2>2, <2>4, SizesAssumption DEF Buffered, TypeOK, ReadType
    <3>. QED
      BY <2>3, <2>5, <3>1
  <2>7. \A k \in 1..Len(read_queue') : read_queue'[k] = DeviceOut[taken' + k]
    <3>. TAKE k \in 1..Len(read_queue')
    <3>1. CASE k <= Len(read_queue)
      <4>1. k \in 1..Len(read_queue)
        BY <2>5, <3>1
      <4>. QED
        BY <2>3, <2>5, <3>1, <4>1 DEF ReadPhase
    <3>2. CASE ~(k <= Len(read_queue))
      <4>. DEFINE b == k - Len(read_queue)
      <4>1. b \in 1..n /\ pos - n + b = taken' + k
        <5>1. taken + Len(read_queue) + n = pos /\ taken \in Nat /\ n \in Nat
          BY <2>2, <2>4, SizesAssumption DEF Buffered, TypeOK, ReadType
        <5>. QED
          BY <2>3, <2>5, <3>2, <5>1
      <4>2. read_buffer[b] = DeviceOut[pos - n + b]
        BY <2>2, <4>1 DEF Buffered
      <4>. QED
        BY <2>5, <3>2, <4>1, <4>2
    <3>. QED
      BY <3>1, <3>2
  <2>8. OneTask("startRead", ReadCalls)'
    <3>1. Queued(ReadCalls) = {} /\ Running(ReadCalls) = {i}
      BY <2>1, <2>2 DEF ReadDone, OneTask
    <3>2. Running(ReadCalls)' = {}
      BY <1>1, <2>3, <3>1, RunningMoves DEF TypeOK
    <3>. QED
      BY <1>1, <2>3, <3>1, <3>2, ChainPosts DEF TypeOK
  <2>. QED
    <3>1. ReadPosted'
      BY <2>2, <2>3, <2>6, <2>8 DEF ReadDone, ReadPosted
    <3>. QED
      BY <1>0, <2>7, <3>1 DEF ReadPhase
<1>9. CASE StartWrite(i)
  BY <1>0, <1>1, <1>9, ReadUntouched DEF StartWrite, Calls, ReadCalls
<1>10. CASE FinishWrite(i)
  BY <1>0, <1>1, <1>10, ReadUntouched DEF FinishWrite, Calls, ReadCalls
<1>11. CASE FinishFailed(i)
  BY <1>0, <1>1, <1>11, ReadUntouched DEF FinishFailed, Calls, ReadCalls
<1>. QED
  BY <1>2, <1>3, <1>4, <1>5, <1>6, <1>7, <1>8, <1>9, <1>10, <1>11
     DEF RunnerNext, Reactor, Handler

LEMMA ReadPhaseCorrect == Spec => []ReadPhase
<1>1. Init => ReadPhase
  <2>. SUFFICES ASSUME Init PROVE ReadPhase
    OBVIOUS
  <2>1. ReadIdle
    BY EmptySeq DEF Init, ReadIdle, NoTask, Queued, Running, ReadCalls, Place, Task
  <2>. QED
    BY <2>1, EmptySeq DEF Init, ReadPhase
<1>2. TypeOK /\ ThreadPerOpen /\ OpenedOnce /\ ReadPhase /\ [Next]_vars => ReadPhase'
  <2>. SUFFICES ASSUME TypeOK, ThreadPerOpen, OpenedOnce, ReadPhase, [Next]_vars, ~closed'
                PROVE  ReadPhase'
    BY DEF ReadPhase
  <2>0. ~closed
    BY HistoryStays
  <2>1. CASE ClientNext
    BY <2>0, <2>1, ReadPhaseClient
  <2>2. ASSUME NEW i \in Runners, RunnerNext(i) PROVE ReadPhase'
    BY <2>0, <2>2, ReadPhaseRunner
  <2>3. CASE UNCHANGED vars
    BY <2>3 DEF vars, portVars, ioVars, readVars, writeVars, clientVars, ghostVars,
       ReadPhase, ReadIdle, ReadPosted, ReadInFlight, ReadDone, Buffered,
       NoTask, OneTask, Queued, Running
  <2>. QED
    BY <2>1, <2>2, <2>3 DEF Next
<1>. QED
  BY <1>1, <1>2, WritePhaseCorrect, PTL DEF Spec

\* Until a close(), read_queue holds the device's bytes in order, right behind
\* those the client took: none lost, repeated or overwritten in read_buffer.
THEOREM ReadFifoCorrect == Spec => []ReadFifo
<1>1. ASSUME TypeOK, ReadPhase PROVE ReadFifo
  <2>. SUFFICES ASSUME ~closed
                PROVE  /\ taken + Len(read_queue) <= pos
                       /\ read_queue = SubSeq(DeviceOut, taken + 1, taken + Len(read_queue))
    BY DEF ReadFifo
  <2>1. /\ Len(read_queue) \in Nat /\ taken \in Nat /\ pos \in 0..Len(DeviceOut)
        /\ Len(DeviceOut) \in Nat
    BY <1>1, DataAssumption, LenProperties DEF TypeOK, ReadType
  <2>2. taken + Len(read_queue) <= pos
    <3>1. CASE ReadIdle \/ ReadPosted \/ ReadInFlight
      BY <2>1, <3>1 DEF ReadIdle, ReadPosted, ReadInFlight
    <3>2. CASE ReadDone
      <4>1. PICK n \in 0..ReadBufferSize : Buffered(n)
        <5>1. \A t \in Tasks \cup Places : t.n \in 0..ReadBufferSize
          BY SizesAssumption DEF Tasks, Places, Place, Task
        <5>2. CASE \E k \in 1..Len(ioq) : Queued(ReadCalls) = {k}
          BY <1>1, <3>2, <5>1, <5>2 DEF ReadDone, TypeOK, IoType
        <5>3. CASE \E i \in Runners : Running(ReadCalls) = {i}
          BY <1>1, <3>2, <5>1, <5>3 DEF ReadDone, TypeOK, IoType
        <5>. QED
          BY <3>2, <5>2, <5>3 DEF ReadDone, OneTask
      <4>. QED
        BY <2>1, <4>1, SizesAssumption DEF Buffered
    <3>. QED
      BY <1>1, <3>1, <3>2 DEF ReadPhase
  <2>3. \A k \in 1..Len(read_queue) : read_queue[k] = DeviceOut[taken + k]
    BY <1>1 DEF ReadPhase
  <2>. DEFINE m == taken + 1
              e == taken + Len(read_queue)
              part == SubSeq(DeviceOut, m, e)
              S == Byte \cup {Nul}
  <2>4. /\ part \in Seq(Byte)
        /\ Len(part) = Len(read_queue)
        /\ \A k \in 1..Len(read_queue) : part[k] = DeviceOut[taken + k]
    <3>1. m \in Int /\ e \in Int /\ e - m + 1 = Len(read_queue)
      BY <2>1
    <3>2. \A k \in m..e : DeviceOut[k] \in Byte
      BY <2>1, <2>2, DataAssumption, ElementOfSeq
    <3>3. \A k \in 1..Len(read_queue) : m + k - 1 = taken + k
      BY <2>1
    <3>. HIDE DEF m, e
    <3>4. /\ part \in Seq(Byte) /\ Len(part) = (IF m <= e THEN e - m + 1 ELSE 0)
          /\ \A k \in 1..e - m + 1 : part[k] = DeviceOut[m + k - 1]
      BY <3>1, <3>2, SubSeqProperties
    <3>. QED
      BY <2>1, <3>1, <3>3, <3>4
  <2>5. part \in Seq(S) /\ read_queue \in Seq(S)
    <3>. HIDE DEF part
    <3>. QED
      BY <1>1, <2>4, SeqMonotonic DEF TypeOK, ReadType
  <2>6. part = read_queue
    <3>. HIDE DEF part, S
    <3>. QED
      BY <2>3, <2>4, <2>5, SeqEqual
  <2>. QED
    BY <2>2, <2>6
<1>. QED
  BY <1>1, TypeCorrect, ReadPhaseCorrect, PTL
------------------------------------------------------------------------------
(* A half-open port.                                                       *)

LEMMA ClosingIsOpenStep == TypeOK /\ ClosingIsOpen /\ [Next]_vars => ClosingIsOpen'
<1>. SUFFICES ASSUME TypeOK, ClosingIsOpen, [Next]_vars PROVE ClosingIsOpen'
  OBVIOUS
<1>. USE DEF portVars, ioVars, readVars, writeVars, clientVars, ghostVars, Idle, At
<1>1. CASE WriteCheck \/ WriteLocked \/ ReadCheck \/ ReadLocked
  BY <1>1 DEF WriteCheck, WriteLocked, ReadCheck, ReadLocked, ClosingIsOpen
<1>2. ASSUME NEW call \in {"open", "close"}, CloseBegin(call) \/ CloseReset(call)
      PROVE  ClosingIsOpen'
  BY <1>2 DEF CloseBegin, CloseReset, ClosingIsOpen
<1>3. ASSUME NEW call \in {"open", "close"}, ClosePort(call) \/ ClosePortThrows(call)
      PROVE  ClosingIsOpen'
  <2>1. client'.step \in {"idle", "configure"}
    BY <1>3 DEF ClosePort, ClosePortThrows
  <2>. QED
    BY <2>1 DEF ClosingIsOpen
<1>4. CASE OpenBegin \/ ConfigureThrows \/ Configure \/ OpenStart
  <2>1. client' \in {Idle, At("open", "configure"), At("open", "start")}
    <3>. HIDE DEF Idle, At
    <3>. QED
      BY <1>4 DEF OpenBegin, ConfigureThrows, Configure, OpenStart
  <2>. QED
    BY <2>1 DEF ClosingIsOpen
<1>5. ASSUME NEW i \in Runners, RunnerNext(i) PROVE ClosingIsOpen'
  BY <1>5, RunnerFrame DEF ClosingIsOpen
<1>6. CASE UNCHANGED vars
  BY <1>6 DEF vars, ClosingIsOpen
<1>. QED
  BY <1>1, <1>2, <1>3, <1>4, <1>5, <1>6 DEF Next, ClientNext

\* A port that _configure() left with an open descriptor and is_open not set
\* stays like that: close() returns early, and only _configure() would set
\* is_open, after a serial.open() that throws.
THEOREM HalfOpenForeverCorrect == Spec => HalfOpenForever
<1>1. Init => ClosingIsOpen
  BY DEF Init, ClosingIsOpen, Idle, At
<1>2. ASSUME ClosingIsOpen, [Next]_vars, HalfOpen PROVE HalfOpen'
  <2>. USE DEF portVars, ioVars, readVars, writeVars, clientVars, ghostVars, Idle, At
  <2>0. serial_open /\ ~is_open
    BY <1>2 DEF HalfOpen
  <2>1. CASE WriteCheck \/ WriteLocked \/ ReadCheck \/ ReadLocked \/ OpenBegin
               \/ ConfigureThrows \/ OpenStart
    <3>1. is_open' = is_open /\ serial_open' \in {serial_open, TRUE}
      BY <2>1 DEF WriteCheck, WriteLocked, ReadCheck, ReadLocked, OpenBegin,
         ConfigureThrows, OpenStart
    <3>. QED
      BY <2>0, <3>1 DEF HalfOpen
  <2>2. ~Configure
    BY <1>2 DEF Configure, HalfOpen
  <2>3. ASSUME NEW call \in {"open", "close"}
        PROVE  ~CloseBegin(call) /\ ~CloseReset(call) /\ ~ClosePort(call)
                 /\ ~ClosePortThrows(call)
    <3>1. client.step \notin {"reset", "port"}
      BY <1>2, <2>0 DEF ClosingIsOpen
    <3>2. ~CloseBegin(call)
      BY <2>0 DEF CloseBegin
    <3>3. client # At(call, "reset") /\ client # At(call, "port")
      BY <3>1
    <3>. HIDE DEF At
    <3>. QED
      BY <3>2, <3>3 DEF CloseReset, ClosePort, ClosePortThrows
  <2>4. ASSUME NEW i \in Runners, RunnerNext(i) PROVE HalfOpen'
    BY <1>2, <2>4, RunnerFrame DEF HalfOpen
  <2>5. CASE UNCHANGED vars
    BY <1>2, <2>5 DEF vars, HalfOpen
  <2>. QED
    BY <1>2, <2>1, <2>2, <2>3, <2>4, <2>5 DEF Next, ClientNext
<1>. QED
  BY <1>1, <1>2, ClosingIsOpenStep, TypeCorrect, PTL DEF Spec, HalfOpenForever
------------------------------------------------------------------------------
(* Where an error comes from.                                              *)

\* Until a close(), a thread that runs has an open port under it.
LEMMA ServedPortIsOpen ==
    ASSUME TypeOK, ThreadPerOpen, OpenedOnce, ~closed,
           NEW i \in Runners, runner[i] # Place("none")
    PROVE  opens = 1 /\ is_open /\ serial_open
<1>1. ~(i > opens) /\ i \in Nat \ {0} /\ opens \in Nat
  BY SizesAssumption DEF ThreadPerOpen, Runners, TypeOK, ClientType
<1>2. opens = 1
  BY <1>1 DEF OpenedOnce
<1>. QED
  BY <1>2 DEF OpenedOnce

\* The client posts no failure and runs no handler before a close().
LEMMA CauseClient ==
    ASSUME TypeOK, OpenedOnce, ~error, NoTask(Failures), ~closed, ~closed', ClientNext
    PROVE  ~error' /\ NoTask(Failures)'
<1>. USE DEF portVars, ioVars, readVars, writeVars, clientVars, ghostVars, Idle, At
<1>1. CASE WriteCheck \/ ReadCheck \/ ReadLocked \/ OpenBegin \/ ConfigureThrows
             \/ Configure
  <2>1. UNCHANGED <<error, ioq, runner>>
    BY <1>1 DEF WriteCheck, ReadCheck, ReadLocked, OpenBegin, ConfigureThrows, Configure
  <2>. QED
    BY <2>1 DEF NoTask, Queued, Running
<1>2. CASE WriteLocked
  <2>1. /\ UNCHANGED <<error, runner>>
        /\ UNCHANGED ioq \/ Posts(Task("startWrite", 0))
    BY <1>2 DEF WriteLocked
  <2>2. Running(Failures)' = {}
    BY <2>1 DEF NoTask, Running
  <2>3. Queued(Failures)' = {}
    <3>1. CASE UNCHANGED ioq
      BY <3>1 DEF NoTask, Queued
    <3>2. CASE Posts(Task("startWrite", 0))
      <4>1. "startWrite" \in Calls \ Failures /\ 0 \in 0..ReadBufferSize
        BY SizesAssumption DEF Calls, Failures
      <4>. QED
        BY <3>2, <4>1, QueuedPosts DEF TypeOK, NoTask
    <3>. QED
      BY <2>1, <3>1, <3>2
  <2>. QED
    BY <2>1, <2>2, <2>3 DEF NoTask
<1>3. CASE OpenStart
  <2>1. /\ opens = 0 /\ Moves(opens + 1, Place("poll")) /\ UNCHANGED error
        /\ Posts(Task("startRead", 0))
    BY <1>3 DEF OpenStart, OpenedOnce
  <2>2. opens + 1 \in Runners
    BY <2>1, SizesAssumption DEF Runners
  <2>3. /\ "startRead" \in Calls \ Failures /\ 0 \in 0..ReadBufferSize
        /\ Place("poll").call \notin Failures
    BY SizesAssumption DEF Calls, Failures, Place, Task
  <2>4. Queued(Failures)' = {} /\ Running(Failures)' = {}
    BY <2>1, <2>2, <2>3, QueuedPosts, RunningMoves DEF TypeOK, NoTask
  <2>. QED
    BY <2>1, <2>4 DEF NoTask
<1>4. ASSUME NEW call \in {"open", "close"}
      PROVE  ~CloseBegin(call) /\ ~CloseReset(call) /\ ~ClosePort(call)
               /\ ~ClosePortThrows(call)
  BY DEF CloseBegin, CloseReset, ClosePort, ClosePortThrows, OpenedOnce
<1>. QED
  BY <1>1, <1>2, <1>3, <1>4 DEF ClientNext

\* A thread's operations fail only when the device does: it serves an open port.
LEMMA CauseRunner ==
    ASSUME TypeOK, ThreadPerOpen, OpenedOnce, ~error, NoTask(Failures), ~closed,
           NEW i \in Runners, RunnerNext(i), ~faulted'
    PROVE  ~error' /\ NoTask(Failures)'
<1>. USE DEF portVars, ioVars, readVars, writeVars, clientVars, ghostVars
<1>0. /\ serial_open /\ 0 \in 0..ReadBufferSize
      /\ runner[i].call \notin Failures
  BY ServedPortIsOpen, RunnerFrame, SizesAssumption DEF NoTask, Running
<1>1. \A step : Place(step).call = step
  BY DEF Place, Task
<1>2. ASSUME NEW task, Moves(i, task), task.call \notin Failures, UNCHANGED error,
             \/ UNCHANGED ioq
             \/ \E call \in Calls \ Failures, n \in 0..ReadBufferSize :
                   Posts(Task(call, n))
      PROVE  ~error' /\ NoTask(Failures)'
  BY <1>0, <1>2, ChainUntouched DEF TypeOK
<1>3. ASSUME NEW call \in Calls \ Failures, NEW n \in 0..ReadBufferSize,
             Completes(i, Task(call, n)), UNCHANGED error
      PROVE  ~error' /\ NoTask(Failures)'
  <2>1. Task(call, n).call = call
    BY DEF Task
  <2>2. CASE Moves(i, Task(call, n)) /\ UNCHANGED ioq
    BY <1>2, <1>3, <2>1, <2>2
  <2>3. CASE Posts(Task(call, n)) /\ Moves(i, Place("poll"))
    <3>1. Place("poll").call \notin Failures
      BY <1>1 DEF Failures
    <3>. QED
      BY <1>2, <1>3, <2>3, <3>1
  <2>. QED
    BY <1>3, <2>2, <2>3 DEF Completes
<1>4. CASE Pick(i)
  <2>1. NoTask(Failures)'
    <3>1. Failures \in SUBSET Calls
      BY DEF Failures, Calls
    <3>. QED
      BY <1>4, <3>1, ChainPicked DEF TypeOK
  <2>. QED
    BY <1>4, <2>1 DEF Pick
<1>5. CASE Exit(i) \/ EnterReactor(i) \/ LeaveReactor(i)
  <2>1. /\ UNCHANGED <<error, ioq>>
        /\ \E step \in {"exited", "io", "poll"} : Moves(i, Place(step))
    BY <1>5 DEF Exit, EnterReactor, LeaveReactor
  <2>. QED
    BY <1>1, <1>2, <2>1 DEF Failures
<1>6. CASE PerformRead(i)
  <2>1. \E n \in 1..ReadBufferSize : Completes(i, Task("readOk", n))
    BY <1>6 DEF PerformRead
  <2>2. "readOk" \in Calls \ Failures /\ 1..ReadBufferSize \subseteq 0..ReadBufferSize
    BY SizesAssumption DEF Calls, Failures
  <2>. QED
    BY <1>3, <1>6, <2>1, <2>2 DEF PerformRead
<1>7. CASE PerformWrite(i)
  <2>1. Completes(i, Task("writeOk", 0)) \/ UNCHANGED <<runner, ioq>>
    BY <1>7 DEF PerformWrite
  <2>2. "writeOk" \in Calls \ Failures
    BY DEF Calls, Failures
  <2>3. UNCHANGED error
    BY <1>7 DEF PerformWrite
  <2>. QED
    BY <1>0, <1>3, <2>1, <2>2, <2>3 DEF NoTask, Queued, Running
<1>8. ~ReadFault(i) /\ ~WriteFault(i)
  BY DEF ReadFault, WriteFault
<1>9. CASE StartRead(i)
  <2>1. Moves(i, Place("io")) /\ UNCHANGED <<ioq, error>>
    BY <1>0, <1>9 DEF StartRead
  <2>. QED
    BY <1>1, <1>2, <2>1 DEF Failures
<1>10. CASE StartWrite(i)
  <2>1. /\ UNCHANGED error
        /\ \/ Posts(Task("writeOk", 0)) /\ Moves(i, Place("poll"))
           \/ Moves(i, Place("io")) /\ UNCHANGED ioq
    BY <1>0, <1>10 DEF StartWrite
  <2>2. "writeOk" \in Calls \ Failures
    BY DEF Calls, Failures
  <2>3. Place("poll").call \notin Failures /\ Place("io").call \notin Failures
    BY <1>1 DEF Failures
  <2>. QED
    BY <1>0, <1>2, <2>1, <2>2, <2>3
<1>11. CASE FinishRead(i) \/ FinishWrite(i)
  <2>1. /\ UNCHANGED error /\ Moves(i, Place("poll"))
        /\ \/ UNCHANGED ioq
           \/ \E call \in {"startRead", "startWrite"} : Posts(Task(call, 0))
    BY <1>11 DEF FinishRead, FinishWrite
  <2>2. {"startRead", "startWrite"} \subseteq Calls \ Failures
    BY DEF Calls, Failures
  <2>3. Place("poll").call \notin Failures
    BY <1>1 DEF Failures
  <2>. QED
    BY <1>0, <1>2, <2>1, <2>2, <2>3
<1>12. ~FinishFailed(i)
  BY <1>0 DEF FinishFailed, Failures
<1>. QED
  BY <1>4, <1>5, <1>6, <1>7, <1>8, <1>9, <1>10, <1>11, <1>12
     DEF RunnerNext, Reactor, Handler

LEMMA FaultStays == [Next]_vars => (faulted => faulted')
<1>. SUFFICES ASSUME [Next]_vars, faulted PROVE faulted'
  OBVIOUS
<1>. USE DEF portVars, ioVars, readVars, writeVars, clientVars, ghostVars
<1>1. CASE ClientNext
  BY <1>1 DEF ClientNext, WriteCheck, WriteLocked, ReadCheck, ReadLocked,
     CloseBegin, CloseReset, ClosePort, ClosePortThrows, OpenBegin,
     ConfigureThrows, Configure, OpenStart
<1>2. ASSUME NEW i \in Runners, RunnerNext(i) PROVE faulted'
  BY <1>2 DEF RunnerNext, Pick, Exit, Reactor, EnterReactor, LeaveReactor,
     PerformRead, PerformWrite, ReadFault, WriteFault, Handler, StartRead,
     StartWrite, FinishRead, FinishWrite, FinishFailed
<1>3. CASE UNCHANGED vars
  BY <1>3 DEF vars
<1>. QED
  BY <1>1, <1>2, <1>3 DEF Next

\* error is set by a device that failed or by the operations a close() aborted,
\* and by nothing else: not by an operation on a port not open yet, and not by
\* an open() that throws.
THEOREM ErrorHasCauseCorrect == Spec => []ErrorHasCause
<1>1. Init => FailureHasCause
  BY DEF Init, FailureHasCause, SomeTask, Queued, Running, Failures, Place, Task
<1>2. ASSUME TypeOK, ThreadPerOpen, OpenedOnce, FailureHasCause, [Next]_vars
      PROVE  FailureHasCause'
  <2>. SUFFICES ASSUME ~closed', ~faulted' PROVE ~error' /\ NoTask(Failures)'
    BY DEF FailureHasCause, SomeTask, NoTask
  <2>1. ~closed /\ ~faulted
    BY <1>2, HistoryStays, FaultStays
  <2>2. ~error /\ NoTask(Failures)
    BY <1>2, <2>1 DEF FailureHasCause, SomeTask, NoTask
  <2>3. CASE ClientNext
    BY <1>2, <2>1, <2>2, <2>3, CauseClient
  <2>4. ASSUME NEW i \in Runners, RunnerNext(i) PROVE ~error' /\ NoTask(Failures)'
    BY <1>2, <2>1, <2>2, <2>4, CauseRunner
  <2>5. CASE UNCHANGED vars
    BY <2>2, <2>5 DEF vars, ioVars, NoTask, Queued, Running
  <2>. QED
    BY <1>2, <2>3, <2>4, <2>5 DEF Next
<1>3. FailureHasCause => ErrorHasCause
  BY DEF FailureHasCause, ErrorHasCause
<1>. QED
  BY <1>1, <1>2, <1>3, WritePhaseCorrect, PTL DEF Spec
------------------------------------------------------------------------------
(* Counting the tasks of a chain.                                          *)

Unit(task, calls) == IF task.call \in calls THEN 1 ELSE 0

LEMMA FiniteTasks ==
    ASSUME IoType, NEW calls
    PROVE  /\ IsFiniteSet(Queued(calls)) /\ IsFiniteSet(Running(calls))
           /\ Cardinality(Queued(calls)) \in Nat
           /\ Cardinality(Running(calls)) \in Nat
<1>1. Len(ioq) \in Nat /\ MaxOpens \in Nat
  BY LenProperties, SizesAssumption DEF IoType
<1>2. IsFiniteSet(1..Len(ioq)) /\ IsFiniteSet(1..MaxOpens)
  BY <1>1, FS_Interval
<1>3. IsFiniteSet(Queued(calls)) /\ IsFiniteSet(Running(calls))
  BY <1>2, FS_Subset DEF Queued, Running, Runners
<1>. QED
  BY <1>3, FS_CardinalityType

\* A thread that moves on gives up the task it had for the one it moves to.
LEMMA CountMoves ==
    ASSUME IoType, NEW i \in Runners, NEW task, Moves(i, task), NEW calls
    PROVE  Cardinality(Running(calls)') =
             (Cardinality(Running(calls)) - Unit(runner[i], calls)) + Unit(task, calls)
<1>. DEFINE rest == Running(calls) \ {i}
<1>1. IsFiniteSet(Running(calls)) /\ Cardinality(Running(calls)) \in Nat
  BY FiniteTasks
<1>2. /\ IsFiniteSet(rest)
      /\ Cardinality(rest) = IF i \in Running(calls) THEN Cardinality(Running(calls)) - 1
                             ELSE Cardinality(Running(calls))
  BY <1>1, FS_RemoveElement
<1>3. i \in Running(calls) <=> runner[i].call \in calls
  BY DEF Running
<1>4. Cardinality(rest) = Cardinality(Running(calls)) - Unit(runner[i], calls)
  BY <1>1, <1>2, <1>3 DEF Unit
<1>5. Running(calls)' = rest \cup (IF task.call \in calls THEN {i} ELSE {})
  BY RunningMoves
<1>. HIDE DEF rest
<1>6. CASE task.call \in calls
  <2>1. Running(calls)' = rest \cup {i} /\ i \notin rest
    BY <1>5, <1>6 DEF rest
  <2>2. Cardinality(rest \cup {i}) = Cardinality(rest) + 1
    BY <1>2, <2>1, FS_AddElement
  <2>. QED
    BY <1>4, <1>6, <2>1, <2>2 DEF Unit
<1>7. CASE task.call \notin calls
  <2>1. Running(calls)' = rest
    BY <1>5, <1>7
  <2>2. Cardinality(rest) \in Int
    BY <1>2, FS_CardinalityType
  <2>. QED
    BY <1>4, <1>7, <2>1, <2>2 DEF Unit
<1>. QED
  BY <1>6, <1>7

LEMMA CountPosts ==
    ASSUME IoType, NEW call \in Calls, NEW n \in 0..ReadBufferSize,
           Posts(Task(call, n)), NEW calls
    PROVE  Cardinality(Queued(calls)') =
             Cardinality(Queued(calls)) + Unit(Task(call, n), calls)
<1>1. IsFiniteSet(Queued(calls)) /\ Cardinality(Queued(calls)) \in Nat
  BY FiniteTasks
<1>2. Task(call, n).call = call
  BY DEF Task
<1>3. /\ Queued(calls)' = Queued(calls) \cup (IF call \in calls THEN {Len(ioq) + 1} ELSE {})
      /\ Len(ioq) \in Nat
  BY QueuedPosts
<1>4. Len(ioq) + 1 \notin Queued(calls)
  BY <1>3 DEF Queued
<1>5. CASE call \in calls
  <2>1. Cardinality(Queued(calls) \cup {Len(ioq) + 1}) = Cardinality(Queued(calls)) + 1
    BY <1>1, <1>4, FS_AddElement
  <2>. QED
    BY <1>2, <1>3, <1>5, <2>1 DEF Unit
<1>6. CASE call \notin calls
  <2>1. Queued(calls)' = Queued(calls)
    BY <1>3, <1>6
  <2>. QED
    BY <1>1, <1>2, <1>6, <2>1 DEF Unit
<1>. QED
  BY <1>5, <1>6

\* Taking the first handler shifts the others by one place.
LEMMA CountPicked ==
    ASSUME IoType, ioq # <<>>, ioq' = Tail(ioq), NEW calls
    PROVE  Cardinality(Queued(calls)') =
             Cardinality(Queued(calls)) - Unit(Head(ioq), calls)
<1>. DEFINE Q == Queued(calls)
            R == {k \in 1..Len(ioq) - 1 : k + 1 \in Q}
            f == [k \in R |-> k + 1]
<1>1. /\ Len(ioq) \in Nat \ {0} /\ Queued(calls)' = R
      /\ 1 \in Q <=> Head(ioq).call \in calls
  BY QueuedPick
<1>2. Q \subseteq 1..Len(ioq)
  BY DEF Queued
<1>3. IsFiniteSet(Q) /\ Cardinality(Q) \in Nat
  BY FiniteTasks
<1>. HIDE DEF Q
<1>4. f \in Bijection(R, Q \ {1})
  <2>1. \A k \in R : k \in Nat /\ k # 0 /\ k + 1 \in Q
    BY <1>1
  <2>2. f \in [R -> Q \ {1}]
    BY <2>1
  <2>3. \A j, k \in R : f[j] = f[k] => j = k
    BY <2>1
  <2>4. \A y \in Q \ {1} : \E k \in R : f[k] = y
    <3>. SUFFICES ASSUME NEW y \in Q \ {1} PROVE \E k \in R : f[k] = y
      OBVIOUS
    <3>1. y - 1 \in 1..Len(ioq) - 1 /\ (y - 1) + 1 = y
      BY <1>1, <1>2
    <3>2. y - 1 \in R
      BY <3>1
    <3>. QED
      BY <3>1, <3>2
  <2>. QED
    BY <2>2, <2>3, <2>4, Fun_IsBij
<1>5. IsFiniteSet(R)
  <2>1. IsFiniteSet(1..Len(ioq) - 1)
    BY <1>1, FS_Interval
  <2>. QED
    BY <2>1, FS_Subset
<1>6. Cardinality(R) = Cardinality(Q \ {1})
  <2>. HIDE DEF R, f
  <2>. QED
    BY <1>4, <1>5, Fun_ExistsBij, FS_Bijection
<1>7. Cardinality(Q \ {1}) = IF 1 \in Q THEN Cardinality(Q) - 1 ELSE Cardinality(Q)
  BY <1>3, FS_RemoveElement
<1>8. Cardinality(R) = Cardinality(Q) - Unit(Head(ioq), calls)
  <2>. HIDE DEF R
  <2>. QED
    BY <1>1, <1>3, <1>6, <1>7 DEF Unit
<1>. QED
  BY <1>1, <1>8 DEF Q

\* serial.close() turns each read that was pending into a failure.
LEMMA CountAborted ==
    ASSUME IoType, SerialClose, NEW calls, "readFail" \in calls, "writeFail" \notin calls
    PROVE  Cardinality(Queued(calls)') = Cardinality(Queued(calls)) + readOps
<1>. DEFINE m == Len(ioq) + 1
            n == Len(ioq) + readOps
            Q == Queued(calls)
<1>1. PICK e : e = n
  OBVIOUS
<1>2. /\ Len(ioq) \in Nat /\ e \in Nat /\ e >= Len(ioq) /\ Len(writeOps) \in Nat
      /\ Len(ioq') = e + Len(writeOps)
      /\ \A k \in 1..Len(ioq) : k \in 1..Len(ioq') /\ ioq'[k] = ioq[k]
      /\ \A k \in 1..Len(ioq') : k \notin 1..Len(ioq) =>
            ioq'[k].call = (IF k <= e THEN "readFail" ELSE "writeFail")
  BY <1>1, SerialClosePosts
<1>3. readOps \in Nat /\ e = Len(ioq) + readOps
  BY <1>1 DEF IoType
<1>4. Queued(calls)' = Q \cup (m..e)
  <2>1. Q \subseteq Queued(calls)'
    BY <1>2 DEF Queued
  <2>2. ASSUME NEW k \in m..e PROVE k \in Queued(calls)'
    <3>1. k \in 1..Len(ioq') /\ k \notin 1..Len(ioq) /\ k <= e
      BY <1>2, <2>2
    <3>2. ioq'[k].call = "readFail"
      BY <1>2, <3>1
    <3>. QED
      BY <3>1, <3>2 DEF Queued
  <2>3. ASSUME NEW k \in Queued(calls)' PROVE k \in Q \cup (m..e)
    <3>1. k \in 1..Len(ioq') /\ ioq'[k].call \in calls
      BY <2>3 DEF Queued
    <3>2. CASE k \in 1..Len(ioq)
      BY <1>2, <3>1, <3>2 DEF Queued
    <3>3. CASE k \notin 1..Len(ioq)
      <4>1. k <= e
        BY <1>2, <3>1, <3>3
      <4>. QED
        BY <1>2, <3>1, <3>3, <4>1
    <3>. QED
      BY <3>2, <3>3
  <2>. QED
    BY <2>1, <2>2, <2>3
<1>5. IsFiniteSet(m..e) /\ Cardinality(m..e) = readOps
  <2>1. m \in Int /\ e \in Int /\ (IF m > e THEN 0 ELSE e - m + 1) = readOps
    BY <1>2, <1>3
  <2>. HIDE DEF m
  <2>2. IsFiniteSet(m..e) /\ Cardinality(m..e) = IF m > e THEN 0 ELSE e - m + 1
    BY <2>1, FS_Interval
  <2>. QED
    BY <2>1, <2>2
<1>6. Q \cap (m..e) = {}
  BY <1>2 DEF Queued
<1>7. IsFiniteSet(Q) /\ Cardinality(Q) \in Nat
  BY FiniteTasks
<1>8. Cardinality(Q \cup (m..e)) = Cardinality(Q) + readOps
  <2>. HIDE DEF Q, m
  <2>1. Cardinality(Q \cup (m..e)) = Cardinality(Q) + Cardinality(m..e) - Cardinality(Q \cap (m..e))
    BY <1>5, <1>7, FS_Union
  <2>2. Cardinality(Q \cap (m..e)) = 0
    BY <1>6, FS_EmptySet
  <2>. QED
    BY <1>3, <1>5, <1>7, <2>1, <2>2
<1>. QED
  BY <1>4, <1>8
------------------------------------------------------------------------------
(* The reads of the open() calls.                                          *)

ReadTasks == ReadCalls \cup {"readFail"}

\* Which tasks stand for a read of some open(), and which do not.
LEMMA ReadUnits ==
    /\ \A n : /\ Unit(Task("startRead", n), ReadTasks) = 1
              /\ Unit(Task("readOk", n), ReadTasks) = 1
              /\ Unit(Task("readFail", n), ReadTasks) = 1
              /\ Unit(Task("startWrite", n), ReadTasks) = 0
              /\ Unit(Task("writeOk", n), ReadTasks) = 0
              /\ Unit(Task("writeFail", n), ReadTasks) = 0
    /\ Unit(Place("none"), ReadTasks) = 0 /\ Unit(Place("poll"), ReadTasks) = 0
    /\ Unit(Place("io"), ReadTasks) = 0 /\ Unit(Place("exited"), ReadTasks) = 0
BY DEF Unit, Task, Place, ReadTasks, ReadCalls

\* A thread moves on and posts nothing, or posts a task.
LEMMA TokensMoved ==
    ASSUME TypeOK, NEW i \in Runners, NEW task, Moves(i, task), NEW calls
    PROVE  /\ UNCHANGED ioq =>
                Tokens(calls)' =
                  (Tokens(calls) - Unit(runner[i], calls)) + Unit(task, calls)
           /\ \A call \in Calls, n \in 0..ReadBufferSize : Posts(Task(call, n)) =>
                Tokens(calls)' =
                  ((Tokens(calls) - Unit(runner[i], calls)) + Unit(task, calls))
                    + Unit(Task(call, n), calls)
<1>1. /\ Cardinality(Queued(calls)) \in Nat /\ Cardinality(Running(calls)) \in Nat
      /\ Cardinality(Running(calls)') =
           (Cardinality(Running(calls)) - Unit(runner[i], calls)) + Unit(task, calls)
  BY FiniteTasks, CountMoves DEF TypeOK
<1>2. \A t : Unit(t, calls) \in {0, 1}
  BY DEF Unit
<1>3. ASSUME UNCHANGED ioq
      PROVE  Tokens(calls)' =
               (Tokens(calls) - Unit(runner[i], calls)) + Unit(task, calls)
  <2>1. Queued(calls)' = Queued(calls)
    BY <1>3 DEF Queued
  <2>. QED
    BY <1>1, <1>2, <2>1 DEF Tokens
<1>4. ASSUME NEW call \in Calls, NEW n \in 0..ReadBufferSize, Posts(Task(call, n))
      PROVE  Tokens(calls)' =
               ((Tokens(calls) - Unit(runner[i], calls)) + Unit(task, calls))
                 + Unit(Task(call, n), calls)
  <2>1. Cardinality(Queued(calls)') = Cardinality(Queued(calls)) + Unit(Task(call, n), calls)
    BY <1>4, CountPosts DEF TypeOK
  <2>. QED
    BY <1>1, <1>2, <2>1 DEF Tokens
<1>. QED
  BY <1>3, <1>4

LEMMA TokensAreNat == ASSUME TypeOK, NEW calls PROVE Tokens(calls) \in Nat
BY FiniteTasks DEF TypeOK, Tokens

\* A completion reaches its handler's task, whether it is run or queued.
LEMMA TokensCompleted ==
    ASSUME TypeOK, NEW i \in Runners, runner[i] = Place("io"),
           NEW call \in Calls, NEW n \in 0..ReadBufferSize, Completes(i, Task(call, n))
    PROVE  Tokens(ReadTasks)' = Tokens(ReadTasks) + Unit(Task(call, n), ReadTasks)
<1>1. /\ Tokens(ReadTasks) \in Nat
      /\ Unit(runner[i], ReadTasks) = 0 /\ Unit(Place("poll"), ReadTasks) = 0
      /\ Unit(Task(call, n), ReadTasks) \in {0, 1}
  BY TokensAreNat, ReadUnits DEF Unit
<1>2. CASE Moves(i, Task(call, n)) /\ UNCHANGED ioq
  BY <1>1, <1>2, TokensMoved
<1>3. CASE Posts(Task(call, n)) /\ Moves(i, Place("poll"))
  <2>1. Tokens(ReadTasks)' =
          ((Tokens(ReadTasks) - Unit(runner[i], ReadTasks)) + Unit(Place("poll"), ReadTasks))
            + Unit(Task(call, n), ReadTasks)
    BY <1>3, TokensMoved
  <2>. QED
    BY <1>1, <2>1
<1>. QED
  BY <1>2, <1>3 DEF Completes

\* A step that keeps the reads there are.
LEMMA ReadsKeep ==
    ASSUME ReadsCounted, Reads' = Reads, opens' = opens, error => error'
    PROVE  ReadsCounted'
BY DEF ReadsCounted

LEMMA ReadsCountedClient ==
    ASSUME TypeOK, ThreadPerOpen, ReadsCounted, ClientNext
    PROVE  ReadsCounted'
<1>. USE DEF portVars, ioVars, readVars, writeVars, clientVars, ghostVars
<1>0. /\ Tokens(ReadTasks) \in Nat /\ readOps \in Nat /\ opens \in Nat
      /\ Reads = readOps + Tokens(ReadTasks)
      /\ Cardinality(Queued(ReadTasks)) \in Nat /\ Cardinality(Running(ReadTasks)) \in Nat
      /\ 0 \in 0..ReadBufferSize
  BY TokensAreNat, FiniteTasks, SizesAssumption
     DEF Reads, ReadTasks, TypeOK, IoType, ClientType
<1>1. CASE \/ WriteCheck \/ ReadCheck \/ ReadLocked \/ OpenBegin \/ ConfigureThrows
           \/ Configure
           \/ \E call \in {"open", "close"} : CloseBegin(call) \/ CloseReset(call)
  <2>1. UNCHANGED <<error, ioq, runner, readOps, opens>>
    BY <1>1 DEF WriteCheck, ReadCheck, ReadLocked, OpenBegin, ConfigureThrows,
       Configure, CloseBegin, CloseReset
  <2>. QED
    BY <2>1, ReadsKeep DEF Reads, Tokens, Queued, Running
<1>2. CASE WriteLocked
  <2>1. /\ UNCHANGED <<error, runner, readOps, opens>>
        /\ UNCHANGED ioq \/ Posts(Task("startWrite", 0))
    BY <1>2 DEF WriteLocked
  <2>2. Running(ReadTasks)' = Running(ReadTasks)
    BY <2>1 DEF Running
  <2>3. Cardinality(Queued(ReadTasks)') = Cardinality(Queued(ReadTasks))
    <3>1. CASE UNCHANGED ioq
      BY <3>1 DEF Queued
    <3>2. CASE Posts(Task("startWrite", 0))
      <4>1. "startWrite" \in Calls
        BY DEF Calls
      <4>2. Cardinality(Queued(ReadTasks)') =
              Cardinality(Queued(ReadTasks)) + Unit(Task("startWrite", 0), ReadTasks)
        BY <1>0, <3>2, <4>1, CountPosts DEF TypeOK
      <4>. QED
        BY <1>0, <4>2, ReadUnits
    <3>. QED
      BY <2>1, <3>1, <3>2
  <2>4. Tokens(ReadTasks)' = Tokens(ReadTasks)
    BY <2>2, <2>3 DEF Tokens
  <2>. QED
    BY <2>1, <2>4, ReadsKeep DEF Reads, ReadTasks
<1>3. ASSUME NEW call \in {"open", "close"}, ClosePort(call) \/ ClosePortThrows(call)
      PROVE  ReadsCounted'
  <2>1. SerialClose /\ readOps' = 0 /\ UNCHANGED <<error, runner, opens>>
    BY <1>3 DEF ClosePort, ClosePortThrows, SerialClose
  <2>2. "readFail" \in ReadTasks /\ "writeFail" \notin ReadTasks
    BY DEF ReadTasks, ReadCalls
  <2>3. Cardinality(Queued(ReadTasks)') = Cardinality(Queued(ReadTasks)) + readOps
    BY <2>1, <2>2, CountAborted DEF TypeOK
  <2>4. Running(ReadTasks)' = Running(ReadTasks)
    BY <2>1 DEF Running
  <2>5. Tokens(ReadTasks)' = Tokens(ReadTasks) + readOps
    BY <1>0, <2>3, <2>4 DEF Tokens
  <2>6. Reads' = readOps' + Tokens(ReadTasks)'
    BY DEF Reads, ReadTasks
  <2>7. Reads' = Reads
    BY <1>0, <2>1, <2>5, <2>6
  <2>. QED
    BY <2>1, <2>7, ReadsKeep
<1>4. CASE OpenStart
  <2>. DEFINE j == opens + 1
  <2>1. /\ Moves(j, Place("poll")) /\ Posts(Task("startRead", 0))
        /\ opens' = j /\ UNCHANGED <<error, readOps>>
    BY <1>4 DEF OpenStart
  <2>2. j \in Runners /\ j > opens
    BY <1>0, <1>4, SizesAssumption DEF OpenStart, At, Runners, TypeOK, ClientType
  <2>3. runner[j] = Place("none")
    BY <2>2 DEF ThreadPerOpen
  <2>4. "startRead" \in Calls
    BY DEF Calls
  <2>5. Tokens(ReadTasks)' =
          ((Tokens(ReadTasks) - Unit(runner[j], ReadTasks)) + Unit(Place("poll"), ReadTasks))
            + Unit(Task("startRead", 0), ReadTasks)
    <3>. HIDE DEF j
    <3>. QED
      BY <1>0, <2>1, <2>2, <2>4, TokensMoved
  <2>6. Tokens(ReadTasks)' = Tokens(ReadTasks) + 1
    BY <1>0, <2>3, <2>5, ReadUnits
  <2>7. Reads' = Reads + 1
    BY <1>0, <2>1, <2>6 DEF Reads, ReadTasks
  <2>8. Reads \in Nat
    BY <1>0
  <2>. QED
    BY <1>0, <2>1, <2>7, <2>8 DEF ReadsCounted
<1>. QED
  BY <1>1, <1>2, <1>3, <1>4 DEF ClientNext

LEMMA ReadsCountedRunner ==
    ASSUME TypeOK, ReadsCounted, NEW i \in Runners, RunnerNext(i)
    PROVE  ReadsCounted'
<1>. USE DEF portVars, ioVars, readVars, writeVars, clientVars, ghostVars
<1>0. /\ Tokens(ReadTasks) \in Nat /\ readOps \in Nat /\ opens \in Nat
      /\ Reads = readOps + Tokens(ReadTasks) /\ Reads' = readOps' + Tokens(ReadTasks)'
      /\ 0 \in 0..ReadBufferSize /\ opens' = opens
  BY TokensAreNat, SizesAssumption, RunnerFrame
     DEF Reads, ReadTasks, TypeOK, IoType, ClientType
<1>1. ASSUME Tokens(ReadTasks)' = Tokens(ReadTasks), UNCHANGED <<readOps, error>>
      PROVE  ReadsCounted'
  BY <1>0, <1>1, ReadsKeep
<1>2. CASE Pick(i)
  <2>1. /\ runner[i] = Place("poll") /\ ioq # <<>> /\ ioq' = Tail(ioq)
        /\ Moves(i, Head(ioq)) /\ UNCHANGED <<readOps, error>>
    BY <1>2 DEF Pick
  <2>2. /\ Cardinality(Queued(ReadTasks)') =
             Cardinality(Queued(ReadTasks)) - Unit(Head(ioq), ReadTasks)
        /\ Cardinality(Running(ReadTasks)') =
             (Cardinality(Running(ReadTasks)) - Unit(runner[i], ReadTasks))
               + Unit(Head(ioq), ReadTasks)
    BY <2>1, CountPicked, CountMoves DEF TypeOK
  <2>3. /\ Cardinality(Queued(ReadTasks)) \in Nat /\ Cardinality(Running(ReadTasks)) \in Nat
        /\ Unit(Head(ioq), ReadTasks) \in {0, 1} /\ Unit(runner[i], ReadTasks) = 0
    BY <2>1, FiniteTasks, ReadUnits DEF TypeOK, Unit
  <2>4. Tokens(ReadTasks)' = Tokens(ReadTasks)
    BY <2>2, <2>3 DEF Tokens
  <2>. QED
    BY <1>1, <2>1, <2>4
<1>3. CASE Exit(i) \/ EnterReactor(i) \/ LeaveReactor(i)
  <2>1. PICK here \in {"poll", "io"}, there \in {"poll", "io", "exited"} :
           /\ runner[i] = Place(here) /\ Moves(i, Place(there))
           /\ UNCHANGED <<ioq, readOps, error>>
    BY <1>3 DEF Exit, EnterReactor, LeaveReactor
  <2>2. Unit(runner[i], ReadTasks) = 0 /\ Unit(Place(there), ReadTasks) = 0
    BY <2>1, ReadUnits
  <2>3. Tokens(ReadTasks)' = Tokens(ReadTasks)
    BY <1>0, <2>1, <2>2, TokensMoved
  <2>. QED
    BY <1>1, <2>1, <2>3
<1>4. CASE PerformRead(i) \/ ReadFault(i)
  <2>1. PICK call \in {"readOk", "readFail"}, n \in 0..ReadBufferSize :
           Completes(i, Task(call, n))
    BY <1>0, <1>4 DEF PerformRead, ReadFault
  <2>2. /\ runner[i] = Place("io") /\ readOps > 0 /\ readOps' = readOps - 1
        /\ UNCHANGED error
    BY <1>4 DEF PerformRead, ReadFault
  <2>3. Tokens(ReadTasks)' = Tokens(ReadTasks) + 1
    <3>1. call \in Calls /\ Unit(Task(call, n), ReadTasks) = 1
      BY <2>1, ReadUnits DEF Calls
    <3>. QED
      BY <2>1, <2>2, <3>1, TokensCompleted
  <2>4. Reads' = Reads
    BY <1>0, <2>2, <2>3
  <2>. QED
    BY <1>0, <2>2, <2>4, ReadsKeep
<1>5. CASE PerformWrite(i) \/ WriteFault(i)
  <2>1. /\ runner[i] = Place("io") /\ UNCHANGED <<readOps, error>>
        /\ \/ \E call \in {"writeOk", "writeFail"} : Completes(i, Task(call, 0))
           \/ UNCHANGED <<runner, ioq>>
    BY <1>5 DEF PerformWrite, WriteFault
  <2>2. Tokens(ReadTasks)' = Tokens(ReadTasks)
    <3>1. CASE UNCHANGED <<runner, ioq>>
      BY <3>1 DEF Tokens, Queued, Running
    <3>2. ASSUME NEW call \in {"writeOk", "writeFail"}, Completes(i, Task(call, 0))
          PROVE  Tokens(ReadTasks)' = Tokens(ReadTasks)
      <4>1. call \in Calls /\ Unit(Task(call, 0), ReadTasks) = 0
        BY <3>2, ReadUnits DEF Calls
      <4>2. Tokens(ReadTasks)' = Tokens(ReadTasks) + Unit(Task(call, 0), ReadTasks)
        BY <1>0, <2>1, <3>2, <4>1, TokensCompleted
      <4>. QED
        BY <1>0, <4>1, <4>2
    <3>. QED
      BY <2>1, <3>1, <3>2
  <2>. QED
    BY <1>1, <2>1, <2>2
<1>6. ASSUME NEW call \in Calls, runner[i].call \in ReadTasks, UNCHANGED error,
             Posts(Task(call, 0)), Moves(i, Place("poll")),
             Unit(Task(call, 0), ReadTasks) = 1, UNCHANGED readOps
      PROVE  ReadsCounted'
  <2>1. Tokens(ReadTasks)' =
          ((Tokens(ReadTasks) - Unit(runner[i], ReadTasks)) + Unit(Place("poll"), ReadTasks))
            + Unit(Task(call, 0), ReadTasks)
    BY <1>0, <1>6, TokensMoved
  <2>2. Unit(runner[i], ReadTasks) = 1 /\ Unit(Place("poll"), ReadTasks) = 0
    BY <1>6, ReadUnits DEF Unit
  <2>3. Tokens(ReadTasks)' = Tokens(ReadTasks)
    BY <1>0, <1>6, <2>1, <2>2
  <2>. QED
    BY <1>1, <1>6, <2>3
<1>7. CASE StartRead(i)
  <2>1. runner[i].call \in ReadTasks /\ UNCHANGED error
    BY <1>7 DEF StartRead, ReadTasks, ReadCalls
  <2>2. CASE readOps' = readOps + 1 /\ Moves(i, Place("io")) /\ UNCHANGED ioq
    <3>1. Unit(runner[i], ReadTasks) = 1 /\ Unit(Place("io"), ReadTasks) = 0
      BY <2>1, ReadUnits DEF Unit
    <3>2. Tokens(ReadTasks)' =
            (Tokens(ReadTasks) - Unit(runner[i], ReadTasks)) + Unit(Place("io"), ReadTasks)
      BY <2>2, TokensMoved
    <3>3. Reads' = Reads
      BY <1>0, <2>2, <3>1, <3>2
    <3>. QED
      BY <1>0, <2>1, <3>3, ReadsKeep
  <2>3. CASE Posts(Task("readFail", 0)) /\ Moves(i, Place("poll")) /\ UNCHANGED readOps
    <3>1. "readFail" \in Calls /\ Unit(Task("readFail", 0), ReadTasks) = 1
      BY ReadUnits DEF Calls
    <3>. QED
      BY <1>6, <2>1, <2>3, <3>1
  <2>. QED
    BY <1>7, <2>2, <2>3 DEF StartRead
<1>8. CASE FinishRead(i)
  <2>1. /\ runner[i].call \in ReadTasks /\ UNCHANGED <<error, readOps>>
        /\ Posts(Task("startRead", 0)) /\ Moves(i, Place("poll"))
    BY <1>8 DEF FinishRead, ReadTasks, ReadCalls
  <2>2. "startRead" \in Calls /\ Unit(Task("startRead", 0), ReadTasks) = 1
    BY ReadUnits DEF Calls
  <2>. QED
    BY <1>6, <2>1, <2>2
<1>9. CASE StartWrite(i) \/ FinishWrite(i)
  <2>1. PICK there \in {"poll", "io"} :
           /\ Moves(i, Place(there)) /\ UNCHANGED <<readOps, error>>
           /\ runner[i].call \in {"startWrite", "writeOk"}
           /\ \/ UNCHANGED ioq
              \/ \E call \in {"startWrite", "writeOk", "writeFail"} : Posts(Task(call, 0))
    BY <1>9 DEF StartWrite, FinishWrite
  <2>2. Unit(runner[i], ReadTasks) = 0 /\ Unit(Place(there), ReadTasks) = 0
    BY <2>1, ReadUnits DEF Unit, ReadTasks, ReadCalls
  <2>3. Tokens(ReadTasks)' = Tokens(ReadTasks)
    <3>1. CASE UNCHANGED ioq
      BY <1>0, <2>1, <2>2, <3>1, TokensMoved
    <3>2. ASSUME NEW call \in {"startWrite", "writeOk", "writeFail"}, Posts(Task(call, 0))
          PROVE  Tokens(ReadTasks)' = Tokens(ReadTasks)
      <4>1. call \in Calls /\ Unit(Task(call, 0), ReadTasks) = 0
        BY <3>2, ReadUnits DEF Calls
      <4>2. Tokens(ReadTasks)' =
              ((Tokens(ReadTasks) - Unit(runner[i], ReadTasks)) + Unit(Place(there), ReadTasks))
                + Unit(Task(call, 0), ReadTasks)
        BY <1>0, <2>1, <3>2, <4>1, TokensMoved
      <4>. QED
        BY <1>0, <2>2, <4>1, <4>2
    <3>. QED
      BY <2>1, <3>1, <3>2
  <2>. QED
    BY <1>1, <2>1, <2>3
<1>10. CASE FinishFailed(i)
  <2>1. /\ error' = TRUE /\ Moves(i, Place("poll")) /\ UNCHANGED <<ioq, readOps>>
    BY <1>10 DEF FinishFailed
  <2>2. /\ Tokens(ReadTasks)' =
             (Tokens(ReadTasks) - Unit(runner[i], ReadTasks)) + Unit(Place("poll"), ReadTasks)
        /\ Unit(runner[i], ReadTasks) \in {0, 1} /\ Unit(Place("poll"), ReadTasks) = 0
    BY <2>1, TokensMoved, ReadUnits DEF Unit
  <2>3. Reads' <= Reads /\ Reads' \in Int /\ Reads \in Nat /\ Reads <= opens
    BY <1>0, <2>1, <2>2 DEF ReadsCounted
  <2>4. Reads' <= opens'
    BY <1>0, <2>3
  <2>. QED
    BY <2>1, <2>4 DEF ReadsCounted
<1>. QED
  BY <1>2, <1>3, <1>4, <1>5, <1>7, <1>8, <1>9, <1>10 DEF RunnerNext, Reactor, Handler

LEMMA ReadsCountedCorrect == Spec => []ReadsCounted
<1>1. ASSUME Init PROVE ReadsCounted
  <2>1. Queued(ReadTasks) = {} /\ Running(ReadTasks) = {}
    BY <1>1, EmptySeq DEF Init, Queued, Running, ReadTasks, ReadCalls, Place, Task
  <2>2. Tokens(ReadTasks) = 0
    BY <2>1, FS_EmptySet DEF Tokens
  <2>. QED
    BY <1>1, <2>2 DEF Init, ReadsCounted, Reads, ReadTasks
<1>2. ASSUME TypeOK, ThreadPerOpen, ReadsCounted, [Next]_vars PROVE ReadsCounted'
  <2>1. CASE ClientNext
    BY <1>2, <2>1, ReadsCountedClient
  <2>2. ASSUME NEW i \in Runners, RunnerNext(i) PROVE ReadsCounted'
    BY <1>2, <2>2, ReadsCountedRunner
  <2>3. CASE UNCHANGED vars
    BY <1>2, <2>3 DEF vars, ioVars, clientVars, ReadsCounted, Reads, Tokens, Queued,
       Running
  <2>. QED
    BY <1>2, <2>1, <2>2, <2>3 DEF Next
<1>. QED
  BY <1>1, <1>2, WritePhaseCorrect, PTL DEF Spec

\* What goes on of the reads is all of them but the ones that have failed.
LEMMA ReadsSplit ==
    ASSUME TypeOK
    PROVE  /\ Reads = ReadChains + Tokens({"readFail"})
           /\ ReadChains \in Nat /\ Tokens({"readFail"}) \in Nat
<1>. DEFINE A == {"startRead", "readOk"}
            B == {"readFail"}
<1>1. /\ Queued(A) \cup Queued(B) = Queued(ReadTasks) /\ Queued(A) \cap Queued(B) = {}
      /\ Running(A) \cup Running(B) = Running(ReadTasks) /\ Running(A) \cap Running(B) = {}
  BY DEF Queued, Running, ReadTasks, ReadCalls
<1>2. /\ IsFiniteSet(Queued(A)) /\ IsFiniteSet(Queued(B))
      /\ IsFiniteSet(Running(A)) /\ IsFiniteSet(Running(B))
      /\ Cardinality(Queued(A)) \in Nat /\ Cardinality(Queued(B)) \in Nat
      /\ Cardinality(Running(A)) \in Nat /\ Cardinality(Running(B)) \in Nat
  BY FiniteTasks DEF TypeOK
<1>3. Cardinality({}) = 0
  BY FS_EmptySet
<1>4. Cardinality(Queued(ReadTasks)) = Cardinality(Queued(A)) + Cardinality(Queued(B))
  <2>1. Cardinality(Queued(A) \cup Queued(B)) =
          Cardinality(Queued(A)) + Cardinality(Queued(B))
            - Cardinality(Queued(A) \cap Queued(B))
    BY <1>2, FS_Union
  <2>2. Cardinality(Queued(A) \cap Queued(B)) = 0
    BY <1>1, <1>3
  <2>3. Cardinality(Queued(A) \cup Queued(B)) = Cardinality(Queued(ReadTasks))
    BY <1>1
  <2>. HIDE DEF A, B
  <2>. QED
    BY <1>2, <2>1, <2>2, <2>3
<1>5. Cardinality(Running(ReadTasks)) = Cardinality(Running(A)) + Cardinality(Running(B))
  <2>1. Cardinality(Running(A) \cup Running(B)) =
          Cardinality(Running(A)) + Cardinality(Running(B))
            - Cardinality(Running(A) \cap Running(B))
    BY <1>2, FS_Union
  <2>2. Cardinality(Running(A) \cap Running(B)) = 0
    BY <1>1, <1>3
  <2>3. Cardinality(Running(A) \cup Running(B)) = Cardinality(Running(ReadTasks))
    BY <1>1
  <2>. HIDE DEF A, B
  <2>. QED
    BY <1>2, <2>1, <2>2, <2>3
<1>6. readOps \in Nat
  BY DEF TypeOK, IoType
<1>. QED
  BY <1>2, <1>4, <1>5, <1>6 DEF Reads, ReadChains, Tokens, ReadTasks

\* No finishRead, close() or open() multiplies the reads: there are never more
\* of them than open() calls that succeeded.
THEOREM ReadChainsPerOpenCorrect == Spec => []ReadChainsPerOpen
<1>1. ASSUME TypeOK, ReadsCounted PROVE ReadChainsPerOpen
  <2>1. Reads <= opens /\ opens \in Nat
    BY <1>1 DEF ReadsCounted, TypeOK, ClientType
  <2>2. /\ Reads = ReadChains + Tokens({"readFail"})
        /\ ReadChains \in Nat /\ Tokens({"readFail"}) \in Nat
    BY <1>1, ReadsSplit
  <2>. QED
    BY <2>1, <2>2 DEF ReadChainsPerOpen
<1>. QED
  BY <1>1, TypeCorrect, ReadsCountedCorrect, PTL

\* ... and none is lost: until error is set, each open() has the read it
\* started, or the failure that ended it is on its way to set error.
THEOREM ReadsKeptCorrect == Spec => []ReadsKept
<1>1. ASSUME TypeOK, ReadsCounted PROVE ReadsKept
  BY <1>1, ReadsSplit DEF ReadsCounted, ReadsKept
<1>. QED
  BY <1>1, TypeCorrect, ReadsCountedCorrect, PTL
------------------------------------------------------------------------------
(* The class implements the stream.                                        *)

LEMMA FirstPart ==
    ASSUME NEW S, NEW s \in Seq(S), NEW n \in 1..Len(s)
    PROVE  /\ SubSeq(s, 1, n) \in Seq(S) /\ Len(SubSeq(s, 1, n)) = n
           /\ \A k \in 1..n : SubSeq(s, 1, n)[k] = s[k]
<1>1. Len(s) \in Nat /\ n \in Nat /\ 1 <= n
  BY LenProperties
<1>2. \A k \in 1..n : s[k] \in S
  BY <1>1, ElementOfSeq
<1>3. PICK one \in Int : one = 1
  OBVIOUS
<1>4. /\ SubSeq(s, one, n) \in Seq(S)
      /\ Len(SubSeq(s, one, n)) = IF one <= n THEN n - one + 1 ELSE 0
      /\ \A k \in 1..n - one + 1 : SubSeq(s, one, n)[k] = s[one + k - 1]
  <2>1. n \in Int /\ \A k \in one..n : s[k] \in S
    BY <1>1, <1>2, <1>3
  <2>. QED
    BY <2>1, SubSeqProperties
<1>5. one <= n /\ n - one + 1 = n /\ \A k \in 1..n : one + k - 1 = k
  BY <1>1, <1>3
<1>. QED
  BY <1>3, <1>4, <1>5

\* Sending the first bytes of a write in progress sends the next bytes of what
\* was accepted.
LEMMA SendsNext ==
    ASSUME TypeOK, NEW op \in Seq(Byte \cup {Junk}),
           accepted = (wire \o op) \o write_queue, NEW n \in 1..Len(op)
    PROVE  /\ Len(wire) + n \in Len(wire) + 1..Len(accepted)
           /\ wire \o SubSeq(op, 1, n) = SubSeq(accepted, 1, Len(wire) + n)
<1>. DEFINE S == Byte \cup {Junk}
            m == Len(wire) + n
            first == SubSeq(op, 1, n)
            left == wire \o first
            right == SubSeq(accepted, 1, m)
<1>1. wire \in Seq(S) /\ op \in Seq(S) /\ write_queue \in Seq(S)
  BY SeqMonotonic DEF TypeOK, WriteType
<1>. HIDE DEF S
<1>2. Len(wire) \in Nat /\ Len(op) \in Nat /\ Len(write_queue) \in Nat
  BY <1>1, LenProperties
<1>3. /\ wire \o op \in Seq(S) /\ Len(wire \o op) = Len(wire) + Len(op)
      /\ \A k \in 1..Len(wire) + Len(op) :
            (wire \o op)[k] = IF k <= Len(wire) THEN wire[k] ELSE op[k - Len(wire)]
  BY <1>1, ConcatProperties
<1>4. PICK sent : sent = wire \o op
  OBVIOUS
<1>5. sent \in Seq(S) /\ Len(sent) = Len(wire) + Len(op)
  BY <1>3, <1>4
<1>6. /\ sent \o write_queue \in Seq(S)
      /\ Len(sent \o write_queue) = Len(sent) + Len(write_queue)
      /\ \A k \in 1..Len(sent) + Len(write_queue) :
            (sent \o write_queue)[k] =
              IF k <= Len(sent) THEN sent[k] ELSE write_queue[k - Len(sent)]
  <2>1. sent \in Seq(S) /\ write_queue \in Seq(S)
    BY <1>1, <1>5
  <2>. QED
    BY <2>1, ConcatProperties
<1>7. accepted = sent \o write_queue
  BY <1>4
<1>8. /\ accepted \in Seq(S)
      /\ Len(accepted) = (Len(wire) + Len(op)) + Len(write_queue)
      /\ \A k \in 1..Len(wire) + Len(op) :
            accepted[k] = IF k <= Len(wire) THEN wire[k] ELSE op[k - Len(wire)]
  BY <1>2, <1>3, <1>4, <1>5, <1>6, <1>7
<1>9. /\ first \in Seq(S) /\ Len(first) = n
      /\ \A k \in 1..n : first[k] = op[k]
  BY <1>1, FirstPart
<1>10. m \in Nat /\ m \in Len(wire) + 1..Len(accepted) /\ 1 <= m
  BY <1>2, <1>8
<1>. HIDE DEF first
<1>11. /\ left \in Seq(S) /\ Len(left) = m
       /\ \A k \in 1..m : left[k] = IF k <= Len(wire) THEN wire[k]
                                    ELSE first[k - Len(wire)]
  <2>1. wire \in Seq(S) /\ first \in Seq(S) /\ Len(first) = n
    BY <1>1, <1>9
  <2>2. /\ wire \o first \in Seq(S) /\ Len(wire \o first) = Len(wire) + Len(first)
        /\ \A k \in 1..Len(wire) + Len(first) :
              (wire \o first)[k] = IF k <= Len(wire) THEN wire[k]
                                   ELSE first[k - Len(wire)]
    BY <2>1, ConcatProperties
  <2>. QED
    BY <2>1, <2>2
<1>12. /\ right \in Seq(S) /\ Len(right) = m
       /\ \A k \in 1..m : right[k] = accepted[k]
  <2>1. accepted \in Seq(S) /\ m \in 1..Len(accepted)
    BY <1>2, <1>8, <1>10
  <2>. HIDE DEF m
  <2>. QED
    BY <2>1, FirstPart
<1>13. \A k \in 1..m : left[k] = right[k]
  <2>. SUFFICES ASSUME NEW k \in 1..m PROVE left[k] = right[k]
    OBVIOUS
  <2>1. k \in 1..Len(wire) + Len(op)
    BY <1>2
  <2>2. accepted[k] = IF k <= Len(wire) THEN wire[k] ELSE op[k - Len(wire)]
    BY <1>8, <2>1
  <2>3. CASE k <= Len(wire)
    <3>. HIDE DEF left, right, m
    <3>. QED
      BY <1>11, <1>12, <2>2, <2>3
  <2>4. CASE ~(k <= Len(wire))
    <3>1. k - Len(wire) \in 1..n
      BY <1>2, <2>4
    <3>2. first[k - Len(wire)] = op[k - Len(wire)]
      BY <1>9, <3>1
    <3>. HIDE DEF left, right, m
    <3>. QED
      BY <1>11, <1>12, <2>2, <2>4, <3>2
  <2>. QED
    BY <2>3, <2>4
<1>14. left = right
  <2>. HIDE DEF left, right, m
  <2>. QED
    BY <1>11, <1>12, <1>13, SeqEqual
<1>. QED
  BY <1>10, <1>14

\* The line readStringUntil() finds in read_queue is the device's next one.
LEMMA TakesNextLine ==
    ASSUME TypeOK, ReadFifo, ReadPhase, ~closed, ~torn, ~closed', ~torn',
           NEW p \in FirstHit(read_queue, Delim),
           taken' = taken + CutLength(p, Delim), UNCHANGED <<accepted, wire, pos>>
    PROVE  Stream!TakeLine
<1>. DEFINE d == Len(Delim)
            at == taken + p
<1>1. /\ d \in Nat /\ Len(read_queue) \in Nat /\ taken \in Nat /\ pos \in Nat
      /\ taken + Len(read_queue) <= pos
  BY DataAssumption, LenProperties DEF TypeOK, ReadType, ReadFifo
<1>2. /\ p \in 1..Len(read_queue) - d /\ StandsAt(read_queue, Delim, p)
      /\ \A q \in Hits(read_queue, Delim) : p <= q
  BY DEF FirstHit, Hits, Visited
<1>3. \A k \in 1..Len(read_queue) : read_queue[k] = DeviceOut[taken + k]
  BY DEF ReadPhase
<1>4. ASSUME NEW q \in 1..Len(read_queue) - d
      PROVE  StandsAt(read_queue, Delim, q) <=> Stream!StandsAt(DeviceOut, Delim, taken + q)
  <2>1. ASSUME NEW i \in 1..d
        PROVE  read_queue[q + i - 1] = DeviceOut[(taken + q) + i - 1]
    <3>1. q + i - 1 \in 1..Len(read_queue) /\ taken + (q + i - 1) = (taken + q) + i - 1
      BY <1>1, <2>1
    <3>. QED
      BY <1>3, <3>1
  <2>. QED
    BY <2>1 DEF StandsAt, Stream!StandsAt
<1>5. at \in taken + 1..pos /\ at + d - 1 <= pos
  BY <1>1, <1>2
<1>6. Stream!StandsAt(DeviceOut, Delim, at)
  BY <1>2, <1>4
<1>7. ASSUME NEW q \in taken + 1..at - 1 PROVE ~Stream!StandsAt(DeviceOut, Delim, q)
  <2>1. /\ q - taken \in 1..Len(read_queue) - d /\ taken + (q - taken) = q
        /\ ~(p <= q - taken)
    BY <1>1, <1>2, <1>7
  <2>2. q - taken \notin Hits(read_queue, Delim)
    BY <1>2, <2>1
  <2>3. ~StandsAt(read_queue, Delim, q - taken)
    BY <2>1, <2>2 DEF Hits, Visited
  <2>. QED
    BY <1>4, <2>1, <2>3
<1>8. taken' = at + d - 1
  BY <1>1, <1>2 DEF CutLength
<1>. HIDE DEF at, d
<1>. QED
  BY <1>5, <1>6, <1>7, <1>8 DEF Stream!TakeLine, d

LEMMA StreamStutters ==
    ASSUME UNCHANGED <<accepted, wire, pos, taken, closed, torn>>
    PROVE  [Stream!Next]_(Stream!vars)
BY DEF Stream!vars

\* The client's steps: write() accepts, readStringUntil() takes a line, close()
\* and a write() of no bytes take the stream down.
LEMMA StreamClient ==
    ASSUME TypeOK, OpenedOnce, ReadFifo, ReadPhase, ~closed, ~torn, ClientNext
    PROVE  [Stream!Next]_(Stream!vars)
<1>. USE DEF portVars, ioVars, readVars, writeVars, clientVars, ghostVars
<1>1. CASE WriteCheck \/ ReadCheck \/ OpenBegin \/ ConfigureThrows \/ Configure \/ OpenStart
  <2>1. UNCHANGED <<accepted, wire, pos, taken, closed, torn>>
    BY <1>1 DEF WriteCheck, ReadCheck, OpenBegin, ConfigureThrows, Configure, OpenStart
  <2>. QED
    BY <2>1, StreamStutters
<1>2. CASE WriteLocked
  <2>. DEFINE data == Outgoing[written + 1]
  <2>1. /\ accepted' = accepted \o data /\ UNCHANGED <<wire, pos, taken, closed>>
        /\ torn' = (torn \/ (write_buffer = <<>> /\ data = <<>>))
    BY <1>2 DEF WriteLocked
  <2>2. written + 1 \in 1..Len(Outgoing)
    <3>1. client.call = "write" /\ written \in Nat /\ Len(Outgoing) \in Nat
      BY <1>2, DataAssumption, LenProperties DEF WriteLocked, At, TypeOK, WriteType
    <3>2. written < Len(Outgoing)
      BY <3>1 DEF TypeOK, ClientType
    <3>. QED
      BY <3>1, <3>2
  <2>. HIDE DEF data
  <2>3. CASE torn'
    <3>1. data = <<>> /\ accepted \in Seq(Byte)
      BY <2>1, <2>3 DEF TypeOK, WriteType
    <3>2. accepted' = accepted
      BY <2>1, <3>1, ConcatEmptySeq
    <3>3. Stream!GoDown
      BY <2>1, <2>3, <3>2 DEF Stream!GoDown
    <3>. QED
      BY <3>3 DEF Stream!Next
  <2>4. CASE ~torn'
    <3>1. data \in {Outgoing[k] : k \in 1..Len(Outgoing)}
      BY <2>2 DEF data
    <3>2. Stream!Accept
      BY <2>1, <2>4, <3>1 DEF Stream!Accept
    <3>. QED
      BY <3>2 DEF Stream!Next
  <2>. QED
    BY <2>3, <2>4
<1>3. CASE ReadLocked
  <2>1. UNCHANGED <<accepted, wire, pos, closed, torn>>
    BY <1>3 DEF ReadLocked
  <2>2. ASSUME NEW p \in FirstHit(read_queue, Delim), taken' = taken + CutLength(p, Delim)
        PROVE  [Stream!Next]_(Stream!vars)
    <3>1. Stream!TakeLine
      BY <2>1, <2>2, TakesNextLine
    <3>. QED
      BY <3>1 DEF Stream!Next
  <2>3. CASE UNCHANGED taken
    BY <2>1, <2>3, StreamStutters
  <2>. QED
    BY <1>3, <2>2, <2>3 DEF ReadLocked
<1>4. ASSUME NEW call \in {"open", "close"}, CloseBegin(call)
      PROVE  [Stream!Next]_(Stream!vars)
  <2>1. UNCHANGED <<accepted, wire, pos, taken, torn>> /\ closed'
    BY <1>4 DEF CloseBegin
  <2>2. Stream!GoDown
    BY <2>1 DEF Stream!GoDown
  <2>. QED
    BY <2>2 DEF Stream!Next
<1>5. ASSUME NEW call \in {"open", "close"}
      PROVE  ~CloseReset(call) /\ ~ClosePort(call) /\ ~ClosePortThrows(call)
  BY DEF CloseReset, ClosePort, ClosePortThrows, OpenedOnce, Idle, At
<1>. QED
  BY <1>1, <1>2, <1>3, <1>4, <1>5 DEF ClientNext

\* The threads' steps: a completed read receives, a write in progress sends, and
\* what the handlers do between the two is not seen.
LEMMA StreamRunner ==
    ASSUME TypeOK, WritePhase, ~closed, ~torn, NEW i \in Runners, RunnerNext(i)
    PROVE  [Stream!Next]_(Stream!vars)
<1>. USE DEF portVars, ioVars, readVars, writeVars, clientVars, ghostVars
<1>1. UNCHANGED <<closed, torn, accepted>>
  BY RunnerFrame
<1>2. CASE PerformRead(i)
  <2>1. PICK n \in 1..ReadBufferSize : pos + n <= Len(DeviceOut) /\ pos' = pos + n
    BY <1>2 DEF PerformRead
  <2>2. pos \in Nat /\ Len(DeviceOut) \in Nat /\ n \in Nat \ {0}
    BY DataAssumption, SizesAssumption, LenProperties DEF TypeOK, ReadType
  <2>3. pos' \in pos + 1..Len(DeviceOut)
    BY <2>1, <2>2
  <2>4. UNCHANGED <<wire, taken>>
    BY <1>2 DEF PerformRead
  <2>5. Stream!Receive
    BY <1>1, <2>3, <2>4 DEF Stream!Receive
  <2>. QED
    BY <2>5 DEF Stream!Next
<1>3. CASE PerformWrite(i)
  <2>. DEFINE op == Head(writeOps)
  <2>1. PICK n \in 1..Len(op) : wire' = wire \o SubSeq(op, 1, n)
    BY <1>3 DEF PerformWrite
  <2>2. writeOps # <<>> /\ UNCHANGED <<pos, taken>>
    BY <1>3 DEF PerformWrite
  <2>3. WriteInFlight
    BY <2>2 DEF WritePhase, WriteIdle, WritePosted, WriteDone, WriteFailed
  <2>4. op \in Seq(Byte \cup {Junk}) /\ op = writeOps[1]
    BY <2>2, HeadTailProperties DEF TypeOK, IoType
  <2>5. accepted = (wire \o op) \o write_queue
    BY <2>3, <2>4 DEF WriteInFlight
  <2>. HIDE DEF op
  <2>6. /\ Len(wire) + n \in Len(wire) + 1..Len(accepted)
        /\ wire' = SubSeq(accepted, 1, Len(wire) + n)
    BY <2>1, <2>4, <2>5, SendsNext
  <2>7. Stream!Send
    BY <1>1, <2>2, <2>6 DEF Stream!Send
  <2>. QED
    BY <2>7 DEF Stream!Next
<1>4. CASE \/ Pick(i) \/ Exit(i) \/ EnterReactor(i) \/ LeaveReactor(i) \/ ReadFault(i)
           \/ WriteFault(i) \/ Handler(i)
  <2>1. UNCHANGED <<wire, pos, taken>>
    BY <1>4 DEF Pick, Exit, EnterReactor, LeaveReactor, ReadFault, WriteFault,
       Handler, StartRead, StartWrite, FinishRead, FinishWrite, FinishFailed
  <2>. QED
    BY <1>1, <2>1, StreamStutters
<1>. QED
  BY <1>2, <1>3, <1>4 DEF RunnerNext, Reactor

\* Whatever the threads, buffers and handlers do, and whatever the client calls,
\* the port is seen to accept, send, receive and hand out lines as ByteStream
\* has it, until a close() or a write() of no bytes takes the stream down.
THEOREM ImplementsStreamCorrect == Spec => ImplementsStream
<1>1. Init => Stream!Init
  BY DEF Init, Stream!Init
<1>2. ASSUME TypeOK, OpenedOnce, WritePhase, ReadPhase, ReadFifo, [Next]_vars
      PROVE  [Stream!Next]_(Stream!vars)
  <2>1. CASE closed \/ torn
    <3>1. closed' \/ torn'
      BY <1>2, <2>1, HistoryStays
    <3>. QED
      BY <2>1, <3>1 DEF Stream!Next, Stream!Down
  <2>2. CASE ~closed /\ ~torn
    <3>1. CASE ClientNext
      BY <1>2, <2>2, <3>1, StreamClient
    <3>2. ASSUME NEW i \in Runners, RunnerNext(i) PROVE [Stream!Next]_(Stream!vars)
      BY <1>2, <2>2, <3>2, StreamRunner
    <3>3. CASE UNCHANGED vars
      BY <3>3, StreamStutters DEF vars, readVars, writeVars, ghostVars
    <3>. QED
      BY <1>2, <3>1, <3>2, <3>3 DEF Next
  <2>. QED
    BY <2>1, <2>2
<1>. QED
  BY <1>1, <1>2, WritePhaseCorrect, ReadPhaseCorrect, ReadFifoCorrect, PTL
     DEF Spec, ImplementsStream, Stream!Spec
==============================================================================
