---------------------------- MODULE StartupProofs ----------------------------
(***************************************************************************)
(* What a start of the daemon leaves on the database, proved for any       *)
(* number of daemons and groups.                                           *)
(***************************************************************************)
EXTENDS Startup, TLAPS

\* The texts are one for each table.
LEMMA Texts ==
    /\ Len(list_creates) = 10
    /\ \A k \in 1..10 : list_creates[k] \in Tables
    /\ \A t \in Tables : \E k \in 1..10 : list_creates[k] = t
<1>1. Tables = {"authority", "devices", "groups", "lcd", "logs", "measurements",
                "net_addresses", "runs", "sessions", "users"}
  BY DEF Tables, Table
<1>2. /\ Len(list_creates) = 10
      /\ list_creates[1] = "authority" /\ list_creates[2] = "devices"
      /\ list_creates[3] = "groups" /\ list_creates[4] = "lcd"
      /\ list_creates[5] = "logs" /\ list_creates[6] = "measurements"
      /\ list_creates[7] = "net_addresses" /\ list_creates[8] = "runs"
      /\ list_creates[9] = "sessions" /\ list_creates[10] = "users"
  BY DEF list_creates
<1>3. \A k \in 1..10 : k \in {1, 2, 3, 4, 5, 6, 7, 8, 9, 10}
  OBVIOUS
<1>4. \A k \in 1..10 : list_creates[k] \in Tables
  BY <1>1, <1>2, <1>3
<1>5. \A t \in Tables : \E k \in 1..10 : list_creates[k] = t
  BY <1>1, <1>2
<1> QED
  BY <1>2, <1>4, <1>5

\* A database that looks at the columns of keys or at references does not take
\* the first text when it has no tables.
LEMMA FirstRefused ==
    ASSUME tables = {}, rules \cap {"columns", "references"} # {}
    PROVE  ~Admits(list_creates[1])
<1>1. list_creates[1] = "authority"
  BY DEF list_creates
<1>2. Table["authority"] = Authority
  BY DEF Table
<1>3. "net_address" \in Authority.keys /\ "net_address" \notin Authority.columns
      /\ "users" \in Authority.refers
  BY DEF Authority
<1> QED
  BY <1>1, <1>2, <1>3 DEF Admits
------------------------------------------------------------------------------
(* The inductive invariant: how far a daemon is, in what it has created    *)
(* and which rows it can count on.                                         *)

Beyond == (Running \ {"create"}) \cup {"returned"}

CreatedSoFar ==
    \A d \in Daemon :
        /\ pc[d] = "create" => /\ next[d] \in 1..10
                               /\ \A k \in 1..next[d] - 1 : list_creates[k] \in tables
        /\ pc[d] \in Beyond => tables = Tables

RowsKept ==
    /\ \A g \in Group : rows[g] \in {0, 1}
    /\ \A d \in Daemon :
         /\ pc[d] = "spawn" => rows[group[d]] = 1
         /\ pc[d] = "row" /\ found[d] => rows[group[d]] = 1
         /\ \A g \in started[d] : rows[g] = 1
         /\ pc[d] = "returned" => seen[d] = started[d]

Alone ==
    \A d \in Daemon :
        undisturbed[d] =>
            /\ pc[d] \in Running => \A e \in Daemon \ {d} : pc[e] \notin Running
            /\ pc[d] = "row" /\ ~found[d] => rows[group[d]] = 0
            /\ rules = {} => pc[d] # "failed"

Strict == ~made /\ rules \cap {"columns", "references"} # {}

StrictStarts ==
    /\ "lengths" \in rules => \A d \in Daemon : started[d] = {} /\ pc[d] # "spawn"
    /\ Strict =>
         /\ tables = {}
         /\ \A d \in Daemon : /\ started[d] = {} /\ next[d] = 1
                              /\ pc[d] \in {"none", "create", "failed", "killed"}

IInv == TypeOK /\ CreatedSoFar /\ RowsKept /\ Alone /\ StrictStarts
------------------------------------------------------------------------------
(* Each part of it is kept by every step.                                  *)

\* A step keeps the types; a statement of list_creates is followed by the next.
LEMMA TypeKept == TypeOK /\ CreatedSoFar /\ [Next]_vars => TypeOK'
<1> SUFFICES ASSUME TypeOK, CreatedSoFar, [Next]_vars PROVE TypeOK'
  OBVIOUS
<1> USE Texts
<1>1. ASSUME NEW d \in Daemon, Start(d) PROVE TypeOK'
  <2>1. pc' \in [Daemon -> Running \cup {"none", "returned", "failed", "killed"}]
    BY <1>1 DEF Start, TypeOK, Running
  <2>2. next' \in [Daemon -> 1..Len(list_creates) + 1]
    BY <1>1 DEF Start, TypeOK
  <2>3. /\ started' \in [Daemon -> SUBSET Group] /\ seen' \in [Daemon -> SUBSET Group]
        /\ found' \in [Daemon -> BOOLEAN]
    BY <1>1 DEF Start, TypeOK
  <2>4. undisturbed' \in [Daemon -> BOOLEAN]
    BY <1>1 DEF Start, TypeOK
  <2> QED
    BY <1>1, <2>1, <2>2, <2>3, <2>4 DEF Start, TypeOK, database
<1>2. ASSUME NEW d \in Daemon, Create(d) PROVE TypeOK'
  BY <1>2
     DEF Create, TypeOK, Running, database, daemon, CreatedSoFar
<1>3. ASSUME NEW d \in Daemon, CreateThrows(d) PROVE TypeOK'
  BY <1>3
     DEF CreateThrows, TypeOK, Running, database, daemon, Goes
<1>4. ASSUME NEW d \in Daemon, SelectGroups(d) PROVE TypeOK'
  BY <1>4
     DEF SelectGroups, TypeOK, Running, database, daemon, Goes
<1>5. ASSUME NEW d \in Daemon, SelectLines(d) PROVE TypeOK'
  BY <1>5
     DEF SelectLines, TypeOK, Running, database, daemon, Goes
<1>6. ASSUME NEW d \in Daemon, InsertLine(d) PROVE TypeOK'
  BY <1>6
     DEF InsertLine, TypeOK, Running, database, daemon, Goes
<1>7. ASSUME NEW d \in Daemon, UpdateLine(d) PROVE TypeOK'
  BY <1>7
     DEF UpdateLine, TypeOK, Running, database, daemon, Goes
<1>8. ASSUME NEW d \in Daemon, WriteThrows(d) PROVE TypeOK'
  BY <1>8
     DEF WriteThrows, TypeOK, Running, database, daemon, Goes
<1>9. ASSUME NEW d \in Daemon, Spawn(d) PROVE TypeOK'
  BY <1>9
     DEF Spawn, TypeOK, Running, database, daemon, Goes
<1>10. ASSUME NEW d \in Daemon, MainReturns(d) PROVE TypeOK'
  BY <1>10
     DEF MainReturns, TypeOK, Running, database, daemon, Goes
<1>11. ASSUME NEW d \in Daemon, Breaks(d) PROVE TypeOK'
  BY <1>11
     DEF Breaks, TypeOK, Running, database, daemon
<1>12. ASSUME NEW d \in Daemon, Killed(d) PROVE TypeOK'
  BY <1>12
     DEF Killed, TypeOK, Running, database, daemon
<1>13. ASSUME NEW g \in Group \ groups, AddGroup(g) PROVE TypeOK'
  BY <1>13
     DEF AddGroup, TypeOK, Running, database, daemon
<1>14. CASE UNCHANGED vars
  BY <1>14
     DEF TypeOK, Running, database, daemon, vars
<1> QED
  BY <1>1, <1>2, <1>3, <1>4, <1>5, <1>6, <1>7, <1>8,
     <1>9, <1>10, <1>11, <1>12, <1>13, <1>14 DEF Next, Main

\* A daemon is past init_tables only when every table is there: tables are never
\* dropped, and it has gone through all the texts.
LEMMA CreatedKept == IInv /\ [Next]_vars => CreatedSoFar'
<1> SUFFICES ASSUME TypeOK, CreatedSoFar, [Next]_vars PROVE CreatedSoFar'
  BY DEF IInv
<1> USE Texts
<1>1. ASSUME NEW d \in Daemon, Start(d) PROVE CreatedSoFar'
  BY <1>1
     DEF Start, CreatedSoFar, Beyond, TypeOK, Running, database, daemon
<1>2. ASSUME NEW d \in Daemon, Create(d) PROVE CreatedSoFar'
  BY <1>2
     DEF Create, CreatedSoFar, Beyond, TypeOK, Running, database, daemon
<1>3. ASSUME NEW d \in Daemon, CreateThrows(d) PROVE CreatedSoFar'
  BY <1>3
     DEF CreateThrows, CreatedSoFar, Beyond, TypeOK, Running, database, daemon, Goes
<1>4. ASSUME NEW d \in Daemon, SelectGroups(d) PROVE CreatedSoFar'
  BY <1>4
     DEF SelectGroups, CreatedSoFar, Beyond, TypeOK, Running, database, daemon, Goes
<1>5. ASSUME NEW d \in Daemon, SelectLines(d) PROVE CreatedSoFar'
  BY <1>5
     DEF SelectLines, CreatedSoFar, Beyond, TypeOK, Running, database, daemon, Goes
<1>6. ASSUME NEW d \in Daemon, InsertLine(d) PROVE CreatedSoFar'
  BY <1>6
     DEF InsertLine, CreatedSoFar, Beyond, TypeOK, Running, database, daemon, Goes
<1>7. ASSUME NEW d \in Daemon, UpdateLine(d) PROVE CreatedSoFar'
  BY <1>7
     DEF UpdateLine, CreatedSoFar, Beyond, TypeOK, Running, database, daemon, Goes
<1>8. ASSUME NEW d \in Daemon, WriteThrows(d) PROVE CreatedSoFar'
  BY <1>8
     DEF WriteThrows, CreatedSoFar, Beyond, TypeOK, Running, database, daemon, Goes
<1>9. ASSUME NEW d \in Daemon, Spawn(d) PROVE CreatedSoFar'
  BY <1>9
     DEF Spawn, CreatedSoFar, Beyond, TypeOK, Running, database, daemon, Goes
<1>10. ASSUME NEW d \in Daemon, MainReturns(d) PROVE CreatedSoFar'
  BY <1>10
     DEF MainReturns, CreatedSoFar, Beyond, TypeOK, Running, database, daemon, Goes
<1>11. ASSUME NEW d \in Daemon, Breaks(d) PROVE CreatedSoFar'
  BY <1>11
     DEF Breaks, CreatedSoFar, Beyond, TypeOK, Running, database, daemon
<1>12. ASSUME NEW d \in Daemon, Killed(d) PROVE CreatedSoFar'
  BY <1>12
     DEF Killed, CreatedSoFar, Beyond, TypeOK, Running, database, daemon
<1>13. ASSUME NEW g \in Group \ groups, AddGroup(g) PROVE CreatedSoFar'
  BY <1>13
     DEF AddGroup, CreatedSoFar, Beyond, TypeOK, Running, database, daemon
<1>14. CASE UNCHANGED vars
  BY <1>14
     DEF CreatedSoFar, Beyond, TypeOK, Running, database, daemon, vars
<1> QED
  BY <1>1, <1>2, <1>3, <1>4, <1>5, <1>6, <1>7, <1>8,
     <1>9, <1>10, <1>11, <1>12, <1>13, <1>14 DEF Next, Main

\* Rows are inserted only where there is none, so that what a daemon has looked up
\* or inserted stays, whatever another does between its two statements.
LEMMA RowsStep == IInv /\ [Next]_vars => RowsKept'
<1> SUFFICES ASSUME TypeOK, RowsKept, [Next]_vars PROVE RowsKept'
  BY DEF IInv
<1>1. ASSUME NEW d \in Daemon, Start(d) PROVE RowsKept'
  BY <1>1
     DEF Start, RowsKept, TypeOK, database, daemon
<1>2. ASSUME NEW d \in Daemon, Create(d) PROVE RowsKept'
  BY <1>2
     DEF Create, RowsKept, TypeOK, database, daemon
<1>3. ASSUME NEW d \in Daemon, CreateThrows(d) PROVE RowsKept'
  BY <1>3
     DEF CreateThrows, RowsKept, TypeOK, database, daemon, Goes
<1>4. ASSUME NEW d \in Daemon, SelectGroups(d) PROVE RowsKept'
  BY <1>4
     DEF SelectGroups, RowsKept, TypeOK, database, daemon, Goes
<1>5. ASSUME NEW d \in Daemon, SelectLines(d) PROVE RowsKept'
  <2>1. PICK g \in Group : /\ group' = [group EXCEPT ![d] = g]
                           /\ found' = [found EXCEPT ![d] = rows[g] > 0]
    BY <1>5 DEF SelectLines, TypeOK
  <2>2. found'[d] => rows[group'[d]] = 1
    <3>1. group'[d] = g /\ found'[d] = (rows[g] > 0)
      BY <2>1 DEF TypeOK
    <3>2. rows[g] = 0 \/ rows[g] = 1
      BY DEF RowsKept
    <3>3. rows[g] = 0 => (rows[g] > 0) = FALSE
      OBVIOUS
    <3>4. rows[g] = 0 => ~found'[d]
      BY <3>1, <3>3, Zenon
    <3>5. rows[group'[d]] = rows[g]
      BY <3>1
    <3> QED
      BY <3>2, <3>4, <3>5, Zenon
  <2>3. /\ rows' = rows /\ started' = started /\ seen' = seen
        /\ pc' = [pc EXCEPT ![d] = "row"]
        /\ \A e \in Daemon \ {d} : group'[e] = group[e] /\ found'[e] = found[e]
    BY <1>5, <2>1 DEF SelectLines, Goes, database, TypeOK
  <2> QED
    BY <2>2, <2>3 DEF RowsKept, TypeOK
<1>6. ASSUME NEW d \in Daemon, InsertLine(d) PROVE RowsKept'
  BY <1>6
     DEF InsertLine, RowsKept, TypeOK, database, daemon, Goes, Unique
<1>7. ASSUME NEW d \in Daemon, UpdateLine(d) PROVE RowsKept'
  BY <1>7
     DEF UpdateLine, RowsKept, TypeOK, database, daemon, Goes
<1>8. ASSUME NEW d \in Daemon, WriteThrows(d) PROVE RowsKept'
  BY <1>8
     DEF WriteThrows, RowsKept, TypeOK, database, daemon, Goes
<1>9. ASSUME NEW d \in Daemon, Spawn(d) PROVE RowsKept'
  BY <1>9
     DEF Spawn, RowsKept, TypeOK, database, daemon, Goes
<1>10. ASSUME NEW d \in Daemon, MainReturns(d) PROVE RowsKept'
  BY <1>10
     DEF MainReturns, RowsKept, TypeOK, database, daemon, Goes
<1>11. ASSUME NEW d \in Daemon, Breaks(d) PROVE RowsKept'
  BY <1>11
     DEF Breaks, RowsKept, TypeOK, database, daemon
<1>12. ASSUME NEW d \in Daemon, Killed(d) PROVE RowsKept'
  BY <1>12
     DEF Killed, RowsKept, TypeOK, database, daemon
<1>13. ASSUME NEW g \in Group \ groups, AddGroup(g) PROVE RowsKept'
  BY <1>13
     DEF AddGroup, RowsKept, TypeOK, database, daemon
<1>14. CASE UNCHANGED vars
  BY <1>14
     DEF RowsKept, TypeOK, database, daemon, vars
<1> QED
  BY <1>1, <1>2, <1>3, <1>4, <1>5, <1>6, <1>7, <1>8,
     <1>9, <1>10, <1>11, <1>12, <1>13, <1>14 DEF Next, Main

\* Nothing but another daemon or the database makes a daemon fail.
LEMMA AloneKept == IInv /\ [Next]_vars => Alone'
<1> SUFFICES ASSUME TypeOK, CreatedSoFar, Alone, RowsKept, [Next]_vars PROVE Alone'
  BY DEF IInv
<1>1. ASSUME NEW d \in Daemon, Start(d) PROVE Alone'
  <2> DEFINE others == {e \in Daemon \ {d} : pc[e] \in Running}
  <2>1. \A e \in Daemon : undisturbed'[e] => IF e = d THEN others = {}
                                              ELSE e \notin others /\ undisturbed[e]
    BY <1>1 DEF Start
  <2>2. /\ pc'[d] = "create" /\ \A e \in Daemon \ {d} : pc'[e] = pc[e] /\ found'[e] = found[e]
        /\ rows' = rows /\ group' = group /\ rules' = rules
    BY <1>1 DEF Start, TypeOK, database
  <2> HIDE DEF others
  <2>3. ASSUME NEW e \in Daemon \ {d}, undisturbed'[e]
        PROVE  undisturbed[e] /\ pc'[e] \notin Running
    BY <2>1, <2>2, <2>3 DEF others
  <2>4. undisturbed'[d] => \A e \in Daemon \ {d} : pc'[e] \notin Running
    BY <2>1, <2>2 DEF others
  <2> QED
    BY <2>2, <2>3, <2>4 DEF Alone, Running
<1>2. ASSUME NEW d \in Daemon, Create(d) PROVE Alone'
  BY <1>2
     DEF Create, Alone, RowsKept, TypeOK, Running, database, daemon
<1>3. ASSUME NEW d \in Daemon, CreateThrows(d) PROVE Alone'
  BY <1>3
     DEF CreateThrows, Alone, RowsKept, TypeOK, Running, database, daemon, Goes, Admits
<1>4. ASSUME NEW d \in Daemon, SelectGroups(d) PROVE Alone'
  BY <1>4
     DEF SelectGroups, Alone, RowsKept, TypeOK, Running, database, daemon, Goes
<1>5. ASSUME NEW d \in Daemon, SelectLines(d) PROVE Alone'
  BY <1>5
     DEF SelectLines, Alone, RowsKept, TypeOK, Running, database, daemon, Goes
<1>6. ASSUME NEW d \in Daemon, InsertLine(d) PROVE Alone'
  BY <1>6
     DEF InsertLine, Alone, RowsKept, TypeOK, Running, database, daemon, Goes
<1>7. ASSUME NEW d \in Daemon, UpdateLine(d) PROVE Alone'
  BY <1>7
     DEF UpdateLine, Alone, RowsKept, TypeOK, Running, database, daemon, Goes
<1>8. ASSUME NEW d \in Daemon, WriteThrows(d) PROVE Alone'
  BY <1>8
     DEF WriteThrows, Alone, RowsKept, TypeOK, Running, database, daemon, Goes, Unique, Fits, Greeting, LineWidth
<1>9. ASSUME NEW d \in Daemon, Spawn(d) PROVE Alone'
  BY <1>9
     DEF Spawn, Alone, RowsKept, TypeOK, Running, database, daemon, Goes
<1>10. ASSUME NEW d \in Daemon, MainReturns(d) PROVE Alone'
  BY <1>10
     DEF MainReturns, Alone, RowsKept, TypeOK, Running, database, daemon, Goes
<1>11. ASSUME NEW d \in Daemon, Breaks(d) PROVE Alone'
  BY <1>11
     DEF Breaks, Alone, RowsKept, TypeOK, Running, database, daemon
<1>12. ASSUME NEW d \in Daemon, Killed(d) PROVE Alone'
  BY <1>12
     DEF Killed, Alone, RowsKept, TypeOK, Running, database, daemon
<1>13. ASSUME NEW g \in Group \ groups, AddGroup(g) PROVE Alone'
  BY <1>13
     DEF AddGroup, Alone, RowsKept, TypeOK, Running, database, daemon
<1>14. CASE UNCHANGED vars
  BY <1>14
     DEF Alone, RowsKept, TypeOK, Running, database, daemon, vars
<1> QED
  BY <1>1, <1>2, <1>3, <1>4, <1>5, <1>6, <1>7, <1>8,
     <1>9, <1>10, <1>11, <1>12, <1>13, <1>14 DEF Next, Main

\* No text but the first is ever reached on a strict database, and no row is
\* written where the greeting does not fit.
LEMMA StrictKept == IInv /\ [Next]_vars => StrictStarts'
<1> SUFFICES ASSUME TypeOK, StrictStarts, [Next]_vars PROVE StrictStarts'
  BY DEF IInv
<1>1. ASSUME NEW d \in Daemon, Start(d) PROVE StrictStarts'
  BY <1>1
     DEF Start, StrictStarts, Strict, TypeOK, database, daemon
<1>2. ASSUME NEW d \in Daemon, Create(d) PROVE StrictStarts'
  BY <1>2, FirstRefused
     DEF Create, StrictStarts, Strict, TypeOK, database, daemon
<1>3. ASSUME NEW d \in Daemon, CreateThrows(d) PROVE StrictStarts'
  BY <1>3
     DEF CreateThrows, StrictStarts, Strict, TypeOK, database, daemon, Goes
<1>4. ASSUME NEW d \in Daemon, SelectGroups(d) PROVE StrictStarts'
  BY <1>4
     DEF SelectGroups, StrictStarts, Strict, TypeOK, database, daemon, Goes
<1>5. ASSUME NEW d \in Daemon, SelectLines(d) PROVE StrictStarts'
  BY <1>5
     DEF SelectLines, StrictStarts, Strict, TypeOK, database, daemon, Goes
<1>6. ASSUME NEW d \in Daemon, InsertLine(d) PROVE StrictStarts'
  BY <1>6
     DEF InsertLine, StrictStarts, Strict, TypeOK, database, daemon, Goes, Fits, Greeting, LineWidth
<1>7. ASSUME NEW d \in Daemon, UpdateLine(d) PROVE StrictStarts'
  BY <1>7
     DEF UpdateLine, StrictStarts, Strict, TypeOK, database, daemon, Goes, Fits, Greeting, LineWidth
<1>8. ASSUME NEW d \in Daemon, WriteThrows(d) PROVE StrictStarts'
  BY <1>8
     DEF WriteThrows, StrictStarts, Strict, TypeOK, database, daemon, Goes
<1>9. ASSUME NEW d \in Daemon, Spawn(d) PROVE StrictStarts'
  BY <1>9
     DEF Spawn, StrictStarts, Strict, TypeOK, database, daemon, Goes
<1>10. ASSUME NEW d \in Daemon, MainReturns(d) PROVE StrictStarts'
  BY <1>10
     DEF MainReturns, StrictStarts, Strict, TypeOK, database, daemon, Goes
<1>11. ASSUME NEW d \in Daemon, Breaks(d) PROVE StrictStarts'
  BY <1>11
     DEF Breaks, StrictStarts, Strict, TypeOK, database, daemon
<1>12. ASSUME NEW d \in Daemon, Killed(d) PROVE StrictStarts'
  BY <1>12
     DEF Killed, StrictStarts, Strict, TypeOK, database, daemon
<1>13. ASSUME NEW g \in Group \ groups, AddGroup(g) PROVE StrictStarts'
  BY <1>13
     DEF AddGroup, StrictStarts, Strict, TypeOK, database, daemon
<1>14. CASE UNCHANGED vars
  BY <1>14
     DEF StrictStarts, Strict, TypeOK, database, daemon, vars
<1> QED
  BY <1>1, <1>2, <1>3, <1>4, <1>5, <1>6, <1>7, <1>8,
     <1>9, <1>10, <1>11, <1>12, <1>13, <1>14 DEF Next, Main
------------------------------------------------------------------------------
\* The invariant holds of every database the first daemon may meet.
LEMMA Starts == Init => IInv
<1> SUFFICES ASSUME Init PROVE IInv
  OBVIOUS
<1> USE Texts, GroupAssumption DEF Init
<1>1. TypeOK
  BY DEF TypeOK, Running
<1>2. CreatedSoFar
  BY DEF CreatedSoFar, Beyond, Running
<1>3. RowsKept /\ Alone
  BY DEF RowsKept, Alone, Running
<1>4. StrictStarts
  BY DEF StrictStarts, Strict
<1> QED
  BY <1>1, <1>2, <1>3, <1>4 DEF IInv

\* The inductive invariant.
LEMMA Invariant == Spec => []IInv
<1>1. IInv /\ [Next]_vars => IInv'
  BY TypeKept, CreatedKept, RowsStep, AloneKept, StrictKept DEF IInv
<1> QED
  BY <1>1, Starts, PTL DEF Spec

\* Every variable of the daemons and of the database keeps its type.
THEOREM TypeCorrect == Spec => []TypeOK
<1>1. IInv => TypeOK
  BY DEF IInv
<1> QED
  BY <1>1, Invariant, PTL

\* No thread runs for a group whose lcd has no row or two, for any number of
\* daemons that start, are killed and start again.
THEOREM OneRowEachCorrect == Spec => []OneRowEach
<1>1. IInv => OneRowEach
  BY DEF IInv, RowsKept, OneRowEach
<1> QED
  BY <1>1, Invariant, PTL

\* A main that returned leaves every table and a row for every group it saw.
THEOREM ReturnedCompleteCorrect == Spec => []ReturnedComplete
<1>1. IInv => ReturnedComplete
  BY DEF IInv, CreatedSoFar, Beyond, RowsKept, ReturnedComplete
<1> QED
  BY <1>1, Invariant, PTL

\* A daemon alone gets through on a database that takes its texts.
THEOREM UndisturbedReturnsCorrect == Spec => []UndisturbedReturns
<1>1. IInv => UndisturbedReturns
  BY DEF IInv, Alone, UndisturbedReturns
<1> QED
  BY <1>1, Invariant, PTL

\* Threads start on a lenient database only.
THEOREM OnlyLenientStartsCorrect == Spec => []OnlyLenientStarts
<1>1. IInv => OnlyLenientStarts
  <2>1. ASSUME IInv, NEW d \in Daemon, started[d] # {}
        PROVE  "lengths" \notin rules /\ (made \/ rules = {})
    <3>1. "lengths" \notin rules /\ ~Strict
      BY <2>1 DEF IInv, StrictStarts
    <3>2. rules \subseteq Rules
      BY <2>1 DEF IInv, TypeOK
    <3> QED
      BY <3>1, <3>2 DEF Strict, Rules
  <2> QED
    BY <2>1 DEF OnlyLenientStarts
<1> QED
  BY <1>1, Invariant, PTL
==============================================================================
