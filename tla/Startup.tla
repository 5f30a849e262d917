------------------------------ MODULE Startup --------------------------------
(***************************************************************************)
(* What the daemon's main does before its threads run (brewpippd.cpp):     *)
(* init_tables creates the tables that are missing, init_lcd_lines gives   *)
(* the lcd of each group a row and starts the group's thread.  Nothing     *)
(* keeps two daemons from starting on one database, each statement is a    *)
(* transaction of its own, and a daemon may be killed between any two and  *)
(* be started again.                                                       *)
(*                                                                         *)
(* The database is external, and what databases check differs: "columns",  *)
(* that a key of a table is made of its columns; "references", that a      *)
(* table is there before another refers to it; "lengths", that a text fits *)
(* its column (one that does not is cut otherwise).                        *)
(***************************************************************************)
EXTENDS Naturals, Sequences

CONSTANTS
    Daemon,   \* programs that start on the database
    Group     \* groups that users may define

ASSUME GroupAssumption == Group # {}

\* The texts of tables/*.hpp: columns, those its keys are made of, and the
\* tables it refers to.
Authority ==
    [columns |-> {"user_id", "authority_value", "net_address_id"},
     keys |-> {"user_id", "net_address_id", "net_address", "authority"},
     refers |-> {"users", "net_addresses"}]
Devices ==
    [columns |-> {"device_id", "device_type", "device_is_get", "device_is_set",
                  "device_location", "group_id", "device_config"},
     keys |-> {"device_id", "group_id"}, refers |-> {"groups"}]
Groups ==
    [columns |-> {"group_id", "group_name"},
     keys |-> {"group_id", "group_name"}, refers |-> {}]
LCD ==
    [columns |-> {"group_id", "lcd_line_1", "lcd_line_2", "lcd_line_3", "lcd_line_4"},
     keys |-> {"group_id"}, refers |-> {"groups"}]
Logs ==
    [columns |-> {"timestamp", "entry"}, keys |-> {"timestamp"}, refers |-> {}]
Measurements ==
    [columns |-> {"timestamp", "value", "device_id"},
     keys |-> {"timestamp", "device_id"}, refers |-> {"devices"}]
NetAddresses ==
    [columns |-> {"net_address_id", "net_address_ip", "net_address_mask"},
     keys |-> {"user_id", "net_address_id", "net_address", "net_addresses"},
     refers |-> {"users", "net_addresses"}]
Runs ==
    [columns |-> {"run_id", "run_name", "run_start", "run_stop", "group_id"},
     keys |-> {"run_id", "group_id"}, refers |-> {"groups"}]
Sessions ==
    [columns |-> {"session_key", "session_login", "session_logout", "user_id",
                  "net_address_id", "net_address_ip"},
     keys |-> {"user_id", "net_address_id", "session_key"},
     refers |-> {"users", "net_addresses"}]
Users ==
    [columns |-> {"user_id", "user_email", "user_password"},
     keys |-> {"user_id", "user_email"}, refers |-> {}]

Table ==
    [authority |-> Authority, devices |-> Devices, groups |-> Groups, lcd |-> LCD,
     logs |-> Logs, measurements |-> Measurements, net_addresses |-> NetAddresses,
     runs |-> Runs, sessions |-> Sessions, users |-> Users]
Tables == DOMAIN Table

\* The length of "Daemon starting up", and of a line.
Greeting == 18
LineWidth == 16

VARIABLES
    rules,        \* what the database checks
    made,         \* somebody else had made the tables before
    tables,       \* those that exist
    groups,       \* the rows of groups
    rows,         \* how many rows of lcd a group has
    pc, next,     \* where each daemon is, and its place in list_creates
    seen,         \* the groups it has selected
    group, found, \* the one it is at, and whether that had a row
    started,      \* the groups whose thread it has started
    undisturbed   \* (history) no other daemon ran meanwhile, nothing failed

database == <<rules, made, tables, groups, rows>>
daemon == <<next, seen, group, found, started>>
vars == <<database, daemon, pc, undisturbed>>

Rules == {"columns", "references", "lengths"}
Running == {"create", "select", "look", "row", "spawn"}

Init ==
    /\ rules \in SUBSET Rules /\ made \in BOOLEAN
    /\ tables = IF made THEN Tables ELSE {}
    /\ groups \in SUBSET Group /\ (~made => groups = {})
    /\ rows = [g \in Group |-> 0]
    /\ pc = [d \in Daemon |-> "none"] /\ next = [d \in Daemon |-> 1]
    /\ seen = [d \in Daemon |-> {}] /\ started = [d \in Daemon |-> {}]
    /\ group \in [Daemon -> {CHOOSE g \in Group : TRUE}]
    /\ found = [d \in Daemon |-> FALSE]
    /\ undisturbed = [d \in Daemon |-> TRUE]

Goes(d, from, to) == pc[d] = from /\ pc' = [pc EXCEPT ![d] = to]
------------------------------------------------------------------------------
(* Mistakes one could make in the definitions below: what the properties   *)
(* must notice.  No behaviour of Spec uses them.                           *)

\* What is referred to is created first.
list_createsSorted ==
    <<"users", "groups", "net_addresses", "authority", "devices", "lcd", "logs",
      "measurements", "runs", "sessions">>

\* CREATE TABLE without IF NOT EXISTS.
AdmitsNewOnly(t) == t \notin tables

\* lcd without its UNIQUE KEY.
UniqueForgotten(g) == TRUE
------------------------------------------------------------------------------
(* The database.                                                           *)

list_creates ==
    <<"authority", "devices", "groups", "lcd", "logs", "measurements",
      "net_addresses", "runs", "sessions", "users">>

\* What a CREATE TABLE IF NOT EXISTS meets.
Admits(t) ==
    \/ t \in tables
    \/ /\ "columns" \in rules => Table[t].keys \subseteq Table[t].columns
       /\ "references" \in rules => Table[t].refers \subseteq tables \cup {t}

Fits == "lengths" \in rules => Greeting <= LineWidth

\* The UNIQUE KEY of lcd.
Unique(g) == rows[g] = 0
------------------------------------------------------------------------------
(* A mistake one could make in the operations below.                       *)

\* init_tables without the exception: the table is left out.
CreateThrowsNot(d) ==
    /\ pc[d] = "create" /\ ~Admits(list_creates[next[d]])
    /\ next' = [next EXCEPT ![d] = @ + 1]
    /\ pc' = [pc EXCEPT ![d] = IF next[d] = Len(list_creates) THEN "select" ELSE @]
    /\ UNCHANGED <<database, seen, group, found, started, undisturbed>>
------------------------------------------------------------------------------
(* main.                                                                   *)

\* A daemon, or one that ended, is started (again).
Start(d) ==
    /\ pc[d] \notin Running
    /\ pc' = [pc EXCEPT ![d] = "create"]
    /\ next' = [next EXCEPT ![d] = 1]
    /\ seen' = [seen EXCEPT ![d] = {}] /\ started' = [started EXCEPT ![d] = {}]
    /\ found' = [found EXCEPT ![d] = FALSE]
    /\ LET others == {e \in Daemon \ {d} : pc[e] \in Running}
       IN  undisturbed' = [e \in Daemon |-> IF e = d THEN others = {}
                                            ELSE e \notin others /\ undisturbed[e]]
    /\ UNCHANGED <<database, group>>

\* init_tables: one statement for each table, in the order of list_creates.
Create(d) ==
    /\ pc[d] = "create" /\ Admits(list_creates[next[d]])
    /\ tables' = tables \cup {list_creates[next[d]]}
    /\ next' = [next EXCEPT ![d] = @ + 1]
    /\ pc' = [pc EXCEPT ![d] = IF next[d] = Len(list_creates) THEN "select" ELSE @]
    /\ UNCHANGED <<rules, made, groups, rows, seen, group, found, started, undisturbed>>

CreateThrows(d) ==
    /\ Goes(d, "create", "failed")
    /\ ~Admits(list_creates[next[d]])
    /\ UNCHANGED <<database, daemon, undisturbed>>

\* init_lcd_lines: the groups there are.
SelectGroups(d) ==
    /\ Goes(d, "select", "look")
    /\ seen' = [seen EXCEPT ![d] = groups]
    /\ UNCHANGED <<database, next, group, found, started, undisturbed>>

\* ... and for each whether it has a row.
SelectLines(d) ==
    /\ Goes(d, "look", "row")
    /\ \E g \in seen[d] \ started[d] :
         /\ group' = [group EXCEPT ![d] = g]
         /\ found' = [found EXCEPT ![d] = rows[g] > 0]
    /\ UNCHANGED <<database, next, seen, started, undisturbed>>

InsertLine(d) ==
    /\ ~found[d] /\ Unique(group[d]) /\ Fits
    /\ Goes(d, "row", "spawn")
    /\ rows' = [rows EXCEPT ![group[d]] = @ + 1]
    /\ UNCHANGED <<rules, made, tables, groups, daemon, undisturbed>>

\* The greeting in place of what the lines were.
UpdateLine(d) ==
    /\ found[d] /\ Fits
    /\ Goes(d, "row", "spawn")
    /\ UNCHANGED <<database, daemon, undisturbed>>

\* The row of another daemon is in the way, or the greeting is too long.
WriteThrows(d) ==
    /\ (~found[d] /\ ~Unique(group[d])) \/ ~Fits
    /\ Goes(d, "row", "failed")
    /\ UNCHANGED <<database, daemon, undisturbed>>

Spawn(d) ==
    /\ Goes(d, "spawn", "look")
    /\ started' = [started EXCEPT ![d] = @ \cup {group[d]}]
    /\ UNCHANGED <<database, next, seen, group, found, undisturbed>>

MainReturns(d) ==
    /\ seen[d] = started[d]
    /\ Goes(d, "look", "returned")
    /\ UNCHANGED <<database, daemon, undisturbed>>

\* The database is gone, or refuses a statement for anything else, as for the
\* AUTO INCREMENT of the texts, which is not SQL; or no thread can be made.
Breaks(d) ==
    /\ pc[d] \in Running
    /\ pc' = [pc EXCEPT ![d] = "failed"]
    /\ undisturbed' = [undisturbed EXCEPT ![d] = FALSE]
    /\ UNCHANGED <<database, daemon>>

Killed(d) ==
    /\ pc[d] \in Running
    /\ pc' = [pc EXCEPT ![d] = "killed"]
    /\ UNCHANGED <<database, daemon, undisturbed>>

\* Somebody defines a group.
AddGroup(g) ==
    /\ "groups" \in tables /\ groups' = groups \cup {g}
    /\ UNCHANGED <<rules, made, tables, rows, daemon, pc, undisturbed>>
------------------------------------------------------------------------------
Main(d) ==
    \/ Start(d) \/ Create(d) \/ CreateThrows(d) \/ SelectGroups(d) \/ SelectLines(d)
    \/ InsertLine(d) \/ UpdateLine(d) \/ WriteThrows(d) \/ Spawn(d) \/ MainReturns(d)
    \/ Breaks(d) \/ Killed(d)

Next ==
    \/ \E d \in Daemon : Main(d)
    \/ \E g \in Group \ groups : AddGroup(g)

Spec == Init /\ [][Next]_vars
------------------------------------------------------------------------------
\* Every variable keeps its type.
TypeOK ==
    /\ rules \in SUBSET Rules /\ made \in BOOLEAN
    /\ tables \in SUBSET Tables /\ groups \in SUBSET Group
    /\ rows \in [Group -> Nat]
    /\ pc \in [Daemon -> Running \cup {"none", "returned", "failed", "killed"}]
    /\ next \in [Daemon -> 1..Len(list_creates) + 1]
    /\ seen \in [Daemon -> SUBSET Group] /\ started \in [Daemon -> SUBSET Group]
    /\ group \in [Daemon -> Group] /\ found \in [Daemon -> BOOLEAN]
    /\ undisturbed \in [Daemon -> BOOLEAN]

\* A thread never runs for a group whose lcd has no row or has two, though
\* init_lcd_lines looks first and inserts later, and another daemon may have
\* inserted between the two.
OneRowEach == \A d \in Daemon : \A g \in started[d] : rows[g] = 1

\* A main that returns without an error leaves every table and a row for every
\* group it has seen, whatever others have left half-done before and do beside.
ReturnedComplete ==
    \A d \in Daemon :
        pc[d] = "returned" => tables = Tables /\ \A g \in seen[d] : rows[g] = 1

\* A daemon alone on a database that takes its texts gets through, wherever
\* earlier ones have been killed.
UndisturbedReturns ==
    \A d \in Daemon : undisturbed[d] /\ rules = {} => pc[d] # "failed"

\* Threads start only on a database that cuts texts to their columns, and that
\* has had its tables from elsewhere or looks neither at the columns of keys nor
\* at what a table refers to: the first text of list_creates names two tables
\* that come later and two columns that never do, and the greeting is longer
\* than the line it is written to.
OnlyLenientStarts ==
    (\E d \in Daemon : started[d] # {}) =>
        "lengths" \notin rules /\ (made \/ rules = {})
==============================================================================
