---------------------------- MODULE MonitorGroup -----------------------------
(***************************************************************************)
(* The daemon (src/daemon/brewpippd.cpp): main starts one detached thread  *)
(* per group of the database and returns; each thread, monitor_group,      *)
(* looks up a serial port, reserves it against the other groups, opens it, *)
(* asks the firmware for its version and compares that with the minimum.   *)
(*                                                                         *)
(* Each access to a global the threads share is a step of its own.  Of the *)
(* database, the rows of the device table are kept; of the port, whether   *)
(* it is open.                                                             *)
(***************************************************************************)
EXTENDS VersionCode

CONSTANTS
    Group,       \* the rows of the table of groups
    Location,    \* names of serial ports
    NoLocation,  \* the empty name
    Rows,        \* device_location of the devices of type SerialPort
    Reported,    \* texts a firmware may give for its version
    Minimum      \* compatible_fw_version, read

ASSUME RowsAssumption == Rows \subseteq Location \cup {NoLocation}
ASSUME NoLocationAssumption == NoLocation \notin Location
ASSUME ReportedAssumption == Reported \subseteq Text
ASSUME MinimumAssumption == Minimum \in Version

VARIABLES
    process,    \* "up", "exited" (main has returned) or "aborted"
    unspawned,  \* groups main has not yet come to
    pc,         \* where the thread of each group is in monitor_group
    location,   \* its serial_port_location
    mutex,      \* who holds serial_ports_in_use_mutex, if anyone
    in_use,     \* serial_ports_in_use: the locations mapped to true
    opened,     \* groups whose port is open
    version     \* the version a group's firmware has given

vars == <<process, unspawned, pc, location, mutex, in_use, opened, version>>

\* What a thread has found of its firmware when it ends.  Else it has "ended"
\* before its reservation, was "refused" it, or has "failed" after it.
Verdicts == {"unconnected", "outdated", "accepted"}

\* "0.0.0.0", which stands for no version.
NoVersion == <<0, 0, 0, 0>>

Steps == {"none", "select", "lock", "check", "mark", "unlock", "mutexes", "open",
          "ports", "version", "connect", "compare", "refused", "ended", "failed"} \cup Verdicts

Init ==
    /\ process = "up" /\ unspawned = Group
    /\ pc = [g \in Group |-> "none"] /\ location = [g \in Group |-> NoLocation]
    /\ mutex = {} /\ in_use = {} /\ opened = {}
    /\ version = [g \in Group |-> <<>>]

\* A thread goes on while the process is up.
Goes(g, from, to) ==
    /\ process = "up"
    /\ pc[g] = from
    /\ pc' = [pc EXCEPT ![g] = to]
------------------------------------------------------------------------------
(* Mistakes one could make in the operations below: what the properties    *)
(* must notice.  No behaviour of Spec uses them.                           *)

\* The mutex given back before the reservation is made.
CheckUnlocks(g) ==
    /\ Goes(g, "check", "mark")
    /\ location[g] \notin in_use
    /\ mutex' = {}
    /\ UNCHANGED <<process, unspawned, location, in_use, opened, version>>

\* The exception leaves a mutex locked by hand.
RefuseKeepsLock(g) ==
    /\ Goes(g, "check", "refused")
    /\ location[g] \in in_use
    /\ UNCHANGED <<process, unspawned, location, mutex, in_use, opened, version>>
------------------------------------------------------------------------------
(* main and init_lcd_lines.                                                *)

Spawn(g) ==
    /\ g \in unspawned
    /\ Goes(g, "none", "select")
    /\ unspawned' = unspawned \ {g}
    /\ UNCHANGED <<process, location, mutex, in_use, opened, version>>

\* After the last group, or when the database throws.  The process ends with
\* main: nobody waits for the threads.
MainReturns ==
    /\ process = "up"
    /\ process' = "exited"
    /\ UNCHANGED <<unspawned, pc, location, mutex, in_use, opened, version>>
------------------------------------------------------------------------------
(* monitor_group.                                                          *)

\* get_serial_port: some row of the device table, of whichever group.
Select(g) ==
    /\ \/ Rows = {} /\ UNCHANGED location
       \/ \E l \in Rows : location' = [location EXCEPT ![g] = l]
    /\ Goes(g, "select", IF location'[g] = NoLocation THEN "ended" ELSE "lock")
    /\ UNCHANGED <<process, unspawned, mutex, in_use, opened, version>>

\* The connection or the query throws.
SelectThrows(g) ==
    /\ Goes(g, "select", "ended")
    /\ UNCHANGED <<process, unspawned, location, mutex, in_use, opened, version>>

LockLocations(g) ==
    /\ Goes(g, "lock", "check")
    /\ mutex = {}
    /\ mutex' = {g}
    /\ UNCHANGED <<process, unspawned, location, in_use, opened, version>>

\* Not locked within 10 seconds.
LockTimesOut(g) ==
    /\ Goes(g, "lock", "ended")
    /\ UNCHANGED <<process, unspawned, location, mutex, in_use, opened, version>>

\* The exception unlocks.
Refuse(g) ==
    /\ Goes(g, "check", "refused")
    /\ location[g] \in in_use
    /\ mutex' = {}
    /\ UNCHANGED <<process, unspawned, location, in_use, opened, version>>

Check(g) ==
    /\ Goes(g, "check", "mark")
    /\ location[g] \notin in_use
    /\ UNCHANGED <<process, unspawned, location, mutex, in_use, opened, version>>

Mark(g) ==
    /\ Goes(g, "mark", "unlock")
    /\ in_use' = in_use \cup {location[g]}
    /\ UNCHANGED <<process, unspawned, location, mutex, opened, version>>

Unlock(g) ==
    /\ Goes(g, "unlock", "mutexes")
    /\ mutex' = {}
    /\ UNCHANGED <<process, unspawned, location, in_use, opened, version>>

\* serial_port_mutexes[group_id], a map no lock protects, and the lock of the
\* group's own mutex, which no other thread wants.  "mutexes" and "ports" are
\* the places inside the two maps.
LockPort(g) ==
    /\ Goes(g, "mutexes", "open")
    /\ UNCHANGED <<process, unspawned, location, mutex, in_use, opened, version>>

OpenPort(g) ==
    /\ Goes(g, "open", "ports")
    /\ opened' = opened \cup {g}
    /\ UNCHANGED <<process, unspawned, location, mutex, in_use, version>>

\* The constructor throws.  The reservation stays.
OpenThrows(g) ==
    /\ Goes(g, "open", "failed")
    /\ UNCHANGED <<process, unspawned, location, mutex, in_use, opened, version>>

\* serial_ports[group_id] = ..., in the other map.  The class named here is not
\* in the repository: one that owns its port hands it over, while a BufferedSerial
\* shares it with the temporary, whose destructor closes it.
StorePort(g) ==
    /\ Goes(g, "ports", "version")
    /\ opened' \in {opened, opened \ {g}}
    /\ UNCHANGED <<process, unspawned, location, mutex, in_use, version>>

\* Two threads in one map, of which one inserts: undefined, and the process
\* may die of it.
MapBreaks(g, h) ==
    /\ process = "up" /\ g # h
    /\ pc[g] \in {"mutexes", "ports"} /\ pc[h] = pc[g]
    /\ process' = "aborted"
    /\ UNCHANGED <<unspawned, pc, location, mutex, in_use, opened, version>>

\* get_version_info returns; a device that has given none has an empty text.
Answered(g) ==
    /\ Goes(g, "version", "connect")
    /\ \E text \in Reported : version' = [version EXCEPT ![g] = Parsed(text)]
    /\ UNCHANGED <<process, unspawned, location, mutex, in_use, opened>>

VersionThrows(g) ==
    /\ Goes(g, "version", "failed")
    /\ UNCHANGED <<process, unspawned, location, mutex, in_use, opened, version>>

\* The thread ends by a message, and the port stays open in serial_ports.
Connect(g) ==
    /\ Goes(g, "connect", IF Less(version[g], NoVersion) THEN "unconnected" ELSE "compare")
    /\ UNCHANGED <<process, unspawned, location, mutex, in_use, opened, version>>

Compare(g) ==
    /\ Goes(g, "compare", IF Less(version[g], Minimum) THEN "outdated" ELSE "accepted")
    /\ UNCHANGED <<process, unspawned, location, mutex, in_use, opened, version>>
------------------------------------------------------------------------------
Monitor(g) ==
    \/ Select(g) \/ SelectThrows(g) \/ LockLocations(g) \/ LockTimesOut(g)
    \/ Refuse(g) \/ Check(g) \/ Mark(g) \/ Unlock(g)
    \/ LockPort(g) \/ OpenPort(g) \/ OpenThrows(g) \/ StorePort(g)
    \/ Answered(g) \/ VersionThrows(g) \/ Connect(g) \/ Compare(g)

Next ==
    \/ MainReturns
    \/ \E g \in Group : Spawn(g) \/ Monitor(g)
    \/ \E g, h \in Group : MapBreaks(g, h)

Spec == Init /\ [][Next]_vars
------------------------------------------------------------------------------
\* Every variable keeps its type; only a thread with a port gets to the lock.
TypeOK ==
    /\ process \in {"up", "exited", "aborted"}
    /\ unspawned \in SUBSET Group
    /\ pc \in [Group -> Steps]
    /\ location \in [Group -> Location \cup {NoLocation}]
    /\ \A g \in Group : pc[g] \in {"lock", "check", "mark"} => location[g] \in Location
    /\ mutex \in SUBSET Group /\ in_use \in SUBSET Location /\ opened \in SUBSET Group
    /\ version \in [Group -> Version \cup {<<>>}]
    /\ \A g \in Group : pc[g] \in {"connect", "compare"} \cup Verdicts => version[g] # <<>>

\* No two groups have the same serial port open, however their threads
\* interleave and whatever port the database gives them.
Exclusive ==
    \A g, h \in opened : location[g] = location[h] => g = h

\* No thread leaves the locked section by a way that keeps the mutex: when no
\* thread is in it, the mutex is free for the groups still to come.
MutexGivenBack ==
    (\A g \in Group : pc[g] \notin {"check", "mark", "unlock"}) => mutex = {}

\* A firmware that gets past both tests is not older than the minimum, unless
\* it gives fewer components than that has and they are those it starts with.
OldNotAccepted ==
    \A g \in Group :
        pc[g] = "accepted" /\ Older(version[g], Minimum) => ShortOf(version[g], Minimum)

\* A device is called unconnected only if it gives as many components as
\* "0.0.0.0": the firmware's three never look like none.
ShortConnects == \A g \in Group : pc[g] = "unconnected" => Len(version[g]) >= 4

\* A group the port may be in use by: on its way to open it, or with it open.
Uses(g) == g \in opened \/ pc[g] \in {"unlock", "mutexes", "open"}

\* A group is refused its port as "already in use" only if another group has
\* the port or is about to open it.
RefusedOnlyIfInUse ==
    [][\A g \in Group :
         pc'[g] = "refused" /\ pc[g] # "refused" =>
            \E h \in Group \ {g} : Uses(h) /\ location[h] = location[g]]_vars
------------------------------------------------------------------------------
(* The inductive invariant behind Exclusive.                               *)

\* The threads that are past their reservation.
Claims(g) == g \in opened \/ pc[g] \in {"unlock", "mutexes", "open", "ports", "version"}

HoldsMutex == \A g \in Group : pc[g] \in {"check", "mark", "unlock"} => mutex = {g}
ClaimsMarked == \A g \in Group : Claims(g) => location[g] \in in_use
MarksFree == \A g \in Group : pc[g] = "mark" => location[g] \notin in_use
ClaimsDiffer ==
    \A g, h \in Group : Claims(g) /\ Claims(h) /\ location[g] = location[h] => g = h

\* A thread that has claimed its port does not look for another.
Settled == \A g \in Group : Claims(g) => pc[g] \notin {"none", "select"}

\* What the two tests of a version have found.
Tested ==
    \A g \in Group :
        /\ pc[g] = "accepted" => ~Less(version[g], Minimum)
        /\ pc[g] = "unconnected" => Less(version[g], NoVersion)

Reservation == HoldsMutex /\ ClaimsMarked /\ MarksFree /\ ClaimsDiffer /\ Settled
==============================================================================
