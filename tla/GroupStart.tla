----------------------------- MODULE GroupStart ------------------------------
(***************************************************************************)
(* A group of the daemon together with the device it asks: MonitorGroup,   *)
(* in which one group, Watched, runs get_version_info step by step         *)
(* (SerialQuery) against a firmware that may restart, be slow, be silent   *)
(* or fail, while the threads of the other groups go their way.            *)
(*                                                                         *)
(* The device is there from the moment the port is open; opening it may    *)
(* restart the firmware.  A port that is closed again before the query is  *)
(* one that says nothing: write() and the polls do not ask whether it is   *)
(* open.                                                                   *)
(***************************************************************************)
EXTENDS MonitorGroup

CONSTANTS
    Watched,                               \* the group whose device is modelled
    Tries, Timeout, JsonOK, MaxUnsolicited \* as in SerialQuery

ASSUME WatchedAssumption == Watched \in Group

VARIABLES
    call, reading, elapsed, tries, line, error, sent, commands, booting, link,
    read_queue, unsolicited, lost, taken, results

Device == INSTANCE SerialQuery WITH Program <- <<"n">>

queryVars ==
    <<call, reading, elapsed, tries, line, error, sent, commands, booting, link,
      read_queue, unsolicited, lost, taken, results>>

startVars == <<vars, queryVars>>

StartInit == Init /\ Device!Init

\* What get_version_info has returned, when it has.
Outcome == results[1].outcome
------------------------------------------------------------------------------
\* A step of the watched thread inside get_version_info.
Asks ==
    /\ process = "up" /\ pc[Watched] = "version"
    /\ Device!Begin \/ Device!BeginThrows \/ Device!Reads
    /\ UNCHANGED vars

\* get_version_info returns what the device has said, or a default object, whose
\* version is null and reads as an empty text; or it throws.
Returns ==
    /\ results # <<>>
    /\ \/ Outcome = "info" /\ Answered(Watched)
       \/ Outcome = "default" /\ Answered(Watched) /\ version'[Watched] = Parsed(<<Word>>)
       \/ Outcome = "throws" /\ VersionThrows(Watched)
    /\ UNCHANGED queryVars

\* The steps of the watched thread outside the query.
Alone == pc[Watched] # "version" /\ Monitor(Watched) /\ UNCHANGED queryVars

\* To a port that has been closed nothing comes; what the close() has aborted
\* may still fail it.
DeviceSteps ==
    /\ process = "up"
    /\ \/ Watched \in opened /\ Device!Device
       \/ pc[Watched] = "version" /\ Device!PortFails
    /\ UNCHANGED vars

Others ==
    /\ \/ MainReturns
       \/ \E g \in Group : Spawn(g)
       \/ \E g \in Group \ {Watched} : Monitor(g)
       \/ \E g, h \in Group : MapBreaks(g, h)
    /\ UNCHANGED queryVars

StartNext == Asks \/ Returns \/ Alone \/ DeviceSteps \/ Others

\* The watched thread runs on: its waits end by a timeout.  Neither the device,
\* nor the other threads, nor main have to do anything.
StartSpec ==
    StartInit /\ [][StartNext]_startVars /\ WF_startVars(Asks \/ Returns \/ Alone)
------------------------------------------------------------------------------
\* A device that is never understood, or whose port is closed, is let through:
\* the one component that stands for no answer, a zero, is neither below
\* "0.0.0.0" nor below the minimum, since both begin with a zero and have more
\* components, so that the daemon goes on as if it had a firmware that is new
\* enough.
SilenceAccepted ==
    results # <<>> /\ Outcome = "default" =>
        pc[Watched] \in {"version", "connect", "compare", "accepted"}

\* A thread that was started comes to a verdict, is refused its port or gives
\* up, whatever its device and the other groups do, unless the process ends.
GroupSettles ==
    pc[Watched] = "select" ~>
        process # "up" \/ pc[Watched] \in {"refused", "ended", "failed"} \cup Verdicts
------------------------------------------------------------------------------
(* The inductive invariant behind SilenceAccepted.                         *)

\* What stands for the version of a device that was not understood.
Silence == Parsed(<<Word>>)

\* Before "version" the watched thread has asked nothing; once its query has
\* returned a default object, it has only the silence to judge by.
SilenceJudged ==
    results # <<>> =>
        /\ pc[Watched] \in {"version", "connect", "compare", "failed"} \cup Verdicts
        /\ Outcome = "default" =>
             /\ pc[Watched] \in {"version", "connect", "compare", "accepted"}
             /\ pc[Watched] # "version" => version[Watched] = Silence
==============================================================================
