----------------------------- MODULE DaemonProofs -----------------------------
(***************************************************************************)
(* Proofs about MonitorGroup and GroupStart: no two groups ever have one   *)
(* port open, what a thread has found of its firmware when it ends, and    *)
(* how the group that runs its query step by step refines one that does    *)
(* not.                                                                    *)
(***************************************************************************)
EXTENDS GroupStart, TLAPS

(* What VersionCode's constructor and comparison promise of any versions.  *)

\* From here on nothing depends on how many codes there are.
LEMMA SomeCodes == Codes \in Nat \ {0}
BY SMT DEF Codes

LEMMA CodesAreNat == Code \subseteq Nat /\ 0 \in Code
BY SomeCodes DEF Code

LEMMA CodeOfNat == ASSUME NEW n \in Nat PROVE n % Codes \in Code
BY SomeCodes, SMT DEF Code

\* The constructor makes a version of any text, of as many components.
LEMMA ParsedVersion == ASSUME NEW t \in Text PROVE Parsed(t) \in Version
<1>1. t \in Seq(Nat \cup {Word}) /\ t # <<>>
  BY DEF Text
<1>2. Len(t) \in Nat \ {0}
  BY <1>1
<1>3. \A k \in 1..Len(t) : t[k] \in Nat \cup {Word}
  BY <1>1
<1>4. \A k \in 1..Len(t) : (IF t[k] = Word THEN 0 ELSE t[k] % Codes) \in Code
  BY <1>3, CodesAreNat, CodeOfNat
<1>5. Parsed(t) \in [1..Len(t) -> Code]
  BY <1>4 DEF Parsed
<1>6. Parsed(t) \in Seq(Code) /\ Len(Parsed(t)) = Len(t)
  BY <1>2, <1>5
<1> QED
  BY <1>2, <1>6 DEF Version

\* operator< finds every version that is older at a component, though it also
\* finds others.
LEMMA OlderIsLess ==
  ASSUME NEW a \in Version, NEW b \in Version, Older(a, b), ~ShortOf(a, b)
  PROVE  Less(a, b)
<1>1. PICK n \in Common(a, b) : OlderAt(a, b, n)
  BY DEF Older
<1> QED
  BY <1>1 DEF Common, OlderAt, Less

\* No component is smaller than a zero: what operator< puts below a version of
\* zeros is at least as long.
LEMMA BelowZeros ==
  ASSUME NEW a \in Version, NEW b \in Version, Less(a, b), \A k \in 1..Len(b) : b[k] = 0
  PROVE  Len(a) >= Len(b)
<1>1. \A k \in 1..Len(a) : k <= Len(b) => ~(a[k] < b[k])
  <2> SUFFICES ASSUME NEW k \in 1..Len(a), k <= Len(b) PROVE ~(a[k] < b[k])
    OBVIOUS
  <2>1. a[k] \in Code /\ b[k] = 0
    BY DEF Version
  <2>2. a[k] \in Nat
    BY <2>1, CodesAreNat
  <2>3. \A n \in Nat : ~(n < 0)
    OBVIOUS
  <2> QED
    BY <2>1, <2>2, <2>3
<1>2. Len(a) \in Nat /\ Len(b) \in Nat
  BY DEF Version
<1> QED
  BY <1>1, <1>2 DEF Less
------------------------------------------------------------------------------
\* Types of the daemon's state, for any groups, ports and device table.
THEOREM TypeCorrect == Spec => []TypeOK
<1>1. Init => TypeOK
  BY DEF Init, TypeOK, Steps, Verdicts
<1>2. TypeOK /\ [Next]_vars => TypeOK'
  <2>. SUFFICES ASSUME TypeOK, [Next]_vars PROVE TypeOK'
    OBVIOUS
  <2>. USE DEF TypeOK, Goes, Steps, Verdicts
  <2>1. CASE MainReturns
    BY <2>1 DEF MainReturns
  <2>2. ASSUME NEW g \in Group, Spawn(g) PROVE TypeOK'
    BY <2>2 DEF Spawn
  <2>3. ASSUME NEW g \in Group, Monitor(g) PROVE TypeOK'
    <3>1. CASE Select(g)
      BY <3>1, RowsAssumption DEF Select
    <3>2. CASE SelectThrows(g) \/ LockLocations(g) \/ LockTimesOut(g) \/ Refuse(g)
      BY <3>2 DEF SelectThrows, LockLocations, LockTimesOut, Refuse
    <3>3. CASE Check(g) \/ Unlock(g) \/ LockPort(g) \/ OpenPort(g)
      BY <3>3 DEF Check, Unlock, LockPort, OpenPort
    <3>4. CASE OpenThrows(g) \/ StorePort(g) \/ VersionThrows(g)
      BY <3>4 DEF OpenThrows, StorePort, VersionThrows
    <3>5. CASE Mark(g)
      BY <3>5 DEF Mark
    <3>6. CASE Answered(g)
      <4>1. PICK text \in Reported : version' = [version EXCEPT ![g] = Parsed(text)]
        BY <3>6 DEF Answered
      <4>2. Parsed(text) \in Version /\ Parsed(text) # <<>>
        BY ReportedAssumption, ParsedVersion DEF Version
      <4>. QED
        BY <3>6, <4>1, <4>2 DEF Answered
    <3>7. CASE Connect(g) \/ Compare(g)
      BY <3>7 DEF Connect, Compare
    <3>. QED
      BY <2>3, <3>1, <3>2, <3>3, <3>4, <3>5, <3>6, <3>7 DEF Monitor
  <2>4. ASSUME NEW g \in Group, NEW h \in Group, MapBreaks(g, h) PROVE TypeOK'
    BY <2>4 DEF MapBreaks
  <2>5. CASE UNCHANGED vars
    BY <2>5 DEF vars
  <2>. QED
    BY <2>1, <2>2, <2>3, <2>4, <2>5 DEF Next
<1>. QED
  BY <1>1, <1>2, PTL DEF Spec

------------------------------------------------------------------------------
(* A reservation is made under the mutex, of a location no one has         *)
(* reserved, and never taken back: the invariant Reservation is inductive. *)

LEMMA ReservationInit == Init => Reservation
  BY DEF Init, Reservation, HoldsMutex, ClaimsMarked, MarksFree, ClaimsDiffer,
     Settled, Claims

\* main and the steps before the lock disturb no thread that has claimed.
LEMMA ReservationEarly ==
  ASSUME TypeOK, Reservation, NEW g \in Group,
         MainReturns \/ Spawn(g) \/ Select(g) \/ SelectThrows(g) \/ LockTimesOut(g)
  PROVE  Reservation'
<1>. USE DEF TypeOK, Reservation, HoldsMutex, ClaimsMarked, MarksFree, ClaimsDiffer,
         Settled, Claims, Goes
<1>1. CASE MainReturns
  BY <1>1 DEF MainReturns
<1>2. CASE Spawn(g)
  BY <1>2 DEF Spawn
<1>3. CASE Select(g)
  <2>1. /\ pc[g] = "select" /\ pc'[g] \in {"ended", "lock"}
        /\ \A h \in Group \ {g} : pc'[h] = pc[h] /\ location'[h] = location[h]
        /\ UNCHANGED <<mutex, in_use, opened>>
    BY <1>3 DEF Select
  <2>2. ~Claims(g) /\ ~Claims(g)'
    BY <2>1
  <2>. QED
    BY <2>1, <2>2
<1>4. CASE SelectThrows(g)
  BY <1>4 DEF SelectThrows
<1>5. CASE LockTimesOut(g)
  BY <1>5 DEF LockTimesOut
<1>. QED
  BY <1>1, <1>2, <1>3, <1>4, <1>5

\* The locked section.
LEMMA ReservationLocked ==
  ASSUME TypeOK, Reservation, NEW g \in Group,
         LockLocations(g) \/ Refuse(g) \/ Check(g) \/ Mark(g) \/ Unlock(g)
  PROVE  Reservation'
<1>. USE DEF TypeOK, Reservation, HoldsMutex, ClaimsMarked, MarksFree, ClaimsDiffer,
         Settled, Claims, Goes
<1>1. CASE LockLocations(g)
  BY <1>1 DEF LockLocations
<1>2. CASE Refuse(g)
  BY <1>2 DEF Refuse
<1>3. CASE Check(g)
  BY <1>3 DEF Check
<1>4. CASE Mark(g)
  <2>1. /\ pc[g] = "mark" /\ pc'[g] = "unlock" /\ mutex = {g}
        /\ \A h \in Group \ {g} : pc'[h] = pc[h]
        /\ in_use' = in_use \cup {location[g]}
        /\ UNCHANGED <<location, mutex, opened>>
    BY <1>4 DEF Mark
  <2>2. \A h \in Group \ {g} : pc[h] # "mark"
    BY <2>1
  <2>3. \A h \in Group : Claims(h) => location[h] # location[g]
    BY <2>1
  <2>4. \A h \in Group \ {g} : Claims(h)' = Claims(h)
    BY <2>1
  <2>. QED
    BY <2>1, <2>2, <2>3, <2>4
<1>5. CASE Unlock(g)
  BY <1>5 DEF Unlock
<1>. QED
  BY <1>1, <1>2, <1>3, <1>4, <1>5

\* What a thread does with the port it has reserved.
LEMMA ReservationLate ==
  ASSUME TypeOK, Reservation, NEW g \in Group, NEW h \in Group,
         \/ LockPort(g) \/ OpenPort(g) \/ OpenThrows(g) \/ StorePort(g)
         \/ Answered(g) \/ VersionThrows(g) \/ Connect(g) \/ Compare(g)
         \/ MapBreaks(g, h) \/ UNCHANGED vars
  PROVE  Reservation'
<1>. USE DEF TypeOK, Reservation, HoldsMutex, ClaimsMarked, MarksFree, ClaimsDiffer,
         Settled, Claims, Goes
<1>1. CASE LockPort(g)
  BY <1>1 DEF LockPort
<1>2. CASE OpenPort(g)
  BY <1>2 DEF OpenPort
<1>3. CASE OpenThrows(g)
  BY <1>3 DEF OpenThrows
<1>4. CASE StorePort(g)
  BY <1>4 DEF StorePort
<1>5. CASE Answered(g) \/ VersionThrows(g)
  BY <1>5 DEF Answered, VersionThrows
<1>6. CASE Connect(g) \/ Compare(g)
  BY <1>6 DEF Connect, Compare
<1>7. CASE MapBreaks(g, h) \/ UNCHANGED vars
  BY <1>7 DEF MapBreaks, vars
<1>. QED
  BY <1>1, <1>2, <1>3, <1>4, <1>5, <1>6, <1>7

LEMMA ReservationNext == TypeOK /\ Reservation /\ [Next]_vars => Reservation'
<1>. SUFFICES ASSUME TypeOK, Reservation, [Next]_vars PROVE Reservation'
  OBVIOUS
<1>1. CASE UNCHANGED vars
  BY <1>1 DEF vars, Reservation, HoldsMutex, ClaimsMarked, MarksFree, ClaimsDiffer,
     Settled, Claims
<1>2. CASE MainReturns
  BY <1>2 DEF MainReturns, Reservation, HoldsMutex, ClaimsMarked, MarksFree,
     ClaimsDiffer, Settled, Claims
<1>3. ASSUME NEW g \in Group, Spawn(g) \/ Monitor(g) PROVE Reservation'
  BY <1>3, ReservationEarly, ReservationLocked, ReservationLate DEF Monitor
<1>4. ASSUME NEW g \in Group, NEW h \in Group, MapBreaks(g, h) PROVE Reservation'
  BY <1>4, ReservationLate
<1>. QED
  BY <1>1, <1>2, <1>3, <1>4 DEF Next

\* No two groups have the same serial port open, for any number of groups and
\* whatever the device table holds: what the comment "Ensure no other groups
\* happen to use the same serial port location" asks of monitor_group.
THEOREM ExclusiveCorrect == Spec => []Exclusive
<1>1. Spec => [](TypeOK /\ Reservation)
  BY TypeCorrect, ReservationInit, ReservationNext, PTL DEF Spec
<1>2. TypeOK /\ Reservation => Exclusive
  BY DEF TypeOK, Reservation, ClaimsDiffer, Claims, Exclusive
<1>. QED
  BY <1>1, <1>2, PTL
------------------------------------------------------------------------------
(* The verdict of a thread on its firmware: Tested is inductive.           *)

LEMMA TestedNext == TypeOK /\ Tested /\ [Next]_vars => Tested'
<1>. SUFFICES ASSUME TypeOK, Tested, [Next]_vars PROVE Tested'
  OBVIOUS
<1>. USE DEF TypeOK, Tested, Goes
<1>1. CASE UNCHANGED vars
  BY <1>1 DEF vars
<1>2. CASE MainReturns
  BY <1>2 DEF MainReturns
<1>3. ASSUME NEW g \in Group, Spawn(g) PROVE Tested'
  BY <1>3 DEF Spawn
<1>4. ASSUME NEW g \in Group, Monitor(g) PROVE Tested'
  <2>1. CASE Select(g) \/ SelectThrows(g) \/ LockLocations(g) \/ LockTimesOut(g)
    BY <2>1 DEF Select, SelectThrows, LockLocations, LockTimesOut
  <2>2. CASE Refuse(g) \/ Check(g) \/ Mark(g) \/ Unlock(g)
    BY <2>2 DEF Refuse, Check, Mark, Unlock
  <2>3. CASE LockPort(g) \/ OpenPort(g) \/ OpenThrows(g) \/ StorePort(g)
    BY <2>3 DEF LockPort, OpenPort, OpenThrows, StorePort
  <2>4. CASE Answered(g) \/ VersionThrows(g)
    BY <2>4 DEF Answered, VersionThrows
  <2>5. CASE Connect(g)
    BY <2>5 DEF Connect
  <2>6. CASE Compare(g)
    BY <2>6 DEF Compare
  <2>. QED
    BY <1>4, <2>1, <2>2, <2>3, <2>4, <2>5, <2>6 DEF Monitor
<1>5. ASSUME NEW g \in Group, NEW h \in Group, MapBreaks(g, h) PROVE Tested'
  BY <1>5 DEF MapBreaks
<1>. QED
  BY <1>1, <1>2, <1>3, <1>4, <1>5 DEF Next

LEMMA TestedCorrect == Spec => [](TypeOK /\ Tested)
<1>1. Init => Tested
  BY DEF Init, Tested
<1>. QED
  BY <1>1, TypeCorrect, TestedNext, PTL DEF Spec

\* No firmware older than the minimum gets past both tests, but one that gives
\* only the components the minimum starts with: for any minimum.
THEOREM OldNotAcceptedCorrect == Spec => []OldNotAccepted
<1>1. TypeOK /\ Tested => OldNotAccepted
  <2>. SUFFICES ASSUME TypeOK, Tested, NEW g \in Group, pc[g] = "accepted",
                       Older(version[g], Minimum), ~ShortOf(version[g], Minimum)
                PROVE  FALSE
    BY DEF OldNotAccepted
  <2>1. version[g] \in Version
    BY DEF TypeOK, Verdicts
  <2>2. Less(version[g], Minimum)
    BY <2>1, MinimumAssumption, OlderIsLess
  <2>. QED
    BY <2>2 DEF Tested
<1>. QED
  BY <1>1, TestedCorrect, PTL

\* "0.0.0.0" is above other versions only in length, which operator< reads the
\* other way round: a device with a shorter version is never "unconnected".
THEOREM ShortConnectsCorrect == Spec => []ShortConnects
<1>1. TypeOK /\ Tested => ShortConnects
  <2>. SUFFICES ASSUME TypeOK, Tested, NEW g \in Group, pc[g] = "unconnected"
                PROVE  Len(version[g]) >= 4
    BY DEF ShortConnects
  <2>1. version[g] \in Version
    BY DEF TypeOK, Verdicts
  <2>2. NoVersion \in Version /\ Len(NoVersion) = 4
    BY CodesAreNat DEF NoVersion, Version
  <2>3. \A k \in 1..Len(NoVersion) : NoVersion[k] = 0
    BY DEF NoVersion
  <2>. QED
    BY <2>1, <2>2, <2>3, BelowZeros DEF Tested
<1>. QED
  BY <1>1, TestedCorrect, PTL

\* What takes a firmware past both tests is a version of fewer components: one
\* of as many as the minimum has is outdated, be it the minimum itself or newer.
AcceptedIsShorter ==
    \A g \in Group :
        pc[g] = "accepted" =>
            /\ Len(version[g]) < Len(Minimum)
            /\ \A k \in 1..Len(version[g]) : version[g][k] >= Minimum[k]

\* A firmware is accepted only by a version that has fewer components than the
\* minimum and none below the minimum's: for any minimum.
THEOREM AcceptedIsShorterCorrect == Spec => []AcceptedIsShorter
<1>1. TypeOK /\ Tested => AcceptedIsShorter
  <2>. SUFFICES ASSUME TypeOK, Tested, NEW g \in Group, pc[g] = "accepted"
                PROVE  /\ Len(version[g]) < Len(Minimum)
                       /\ \A k \in 1..Len(version[g]) : version[g][k] >= Minimum[k]
    BY DEF AcceptedIsShorter
  <2>1. version[g] \in Version
    BY DEF TypeOK, Verdicts
  <2>2. ~Less(version[g], Minimum)
    BY DEF Tested
  <2>3. Len(version[g]) \in Nat /\ Len(Minimum) \in Nat
    BY <2>1, MinimumAssumption DEF Version
  <2>4. Len(version[g]) < Len(Minimum)
    BY <2>2, <2>3 DEF Less
  <2>5. ASSUME NEW k \in 1..Len(version[g]) PROVE version[g][k] >= Minimum[k]
    <3>1. k \in 1..Len(Minimum) /\ k <= Len(Minimum)
      BY <2>3, <2>4
    <3>2. version[g][k] \in Nat /\ Minimum[k] \in Nat
      <4>1. version[g][k] \in Code
        BY <2>1 DEF Version
      <4>2. Minimum[k] \in Code
        BY <3>1, MinimumAssumption DEF Version
      <4>. QED
        BY <4>1, <4>2, CodesAreNat
    <3>3. ~(version[g][k] < Minimum[k])
      BY <2>2, <3>1 DEF Less
    <3>. QED
      BY <3>2, <3>3
  <2>. QED
    BY <2>4, <2>5
<1>. QED
  BY <1>1, TestedCorrect, PTL

------------------------------------------------------------------------------
(* Why a thread is refused its port.                                       *)

\* A thread that has made its reservation, whatever has become of it since.
Reserved(g) ==
    pc[g] \in {"unlock", "mutexes", "open", "ports", "version", "connect", "compare", "failed"}
              \cup Verdicts

\* Somebody has reserved each location in use.
InUseReserved == \A l \in in_use : \E g \in Group : Reserved(g) /\ location[g] = l

\* Who is refused has asked for a location that another group has reserved: the
\* part of what RefusedOnlyIfInUse says that does hold.
RefusedForAnother ==
    \A g \in Group :
        pc[g] = "refused" => \E h \in Group \ {g} : Reserved(h) /\ location[h] = location[g]

LEMMA RefusalNext ==
  TypeOK /\ InUseReserved /\ RefusedForAnother /\ [Next]_vars
    => InUseReserved' /\ RefusedForAnother'
<1>. SUFFICES ASSUME TypeOK, InUseReserved, RefusedForAnother, [Next]_vars
              PROVE  InUseReserved' /\ RefusedForAnother'
  OBVIOUS
\* A thread keeps its location once it has it, and does not go back.
<1>k. ASSUME NEW g \in Group, Spawn(g) \/ Monitor(g) \/ UNCHANGED <<pc, location>>
      PROVE  \A h \in Group : Reserved(h) => Reserved(h)' /\ location'[h] = location[h]
  <2>. USE DEF TypeOK, Goes, Reserved, Verdicts
  <2>0. CASE UNCHANGED <<pc, location>>
    BY <2>0
  <2>1. CASE Spawn(g) \/ Select(g) \/ SelectThrows(g) \/ LockLocations(g) \/ LockTimesOut(g)
    BY <2>1 DEF Spawn, Select, SelectThrows, LockLocations, LockTimesOut
  <2>2. CASE Refuse(g) \/ Check(g) \/ Mark(g) \/ Unlock(g)
    BY <2>2 DEF Refuse, Check, Mark, Unlock
  <2>3. CASE LockPort(g) \/ OpenPort(g) \/ OpenThrows(g) \/ StorePort(g)
    BY <2>3 DEF LockPort, OpenPort, OpenThrows, StorePort
  <2>4. CASE Answered(g) \/ VersionThrows(g) \/ Connect(g) \/ Compare(g)
    BY <2>4 DEF Answered, VersionThrows, Connect, Compare
  <2>. QED
    BY <1>k, <2>0, <2>1, <2>2, <2>3, <2>4 DEF Monitor
<1>1. ASSUME NEW g \in Group, Refuse(g) PROVE InUseReserved' /\ RefusedForAnother'
  <2>. USE DEF TypeOK, Goes
  <2>1. /\ pc[g] = "check" /\ location[g] \in in_use /\ UNCHANGED <<location, in_use>>
        /\ \A h \in Group \ {g} : pc'[h] = pc[h]
    BY <1>1 DEF Refuse
  <2>2. PICK h \in Group : Reserved(h) /\ location[h] = location[g]
    BY <2>1 DEF InUseReserved
  <2>3. h # g
    BY <2>1, <2>2 DEF Reserved, Verdicts
  <2>4. \A f \in Group : Reserved(f) => Reserved(f)' /\ location'[f] = location[f]
    BY <1>1, <1>k DEF Monitor
  <2>5. InUseReserved'
    BY <2>1, <2>4 DEF InUseReserved
  <2>6. ASSUME NEW f \in Group, pc'[f] = "refused"
        PROVE  \E d \in Group \ {f} : Reserved(d)' /\ location'[d] = location'[f]
    <3>1. CASE f = g
      BY <2>1, <2>2, <2>3, <2>4, <3>1
    <3>2. CASE f # g
      <4>1. pc[f] = "refused"
        BY <2>1, <2>6, <3>2
      <4>. QED
        BY <2>1, <2>4, <4>1 DEF RefusedForAnother
    <3>. QED
      BY <3>1, <3>2
  <2>. QED
    BY <2>5, <2>6 DEF RefusedForAnother
<1>2. ASSUME NEW g \in Group, Mark(g) PROVE InUseReserved'
  <2>1. /\ in_use' = in_use \cup {location[g]} /\ UNCHANGED location
        /\ pc'[g] = "unlock"
    BY <1>2 DEF Mark, Goes, TypeOK
  <2>2. \A h \in Group : Reserved(h) => Reserved(h)' /\ location'[h] = location[h]
    BY <1>2, <1>k DEF Monitor
  <2>3. Reserved(g)'
    BY <2>1 DEF Reserved
  <2>. QED
    BY <2>1, <2>2, <2>3 DEF InUseReserved
\* Only Refuse refuses, and who is refused keeps its location.
<1>3. ASSUME NEW g \in Group, Spawn(g) \/ Monitor(g), ~Refuse(g)
      PROVE  \A f \in Group : pc'[f] = "refused" => pc[f] = "refused" /\ location'[f] = location[f]
  <2>. USE DEF TypeOK, Goes
  <2>1. CASE Spawn(g) \/ Select(g) \/ SelectThrows(g) \/ LockLocations(g) \/ LockTimesOut(g)
    BY <2>1 DEF Spawn, Select, SelectThrows, LockLocations, LockTimesOut
  <2>2. CASE Check(g) \/ Mark(g) \/ Unlock(g)
    BY <2>2 DEF Check, Mark, Unlock
  <2>3. CASE LockPort(g) \/ OpenPort(g) \/ OpenThrows(g) \/ StorePort(g)
    BY <2>3 DEF LockPort, OpenPort, OpenThrows, StorePort
  <2>4. CASE Answered(g) \/ VersionThrows(g) \/ Connect(g) \/ Compare(g)
    BY <2>4 DEF Answered, VersionThrows, Connect, Compare
  <2>. QED
    BY <1>3, <2>1, <2>2, <2>3, <2>4 DEF Monitor
<1>4. ASSUME NEW g \in Group, Spawn(g) \/ Monitor(g), ~Refuse(g) PROVE RefusedForAnother'
  <2>1. \A h \in Group : Reserved(h) => Reserved(h)' /\ location'[h] = location[h]
    BY <1>4, <1>k
  <2>. QED
    BY <1>3, <1>4, <2>1 DEF RefusedForAnother
<1>5. ASSUME NEW g \in Group, Spawn(g) \/ Monitor(g), ~Refuse(g), ~Mark(g)
      PROVE  InUseReserved'
  <2>1. \A h \in Group : Reserved(h) => Reserved(h)' /\ location'[h] = location[h]
    BY <1>5, <1>k
  <2>2. in_use' = in_use
    BY <1>5 DEF Monitor, Spawn, Select, SelectThrows, LockLocations, LockTimesOut, Check,
      Unlock, LockPort, OpenPort, OpenThrows, StorePort, Answered, VersionThrows, Connect,
      Compare
  <2>. QED
    BY <2>1, <2>2 DEF InUseReserved
<1>6. ASSUME UNCHANGED <<pc, location, in_use>> PROVE InUseReserved' /\ RefusedForAnother'
  BY <1>6 DEF InUseReserved, RefusedForAnother, Reserved
<1>7. CASE MainReturns \/ (\E g, h \in Group : MapBreaks(g, h)) \/ UNCHANGED vars
  BY <1>6, <1>7 DEF MainReturns, MapBreaks, vars
<1>. QED
  BY <1>1, <1>2, <1>4, <1>5, <1>7 DEF Next

\* No group is refused a port that no other has reserved: what is wrong with the
\* refusals is only that a reservation outlives its group's use of the port.
THEOREM RefusedForAnotherCorrect == Spec => []RefusedForAnother
<1>1. Init => InUseReserved /\ RefusedForAnother
  BY DEF Init, InUseReserved, RefusedForAnother
<1>. QED
  BY <1>1, TypeCorrect, RefusalNext, PTL DEF Spec

\* The mutex and the check make one reservation of a location, over the life of
\* the process.
InUseLasts == \A g \in Group : Reserved(g) => location[g] \in in_use
ReservedOnce ==
    \A g, h \in Group : Reserved(g) /\ Reserved(h) /\ location[g] = location[h] => g = h

LEMMA ReservedOnceNext ==
  TypeOK /\ Reservation /\ InUseLasts /\ ReservedOnce /\ [Next]_vars
    => InUseLasts' /\ ReservedOnce'
<1>. SUFFICES ASSUME TypeOK, Reservation, InUseLasts, ReservedOnce, [Next]_vars
              PROVE  InUseLasts' /\ ReservedOnce'
  OBVIOUS
<1>1. ASSUME NEW g \in Group, Mark(g) PROVE InUseLasts' /\ ReservedOnce'
  <2>1. /\ pc[g] = "mark" /\ pc'[g] = "unlock"
        /\ \A h \in Group \ {g} : pc'[h] = pc[h]
        /\ in_use' = in_use \cup {location[g]} /\ UNCHANGED location
    BY <1>1 DEF Mark, Goes, TypeOK
  <2>2. \A h \in Group \ {g} : Reserved(h)' = Reserved(h)
    BY <2>1 DEF Reserved
  <2>3. \A h \in Group : Reserved(h) => location[h] # location[g]
    BY <2>1 DEF InUseLasts, Reservation, MarksFree
  <2>. QED
    BY <2>1, <2>2, <2>3 DEF InUseLasts, ReservedOnce
\* Any other step reserves nothing and takes nothing back.
<1>2. ASSUME NEW g \in Group, Spawn(g) \/ Monitor(g), ~Mark(g)
      PROVE  InUseLasts' /\ ReservedOnce'
  <2>1. \A h \in Group : Reserved(h)' => Reserved(h) /\ location'[h] = location[h]
    <3>. USE DEF TypeOK, Goes, Reserved, Verdicts
    <3>1. CASE Spawn(g) \/ Select(g) \/ SelectThrows(g) \/ LockLocations(g) \/ LockTimesOut(g)
      BY <3>1 DEF Spawn, Select, SelectThrows, LockLocations, LockTimesOut
    <3>2. CASE Refuse(g) \/ Check(g) \/ Unlock(g)
      BY <3>2 DEF Refuse, Check, Unlock
    <3>3. CASE LockPort(g) \/ OpenPort(g) \/ OpenThrows(g) \/ StorePort(g)
      BY <3>3 DEF LockPort, OpenPort, OpenThrows, StorePort
    <3>4. CASE Answered(g) \/ VersionThrows(g) \/ Connect(g) \/ Compare(g)
      BY <3>4 DEF Answered, VersionThrows, Connect, Compare
    <3>. QED
      BY <1>2, <3>1, <3>2, <3>3, <3>4 DEF Monitor
  <2>2. in_use' = in_use
    BY <1>2 DEF Monitor, Spawn, Select, SelectThrows, LockLocations, LockTimesOut, Refuse,
      Check, Unlock, LockPort, OpenPort, OpenThrows, StorePort, Answered, VersionThrows,
      Connect, Compare
  <2>. QED
    BY <2>1, <2>2 DEF InUseLasts, ReservedOnce
<1>3. CASE MainReturns \/ (\E g, h \in Group : MapBreaks(g, h)) \/ UNCHANGED vars
  BY <1>3 DEF MainReturns, MapBreaks, vars, InUseLasts, ReservedOnce, Reserved
<1>. QED
  BY <1>1, <1>2, <1>3 DEF Next

\* No two groups ever make their reservation for one location, also when the first
\* has failed or ended long before the second asks: for any groups and table.
THEOREM ReservedOnceCorrect == Spec => []ReservedOnce
<1>1. Init => InUseLasts /\ ReservedOnce
  BY DEF Init, InUseLasts, ReservedOnce, Reserved, Verdicts
<1>. QED
  BY <1>1, TypeCorrect, ReservationInit, ReservationNext, ReservedOnceNext, PTL DEF Spec

------------------------------------------------------------------------------
\* Whichever way a thread leaves the locked section, by the end of its block, by
\* the exception or not at all because it timed out, it leaves the mutex free.
THEOREM MutexGivenBackCorrect == Spec => []MutexGivenBack
<1>1. Init => MutexGivenBack
  BY DEF Init, MutexGivenBack
<1>2. TypeOK /\ MutexGivenBack /\ [Next]_vars => MutexGivenBack'
  <2>. SUFFICES ASSUME TypeOK, MutexGivenBack, [Next]_vars PROVE MutexGivenBack'
    OBVIOUS
  <2>. USE DEF MutexGivenBack
  \* A step that is not of the locked section begins and ends outside of it.
  <2>1. ASSUME NEW g \in Group, mutex' = mutex, pc[g] \notin {"check", "mark", "unlock"},
               \A h \in Group \ {g} : pc'[h] = pc[h]
        PROVE  MutexGivenBack'
    BY <2>1
  <2>2. ASSUME NEW g \in Group, Spawn(g) \/ Monitor(g) PROVE MutexGivenBack'
    <3>. USE DEF TypeOK, Goes
    <3>1. CASE LockLocations(g)
      BY <3>1 DEF LockLocations
    <3>2. CASE Check(g) \/ Mark(g)
      BY <3>2 DEF Check, Mark
    <3>3. CASE Refuse(g) \/ Unlock(g)
      BY <3>3 DEF Refuse, Unlock
    <3>4. CASE Spawn(g) \/ Select(g) \/ SelectThrows(g) \/ LockTimesOut(g)
      BY <2>1, <3>4 DEF Spawn, Select, SelectThrows, LockTimesOut
    <3>5. CASE LockPort(g) \/ OpenPort(g) \/ OpenThrows(g) \/ StorePort(g)
      BY <2>1, <3>5 DEF LockPort, OpenPort, OpenThrows, StorePort
    <3>6. CASE Answered(g) \/ VersionThrows(g) \/ Connect(g) \/ Compare(g)
      BY <2>1, <3>6 DEF Answered, VersionThrows, Connect, Compare
    <3>. QED
      BY <2>2, <3>1, <3>2, <3>3, <3>4, <3>5, <3>6 DEF Monitor
  <2>3. CASE MainReturns \/ (\E g, h \in Group : MapBreaks(g, h)) \/ UNCHANGED vars
    BY <2>3 DEF MainReturns, MapBreaks, vars
  <2>. QED
    BY <2>2, <2>3 DEF Next
<1>. QED
  BY <1>1, <1>2, TypeCorrect, PTL DEF Spec
------------------------------------------------------------------------------
(* GroupStart: the watched group and its device.                           *)

\* A step of the device, or of the query, is none of the daemon's; every other
\* step of GroupStart is one of MonitorGroup.
LEMMA StartSteps == [StartNext]_startVars => [Next]_vars
<1>. SUFFICES ASSUME [StartNext]_startVars PROVE [Next]_vars
  OBVIOUS
<1>. USE WatchedAssumption
<1>1. CASE Asks \/ DeviceSteps \/ UNCHANGED startVars
  BY <1>1 DEF Asks, DeviceSteps, startVars
<1>2. CASE Returns
  BY <1>2 DEF Returns, Next, Monitor
<1>3. CASE Alone
  BY <1>3 DEF Alone, Next
<1>4. CASE Others
  BY <1>4 DEF Others, Next
<1>. QED
  BY <1>1, <1>2, <1>3, <1>4 DEF StartNext

\* A daemon of which one group runs its query step by step is a daemon: what
\* the theorems above say of MonitorGroup holds of it too.
THEOREM StartImplementsDaemon == StartSpec => Spec
<1>1. StartInit => Init
  BY DEF StartInit
<1>. QED
  BY <1>1, StartSteps, PTL DEF StartSpec, Spec

\* The steps of GroupStart the query sees are its own: the rest of the daemon
\* disturbs neither its locals nor its device.
LEMMA StartQueries == [StartNext]_startVars => [Device!Next]_(Device!vars)
<1>. SUFFICES ASSUME [StartNext]_startVars PROVE [Device!Next]_(Device!vars)
  OBVIOUS
<1>1. CASE Asks
  BY <1>1 DEF Asks, Device!Next
<1>2. CASE DeviceSteps
  BY <1>2 DEF DeviceSteps, Device!Next, Device!Device
<1>3. CASE Returns \/ Alone \/ Others \/ UNCHANGED startVars
  BY <1>3 DEF Returns, Alone, Others, startVars, queryVars, Device!vars,
              Device!clientVars, Device!deviceVars
<1>. QED
  BY <1>1, <1>2, <1>3 DEF StartNext

\* get_version_info inside a thread of the daemon is a program of SerialQuery
\* with that one call: what is shown of its queries holds of the daemon's.
THEOREM StartImplementsQuery == StartSpec => Device!Spec
<1>1. StartInit => Device!Init
  BY DEF StartInit
<1>. QED
  BY <1>1, StartQueries, PTL DEF StartSpec, Device!Spec
------------------------------------------------------------------------------
(* A device that is not understood: SilenceJudged is inductive.            *)

\* The silence passes both tests when what it is compared with begins with a
\* zero and has more components.
LEMMA SilencePasses ==
  ASSUME NEW b \in Version, Len(b) > 1, b[1] = 0
  PROVE  ~Less(Silence, b)
<1>1. Len(<<Word>>) = 1 /\ <<Word>>[1] = Word
  OBVIOUS
<1>2. Len(Silence) = 1 /\ Silence[1] = 0
  <2>1. Silence \in [1..1 -> {0}]
    BY <1>1 DEF Silence, Parsed
  <2>. QED
    BY <2>1
<1>3. Len(b) \in Nat
  BY DEF Version
<1>. QED
  BY <1>2, <1>3 DEF Less

\* The threads of other groups leave the watched one where it is.
LEMMA OthersApart ==
  ASSUME TypeOK, Others
  PROVE  /\ UNCHANGED results /\ version'[Watched] = version[Watched]
         /\ pc'[Watched] = pc[Watched] \/ pc[Watched] = "none"
<1>1. UNCHANGED results
  BY DEF Others, queryVars
<1>2. CASE MainReturns
  BY <1>1, <1>2 DEF MainReturns
<1>3. ASSUME NEW g \in Group, Spawn(g)
      PROVE  /\ version'[Watched] = version[Watched]
             /\ pc'[Watched] = pc[Watched] \/ pc[Watched] = "none"
  BY <1>3, WatchedAssumption DEF Spawn, Goes, TypeOK
<1>4. ASSUME NEW g \in Group \ {Watched}, Monitor(g)
      PROVE  version'[Watched] = version[Watched] /\ pc'[Watched] = pc[Watched]
  <2>1. pc'[Watched] = pc[Watched]
    BY <1>4, WatchedAssumption DEF Monitor, Select, SelectThrows, LockLocations,
       LockTimesOut, Refuse, Check, Mark, Unlock, LockPort, OpenPort, OpenThrows,
       StorePort, Answered, VersionThrows, Connect, Compare, Goes, TypeOK
  <2>2. version'[Watched] = version[Watched]
    BY <1>4, WatchedAssumption DEF Monitor, Select, SelectThrows, LockLocations,
       LockTimesOut, Refuse, Check, Mark, Unlock, LockPort, OpenPort, OpenThrows,
       StorePort, Answered, VersionThrows, Connect, Compare, TypeOK
  <2>. QED
    BY <2>1, <2>2
<1>5. ASSUME NEW g \in Group, NEW h \in Group, MapBreaks(g, h)
      PROVE  version' = version /\ pc' = pc
  BY <1>5 DEF MapBreaks
<1>. QED
  BY <1>1, <1>2, <1>3, <1>4, <1>5 DEF Others

\* Outside the query the watched thread finds no way back to it, and goes
\* through both tests.
LEMMA AloneJudges ==
  ASSUME TypeOK, SilenceJudged, Alone, Len(Minimum) > 1, Minimum[1] = 0
  PROVE  SilenceJudged'
<1>1. UNCHANGED results /\ pc[Watched] # "version" /\ Monitor(Watched)
  BY DEF Alone, queryVars
<1>2. CASE results = <<>>
  BY <1>1, <1>2 DEF SilenceJudged
<1>3. CASE results # <<>>
  <2>1. pc[Watched] \in {"connect", "compare"}
    BY <1>1, <1>3 DEF SilenceJudged, Verdicts, Monitor, Select, SelectThrows,
       LockLocations, LockTimesOut, Refuse, Check, Mark, Unlock, LockPort, OpenPort,
       OpenThrows, StorePort, Answered, VersionThrows, Connect, Compare, Goes
  <2>2. Connect(Watched) \/ Compare(Watched)
    BY <1>1, <2>1 DEF Monitor, Select, SelectThrows,
       LockLocations, LockTimesOut, Refuse, Check, Mark, Unlock, LockPort, OpenPort,
       OpenThrows, StorePort, Answered, VersionThrows, Goes
  <2>3. UNCHANGED <<version, results>>
    BY <1>1, <2>2 DEF Connect, Compare
  <2>4. CASE Connect(Watched)
    <3>1. pc'[Watched] = IF Less(version[Watched], NoVersion)
                         THEN "unconnected" ELSE "compare"
      BY <2>4, WatchedAssumption DEF Connect, Goes, TypeOK
    <3>2. ~Less(Silence, NoVersion)
      <4>1. NoVersion \in Version /\ Len(NoVersion) > 1 /\ NoVersion[1] = 0
        BY CodesAreNat DEF NoVersion, Version
      <4>. QED
        BY <4>1, SilencePasses
    <3>. QED
      BY <1>3, <2>1, <2>3, <3>1, <3>2 DEF SilenceJudged, Outcome, Verdicts
  <2>5. CASE Compare(Watched)
    <3>1. pc'[Watched] = IF Less(version[Watched], Minimum)
                         THEN "outdated" ELSE "accepted"
      BY <2>5, WatchedAssumption DEF Compare, Goes, TypeOK
    <3>2. ~Less(Silence, Minimum)
      BY MinimumAssumption, SilencePasses
    <3>. QED
      BY <1>3, <2>1, <2>3, <3>1, <3>2 DEF SilenceJudged, Outcome, Verdicts
  <2>. QED
    BY <2>2, <2>4, <2>5
<1>. QED
  BY <1>2, <1>3

LEMMA SilenceJudgedNext ==
  ASSUME TypeOK, SilenceJudged, [StartNext]_startVars,
         Len(Minimum) > 1, Minimum[1] = 0
  PROVE  SilenceJudged'
<1>1. CASE Asks
  <2>1. pc' = pc /\ pc[Watched] = "version"
    BY <1>1 DEF Asks, vars
  <2>. QED
    BY <2>1 DEF SilenceJudged
<1>2. CASE Returns
  <2>1. results # <<>> /\ UNCHANGED results /\ Outcome' = Outcome
    BY <1>2 DEF Returns, queryVars, Outcome
  <2>2. CASE Outcome # "default"
    <3>1. pc'[Watched] \in {"connect", "failed"}
      BY <1>2, <2>2, WatchedAssumption
         DEF Returns, Answered, VersionThrows, Goes, TypeOK
    <3>. QED
      BY <2>1, <2>2, <3>1 DEF SilenceJudged
  <2>3. CASE Outcome = "default"
    <3>1. pc'[Watched] = "connect" /\ version'[Watched] = Silence
      BY <1>2, <2>3, WatchedAssumption DEF Returns, Answered, Goes, TypeOK, Silence
    <3>. QED
      BY <2>1, <3>1 DEF SilenceJudged
  <2>. QED
    BY <2>2, <2>3
<1>3. CASE Alone
  BY <1>3, AloneJudges
<1>4. CASE Others
  BY <1>4, OthersApart DEF SilenceJudged, Outcome, Verdicts
<1>5. CASE DeviceSteps
  <2>1. UNCHANGED <<pc, version, results>>
    BY <1>5 DEF DeviceSteps, vars, Device!Device, Device!DeviceAnswers,
       Device!DeviceObeys, Device!DeviceMisses, Device!BootEnds, Device!DeviceSpeaks,
       Device!Arrive, Device!PortFails
  <2>. QED
    BY <2>1 DEF SilenceJudged, Outcome
<1>6. CASE UNCHANGED startVars
  BY <1>6 DEF startVars, vars, queryVars, SilenceJudged, Outcome
<1>. QED
  BY <1>1, <1>2, <1>3, <1>4, <1>5, <1>6 DEF StartNext

\* A device that is never understood is accepted, however long its silence, the
\* other groups and the tries: whenever the minimum begins with a zero and has
\* more components, as compatible_fw_version does.
THEOREM SilenceAcceptedCorrect ==
  ASSUME Len(Minimum) > 1, Minimum[1] = 0
  PROVE  StartSpec => []SilenceAccepted
<1>1. StartInit => SilenceJudged
  BY DEF StartInit, Device!Init, SilenceJudged
<1>2. TypeOK /\ SilenceJudged /\ [StartNext]_startVars => SilenceJudged'
  BY SilenceJudgedNext
<1>3. SilenceJudged => SilenceAccepted
  BY DEF SilenceJudged, SilenceAccepted
<1>. QED
  BY <1>1, <1>2, <1>3, StartImplementsDaemon, TypeCorrect, PTL DEF StartSpec
==============================================================================
