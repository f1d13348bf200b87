------------------------- MODULE Registration_proof -------------------------
(***************************************************************************)
(* Proofs about Registration: the report is raised when it should be and   *)
(* only then, for all timers and without a bound on time.                  *)
(*                                                                         *)
(* The argument follows one registration period. In a process that runs,   *)
(* the flags can only be set by events of the period at hand, because the  *)
(* two ways a reward epoch can begin without ending the process clear them *)
(* or find them clear.                                                     *)
(***************************************************************************)
EXTENDS Registration, TLAPS

\* What a running process has seen of the next reward epoch agrees with the
\* chain, and from the vote power block on nothing is missed.
SeenOnChain ==
  /\ "open" \in seen => stage # "closed"
  /\ "fixed" \in seen => stage = "fixed"
  /\ "open" \in seen /\ stage = "fixed" => "fixed" \in seen

\* The flags of a running process belong to the period it sees.
FlagsOfPeriod ==
  /\ started => "open" \in seen /\ startedTs = openedAt
  /\ "open" \in seen => started \/ registered
  /\ registered => member # "none"
  /\ stage = "fixed" /\ "fixed" \notin seen => ~registered
  /\ started /\ keepsAddress /\ member \in {"registered", "removed"} => registered

\* Nobody has registered before registration is open.
NotBeforeOpen == stage = "closed" => member \in {"none", "pre"}

IInv ==
  /\ TypeOK
  /\ NotBeforeOpen
  /\ phase # "down" => SeenOnChain /\ FlagsOfPeriod
  /\ NoFalseAlarm
  /\ AlarmRaised

-----------------------------------------------------------------------------

\* The two halves of the type invariant.
FlagTypes ==
  /\ keepsAddress \in BOOLEAN
  /\ started \in BOOLEAN /\ registered \in BOOLEAN /\ reported \in BOOLEAN
  /\ tooSoon \in BOOLEAN

OtherTypes ==
  /\ clock \in Nat
  /\ openedAt \in 0 .. clock /\ startedTs \in 0 .. clock /\ lastCheck \in 0 .. clock
  /\ stage \in Stages
  /\ member \in Members
  /\ phase \in {"down", "logs"} \cup Between
  /\ seen \subseteq {"open", "fixed", "stale"}
  /\ lastReport \subseteq Nat

LEMMA TypeHalves == TypeOK <=> FlagTypes /\ OtherTypes
  BY Zenon DEF TypeOK, FlagTypes, OtherTypes

\* Time only moves forward.
LEMMA TickForward ==
  ASSUME TypeOK, Tick
  PROVE  clock' \in Nat /\ clock <= clock'
  BY TimersAssumption DEF TypeOK, Tick

\* A block ends with a correct report: the flags say what the voter did.
LEMMA ReportCorrect ==
  ASSUME IInv, Report
  PROVE  NoFalseAlarm' /\ AlarmRaised'
<1> USE DEF Report, chainVars, flags
<1>1. SeenOnChain /\ FlagsOfPeriod
  BY DEF IInv
<1>2. NoFalseAlarm'
  <2> SUFFICES ASSUME Due
               PROVE  stage # "closed" /\ (member \in {"none", "pre"} \/ ~keepsAddress)
    BY DEF NoFalseAlarm
  <2>1. started /\ ~registered
    BY DEF Due
  <2>2. stage # "closed"
    BY <1>1, <2>1 DEF SeenOnChain, FlagsOfPeriod
  <2>3. member \in Members
    BY DEF IInv, TypeOK
  <2> QED
    BY <1>1, <2>1, <2>2, <2>3 DEF FlagsOfPeriod, Members
<1>3. AlarmRaised'
  <2> SUFFICES ASSUME "open" \in seen, member = "none",
                      clock - openedAt > Patience, clock - lastCheck > Interval
               PROVE  Due
    BY DEF AlarmRaised
  <2>1. started /\ ~registered /\ startedTs = openedAt
    BY <1>1 DEF FlagsOfPeriod
  <2>2. clock \in Nat /\ lastCheck \in 0 .. clock /\ openedAt \in 0 .. clock
    BY DEF IInv, TypeOK
  <2> QED
    BY <2>1, <2>2, TimersAssumption DEF Due
<1> QED
  BY <1>2, <1>3

LEMMA InitIInv == Init => IInv
<1> SUFFICES ASSUME Init PROVE IInv
  OBVIOUS
<1>1. TypeOK
  <2>1. FlagTypes
    BY Zenon DEF Init, FlagTypes
  <2>2. OtherTypes
    BY DEF Init, OtherTypes, Stages, Members, Between
  <2> QED
    BY <2>1, <2>2, TypeHalves
<1>2. NotBeforeOpen /\ NoFalseAlarm /\ AlarmRaised /\ phase = "down"
  BY DEF Init, NotBeforeOpen, NoFalseAlarm, AlarmRaised
<1> QED
  BY <1>1, <1>2 DEF IInv

-----------------------------------------------------------------------------
(***************************************************************************)
(* One lemma per part of the strengthening.                                *)
(***************************************************************************)
LEMMA NextFlagTypes == FlagTypes /\ [Next]_vars => FlagTypes'
<1> SUFFICES ASSUME FlagTypes, [Next]_vars PROVE FlagTypes'
  OBVIOUS
<1> USE DEF FlagTypes, chainVars, flags, programVars, historyVars
<1>1. CASE UNCHANGED vars
  BY <1>1, Zenon DEF vars
<1>2. CASE Startup
  BY <1>2, Zenon DEF Startup
<1>3. CASE Crash \/ NextBlock \/ UnwatchedBlock
  BY <1>3, Zenon DEF Crash, NextBlock, UnwatchedBlock, EpochStarts
<1>4. CASE SwitchBlock
  BY <1>4, Zenon DEF SwitchBlock, EpochStarts, Reset
<1>5. CASE SwitchFails \/ SwitchUnknown
  BY <1>5, Zenon DEF SwitchFails, SwitchUnknown, EpochStarts
<1>6. CASE VotePowerBlockSelected
  BY <1>6, Zenon DEF VotePowerBlockSelected
<1>7. CASE VoterPreRegistered \/ VoterRegistered
  BY <1>7 DEF VoterPreRegistered, VoterRegistered, Watched
<1>8. CASE VoterRemoved \/ SigningPolicyInitialized
  BY <1>8, Zenon DEF VoterRemoved, SigningPolicyInitialized
<1>9. CASE Report
  BY <1>9 DEF Report, Due
<1>10. CASE BlockAbandoned
  BY <1>10, Zenon DEF BlockAbandoned
<1> QED
  BY <1>1, <1>2, <1>3, <1>4, <1>5, <1>6, <1>7, <1>8, <1>9, <1>10 DEF Next, Event

LEMMA NextOtherTypes == TypeOK /\ [Next]_vars => OtherTypes'
<1> SUFFICES ASSUME TypeOK, [Next]_vars PROVE OtherTypes'
  OBVIOUS
<1>t. OtherTypes
  BY TypeHalves
<1> USE <1>t DEF OtherTypes, chainVars, flags, programVars, historyVars, Stages, Members, Between
<1>1. CASE UNCHANGED vars
  BY <1>1 DEF vars
<1>2. CASE Startup
  <2>1. startedTs' \in 0 .. clock' /\ lastCheck' \in 0 .. clock'
    BY <1>2 DEF Startup, FirstCheck
  <2> QED
    BY <1>2, <2>1 DEF Startup
<1>3. CASE Crash
  BY <1>3 DEF Crash
<1>4. CASE UnwatchedBlock
  BY <1>4, TickForward DEF UnwatchedBlock, EpochStarts
<1>5. CASE NextBlock \/ SwitchBlock \/ SwitchFails \/ SwitchUnknown
  <2>1. clock' \in Nat /\ clock <= clock'
    BY <1>5, TickForward DEF NextBlock, SwitchBlock, SwitchFails, SwitchUnknown
  <2>2. CASE NextBlock
    BY <2>1, <2>2 DEF NextBlock
  <2>3. CASE SwitchBlock
    BY <2>1, <2>3 DEF SwitchBlock, EpochStarts
  <2>4. CASE SwitchFails
    BY <2>1, <2>4 DEF SwitchFails, EpochStarts
  <2>5. CASE SwitchUnknown
    BY <2>1, <2>5 DEF SwitchUnknown, EpochStarts
  <2> QED
    BY <1>5, <2>2, <2>3, <2>4, <2>5
<1>6. CASE VotePowerBlockSelected
  BY <1>6 DEF VotePowerBlockSelected
<1>7. CASE VoterPreRegistered \/ VoterRegistered \/ VoterRemoved
  BY <1>7 DEF VoterPreRegistered, VoterRegistered, VoterRemoved
<1>8. CASE SigningPolicyInitialized
  BY <1>8 DEF SigningPolicyInitialized
<1>9. CASE Report \/ BlockAbandoned
  BY <1>9 DEF Report, BlockAbandoned
<1> QED
  BY <1>1, <1>2, <1>3, <1>4, <1>5, <1>6, <1>7, <1>8, <1>9 DEF Next, Event

LEMMA NextTypeOK == TypeOK /\ [Next]_vars => TypeOK'
<1> SUFFICES ASSUME TypeOK, [Next]_vars PROVE FlagTypes' /\ OtherTypes'
  BY TypeHalves DEF TypeOK, FlagTypes, OtherTypes
<1>1. FlagTypes'
  BY TypeHalves, NextFlagTypes
<1>2. OtherTypes'
  BY NextOtherTypes
<1> QED
  BY <1>1, <1>2

LEMMA NextNotBeforeOpen == NotBeforeOpen /\ [Next]_vars => NotBeforeOpen'
<1> SUFFICES ASSUME NotBeforeOpen, [Next]_vars PROVE NotBeforeOpen'
  OBVIOUS
<1> USE DEF NotBeforeOpen, chainVars
<1>1. CASE UNCHANGED chainVars
  BY <1>1
<1>2. CASE EpochStarts
  BY <1>2 DEF EpochStarts
<1>3. CASE Event
  BY <1>3 DEF Event, VoterPreRegistered, VotePowerBlockSelected, VoterRegistered,
              VoterRemoved, SigningPolicyInitialized
<1> QED
  BY <1>1, <1>2, <1>3
  DEF Next, vars, Startup, Crash, UnwatchedBlock, NextBlock, SwitchBlock, SwitchFails,
      SwitchUnknown, Report, BlockAbandoned

\* Within a process, from one block to the next: a reward epoch that begins
\* leaves no flag and no sighting of the one before it behind.
LEMMA SwitchClears ==
  ASSUME IInv, SwitchBlock \/ SwitchUnknown
  PROVE  /\ ~started' /\ ~registered'
         /\ stage' = "closed"
         /\ seen' \cap {"open", "fixed"} = {}
<1>1. phase # "down" /\ SeenOnChain /\ FlagsOfPeriod
  BY DEF IInv, SwitchBlock, SwitchUnknown, Between
<1>2. CASE SwitchBlock
  BY <1>2 DEF SwitchBlock, EpochStarts, Reset
<1>3. CASE SwitchUnknown
  <2>1. stage = "fixed" /\ "fixed" \notin seen
    BY <1>3 DEF SwitchUnknown, EpochStarts
  <2>2. ~started /\ ~registered
    BY <1>1, <2>1 DEF SeenOnChain, FlagsOfPeriod
  <2> QED
    BY <1>3, <2>2 DEF SwitchUnknown, EpochStarts, flags
<1> QED
  BY <1>2, <1>3

LEMMA NextRunning ==
  ASSUME IInv, [Next]_vars, phase' # "down"
  PROVE  SeenOnChain' /\ FlagsOfPeriod'
<1> USE DEF SeenOnChain, FlagsOfPeriod
<1> DEFINE Known == SeenOnChain /\ FlagsOfPeriod
<1>0. phase # "down" => Known
  BY DEF IInv
<1>t. stage \in Stages /\ member \in Members /\ registered \in BOOLEAN /\ keepsAddress \in BOOLEAN
  BY DEF IInv, TypeOK
<1>1. CASE phase # "down" /\ UNCHANGED <<chainVars, seen, flags>>
  BY <1>0, <1>1 DEF chainVars, flags
<1>2. CASE Startup
  BY <1>2 DEF Startup, chainVars
<1>3. CASE SwitchBlock \/ SwitchUnknown
  BY <1>3, SwitchClears
<1>4. CASE phase # "down" /\ VoterPreRegistered
  BY <1>0, <1>4, <1>t DEF VoterPreRegistered, Watched
<1>5. CASE phase # "down" /\ VotePowerBlockSelected
  <2>1. NotBeforeOpen /\ member \in {"none", "pre"}
    BY <1>5 DEF IInv, NotBeforeOpen, VotePowerBlockSelected
  <2>2. SeenOnChain'
    BY <1>0, <1>5 DEF VotePowerBlockSelected, Watched
  <2>3. FlagsOfPeriod'
    BY <1>0, <1>5, <2>1 DEF VotePowerBlockSelected, Watched
  <2> QED
    BY <2>2, <2>3
<1>6. CASE phase # "down" /\ VoterRegistered
  BY <1>0, <1>6, <1>t DEF VoterRegistered, Watched
<1>7. CASE phase # "down" /\ VoterRemoved
  BY <1>0, <1>7 DEF VoterRemoved, programVars, flags
<1>8. CASE phase # "down" /\ SigningPolicyInitialized
  BY <1>0, <1>8 DEF SigningPolicyInitialized, Watched, flags
<1> QED
  BY <1>1, <1>2, <1>3, <1>4, <1>5, <1>6, <1>7, <1>8
  DEF Next, Event, vars, programVars, Crash, UnwatchedBlock, NextBlock, SwitchFails, Report,
      BlockAbandoned, Between,
      VoterPreRegistered, VotePowerBlockSelected, VoterRegistered, VoterRemoved,
      SigningPolicyInitialized

\* Between two blocks nothing happens to a process, so that its report stays
\* as correct as it was at the end of the block.
LEMMA NextCorrect ==
  ASSUME IInv, [Next]_vars
  PROVE  NoFalseAlarm' /\ AlarmRaised'
<1>1. CASE UNCHANGED vars
  BY <1>1 DEF IInv, vars, chainVars, programVars, flags, NoFalseAlarm, AlarmRaised
<1>2. CASE Report
  BY <1>2, ReportCorrect
<1>3. CASE Startup
  BY <1>3 DEF Startup, NoFalseAlarm, AlarmRaised
<1>4. CASE phase' # "between"
  BY <1>4 DEF NoFalseAlarm, AlarmRaised
<1> QED
  BY <1>1, <1>2, <1>3, <1>4
  DEF Next, Event, programVars, Crash, UnwatchedBlock, NextBlock, SwitchBlock, SwitchFails,
      SwitchUnknown, BlockAbandoned, VoterPreRegistered, VotePowerBlockSelected, VoterRegistered, VoterRemoved,
      SigningPolicyInitialized

\* The strengthening is an invariant: besides the properties, what a running
\* process has seen and whose period its flags belong to.
THEOREM Inductive == Spec => []IInv
<1>1. IInv /\ [Next]_vars => IInv'
  <2> SUFFICES ASSUME IInv, [Next]_vars PROVE IInv'
    OBVIOUS
  <2>1. TypeOK' /\ NotBeforeOpen'
    BY NextTypeOK, NextNotBeforeOpen DEF IInv
  <2>2. phase' # "down" => SeenOnChain' /\ FlagsOfPeriod'
    BY NextRunning
  <2> QED
    BY <2>1, <2>2, NextCorrect DEF IInv
<1> QED
  BY <1>1, InitIInv, PTL DEF Spec

\* All variables keep their types, and no timestamp of the program lies in the
\* future.
THEOREM TypeCorrect == Spec => []TypeOK
<1>1. IInv => TypeOK
  BY DEF IInv
<1> QED
  BY <1>1, Inductive, PTL

\* The report is never raised without a registration period the voter has not
\* registered in, however the timers are set.
THEOREM NoFalse == Spec => []NoFalseAlarm
<1>1. IInv => NoFalseAlarm
  BY DEF IInv
<1> QED
  BY <1>1, Inductive, PTL

\* A voter that stays away is reported in every reward epoch whose registration
\* the process has seen begin.
THEOREM Raised == Spec => []AlarmRaised
<1>1. IInv => AlarmRaised
  BY DEF IInv
<1> QED
  BY <1>1, Inductive, PTL

=============================================================================
