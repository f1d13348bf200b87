---------------------------- MODULE Registration ----------------------------
(***************************************************************************)
(* The report that the observed voter has not registered for the next      *)
(* reward epoch: the flags voter_registration_started and registered of    *)
(* observer_loop (observer/observer.py), the events that set them, the     *)
(* switch of policies that resets them and the timers of the report.       *)
(*                                                                         *)
(* Time is the wall clock, which the loop reads while it handles a block;  *)
(* within a block it stands still. Every reward epoch is taken to begin in *)
(* a voting epoch that has a block: SigningPolicies has the case that none *)
(* has, in which the switch is missed.                                     *)
(***************************************************************************)
EXTENDS Integers

CONSTANTS
  Interval,       \* 60 seconds between two reports ...
  ShortInterval,  \* ... and 10 seconds ...
  LongAfter,      \* ... when registration began more than 15 minutes ago
  Patience,       \* 60 seconds before the first report
  MaxGap,         \* bound: the time between two blocks
  MaxClock        \* bound: the end of time

ASSUME TimersAssumption ==
  /\ Interval \in Nat /\ ShortInterval \in 0 .. Interval /\ LongAfter \in Nat /\ Patience \in Nat
  /\ MaxGap \in Nat /\ MaxClock \in Nat

VARIABLES
  clock,        \* time.time()
  stage,        \* of the next reward epoch on the chain, see Stages
  member,       \* the observed voter there, see Members
  keepsAddress, \* it registers with the signing policy address it has now
  openedAt,     \* when the registration of the next reward epoch began
  phase,        \* "down", "logs": within a block, "between" two blocks, or
                \* "abandoned": between them when the last was left at the uptime ping
  seen,         \* what the builder of the next policy has of that reward epoch
  started,      \* voter_registration_started
  startedTs,    \* voter_registration_started_ts
  registered,   \* registered
  lastCheck,    \* last_registration_check
  reported      \* the last block handled has raised the report

\* History: no part of the program, only read by the properties.
VARIABLES
  lastReport,   \* when the last report was raised, {} or {time}
  tooSoon       \* a report was raised within ShortInterval of the one before

chainVars == <<stage, member, keepsAddress, openedAt>>
flags == <<started, startedTs, registered>>
programVars == <<phase, seen, flags, lastCheck, reported>>
historyVars == <<lastReport, tooSoon>>
vars == <<clock, chainVars, programVars, historyVars>>

\* VotePowerBlockSelected opens registration, SigningPolicyInitialized ends it.
Stages == {"closed", "open", "fixed"}
Between == {"between", "abandoned"}
Members == {"none", "pre", "registered", "removed"}

TypeOK ==
  /\ clock \in Nat
  /\ openedAt \in 0 .. clock /\ startedTs \in 0 .. clock /\ lastCheck \in 0 .. clock
  /\ stage \in Stages
  /\ member \in Members
  /\ keepsAddress \in BOOLEAN
  /\ phase \in {"down", "logs"} \cup Between
  /\ seen \subseteq {"open", "fixed", "stale"}
  /\ started \in BOOLEAN /\ registered \in BOOLEAN /\ reported \in BOOLEAN
  /\ lastReport \subseteq Nat
  /\ tooSoon \in BOOLEAN

Init ==
  /\ clock = 0
  /\ stage = "closed"
  /\ member = "none"
  /\ keepsAddress \in BOOLEAN
  /\ openedAt = 0
  /\ phase = "down"
  /\ seen = {}
  /\ started = FALSE
  /\ startedTs = 0
  /\ registered = FALSE
  /\ lastCheck = 0
  /\ reported = FALSE
  /\ lastReport = {}
  /\ tooSoon = FALSE

-----------------------------------------------------------------------------
(***************************************************************************)
(* The process and its blocks.                                             *)
(***************************************************************************)

\* Mutant: the first check lies in the future.
NextCheck == clock + Interval

\* last_registration_check at the start.
FirstCheck == clock

\* observer_loop up to the first block it observes.
Startup ==
  /\ phase = "down"
  /\ phase' = "between"
  /\ seen' = {}
  /\ started' = FALSE
  /\ startedTs' = 0
  /\ registered' = FALSE
  /\ lastCheck' = FirstCheck
  /\ reported' = FALSE
  /\ lastReport' = {}
  /\ UNCHANGED <<clock, chainVars, tooSoon>>

\* Any await may raise.
Crash ==
  /\ phase # "down"
  /\ phase' = "down"
  /\ UNCHANGED <<clock, chainVars, seen, flags, lastCheck, reported, historyVars>>

Tick == \E gap \in 0 .. MaxGap : clock + gap <= MaxClock /\ clock' = clock + gap

\* On the chain the next reward epoch becomes the current one.
EpochStarts ==
  /\ stage = "fixed"
  /\ stage' = "closed"
  /\ member' = "none"
  /\ keepsAddress' \in BOOLEAN
  /\ UNCHANGED openedAt

UnwatchedBlock ==
  /\ phase = "down"
  /\ Tick
  /\ EpochStarts \/ UNCHANGED chainVars
  /\ UNCHANGED <<programVars, historyVars>>

NextBlock ==
  /\ phase \in Between
  /\ Tick
  /\ phase' = "logs"
  /\ UNCHANGED <<chainVars, seen, flags, lastCheck, reported, historyVars>>

\* Mutants: one of the flags is not reset.
ResetRegisteredOnly == registered' = FALSE /\ UNCHANGED started
ResetStartedOnly == started' = FALSE /\ UNCHANGED registered

\* The flags at the switch of policies.
Reset == started' = FALSE /\ registered' = FALSE

\* The first block of the next reward epoch, when the builder has its policy and
\* the voter is in it.
SwitchBlock ==
  /\ phase \in Between
  /\ Tick
  /\ EpochStarts
  /\ seen = {"open", "fixed"}
  /\ member = "registered"
  /\ phase' = "logs"
  /\ Reset
  /\ seen' = {}
  /\ UNCHANGED <<startedTs, lastCheck, reported, historyVars>>

\* ... when the builder was not there in time, or the voter is not in it: an
\* assertion of build or the look-up of the voter fails.
SwitchFails ==
  /\ phase \in Between
  /\ Tick
  /\ EpochStarts
  /\ "fixed" \in seen
  /\ seen # {"open", "fixed"} \/ member # "registered"
  /\ phase' = "down"
  /\ UNCHANGED <<seen, flags, lastCheck, reported, historyVars>>

\* ... when the process began so late that it does not know of the new policy.
\* The builder it has is for an epoch that is over, and will fail later.
SwitchUnknown ==
  /\ phase \in Between
  /\ Tick
  /\ EpochStarts
  /\ "fixed" \notin seen
  /\ phase' = "logs"
  /\ seen' = {"stale"}
  /\ UNCHANGED <<flags, lastCheck, reported, historyVars>>

-----------------------------------------------------------------------------
(***************************************************************************)
(* Events. A process that is down misses them.                             *)
(***************************************************************************)
Watched == phase = "logs"

\* VoterPreRegistered of the observed voter.
VoterPreRegistered ==
  /\ phase \in {"logs", "down"}
  /\ stage = "closed" /\ member = "none"
  /\ member' = "pre"
  /\ registered' = (registered \/ Watched)
  /\ UNCHANGED <<clock, stage, keepsAddress, openedAt, phase, seen, started, startedTs,
                 lastCheck, reported, historyVars>>

VotePowerBlockSelected ==
  /\ phase \in {"logs", "down"}
  /\ stage = "closed"
  /\ stage' = "open"
  /\ openedAt' = clock
  /\ seen' = IF Watched THEN seen \cup {"open"} ELSE seen
  /\ \/ /\ Watched /\ ~registered
        /\ started' = TRUE
        /\ startedTs' = clock
     \/ /\ ~Watched \/ registered
        /\ UNCHANGED <<started, startedTs>>
  /\ UNCHANGED <<clock, member, keepsAddress, phase, registered, lastCheck, reported, historyVars>>

\* VoterRegistered of the observed voter, known by the signing policy address
\* it has in the current reward epoch.
VoterRegistered ==
  /\ phase \in {"logs", "down"}
  /\ stage = "open" /\ member \in {"none", "pre"}
  /\ member' = "registered"
  /\ registered' = (registered \/ (Watched /\ keepsAddress))
  /\ UNCHANGED <<clock, stage, keepsAddress, openedAt, phase, seen, started, startedTs,
                 lastCheck, reported, historyVars>>

\* VoterRemoved of the observed voter: no flag follows.
VoterRemoved ==
  /\ phase \in {"logs", "down"}
  /\ stage = "open" /\ member = "registered"
  /\ member' = "removed"
  /\ UNCHANGED <<clock, stage, keepsAddress, openedAt, programVars, historyVars>>

SigningPolicyInitialized ==
  /\ phase \in {"logs", "down"}
  /\ stage = "open"
  /\ stage' = "fixed"
  /\ seen' = IF Watched THEN seen \cup {"fixed"} ELSE seen
  /\ UNCHANGED <<clock, member, keepsAddress, openedAt, phase, flags, lastCheck, reported, historyVars>>

-----------------------------------------------------------------------------
(***************************************************************************)
(* The report.                                                             *)
(***************************************************************************)

\* interval, and the two conditions on the time since registration began.
Due ==
  /\ clock - lastCheck > (IF clock - startedTs > LongAfter THEN ShortInterval ELSE Interval)
  /\ started
  /\ ~registered
  /\ clock - startedTs > Patience

\* The end of the block. last_registration_check is left as it is.
Report ==
  /\ phase = "logs"
  /\ phase' = "between"
  /\ reported' = Due
  /\ lastReport' = IF Due THEN {clock} ELSE lastReport
  /\ tooSoon' = (tooSoon \/ (Due /\ \E t \in lastReport : clock - t < ShortInterval))
  /\ UNCHANGED <<clock, chainVars, seen, flags, lastCheck>>

\* An error answer to the uptime ping: the block is left before its report.
BlockAbandoned ==
  /\ phase = "logs"
  /\ phase' = "abandoned"
  /\ reported' = FALSE
  /\ UNCHANGED <<clock, chainVars, seen, flags, lastCheck, historyVars>>

Event ==
  \/ VoterPreRegistered \/ VotePowerBlockSelected \/ VoterRegistered \/ VoterRemoved
  \/ SigningPolicyInitialized

Next ==
  \/ Startup \/ Crash \/ UnwatchedBlock
  \/ NextBlock \/ SwitchBlock \/ SwitchFails \/ SwitchUnknown
  \/ Event \/ Report \/ BlockAbandoned

Spec == Init /\ [][Next]_vars

-----------------------------------------------------------------------------
(***************************************************************************)
(* Properties.                                                             *)
(***************************************************************************)

\* No false alarm: the report is raised only while registration for the next
\* reward epoch goes on, or is over, and the voter has not registered; not after
\* the next epoch has begun, and not after a registration for an earlier one. A
\* voter that registers with another signing policy address is not recognised.
NoFalseAlarm ==
  phase = "between" /\ reported =>
    stage # "closed" /\ (member \in {"none", "pre"} \/ ~keepsAddress)

\* No missed alarm: when the process has seen registration begin and the voter
\* has not even preregistered after Patience, every block that is not left at the
\* uptime ping raises the report, over any number of reward epochs. (A voter that preregistered or was removed again
\* counts as registered.)
AlarmRaised ==
  /\ phase = "between"
  /\ "open" \in seen
  /\ member = "none"
  /\ clock - openedAt > Patience
  /\ clock - lastCheck > Interval
  => reported

\* "reporting on registration and preregistration once per minute"
\* (observer/observer.py:827), or every ten seconds: two reports are at least
\* ten seconds apart.
ReportsApart == ~tooSoon

=============================================================================
