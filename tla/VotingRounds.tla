---------------------------- MODULE VotingRounds ----------------------------
(***************************************************************************)
(* The voting rounds the observer collects (observer/voting_round.py) and  *)
(* the part of observer_loop that feeds them: the wait for a fresh voting  *)
(* epoch, one pass per block over its event logs and then its              *)
(* transactions, and VotingRoundManager.finalize at the end of the block.  *)
(*                                                                         *)
(* The dict VotingRoundManager.rounds is iterated in insertion order, and  *)
(* finalize compares each key with a watermark it moves while it iterates. *)
(* All that matters of the order is who came before whom, so the dict is   *)
(* the set of its keys and the relation "older".                           *)
(*                                                                         *)
(* Submissions are taken of the addresses in by_omni of the signing policy *)
(* at hand, whatever round they name: those of a voter who has left the    *)
(* policy, or is not in it yet, are passed over. That the process works    *)
(* with the policy in force is the subject of SigningPolicies; here it may *)
(* fall behind.                                                            *)
(*                                                                         *)
(* The process keeps no state on disk: a crash loses everything but what   *)
(* it has reported, and a restart begins again with a wait.                *)
(***************************************************************************)
EXTENDS VotingEpochs, FiniteSets

CONSTANTS
  Rounds,       \* voting round ids that occur in payloads and events
  Senders,      \* addresses voters send submissions from
  Voters,       \* Voters[e]: those of the signing policy in force in voting epoch e
  MaxGap,       \* the longest time between two consecutive blocks
  MaxTs,        \* bound: the chain ends here
  MaxItems      \* bound: items the chain carries in all

ASSUME RoundsAssumption == Rounds \subseteq Nat
ASSUME BoundsAssumption == MaxTs \in Nat /\ MaxGap \in 0 .. MaxTs /\ MaxItems \in Nat
ASSUME VotersAssumption == Voters \in [0 .. MaxTs -> SUBSET Senders]

VARIABLES
  ts,           \* block_ts of the block at hand, or of the last one
  phase,        \* where observer_loop is, see Phases
  startEpoch,   \* voting_epoch read before the wait
  policy,       \* keys of signing_policy.entity_mapper.by_omni
  finalized,    \* VotingRoundManager.finalized
  rounds,       \* keys of VotingRoundManager.rounds
  older,        \* <<j, k>>: j was inserted before k
  content       \* content[k]: what rounds[k] has collected

\* History: no part of the program, only read by the properties.
VARIABLES
  carried,      \* every item the chain has carried
  overlooked,   \* those of voters of the policy in force that the process passed over
  validated,    \* rounds handed over to validate_round
  archived,     \* archived[k]: the content round k was handed over with
  observed,     \* rounds this process has a record of from their window
  swept,        \* block_ts of the last finalize, or of the first block
  punctual      \* finalize was called at least once in every EpochLen of time

dictVars == <<finalized, rounds, older, content>>
historyVars == <<carried, overlooked, validated, archived, observed, swept, punctual>>
vars == <<ts, phase, startEpoch, policy, dictVars, historyVars>>

\* "down": not running; "waiting": the wait for the next voting epoch;
\* "polling": between two blocks; "logs", "txs": the two passes over a block.
Phases == {"down", "waiting", "polling", "logs", "txs"}

\* One thing in a block that names a voting round: a submission, or an event.
Sources == Senders \cup {"relayed", "request"}
Item == [round : Rounds, from : Sources, ts : Nat]

TypeOK ==
  /\ ts \in Nat
  /\ phase \in Phases
  /\ startEpoch \in Nat
  /\ policy \subseteq Senders
  /\ finalized \in Nat
  /\ rounds \subseteq Rounds
  /\ older \subseteq rounds \X rounds
  /\ content \in [Rounds -> SUBSET Item]
  /\ carried \subseteq Item /\ overlooked \subseteq carried
  /\ validated \subseteq Rounds
  /\ archived \in [Rounds -> SUBSET Item]
  /\ observed \subseteq Rounds
  /\ swept \in Nat
  /\ punctual \in BOOLEAN

Init ==
  /\ ts \in 0 .. MaxGap
  /\ phase = "down"
  /\ startEpoch = 0
  /\ policy = {}
  /\ finalized = 0
  /\ rounds = {}
  /\ older = {}
  /\ content = [k \in Rounds |-> {}]
  /\ carried = {} /\ overlooked = {}
  /\ validated = {}
  /\ archived = [k \in Rounds |-> {}]
  /\ observed = {}
  /\ swept = 0
  /\ punctual = TRUE

-----------------------------------------------------------------------------
(***************************************************************************)
(* The process: start, wait, crash.                                        *)
(***************************************************************************)

\* The policy of voting epoch e replaces another.
SwitchDue(e) == e > 0 /\ Voters[e] # Voters[e - 1]

\* observer_loop begins: the voting epoch of the latest block is remembered. The
\* policy is that of the reward epoch by the clock, which is in force or the next to
\* come into force.
Startup ==
  /\ phase = "down"
  /\ phase' = "waiting"
  /\ startEpoch' = EpochAt(ts)
  /\ \E e \in EpochAt(ts) .. MaxTs :
       /\ \A f, g \in EpochAt(ts) + 1 .. e : SwitchDue(f) /\ SwitchDue(g) => f = g
       /\ policy' = Voters[e]
  /\ UNCHANGED <<ts, dictVars, historyVars>>

\* Any await may raise, and so may validation: main reports it and the process ends.
Crash ==
  /\ phase # "down"
  /\ phase' = "down"
  /\ policy' = {}
  /\ rounds' = {}
  /\ older' = {}
  /\ content' = [k \in Rounds |-> {}]
  /\ observed' = {}
  /\ UNCHANGED <<ts, startEpoch, finalized, carried, overlooked, validated, archived, swept, punctual>>

\* The time of the next block.
Tick ==
  \E gap \in 0 .. MaxGap :
    /\ ts + gap <= MaxTs
    /\ ts' = ts + gap

\* A block the process does not look into: it is down, or it waits and the
\* block is not in the voting epoch it waits for.
UnwatchedBlock ==
  /\ phase \in {"down", "waiting"}
  /\ Tick
  /\ phase = "waiting" => EpochAt(ts') # startEpoch + 1
  /\ UNCHANGED <<phase, startEpoch, policy, dictVars, historyVars>>

\* Mutant: one epoch too low, the round the process has seen a part of counts.
InitialMarkTooLow == startEpoch - 1

\* The watermark of VotingRoundManager(voting_epoch.previous.id): the epoch in
\* which the process was started, of which it has seen only a part.
InitialMark == startEpoch

\* The first block of the next voting epoch: the manager is created, and this
\* very block is the first to be processed.
FirstBlock ==
  /\ phase = "waiting"
  /\ Tick
  /\ EpochAt(ts') = startEpoch + 1
  /\ phase' = "logs"
  /\ finalized' = InitialMark
  /\ swept' = ts'
  /\ punctual' = TRUE
  /\ UNCHANGED <<startEpoch, policy, rounds, older, content, carried, overlooked, validated,
                 archived, observed>>

\* At the head of a block, the policy whose first voting epoch the block is in, if
\* the process has heard of it.
NextBlock ==
  /\ phase = "polling"
  /\ Tick
  /\ phase' = "logs"
  /\ \/ UNCHANGED policy
     \/ SwitchDue(EpochAt(ts')) /\ policy' = Voters[EpochAt(ts')]
  /\ UNCHANGED <<startEpoch, dictVars, historyVars>>

-----------------------------------------------------------------------------
(***************************************************************************)
(* One block.                                                              *)
(***************************************************************************)

\* The chain carries an item in the block at hand.
Carry(i) ==
  /\ Cardinality(carried) < MaxItems
  /\ carried' = carried \cup {i}
  /\ UNCHANGED <<validated, archived, swept, punctual>>

\* VotingRoundManager.get(k), and the item stored in the round it returns.
Store(i) ==
  /\ rounds' = rounds \cup {i.round}
  /\ older' = IF i.round \in rounds THEN older
              ELSE older \cup (rounds \X {i.round})
  /\ content' = [content EXCEPT ![i.round] = @ \cup {i}]
  /\ observed' = IF InWindow(i.round, ts) /\ i.round > startEpoch
                 THEN observed \cup {i.round} ELSE observed
  /\ UNCHANGED finalized

\* An item in a block nobody looks into.
MissedItem ==
  /\ phase \in {"down", "waiting"}
  /\ \E k \in Rounds, s \in Sources : Carry([round |-> k, from |-> s, ts |-> ts])
  /\ UNCHANGED <<ts, phase, startEpoch, policy, dictVars, observed, overlooked>>

\* ProtocolMessageRelayed names the round it finalizes on the chain.
ProtocolMessageRelayed(k) ==
  LET i == [round |-> k, from |-> "relayed", ts |-> ts]
  IN /\ phase = "logs"
     /\ Carry(i)
     /\ Store(i)
     /\ UNCHANGED <<ts, phase, startEpoch, policy, overlooked>>

\* AttestationRequest belongs to the voting epoch of the block it is in.
AttestationRequest(k) ==
  LET i == [round |-> k, from |-> "request", ts |-> ts]
  IN /\ phase = "logs"
     /\ k = EpochAt(ts)
     /\ Carry(i)
     /\ Store(i)
     /\ UNCHANGED <<ts, phase, startEpoch, policy, overlooked>>

LogsDone ==
  /\ phase = "logs"
  /\ phase' = "txs"
  /\ UNCHANGED <<ts, startEpoch, policy, dictVars, historyVars>>

\* Mutant: the policy the process was started under.
KnownAtStart(s) == s \in Voters[startEpoch]

\* by_omni of the policy at hand has an entity of the address.
Known(s) == s \in policy

\* submit1, submit2 or submitSignatures: the payload names the round, and nothing
\* checks the name against the block. The sender is looked up in the policy at hand,
\* and a transaction of any other is passed over.
Submission(k, s) ==
  LET i == [round |-> k, from |-> s, ts |-> ts]
  IN /\ phase = "txs"
     /\ Carry(i)
     /\ \/ /\ Known(s)
           /\ Store(i)
           /\ UNCHANGED overlooked
        \/ /\ ~Known(s)
           /\ overlooked' = overlooked \cup (IF s \in Voters[EpochAt(ts)] THEN {i} ELSE {})
           /\ UNCHANGED <<dictVars, observed>>
     /\ UNCHANGED <<ts, phase, startEpoch, policy>>

\* Mutant: the end of the round's own epoch, not of the next.
CompletedEarly(k) == EndS(k) <= ts

\* round_completed
Completed(k) == WindowEnd(k) < ts

\* Mutant: every key met moves the watermark, completed or not.
OvertakenByAny(k) ==
  \/ k <= finalized
  \/ \E j \in rounds : <<j, k>> \in older /\ k <= j

\* Mutant: the watermark does not outlive the call.
OvertakenInCall(k) == \E j \in rounds : <<j, k>> \in older /\ Completed(j) /\ k <= j

\* finalize meets k when the watermark has reached it: it was there before the
\* call, or an older key that is completed has moved it past k.
Overtaken(k) ==
  \/ k <= finalized
  \/ \E j \in rounds : <<j, k>> \in older /\ Completed(j) /\ k <= j

\* What finalize returns, and what it leaves in the dict.
Finished == {k \in rounds : Completed(k) /\ ~Overtaken(k)}
Remaining == {k \in rounds : ~Completed(k) /\ ~Overtaken(k)}

\* Every completed key moves the watermark, or has been overtaken by a newer one
\* that did: in the end it is at the newest of them, unless it began above.
Closed == {k \in rounds : Completed(k)}

\* VotingRoundManager.finalize; every round it returns goes to validate_round.
Finalize ==
  /\ phase = "txs"
  /\ phase' = "polling"
  /\ \E m \in {finalized} \cup Closed :
       /\ \A k \in {finalized} \cup Closed : k <= m
       /\ finalized' = m
  /\ rounds' = Remaining
  /\ older' = older \cap (Remaining \X Remaining)
  /\ content' = [k \in Rounds |-> IF k \in Remaining THEN content[k] ELSE {}]
  /\ validated' = validated \cup Finished
  /\ archived' = [k \in Rounds |-> IF k \in Finished THEN content[k] ELSE archived[k]]
  /\ swept' = ts
  /\ punctual' = (punctual /\ ts <= swept + EpochLen)
  /\ UNCHANGED <<ts, startEpoch, policy, carried, overlooked, observed>>

\* The P-chain API answers the uptime ping with an "error": the rest of the
\* block is skipped, finalize with it.
BlockAbandoned ==
  /\ phase = "txs"
  /\ phase' = "polling"
  /\ UNCHANGED <<ts, startEpoch, policy, dictVars, historyVars>>

-----------------------------------------------------------------------------
Environment == UnwatchedBlock \/ MissedItem \/ Crash

Process == Startup \/ FirstBlock \/ NextBlock \/ LogsDone \/ Finalize \/ BlockAbandoned

Event ==
  \/ \E k \in Rounds : ProtocolMessageRelayed(k) \/ AttestationRequest(k)
  \/ \E k \in Rounds, s \in Senders : Submission(k, s)

Next == Environment \/ Process \/ Event

Spec == Init /\ [][Next]_vars

(***************************************************************************)
(* Fairness for the liveness property: the process goes on with a block it *)
(* has begun (nothing in the loop blocks for ever), the P-chain API does   *)
(* not answer every ping from some time on with an "error", and the chain  *)
(* goes on to produce blocks whose timestamps advance.                     *)
(***************************************************************************)
TimePasses == NextBlock /\ ts' > ts

FairSpec ==
  /\ Init
  /\ [][Next]_vars
  /\ WF_vars(LogsDone)
  /\ SF_vars(Finalize)
  /\ WF_vars(NextBlock)
  /\ SF_vars(TimePasses)

-----------------------------------------------------------------------------
(***************************************************************************)
(* Properties.                                                             *)
(***************************************************************************)

\* No round is validated after a newer one, and none a second time (it would
\* be with what came late only), not even across a crash and a restart that
\* forgets the watermark (VotingRoundManager.finalize with the start value
\* observer_loop gives the manager).
ValidatedInOrder ==
  [][/\ \A k \in validated' \ validated, q \in validated : q < k
     /\ \A q \in validated : archived'[q] = archived[q]]_vars

\* What a round is owed: the events, and the submissions of the voters in force when
\* they are made.
Owed(i) == i.from \in Senders => i.from \in Voters[EpochAt(i.ts)]

\* A round that reaches validate_round has nothing the chain did not carry, and what
\* the chain carried inside its window, but for two things: a submission of a sender
\* outside the policy in force when it was made, and one that was passed over by a
\* process working with another policy. So a process started in the middle of an
\* epoch judges no round on the part of it that it saw; but the last round of a
\* policy is judged without the reveals and the signatures of voters the next policy
\* does not have, or knows by other addresses.
RecordComplete ==
  \A k \in validated :
    /\ archived[k] \subseteq {i \in carried : i.round = k}
    /\ \A i \in carried \ overlooked :
         i.round = k /\ InWindow(k, i.ts) /\ Owed(i) => i \in archived[k]

\* A round the process has seen inside its window is not forgotten: it stays in
\* the dict until validate_round has had it. finalize drops, without a word,
\* the keys at or below a watermark it moves while it iterates, in the order
\* in which they were first named; this says none of them is such a round as
\* long as finalize calls are at most a voting epoch apart. They are further
\* apart when the chain halts, or the P-chain API keeps answering "error".
NoObservedRoundLost == punctual => observed \subseteq rounds \cup validated

\* Every round the process collects is in the end validated, if the process
\* lives, finalize is punctual and the chain outlasts the round's window.
EveryRoundValidated ==
  \A k \in Rounds :
    (k \in observed /\ WindowEnd(k) < MaxTs)
      ~> (k \in validated \/ phase = "down" \/ ~punctual)

(***************************************************************************)
(* The collection of rounds implements RoundLog.                           *)
(***************************************************************************)
Log == INSTANCE RoundLog WITH
  ts <- ts, policy <- policy, carried <- carried, overlooked <- overlooked,
  validated <- validated, archived <- archived
LogSpec == Log!LogSpec

=============================================================================
