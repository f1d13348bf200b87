-------------------------- MODULE SigningPolicies --------------------------
(***************************************************************************)
(* The signing policy the observer works with, from reward epoch to reward *)
(* epoch: SigningPolicyBuilder (observer/reward_epoch_manager.py), the     *)
(* search through old logs at startup (get_signing_policy_events) and the  *)
(* switch at the head of each block in observer_loop.                      *)
(*                                                                         *)
(* Time is counted in voting epochs. For every reward epoch the chain      *)
(* emits, towards the end of the one before it, the start of the random    *)
(* acquisition, the vote power block, the registration of voters and the   *)
(* signing policy, which names its first voting round.                     *)
(***************************************************************************)
EXTENDS Integers, FiniteSetsExt

CONSTANTS
  RewardLen,    \* voting epochs in a reward epoch
  RandomLead,   \* the random acquisition starts that long before a reward epoch
  WindowLead,   \* startup reads logs from that long before the reward epoch ...
  WindowTail,   \* ... to that long before it
  Voters,       \* voters that may register
  Target,       \* the observed one of them
  MaxSkip,      \* bound: voting epochs without a block, in a row
  MaxEpoch      \* bound: the last reward epoch

ASSUME LengthAssumption ==
  /\ RewardLen \in Nat \ {0} /\ RandomLead \in 1 .. RewardLen
  /\ WindowLead \in RandomLead .. RewardLen /\ WindowTail \in 0 .. RandomLead
  /\ MaxSkip \in Nat /\ MaxEpoch \in Nat \ {0}
ASSUME VotersAssumption == Target \in Voters /\ Voters \cap {"random", "votepower", "init"} = {}

RewardEpochs == 1 .. MaxEpoch

\* Events of one reward epoch: RandomAcquisitionStarted, VotePowerBlockSelected,
\* SigningPolicyInitialized, and for each voter the VoterRegistered and the
\* VoterRegistrationInfo of one transaction.
Once == {"random", "votepower", "init"}
Kinds == Once \cup Voters

VARIABLES
  now,          \* voting epoch of the newest block
  emitted,      \* emitted[r]: events of reward epoch r the chain has emitted
  inReach,      \* inReach[r]: those startup finds when it looks for policy r
  start,        \* start[r]: start_voting_round_id of policy r, 0: not initialized
  voters,       \* voters[r]: the voters of policy r
  phase,        \* "down", "waiting" or "observing"
  startEpoch,   \* voting_epoch before the wait
  policy,       \* signing_policy.reward_epoch
  builder       \* spb: [epoch, got], got a set of <<event, its reward epoch>>

\* History: no part of the program, only read by the properties.
VARIABLES
  early,        \* when the process began to observe, nothing of the next policy was out
  skipped,      \* no block was in the first voting epoch of a policy the process knew of
  failure,      \* what ended the last process
  judged        \* <<k, r>>: the last block had round k validated with policy r

chainVars == <<now, emitted, inReach, start, voters>>
programVars == <<phase, startEpoch, policy, builder>>
historyVars == <<early, skipped, failure, judged>>
vars == <<chainVars, programVars, historyVars>>

Failures == {"none", "rpc", "startup", "build", "duplicate", "unregistered"}

TypeOK ==
  /\ now \in Nat
  /\ emitted \in [RewardEpochs -> SUBSET Kinds]
  /\ inReach \in [RewardEpochs -> SUBSET Kinds]
  /\ start \in [RewardEpochs -> Nat]
  /\ voters \in [RewardEpochs -> SUBSET Voters]
  /\ phase \in {"down", "waiting", "observing"}
  /\ startEpoch \in Nat
  /\ policy \in RewardEpochs
  /\ builder \in [epoch : Nat, got : SUBSET (Kinds \X RewardEpochs)]
  /\ early \in BOOLEAN /\ skipped \in BOOLEAN
  /\ failure \in Failures
  /\ judged \subseteq Nat \X RewardEpochs

Builder(r) == [epoch |-> r, got |-> {}]

\* The beginning of reward epoch 1, whose policy was initialized in time.
Init ==
  /\ now = RewardLen
  /\ emitted = [r \in RewardEpochs |-> IF r = 1 THEN Kinds ELSE {}]
  /\ inReach = emitted
  /\ start = [r \in RewardEpochs |-> IF r = 1 THEN RewardLen ELSE 0]
  /\ voters = [r \in RewardEpochs |-> IF r = 1 THEN Voters ELSE {}]
  /\ phase = "down"
  /\ startEpoch = 0
  /\ policy = 1
  /\ builder = Builder(1)
  /\ early = FALSE
  /\ skipped = FALSE
  /\ failure = "none"
  /\ judged = {}

-----------------------------------------------------------------------------
(***************************************************************************)
(* Reward epochs.                                                          *)
(***************************************************************************)
NominalStart(r) == r * RewardLen

\* RewardEpochFactory.from_timestamp
RewardEpochAt(t) == t \div RewardLen

\* The policy in force for voting round k, on the chain.
InForce(k) == Max({r \in RewardEpochs : start[r] # 0 /\ start[r] <= k})

\* The blocks find_voter_registration_blocks aims at: from WindowLead to
\* WindowTail before the nominal start of the reward epoch.
Searched(r, t) == NominalStart(r) - WindowLead <= t /\ t < NominalStart(r) - WindowTail

\* The chain allows event e of reward epoch r now.
Allowed(e, r) ==
  /\ e \notin emitted[r]
  /\ start[r] = 0
  /\ e = "random" =>
       /\ now >= NominalStart(r) - RandomLead
       /\ start[r - 1] # 0 /\ start[r - 1] <= now
  /\ e = "votepower" => "random" \in emitted[r]
  /\ e \in Voters => "votepower" \in emitted[r]
  /\ e = "init" => emitted[r] \cap Voters # {}

-----------------------------------------------------------------------------
(***************************************************************************)
(* SigningPolicyBuilder.                                                   *)
(***************************************************************************)

\* The assertion of add: an event of a kind that occurs once has not occurred.
MayAdd(b, e) == e \in Once => \A g \in b.got : g[1] # e

\* Mutant: the reward epoch of the event is lost.
AddBare(b, e, r) == [b EXCEPT !.got = @ \cup {e}]

Add(b, e, r) == [b EXCEPT !.got = @ \cup {<<e, r>>}]

\* The assertions of build, and the look-up of each voter of the policy that
\* was initialized among the registrations.
MayBuild(b) ==
  /\ \A e \in Once : <<e, b.epoch>> \in b.got
  /\ \A v \in voters[b.epoch] : \E g \in b.got : g[1] = v

\* Mutant: one voting epoch too late.
SwitchDueLater(t) == \E g \in builder.got : g[1] = "init" /\ start[g[2]] + 1 = t

\* spb.signing_policy_initialized.start_voting_round_id == voting_epoch.id
SwitchDue(t) == \E g \in builder.got : g[1] = "init" /\ start[g[2]] = t

-----------------------------------------------------------------------------
(***************************************************************************)
(* The process.                                                            *)
(***************************************************************************)
Fail(reason) ==
  /\ phase' = "down"
  /\ failure' = reason
  /\ builder' = Builder(1)
  /\ judged' = {}
  /\ UNCHANGED <<startEpoch, policy, early, skipped>>

\* Any await may raise.
Crash ==
  /\ phase # "down"
  /\ Fail("rpc")
  /\ UNCHANGED chainVars

\* get_signing_policy_events: a builder with the events of the logs in reach.
FromLogs(r) == [epoch |-> r, got |-> inReach[r] \X {r}]

\* observer_loop up to the wait: the policy of the current reward epoch is built
\* from the logs in reach, and a builder begun for the next one.
Startup ==
  LET r == RewardEpochAt(now)
  IN /\ phase = "down"
     /\ \/ ~MayBuild(FromLogs(r)) /\ Fail("startup")
        \/ /\ MayBuild(FromLogs(r))
           /\ phase' = "waiting"
           /\ startEpoch' = now
           /\ policy' = r
           /\ builder' = Builder(r + 1)
           /\ failure' = "none"
           /\ UNCHANGED <<early, skipped, judged>>
     /\ UNCHANGED chainVars

\* A block in a voting epoch that had none before it. (For further blocks in
\* the same epoch there is nothing to switch to: a policy starts later than the
\* voting epoch it is initialized in.)
NextEpoch ==
  /\ now' \in now + 1 .. now + 1 + MaxSkip
  /\ RewardEpochAt(now') <= MaxEpoch
  /\ UNCHANGED <<emitted, inReach, start, voters>>

UnwatchedBlock ==
  /\ phase \in {"down", "waiting"}
  /\ NextEpoch
  /\ phase = "waiting" => now' # startEpoch + 1
  /\ UNCHANGED <<programVars, historyVars>>

\* The wait ends. The target is looked up in the policy.
FirstBlock ==
  /\ phase = "waiting"
  /\ NextEpoch
  /\ now' = startEpoch + 1
  /\ \/ Target \notin voters[policy] /\ Fail("unregistered")
     \/ /\ Target \in voters[policy]
        /\ phase' = "observing"
        /\ early' = (policy < MaxEpoch => emitted[policy + 1] = {} /\ RewardEpochAt(now') = policy)
        /\ skipped' = FALSE
        /\ UNCHANGED <<startEpoch, policy, builder, failure, judged>>

\* The rounds whose window the block is the first to lie behind are validated
\* with the policy at hand.
Judge(p) ==
  judged' = {<<k, p>> : k \in {j \in now - 1 .. now' - 2 : j > startEpoch}}

\* Mutant: the builder is kept, with the events of the policy it has built.
BuilderKept == [builder EXCEPT !.epoch = @ + 1]

\* The builder of the policy after the one that has been built.
NextBuilder == Builder(builder.epoch + 1)

\* A later block: the switch when it is due, then the rounds that are over.
Block ==
  /\ phase = "observing"
  /\ NextEpoch
  /\ skipped' = (skipped \/ \E r \in RewardEpochs : r > policy /\ start[r] \in now + 1 .. now' - 1)
  /\ \/ /\ ~SwitchDue(now')
        /\ Judge(policy)
        /\ UNCHANGED <<policy, builder>>
     \/ /\ SwitchDue(now') /\ MayBuild(builder) /\ Target \in voters[builder.epoch]
        /\ policy' = builder.epoch
        /\ builder' = NextBuilder
        /\ Judge(builder.epoch)
  /\ UNCHANGED <<phase, startEpoch, early, failure>>

\* The switch fails: an assertion of build, or the target is not in the policy.
BlockFails ==
  /\ phase = "observing"
  /\ NextEpoch
  /\ SwitchDue(now')
  /\ \/ ~MayBuild(builder) /\ Fail("build")
     \/ MayBuild(builder) /\ Target \notin voters[builder.epoch] /\ Fail("unregistered")

\* The chain emits an event, which the process sees when it observes.
Emit(e, r) ==
  /\ Allowed(e, r)
  /\ emitted' = [emitted EXCEPT ![r] = @ \cup {e}]
  /\ inReach' = IF Searched(r, now) THEN [inReach EXCEPT ![r] = @ \cup {e}] ELSE inReach
  /\ \/ /\ e = "init"
        /\ start' = [start EXCEPT ![r] = Max({NominalStart(r), now + 1})]
        /\ \E vs \in SUBSET (emitted[r] \cap Voters) : vs # {} /\ voters' = [voters EXCEPT ![r] = vs]
     \/ e # "init" /\ UNCHANGED <<start, voters>>
  /\ UNCHANGED now
  /\ \/ phase # "observing" /\ UNCHANGED <<programVars, historyVars>>
     \/ /\ phase = "observing" /\ MayAdd(builder, e)
        /\ builder' = Add(builder, e, r)
        /\ UNCHANGED <<phase, startEpoch, policy, historyVars>>
     \/ phase = "observing" /\ ~MayAdd(builder, e) /\ Fail("duplicate")

Next ==
  \/ Crash \/ Startup \/ UnwatchedBlock \/ FirstBlock \/ Block \/ BlockFails
  \/ \E e \in Kinds, r \in RewardEpochs : Emit(e, r)

Spec == Init /\ [][Next]_vars

-----------------------------------------------------------------------------
(***************************************************************************)
(* Properties.                                                             *)
(***************************************************************************)

\* A process that began to observe before anything of the next policy was out
\* works with the policy in force, over any number of reward epochs, provided
\* the first voting epoch of each policy has a block (the switch tests equality).
\* (A process that began later keeps the old policy for the whole of the next
\* reward epoch, or fails at the switch: the TODO at observer/observer.py:497.)
PolicyInForce == phase = "observing" /\ early /\ ~skipped => policy = InForce(now)

\* The assertions of the builder only fail in a process that began too late or
\* that skipped the start of a policy.
BuilderFailsForReason == failure \in {"build", "duplicate"} => ~early \/ skipped

\* "the message must exist and the signature must match the finalization"
\* (observer/validation/fdc.py:165): the policy a round's signatures are compared
\* with is that of the round.
JudgedByOwnPolicy == phase = "observing" /\ early /\ ~skipped => \A j \in judged : j[2] = InForce(j[1])

=============================================================================
