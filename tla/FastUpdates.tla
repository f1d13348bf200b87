----------------------------- MODULE FastUpdates -----------------------------
(***************************************************************************)
(* The fast updates of the observed entity: FastUpdatesManager             *)
(* (observer/fast_updates_manager.py), the events of observer_loop that    *)
(* feed it, and the minimal condition on the silence since the last update *)
(* (calculate_ftso_block_latency_feeds).                                   *)
(*                                                                         *)
(* A reward epoch begins twice: by the clock, and when its signing policy  *)
(* comes into force, which may be later. FastUpdateFeeds tells the voting  *)
(* epoch, that is the reward epoch by the clock; an update belongs to the  *)
(* policy the observer works with.                                         *)
(***************************************************************************)
EXTENDS Integers

CONSTANTS
  MaxEpoch,     \* bound: the last reward epoch
  MaxBlock,     \* bound: the last block
  FeedCounts,   \* FeedCounts[r]: feeds while policy r is in force
  Entities,     \* the weights and signing keys the entity may have, per reward epoch
  TotalWeight,  \* weight of all voters
  DeltaBytes,   \* lengths of the deltas of an update, in bytes
  Senders,      \* addresses the entity sends updates from
  MaxExponent,  \* a hundredth of the blocks of a reward epoch
  Scale,        \* 1000000000
  Critical,     \* 100: a chance of that much of Scale is taken for none
  None

RewardEpochs == 1 .. MaxEpoch

ASSUME BoundAssumption == MaxEpoch \in Nat \ {0} /\ MaxBlock \in Nat
ASSUME FeedAssumption == FeedCounts \in [RewardEpochs -> Nat \ {0}] /\ DeltaBytes \subseteq Nat
ASSUME EntityAssumption ==
  /\ TotalWeight \in Nat \ {0}
  /\ \A e \in Entities, r \in RewardEpochs : e[r].weight \in 0 .. TotalWeight
ASSUME ChanceAssumption ==
  MaxExponent \in Nat \ {0} /\ Scale \in Nat /\ Critical \in Nat /\ Critical < Scale

VARIABLES
  block,        \* number of the newest block
  clock,        \* reward epoch by the clock
  inForce,      \* reward epoch of the signing policy in force
  initialized,  \* the newest signing policy that was initialized
  entity        \* entity[r]: the weight and key of the entity in reward epoch r

VARIABLES
  phase,        \* where observer_loop is, see Phases
  policy,       \* signing_policy.reward_epoch
  informed,     \* spb.signing_policy_initialized is not None
  nr_of_feeds, fast_update_re,
  last_update,  \* the reward epoch and the length of the array
  last_update_block, address_list,
  reported      \* the length of the last update in the block at hand was reported

\* History: no part of the program, only read by the properties.
VARIABLES
  since,        \* first block the process looked into
  submitted,    \* block of the entity's last update on the chain
  followed,     \* every update it saw was made under the policy the process works with
  late,         \* reward epochs that began by the clock before their policy
  feedsSeen,    \* a FastUpdateFeeds since the process or the policy in force began
  judged,       \* the last update in the block at hand, None before it
  alarm         \* the last check's, since the last update, switch or start

chainVars == <<block, clock, inForce, initialized, entity>>
feedVars == <<nr_of_feeds, fast_update_re>>
updateVars == <<last_update, last_update_block, address_list>>
historyVars == <<since, submitted, followed, late, feedsSeen, judged, alarm>>
vars == <<chainVars, phase, policy, informed, feedVars, updateVars, reported, historyVars>>

\* "waiting": for the next voting epoch; "polling": between two blocks; "logs",
\* "check": parts of a block.
Phases == {"down", "waiting", "polling", "logs", "check"}

Levels == {"none", "warning", "critical"}

Judgement == [size : Nat, right : Nat, known : BOOLEAN]

TypeOK ==
  /\ block \in 0 .. MaxBlock
  /\ {clock, inForce, initialized, policy} \subseteq RewardEpochs
  /\ entity \in Entities
  /\ phase \in Phases
  /\ informed \in BOOLEAN
  /\ nr_of_feeds \in Nat /\ fast_update_re \in {0} \cup RewardEpochs
  /\ last_update \in [epoch : RewardEpochs, size : Nat]
  /\ last_update_block \in 0 .. block
  /\ address_list \subseteq Senders
  /\ reported \in BOOLEAN
  /\ {since, submitted} \subseteq 0 .. block
  /\ followed \in BOOLEAN /\ feedsSeen \in BOOLEAN
  /\ late \subseteq RewardEpochs
  /\ judged \in Judgement \cup {None}
  /\ alarm \in Levels

Init ==
  /\ block = 0
  /\ clock = 1 /\ inForce = 1 /\ initialized = 1
  /\ entity \in Entities
  /\ phase = "down"
  /\ policy = 1
  /\ informed = FALSE
  /\ nr_of_feeds = 0 /\ fast_update_re = 0
  /\ last_update = [epoch |-> 1, size |-> 0]
  /\ last_update_block = 0
  /\ address_list = {}
  /\ reported = FALSE
  /\ since = 0 /\ submitted = 0
  /\ followed = TRUE
  /\ late = {}
  /\ feedsSeen = FALSE
  /\ judged = None
  /\ alarm = "none"

-----------------------------------------------------------------------------
(***************************************************************************)
(* Lengths and chances.                                                    *)
(***************************************************************************)

\* The length of the array: two of the 8 bits of a byte make an entry.
Entries(bytes) == 4 * bytes

\* The length of the array of the fewest bytes that hold an entry for each of n feeds.
RightSize(n) == Entries((n + 3) \div 4)

\* expected: n rounded up to the next multiple of 8, though four feeds fill a byte
Padded(n) == n + 7 - ((n - 1) % 8)

\* Mutant: the epochs are not compared.
LengthIssueAnyEpoch(u, n, re) == n # 0 /\ Padded(n) # u.size

\* Mutant: more than enough is enough.
LengthIssueShort(u, n, re) == u.epoch = re /\ n # 0 /\ Padded(n) > u.size

\* check_update_length finds something to report.
LengthIssue(u, n, re) == u.epoch = re /\ n # 0 /\ Padded(n) # u.size

Power(base, n) == LET p[i \in 0 .. n] == IF i = 0 THEN 1 ELSE base * p[i - 1] IN p[n]

\* probability_ppb: none of three halves of an update per block was the entity's in
\* n blocks.
Chance(n, weight) ==
  (Scale * Power(2 * TotalWeight - 3 * weight, n)) \div Power(2 * TotalWeight, n)

\* Mutant: without the bound on the exponent.
LevelUnbounded(n, weight) ==
  IF Chance(n, weight) <= Critical THEN "critical" ELSE "none"

\* Mutant: after a long silence the level is that of a silence of unknown length.
LevelForgotten(n, weight) ==
  IF n >= MaxExponent THEN "warning"
  ELSE IF Chance(n, weight) <= Critical THEN "critical" ELSE "none"

\* The level of the message, if there is one.
Level(n, weight) ==
  LET bounded == IF n >= MaxExponent THEN MaxExponent ELSE n
  IN IF Chance(bounded, weight) <= Critical THEN "critical"
     ELSE IF bounded < MaxExponent THEN "none" ELSE "warning"

-----------------------------------------------------------------------------
(***************************************************************************)
(* The chain.                                                              *)
(***************************************************************************)

\* The next block. The clock may enter the next reward epoch, but not a second one
\* before the policy of the first is in force.
Grow ==
  /\ block < MaxBlock
  /\ block' = block + 1
  /\ clock' \in {clock, clock + 1} /\ clock' <= MaxEpoch
  /\ inForce' \in {inForce, initialized}
  /\ inForce' <= clock' /\ clock' <= inForce' + 1
  /\ late' = IF clock' > inForce' THEN late \cup {clock'} ELSE late
  /\ UNCHANGED <<initialized, entity>>

\* SigningPolicyInitialized for the next reward epoch.
Initialize ==
  /\ initialized = inForce /\ initialized < MaxEpoch
  /\ initialized' = initialized + 1
  /\ UNCHANGED <<block, clock, inForce, entity>>

\* A block while the process is down or waits, and what is in it.
UnwatchedBlock ==
  /\ phase \in {"down", "waiting"}
  /\ Grow
  /\ submitted' \in {submitted, block'}
  /\ UNCHANGED <<phase, policy, informed, feedVars, updateVars, reported, since, followed,
                 feedsSeen, judged, alarm>>

-----------------------------------------------------------------------------
(***************************************************************************)
(* The process.                                                            *)
(***************************************************************************)

\* The state the loop begins with.
Forgotten ==
  /\ informed' = FALSE
  /\ nr_of_feeds' = 0 /\ fast_update_re' = 0
  /\ last_update' = [epoch |-> 1, size |-> 0] /\ last_update_block' = 0
  /\ address_list' = {}
  /\ reported' = FALSE
  /\ since' = 0 /\ followed' = TRUE /\ feedsSeen' = FALSE
  /\ judged' = None /\ alarm' = "none"

\* The policy of the reward epoch of the clock is looked for; the start fails when
\* it is not initialized.
Startup ==
  /\ phase = "down"
  /\ initialized >= clock
  /\ phase' = "waiting"
  /\ policy' = clock
  /\ UNCHANGED <<chainVars, informed, feedVars, updateVars, reported, historyVars>>

\* An exception ends the process; it keeps nothing.
Crash ==
  /\ phase # "down"
  /\ phase' = "down"
  /\ Forgotten
  /\ UNCHANGED <<chainVars, policy, submitted, late>>

\* Mutant: the block after counts as the last update.
FirstUpdateBlockAfter == block' + 1

\* FastUpdatesManager(block_number, ...)
FirstUpdateBlock == block'

\* The wait is over: the block that ended it is the first of the loop.
FirstBlock ==
  /\ phase = "waiting"
  /\ Grow
  /\ phase' = "logs"
  /\ last_update' = [epoch |-> policy, size |-> 0]
  /\ last_update_block' = FirstUpdateBlock
  /\ since' = block'
  /\ UNCHANGED <<policy, informed, feedVars, address_list, reported, submitted, followed, feedsSeen,
                 judged, alarm>>

\* A block and, at its head, the switch to a policy that comes into force. The
\* builder the process has is for the policy after its own.
NextBlock ==
  /\ phase = "polling"
  /\ Grow
  /\ reported' = FALSE
  /\ judged' = None
  /\ feedsSeen' = (feedsSeen /\ inForce' = inForce)
  /\ \/ /\ ~informed \/ inForce' = inForce
        /\ UNCHANGED <<policy, informed, alarm>>
     \/ /\ informed /\ inForce' # inForce
        /\ inForce' = policy + 1
        /\ policy' = inForce'
        /\ informed' = FALSE
        /\ alarm' = "none"
  /\ phase' = "logs"
  /\ UNCHANGED <<feedVars, updateVars, since, submitted, followed>>

\* The builder has the wrong policy, and its assertions do not hold.
SwitchFails ==
  /\ phase = "polling"
  /\ Grow
  /\ informed /\ inForce' # inForce /\ inForce' # policy + 1
  /\ phase' = "down"
  /\ Forgotten
  /\ UNCHANGED <<policy, submitted>>

\* The process learns of the policy when it looks into the block.
SigningPolicyInitialized ==
  /\ phase \in {"down", "waiting", "logs"}
  /\ Initialize
  /\ informed' = (informed \/ phase = "logs")
  /\ UNCHANGED <<phase, policy, feedVars, updateVars, reported, historyVars>>

FastUpdateFeeds ==
  /\ phase = "logs"
  /\ nr_of_feeds' = FeedCounts[inForce]
  /\ fast_update_re' = clock
  /\ feedsSeen' = TRUE
  /\ UNCHANGED <<chainVars, phase, policy, informed, updateVars, reported, since, submitted,
                 followed, late, judged, alarm>>

\* Mutant: the entity as it was in the first reward epoch.
OwnAtFirst(key) == key = entity[1].key

\* The update is signed with the key the entity has in the policy of the process.
Own(key) == key = entity[policy].key

\* calculate_update_from_tx of an update the entity sends, signed with the key it
\* has in the policy in force.
UpdateFromTx(bytes, sender) ==
  [key |-> entity[inForce].key, sender |-> sender, size |-> Entries(bytes)]

FastUpdateFeedsSubmitted(u) ==
  LET update == [epoch |-> policy, size |-> u.size]
  IN /\ phase = "logs"
     /\ submitted' = block
     /\ followed' = (followed /\ policy = inForce)
     /\ \/ /\ Own(u.key)
           /\ last_update' = update
           /\ last_update_block' = block
           /\ address_list' = address_list \cup {u.sender}
           /\ reported' = LengthIssue(update, nr_of_feeds, fast_update_re)
           /\ judged' = [size |-> u.size, right |-> RightSize(FeedCounts[inForce]),
                         known |-> feedsSeen /\ clock = inForce /\ policy = inForce]
           /\ alarm' = "none"
        \/ /\ ~Own(u.key)
           /\ UNCHANGED <<updateVars, reported, judged, alarm>>
     /\ UNCHANGED <<chainVars, phase, policy, informed, feedVars, since, late, feedsSeen>>

LogsDone ==
  /\ phase = "logs"
  /\ phase' = "check"
  /\ UNCHANGED <<chainVars, policy, informed, feedVars, updateVars, reported, historyVars>>

\* calculate_ftso_block_latency_feeds, when the check is due.
Check ==
  /\ phase = "check"
  /\ phase' = "polling"
  /\ alarm' = Level(block - last_update_block, entity[policy].weight)
  /\ UNCHANGED <<chainVars, policy, informed, feedVars, updateVars, reported, since, submitted,
                 followed, late, feedsSeen, judged>>

CheckNotDue ==
  /\ phase = "check"
  /\ phase' = "polling"
  /\ UNCHANGED <<chainVars, policy, informed, feedVars, updateVars, reported, historyVars>>

Next ==
  \/ UnwatchedBlock \/ Startup \/ Crash \/ FirstBlock \/ NextBlock \/ SwitchFails
  \/ SigningPolicyInitialized \/ FastUpdateFeeds
  \/ \E bytes \in DeltaBytes, sender \in Senders :
       FastUpdateFeedsSubmitted(UpdateFromTx(bytes, sender))
  \/ LogsDone \/ Check \/ CheckNotDue

Spec == Init /\ [][Next]_vars

-----------------------------------------------------------------------------
(***************************************************************************)
(* Properties.                                                             *)
(***************************************************************************)

\* The bytes that hold the feeds in force are odd in number: the check asks for one
\* byte more than they need.
OddBytes(right) == right % 8 # 0

\* An update as long as the feeds in force ask for is reported, by a process that
\* works with the policy in force, when it has an odd number of bytes and only then.
\* The first is a mistake of the check: the comment at fast_updates_manager.py:43
\* says the array fills a whole number of bytes, and the line below it rounds up to
\* two bytes. (A policy that comes into force late is excepted: the feeds of the old
\* policy were then told under the new reward epoch already, and until the next
\* FastUpdateFeeds a right update is reported.)
RightLengthReportedIffOdd ==
  judged # None /\ judged.size = judged.right =>
    /\ reported /\ policy = inForce /\ inForce \notin late => OddBytes(judged.right)
    /\ judged.known /\ OddBytes(judged.right) => reported

\* An update of another length is reported, once the feeds of the policy in force
\* have been told and unless the clock is in a reward epoch without a policy. One
\* wrong length passes by the same mistake: a byte too many after an odd number.
WrongLengthReported ==
  judged # None /\ judged.known /\ judged.size # judged.right =>
    reported \/ (OddBytes(judged.right) /\ judged.size = judged.right + Entries(1))

\* The last update of the entity the process could know of, or its own start.
LastSign == IF submitted > since THEN submitted ELSE since

\* An entity that is warned of has been silent for as long as makes its silence
\* improbable, and since the process began: not across a switch of policies that
\* brings another key, and not by what a process before knew.
AlarmOnlyAfterSilence ==
  alarm # "none" /\ followed =>
    \E n \in 0 .. block - LastSign : n >= MaxExponent \/ Chance(n, entity[policy].weight) <= Critical

\* Whatever the policy: a check after MaxExponent silent blocks warns.
SilenceReported ==
  [][Check /\ block - LastSign >= MaxExponent => alarm' # "none"]_vars

Rank == [l \in Levels |-> IF l = "none" THEN 0 ELSE IF l = "warning" THEN 1 ELSE 2]

\* While the entity is silent the level of the warning does not fall. (It does for
\* an entity with more than two thirds of the weight, whose chance is a power of a
\* negative number.)
AlarmGrows ==
  [][Check /\ 3 * entity[policy].weight <= 2 * TotalWeight
       => Rank[alarm] <= Rank[alarm']]_vars

=============================================================================
