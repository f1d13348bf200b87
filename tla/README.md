# A verification project for fsp-observer

fsp-observer watches, for one registered voter of the Flare Systems Protocol (the
*entity*), the blocks of a Flare network. It follows the voting rounds of the FTSO and FDC
protocols, the signing policies, the voter's registration, its fast updates, the uptime of
its validator nodes and its balances, and sends a message whenever something is wrong. It
is one Python process with one asyncio loop, keeps nothing on disk and, when it fails,
sends one last message and ends.

This directory holds TLA+ modules translated from `src/observer`, TLC configurations that
check them on small instances, and proofs that the TLA+ proof system checks for all values
of the constants. `PROJECT.json` maps every definition to the lines it models.

## 1. The system

### Components, their state and their operations

| component | state | operations | source |
|---|---|---|---|
| observer loop | `block_number`, `latest_block`, the block at hand, `messages`, timers `last_minimal_conditions_check`, `last_ping`, `cron_time` | poll the head, read a block, check conditions, ping, hourly checks, finalize, report | `observer.py:339-852`, `main.py` |
| voting rounds | `VotingRoundManager.finalized`, the dict `rounds`, in each round the submissions by voter, requests, finalizations, vote counts | `get`, the `insert_*`, `finalize` | `voting_round.py`, `observer.py:560-586, 657-725, 807` |
| signing policies | `signing_policy`, the builder `spb` of the next one, `SigningPolicyManager` | search of old logs at startup, `add`, `build`, the switch | `reward_epoch_manager.py`, `observer.py:182-375, 492-514, 588-619` |
| validation of a round | the issues found so far | `validate_round`, `extract_round_for_entity` | `validation/validation.py` |
| FDC validation | the record of a round; `submitted_signatures` | three validators | `validation/fdc.py` |
| FTSO validation | the record of a round; `medians` | `calculate_medians`, three validators | `validation/ftso.py`, `voting_round.py:145-219` |
| search of the registration blocks | none that is kept | `find_voter_registration_blocks` | `observer.py:182-219, 363` |
| voter registration | `voter_registration_started`, its time, `registered`, `last_registration_check` | five events, the switch, the report | `observer.py:467-469, 499-500, 588-616, 649-655, 827-847` |
| minimal conditions | windows of two hours: `medians`, `entity_votes`, `signatures`, `node_connections`, `uptime_validations` | `calculate_*` | `validation/minimal_conditions.py`, `observer.py:732-797, 809-825` |
| fast updates | last update, its block, addresses seen, `nr_of_feeds`, `fast_update_re` | `FastUpdateFeedsSubmitted`, `FastUpdateFeeds`, `check_update_length`, `calculate_ftso_block_latency_feeds` | `fast_updates_manager.py`, `observer.py:425-427, 620-648`, `minimal_conditions.py:93-140` |
| address, balance and reward checks | none | `check_addresses`, `check_submission_address`, `check_relay_address`, `get_unclaimed_rewards` | `address.py`, `contract_manager.py`, `reward_epoch_manager.py:245-284` |
| notifications | none | `log_message`, `notify*` | `notification.py`, `message.py` |
| configuration | none that changes | `get_config` | `configuration/` |

### How they interact

Everything happens inside the pass of `observer_loop` over one block, in a fixed order: the
switch of policies when it is due; the event logs, each handed to the round, the builder or
the flags it concerns; the transactions, each handed to the round its payload names; the
minimal conditions; the uptime ping; the hourly checks; `finalize`, and `validate_round` for
every round it returns; the registration report; the delivery of all messages. The list
`messages` is shared by all of these steps and by all blocks. There is no concurrency inside
the process. What is concurrent is the world: the chain goes on while the process works,
several RPC nodes answer for one URL and need not agree, the process may be started, fail
and be restarted at any time, and the voters name any round they like in their payloads.

### What is hard

* *Ordering.* `finalize` moves its watermark while it visits the rounds in the order in
  which they were first named, and drops silently what it finds at or below it.
* *Restarts without state.* The watermark, the builder of the next policy and the flags of
  a registration start from nothing, in the middle of epochs.
* *Staleness.* A round is judged one epoch after its own, with the policy of the block at
  hand, and its submissions are read by the policy of the block they are in; the head
  reported by a node may be older than the cursor.
* *Partial failure.* One error answer leaves a block half done; an exception in one validator
  (a message that cannot be read, a signature no key can be recovered of) ends the process and
  takes away what the others found.
* *Windows kept apart.* Votes and medians of a round, answers and their number, are kept in
  different deques and counters and meet two hours later.
* *Two clocks for a reward epoch.* It begins by the clock and, perhaps later, with its policy.
* *Boundaries.* Three adjacent windows, two deadlines, an excluded end of a range, a stride
  that must not step over a tolerance.

The list with lines is under `hazards` in `PROJECT.json`.

### What makes each component correct

* Rounds: validated once, in order, with all their data but that of voters the policy at hand
  does not have; none that was seen is lost.
* Loop: every block read, once and in order; every message delivered with its block.
* Policies: the policy at hand is the one in force; each round is judged by its own.
* Validators: no message for a voter that follows the rules; no silence for one that does
  not; critical exactly for a reveal offence.
* A round as a whole: an offence is reported whatever else is in the round.
* Registration: reported when missing, not otherwise, and not too often.
* Minimal conditions: the warning says what the last two hours were like, no more and no less.
* Fast updates: a wrong length and a long silence are reported, nothing else is.
* Search: it ends, and what it finds encloses the registration period.

## 2. The modules

| module | models |
|---|---|
| `VotingEpochs` | the epoch arithmetic of `py_flare_common` (external) and the window of a round |
| `RoundLog` | abstract: what the observer promises about rounds |
| `VotingRounds` | `VotingRoundManager`, its feeding by `observer_loop`, waits, crashes, restarts |
| `ObserverLoop` | polling, the cursor, the steps of one block, messages, ping error, crash |
| `SigningPolicies` | the builder, the search of old logs, the switch, the policy rounds are judged with |
| `Extraction` | the three windows and the transaction that counts, in code and in the rules |
| `FdcValidation`, `FtsoValidation` | the validators of one protocol, with the medians for FTSO |
| `RoundValidation` | `validate_round`: both of them on one round |
| `RegistrationSearch` | `find_voter_registration_blocks` |
| `RollingRate` | abstract: a condition judged by the last rounds |
| `MinimalConditions` | the deques, the rates over them, the check, the ping |
| `FastUpdates` | the last update, the feeds, the length and the silence |
| `Registration` | the registration flags and the timers of the report |
| `X_proof` | proofs about module `X`: there is one for each module with a state machine of its own |
| `MC*` | the instances for TLC |

Refinements relate a detailed module to an abstract one. `VotingRounds` implements
`RoundLog` (`LogSpec`), by substitution of the chain's and the history variables.
`MinimalConditions` implements `RollingRate` twice (`FtsoRate`, `FdcRate`): `recent` is
computed from a history of the rounds `finalize` returned, not from the deques, so
the refinement says that the deques stay aligned and drop the right rounds.
`RoundValidation` composes the two validators, which are built on `Extraction`, which like
`VotingRounds` is built on `VotingEpochs`. The modules share the loop's skeleton
(wait, block, crash) and divide its content: each leaves to the others what its properties do
not depend on. `VotingRounds`, `SigningPolicies`, `FastUpdates` and `Registration` take blocks
in chain order; `ObserverLoop` shows when that is so (no answer goes below the cursor,
`ReadOnceInOrder`) and `SigningPolicies` what a block read twice would do
(`Fail("duplicate")`, the assertion of the builder).

### VotingRounds

`ts` is the timestamp of the block at hand; `phase` says where the loop is: waiting for
the next voting epoch, between two blocks, or in the pass over the logs or the transactions
of one. The dict is a set of keys and the relation `older` (insertion order), which is all
`finalize` depends on; `content[k]` is what `rounds[k]` has collected. One action per
handler: `ProtocolMessageRelayed`, `AttestationRequest` (which takes the round from the
block, not from a payload), `Submission`, `Finalize`, `BlockAbandoned` (the `continue` at the
ping), `Startup`, `FirstBlock`, `NextBlock`, `Crash`. `Finalize` states in one step what the
loop over the keys computes: `Overtaken(k)` says that the watermark has passed `k` when it
is visited. `Submission` looks its sender up in `policy`, the addresses the policy at hand
knows (`Known`, observer.py:664-666): what comes from others is passed over, whatever round
it names. `Voters[e]` are the addresses of the policy in force in voting epoch `e`; the process
begins with that policy or the next, and at the first block of another it takes it up, or
not (its builder may not have heard of it, see `SigningPolicies`). The rest are history
variables: what the chain has carried, what the process passed over of voters of the policy in
force, what each round was handed over with, what this process has seen, and whether
`finalize` was called in time.

What a round is owed (`Owed`) are the events, and the submissions of voters of the policy in force
when they are made. So `RecordComplete` shows a gap of the code and names it: the reveals
and signatures of the last round of a policy are made when the next one is in force, and those
of a voter who has left it, or whose addresses have changed, are nobody's for the observer. If
that voter is the observed entity, an entity without its reveal is judged as one that did not
reveal; if it is another, its vote is missing from the medians.

### ObserverLoop

`head` is the chain, `Answers` what a node may take for its head. One action per step of a
block: `ReadBlock` (logs and transactions, with the messages of the address checks),
`CheckConditions`, `Ping` or `PingError`, `CloseBlock` (hourly checks, finalize and
validation, registration), `Deliver`. `Advance` is the end of a block in a range and
`block_number = latest_block` after it. A timer is in `due` when it has run out.

### SigningPolicies

Time counts voting epochs. `emitted[r]` are the events of reward epoch `r`, `inReach[r]`
those in the blocks that `find_voter_registration_blocks` aims at; `builder` is `spb`,
`policy` the reward epoch of `signing_policy`. `Block` switches when the start of the
initialized policy equals the block's voting epoch, then validates the rounds whose window
is over (`judged`). `BlockFails`, `Startup` and `Emit` have the assertions of the builder.

### Extraction, FdcValidation, FtsoValidation, RoundValidation

A record of a round is any member of small sets of transaction lists around the ends of the
windows; the validators are actions in the order of `validate_round` that add to `issues`.
The other half of the modules states the rules of the protocol without the validators.
A bit vote is a sequence of Booleans; an FTSO vote tells values from `None`, which is all
the validators look at; a commit hash is a model value. A signature is the entity's own,
another's or malformed, and a signed message is readable or not (no length, or bits beyond it:
fdc.py:74-81). What the code makes of the last two is an exception, and it is made where the
code makes it: `CheckSubmit2Fails` reads the leading message, `CheckSubmitSignaturesFails`
reads it again when a signature is missing (`Unreadable`) and recovers the key of a
signature when there is a finalization to compare it with (`Unrecoverable`).
`RoundValidation` instantiates both with one finalization each, runs FDC after
FTSO and returns the issues of both; `step = "crashed"` in either is an exception, after
which nothing is returned.

### RegistrationSearch

The chain is a constant function from block numbers to timestamps, any member of `Chains`.
One action per request: `Begin` (the guess), `Stray` (the body of the loop, in both
searches), `StartFound` (the second guess), `EndFound`. A number outside of the chain fails.

### MinimalConditions

A round is what `finalize` hands on: the medians, the entity's vote (`<<>>` without one) and
`submitted_signatures`. The steps of a block are `Switch` (the entity's nodes may change),
`Check` or `CheckNotDue`, `Ping`, `NoAnswer` or `PingError`, and `Finalize` with a batch of
rounds. `medians` is filled before `validate_round` computes the medians, through the same
list object; by the next check they are there, so the model has them at once.
`node_connections` has `<<>>` for a node that is no key of the dict. Timers are left open.

### FastUpdates

The chain has the reward epoch of the clock, the policy in force and the newest initialized
one; the process its own policy. `FastUpdateFeeds` stores the count of the policy in force
under the epoch of the clock; that the number of feeds depends on the policy in force is an
assumption about the chain. `FastUpdateFeedsSubmitted` is an update of the entity, signed with
its key of the policy in force, and recognised by its key of the process's policy. Its deltas are
bytes, of which `calculate_update_from_tx` makes four entries each (`Entries`,
observer.py:152-157). So the right length for `n` feeds (`RightSize`) is that of the fewest bytes
that hold them, a multiple of four, while `check_update_length` expects a multiple of eight
(`Padded`).
`Chance` is the probability of the code as an exact fraction of `Scale`, in integers.

### Registration

The wall clock, the registration of the next reward epoch on the chain (`stage`, `member`),
and the flags. `SwitchBlock`, `SwitchFails` and `SwitchUnknown` are the three ways the first
block of a reward epoch can go for a process, by what its builder has seen. `Report` is the
end of a block, `BlockAbandoned` the end of one that is left at the uptime ping, before the report.

## 3. The runs

| run | shows | bounds |
|---|---|---|
| `VotingRounds` | rounds in order, complete, not lost, validated in the end; implements `RoundLog` | rounds 0..2, epochs of 1, blocks 0..2 apart, time to 5, two items, one voter who is not in the policy of epoch 2 and in all others |
| `ObserverLoop` | no block skipped, read in order, delivered in place, all read in the end | nodes one block behind, five blocks |
| `SigningPolicies` | the policy in force is followed; the builder fails for a reason | three reward epochs of 4 voting epochs, two voters |
| `RoundValidation` | silence and alarm are right in both protocols, and together | records with up to two transactions of a kind around the window ends |
| `Registration` | no false and no missed report | 12 units of time, several reward epochs |
| `RegistrationSearch` | the search ends, one way, around the registration | 17 blocks at paces 1 to 3 with a halt, strides of 3 |
| `MinimalConditions` | two conditions implement `RollingRate`; staking defined and exact | windows of 3 rounds and 2 pings, batches of up to 2 |
| `FastUpdates` | lengths are reported rightly for an even number of bytes and not for an odd one; silence is reported rightly | three reward epochs with 8, 9 and 7 feeds, updates of 2 to 4 bytes, 6 blocks, exponent cut off at 3 |
| `ObserverLoopAddress` | violated: address messages of an abandoned block are dropped | |
| `SigningPoliciesOwn` | violated: the last rounds of an epoch are judged by the next policy | |
| `FdcSubmitted` | violated: no signature counts as participation | |
| `RegistrationApart` | violated: reports with every block | |

Why the bounds are enough. *VotingRounds*: two items suffice for an order of two rounds, and
with three round ids one of them can be before, in and after the round at hand; one voter who
leaves for a single epoch is, to the process, one that has left, is back, is known too early
or too late; several blocks
may have one timestamp, so a process may start in the middle of an epoch though an epoch
is one unit long; a gap of 2 skips a whole epoch; time to 5 closes all the windows, so a restart after a validation and a validation after it fit. Longer epochs add nothing
to the order of events and are left to the proofs, which hold for every length.
*ObserverLoop*: a lag of one block is what makes an answer go back; ranges of one to four
blocks occur. *SigningPolicies*: three reward epochs are two switches; one voting epoch without
block may be the one of a switch. *RoundValidation*: a third transaction of a kind adds no new
relation to a window end; the records of one protocol vary in full while the other is sound,
and many of them while it has an offence. *Registration*: with intervals of 2 to 5, time to 12
holds a report in one reward epoch and one in the next. *RegistrationSearch*: lengths are
scaled so that a stride fits the tolerance at two of the three paces and not at the third nor
across the halt, and guesses fall short and beyond. *MinimalConditions*: the deques overflow,
in the middle of a batch too; the rates meet the threshold exactly. Nodes share nothing but
the number of answers, so one stands for all, and an answer without it for an answer about
others. *FastUpdates*: two switches, and a silence longer than the cut fits between them.

Deadlock is not checked where time is bounded or a record is validated once: those
systems stop at the bound. `ObserverLoop` checks it.

### What the violated runs say

* *Address messages* (CHANGELOG.md:22): an `error` answer to the uptime ping takes the
  `continue` at observer.py:785, past the delivery; the next block clears the list.
  `DroppedOnlyByPing` shows it is the only way to lose a message short of the end of
  the process.
* *Own policy* (fdc.py:165): `previous_policy` is kept and never read.
* *Participation* (fdc.py:163-165): without a signature, and with a vote that was not
  accepted, no branch of `check_submit_signatures` finds an issue.
* *Once per minute* (observer.py:827): `last_registration_check` is never set again.

What the passing runs except is as telling. `PolicyInForce`: a process that starts after the
events of the next policy have begun keeps the old policy for a reward epoch, or ends at the
switch (the TODO at observer.py:497 knows; CHANGELOG.md:32 takes a crash there for fixed).
`RecordComplete` and `LogSpec`: around a switch, a round is judged without the submissions of
voters the policy at hand does not have. `OffenceReported`: a malformed signature of the
entity in a finalized round ends the process, and the reveal offence that was found in the
same round is lost. `RightLengthReportedIffOdd` and `WrongLengthReported`: feeds that fill an odd
number of bytes are reported when they are sent rightly, and pass with a byte too many; when
a policy comes into force late, right updates are reported until the next `FastUpdateFeeds`. `AlarmGrows`: with more than two thirds of the weight the chance is a
power of a negative number. `StakingExact`: a node that joined late is warned of, one that
left keeps its rate. `SearchEnds`: when 100 blocks take more than 20 minutes the search may
go to and fro for ever.

Five disagreements are shown by a property that states what the code does, or by its text alone,
and have no run of their own. fast_updates_manager.py:43-44 says that the update array "is encoded
in integer number of bytes", and line 45 rounds to twice as many entries as a byte makes
(`RightLengthReportedIffOdd` states the consequence, and the run checks it). fdc.py:173 and
ftso.py:224 announce an error when "signature doesn't match finalization"; a signature from which
no key can be recovered raises instead (`MalformedSignature`). fdc.py:174 announces a warning for a signature
after the window, and ftso.py:44 for a commit before it; neither validator looks at that
list. observer.py:399 waits "until next voting epoch" and tests for equality with it, so
a chain without a block in that epoch makes it wait for ever.

### Fairness

`VotingRounds!FairSpec`: weak fairness of `LogsDone` and `NextBlock`, since the loop is
sequential and goes on with a block it has begun and polls again when it is done; strong
fairness of `Finalize`, since `BlockAbandoned` may come instead of it, and only an API that
from some time on answers every ping with an error prevents it for ever; strong fairness of
`TimePasses`: a chain whose timestamps stand still is not a chain. Crashes are possible at any
time; the property allows for them. `ObserverLoop!FairSpec`: weak fairness of the steps of a
block (every await returns or raises, an assumption about the HTTP client: `notify` has no
timeout) and strong fairness of a poll answered with the true head.
`RegistrationSearch!FairSpec`: weak fairness of the next step, since each request is answered or raises.

## 4. The proofs

TLAPS proves, for every value of the constants that satisfies the assumptions named below,
every invariant and every action property that a passing run checks, and the three refinements:

| theorems of | properties |
|---|---|
| `VotingRounds_proof`: `TypeCorrect`, `RecordsComplete`, `InOrder`, `NoneLost`, `ImplementsLog` | `TypeOK`, `RecordComplete`, `ValidatedInOrder`, `NoObservedRoundLost`, `LogSpec` |
| `ObserverLoop_proof`: `TypeCorrect`, `NoneSkipped`, `DroppedAtPing`, `DeliveredInPlace`, `InOrder` | `TypeOK`, `NoBlockSkipped`, `DroppedOnlyByPing`, `DeliversOwnBlock`, `ReadOnceInOrder` |
| `Registration_proof`: `TypeCorrect`, `NoFalse`, `Raised` | `TypeOK`, `NoFalseAlarm`, `AlarmRaised` |
| `RegistrationSearch_proof`: `TypeCorrect`, `Covered`, `Fails`, `OneWay` | `TypeOK`, `RegistrationCovered`, `FailsOnYoungChain`, `NeverTurns` |
| `SigningPolicies_proof`: `TypeCorrect`, `InForcePolicy`, `FailsForReason` | `TypeOK`, `PolicyInForce`, `BuilderFailsForReason` |
| `FastUpdates_proof`: `TypeCorrect`, `RightReportedIffOdd`, `WrongReported`, `AfterSilence`, `SilenceWarned`, `Grows` | `TypeOK`, `RightLengthReportedIffOdd`, `WrongLengthReported`, `AlarmOnlyAfterSilence`, `SilenceReported`, `AlarmGrows` |
| `RoundValidation_proof`: `TypeCorrect`, `SilenceRight`, `CriticalRight`, `FdcAlarm`, `FtsoAlarm`, `OffenceFound` | `TypeOK`, `NoIssueMeansCompliant`, `CriticalMeansRevealOffence`, `FdcCompliantMeansNoIssue`, `FtsoCompliantMeansNoIssue`, `OffenceReported` |
| `MinimalConditions_proof`: `TypeCorrect`, `Defined`, `Exact`, `FtsoImplements`, `FdcImplements` | `TypeOK`, `RatesDefined`, `StakingExact`, `FtsoRate`, `FdcRate` |

Each module proves `Spec => []IInv` for an inductive invariant `IInv` of named parts, one step
for each action; the properties follow from it. Each `IInv` has also been checked by TLC on the
instance of the module's run.

The assumptions are typing (constants are numbers, sets or sequences of the right kind) and,
where the code depends on how its constants relate, that relation: `EpochAssumption`,
`RoundsAssumption`, `BoundsAssumption`, `VotersAssumption`, `LagAssumption`; `TimersAssumption` (the short timer is not
longer than the long one); `PeriodAssumption` (the search aims outside of the registration period by
more than its tolerance); `ChainAssumption` (timestamps do not fall), `LengthAssumption`
(the events of a policy lie in the window aimed at); `EntityAssumption` and
`ChanceAssumption` (no weight above the total); `FeedAssumption` (each policy has a feed); `PayloadAssumption` (lists of transactions are
sequences of well typed records, malformed signatures and unreadable messages among them; a
round has at most one finalization); `NodeAssumption`,
`RoundAssumption`, `SizeAssumption` and `RateAssumption` (rounds hold sequences of numbers,
windows are not empty, thresholds are in bips).

*VotingRounds.* `RecordComplete` is not inductive: it says nothing of the rounds still in the
dict. The invariant `IInv` adds that what is collected was carried (`CollectedIsReal`); that
the wait ends in the epoch after the one the process started in (`WaitsForFuture`); that
every round above the watermark has, in the dict, all of its window that it is owed, has
been carried so far and was not passed over (`AboveMarkComplete`, the heart: a round above the initial mark has a
window that begins after the process does); and that what was validated lies at or below any
mark a process can have, past or future (`ValidatedIsClosed`, which carries the order across
crashes that forget the watermark). `NoneLost` needs one more, `ObservedIsSafe`: while finalize
is punctual, a round seen in its window is newer than every round completed at the last call, so
that in the next call it is visited before anything has passed it. The refinement maps
`Finalize` to `HandOver`, blocks, starts and crashes to `Advance`, items to `Publish`, all else to stuttering. The
arithmetic of epochs is confined to a few lemmas at the head of the module.

*ObserverLoop.* `IInv` adds that the block at hand lies inside its range and has been read
(`InRange`), that what is owed and not of an abandoned block is in the list (`OwedIsListed`), and
that what was read lies before what is next while no answer went back (`ReadBefore`).

*Registration.* `IInv` adds, for a process that runs, that what its builder has seen agrees with
the chain (`SeenOnChain`) and that a flag that is set belongs to the registration at hand
(`FlagsOfPeriod`). The step that could break it is the beginning of a reward epoch; `SwitchClears`
shows that it either resets the flags or, in a process that began too late to know of the
policy, finds them clear. `TimersAssumption` has the one fact about the timers that matters:
the short interval is not longer than the long one.

*RegistrationSearch.* `IInv` remembers where the blocks found lie (`FoundNear`) and, during a
search, that the block before this one was on the other side of the target and not near it
(`CameFrom`). Timestamps that do not fall turn both into an order of blocks.
`FailsOnYoungChain` was stated for strides that fit the tolerance; the proof did not need it, so
the property now holds whatever the strides.

*SigningPolicies.* The heart is `OneAtATime`: the chain emits nothing of a policy before the one
before it has started, so all that a process can see belongs to the next policy. With
`InOrder`, `Reached` and `StartsAscend` it gives `Following`: a process that began early enough and
skipped no start has a builder that holds exactly what is out of the next policy.

*FastUpdates.* `FeedsKnown` says what the stored number of feeds is worth (right for the epoch it
was told under, or that epoch began late), `CountsFromSign` that the count of silent blocks begins
at the last sign of the entity. That `Padded` and `RightSize` agree exactly on an even number of
bytes is arithmetic (`PaddedToEven`). The chance is a recursive function of the length of a silence; that
it only falls is an induction, made with a smallest counterexample: the library's theorem that
a set of numbers has a least element (`WFMin`) needs no operator for a parameter.

*RoundValidation.* `IInv` says that the issues found so far are those that the validators up to
this one make of the record (`FtsoFound`, `FdcFound`). The properties are then about functions of
lists: the transaction extracted counts by the rules, and one is extracted if any counts
(`ExtractedCounts`, `Windows`; the first of the best, `FirstBestExists`, by a smallest counterexample);
a deadline moved by a finalization is the later of two (`InTimeMeans`); a complete vote
prevails among the votes of the others (`CompleteVotePrevails`, a count of votes). The invariant also tells apart what can have ended the
process: votes without medians, a message, or a signature; so `OffenceFound` needs no more
than that none of these is at hand. The proof found
an error of the model: a list of conjuncts in `Consensus` was read by the parser with
another grouping than it was laid out with, so that several messages counted as the most signed
one where the code takes the first inserted.

*MinimalConditions.* `Aligned`: the three deques hold the parts of the same rounds in the same
places, whatever batches come. `Trailing`: the deque of a node ends with the answers since the
last it was missing from, and `Answered` counts them, which makes `StakingExact` an equality of
sets. For the refinements each `Finalize` moves the window (`ClosedMoves`) and each `Check` judges
it: the pairs counted on both sides are the same sets (`FtsoJudges`, `FdcJudges`), the bounds the code
tests are a distance from the median (`HitMeans`), and the rounding down of the rate to bips does
not change what is below a threshold (`BelowMeans`).

*Only model-checked:* the liveness properties `EveryRoundValidated`, `EveryBlockRead` and
`SearchEnds`, since liveness under fairness and ENABLED are out of the prover's reach; and the
four properties of the code that the violated runs refute.

## 5. Not modelled, and the plan

Every component that keeps state has a module, and every safety property of a passing run a
theorem. What is left to do:

1. `VotingRounds`: that `Finalize`, stated in one step with `Overtaken`, is what a loop over the
   keys in insertion order computes, by induction over the keys as in `FastUpdates_proof`.
2. `SigningPolicies`: the converse of `BuilderFailsForReason`, when a process that began late
   does fail.
3. `FastUpdates`: how much weight an entity may have for `AlarmGrows` to hold, exactly.

Left out, and why. *Configuration and ABI loading, event and payload types*: read once or built
from decoded data, they hold no state that changes. *Address, balance and reward checks*: single
reads compared with a threshold; their messages are in `ObserverLoop`. *Notifications*: the
layout and HTTP delivery of messages is I/O; delivery is one step of `ObserverLoop`. *Within one
block*, RPC nodes that disagree: a node that answers `get_logs` with an empty list for a
block it does not have cannot be told from an empty block by anything the code does.
*Decoding of payloads, recovery of signers, the weighted median*: library code, of which the models
have the outcomes, the exceptions among them where the code does not catch them.
