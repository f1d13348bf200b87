-------------------------- MODULE MinimalConditions --------------------------
(***************************************************************************)
(* The minimal conditions sampled over the last two hours                  *)
(* (observer/validation/minimal_conditions.py) and the part of             *)
(* observer_loop that feeds them: the switch of the entity's nodes, the    *)
(* check, the uptime ping and the rounds finalize returns, in the order    *)
(* they have within a block. The condition for fast updates, the fourth of *)
(* the check, is in FastUpdates.                                           *)
(*                                                                         *)
(* Whether a timer is due is left open; ObserverLoop has the timers.       *)
(***************************************************************************)
EXTENDS Integers, Sequences, FiniteSets

CONSTANTS
  Nodes,        \* validator nodes
  NodeSets,     \* sets of nodes an entity registers with
  Rounds,       \* what a round may hold for the entity, see RoundAssumption
  NoVote,       \* a feed without a value
  Window,       \* time_period // 90, the rounds of two hours
  Checks,       \* time_period // uptime_validation_frequency, the pings
  MaxBatch,     \* bound: rounds that are finalized in one block
  Band,         \* ftso_median_band_bips
  FtsoThreshold, StakingThreshold, FdcThreshold

ASSUME NodeAssumption == NodeSets \subseteq SUBSET Nodes
\* medians: of the feeds of the round; votes: the entity's reveal in time, <<>>
\* without one; signed: submitted_signatures.
ASSUME RoundAssumption ==
  \A r \in Rounds :
    /\ r.medians \in Seq(Nat) /\ r.votes \in Seq(Nat \cup {NoVote})
    /\ r.signed \in BOOLEAN
ASSUME SizeAssumption == Window \in Nat \ {0} /\ Checks \in Nat \ {0} /\ MaxBatch \in Nat
ASSUME RateAssumption ==
  /\ NoVote \notin Nat /\ Band \in 0 .. 10000
  /\ {FtsoThreshold, StakingThreshold, FdcThreshold} \subseteq 0 .. 10000

VARIABLES
  phase,                \* the next step of the block, see Phases
  nodes,                \* entity.nodes
  medians, entity_votes, signatures,
  node_connections,     \* <<>> for a node that is no key of the dict
  uptime_validations,
  min_cond_messages     \* the conditions the last check warned of

\* History: no part of the program, only read by the properties.
VARIABLES
  pings,                \* the last Checks answers of the P-chain
  closed,               \* the last Window rounds that finalize returned
  fresh                 \* no round has come since the last check

roundVars == <<medians, entity_votes, signatures, closed>>
reportVars == <<min_cond_messages, fresh>>
pingVars == <<node_connections, uptime_validations, pings>>
vars == <<phase, nodes, roundVars, pingVars, reportVars>>

Phases == {"switch", "check", "ping", "finalize"}

SeqUpTo(S, n) == UNION {[1 .. m -> S] : m \in 0 .. n}

\* The validators of an answer and whether each is connected.
Answers(asked) == UNION {[S -> BOOLEAN] : S \in SUBSET asked}

TypeOK ==
  /\ phase \in Phases
  /\ nodes \in NodeSets
  /\ medians \in SeqUpTo({r.medians : r \in Rounds}, Window)
  /\ entity_votes \in SeqUpTo({r.votes : r \in Rounds}, Window)
  /\ signatures \in SeqUpTo(BOOLEAN, Window)
  /\ node_connections \in [Nodes -> SeqUpTo(BOOLEAN, Checks)]
  /\ uptime_validations \in 0 .. Checks
  /\ min_cond_messages \in [ftso : BOOLEAN, fdc : BOOLEAN, staking : SUBSET Nodes]
  /\ pings \in SeqUpTo(Answers(Nodes), Checks)
  /\ closed \in SeqUpTo(Rounds, Window)
  /\ fresh \in BOOLEAN

NoWarning == [ftso |-> FALSE, fdc |-> FALSE, staking |-> {}]

Init ==
  /\ phase = "switch"
  /\ nodes \in NodeSets
  /\ medians = <<>> /\ entity_votes = <<>> /\ signatures = <<>>
  /\ node_connections = [n \in Nodes |-> <<>>]
  /\ uptime_validations = 0
  /\ min_cond_messages = NoWarning
  /\ fresh = FALSE
  /\ pings = <<>> /\ closed = <<>>

\* The process ends and is started again; nothing is kept.
Restart ==
  /\ phase' = "switch"
  /\ nodes' \in NodeSets
  /\ medians' = <<>> /\ entity_votes' = <<>> /\ signatures' = <<>>
  /\ node_connections' = [n \in Nodes |-> <<>>]
  /\ uptime_validations' = 0
  /\ min_cond_messages' = NoWarning
  /\ fresh' = FALSE
  /\ pings' = <<>> /\ closed' = <<>>

-----------------------------------------------------------------------------
(***************************************************************************)
(* Deques.                                                                 *)
(***************************************************************************)

\* What a deque of that maxlen keeps of q.
LastOf(q, max) == IF Len(q) <= max THEN q ELSE SubSeq(q, Len(q) - max + 1, Len(q))

Extend(q, new, max) == LastOf(q \o new, max)

-----------------------------------------------------------------------------
(***************************************************************************)
(* The rates.                                                              *)
(***************************************************************************)

\* low <= vote <= high
Hit(m, v) ==
  /\ v # NoVote
  /\ m * (10000 - Band) <= v * 10000
  /\ v * 10000 <= m * (10000 + Band)

\* Mutant: the threshold itself does not meet the condition.
BelowOrAt(hits, total, threshold) == (hits * 10000) \div total <= threshold

\* success_rate_bips < threshold
Below(hits, total, threshold) == (hits * 10000) \div total < threshold

\* The feeds of a round, and those of them the entity voted near the median for:
\* a round that is longer than the vote counts the rest as missed.
Feeds(i) == DOMAIN medians[i]
Hits(i) == {f \in Feeds(i) \cap DOMAIN entity_votes[i] : Hit(medians[i][f], entity_votes[i][f])}

\* zip(medians, votes)
Zipped == DOMAIN medians \cap DOMAIN entity_votes

CalculateFtsoAnchorFeeds ==
  LET total == UNION {{i} \X Feeds(i) : i \in Zipped}
      hit == UNION {{i} \X Hits(i) : i \in Zipped}
  IN total # {} /\ Below(Cardinality(hit), Cardinality(total), FtsoThreshold)

Trues(q) == Cardinality({i \in DOMAIN q : q[i]})

CalculateFdcParticipation ==
  signatures # <<>> /\ Below(Trues(signatures), Len(signatures), FdcThreshold)

CalculateStaking ==
  {n \in Nodes : /\ node_connections[n] # <<>>
                 /\ Below(Trues(node_connections[n]), uptime_validations, StakingThreshold)}

-----------------------------------------------------------------------------
(***************************************************************************)
(* One block.                                                              *)
(***************************************************************************)

\* The switch of signing policies may bring the entity other nodes; what is
\* known of the old ones stays.
Switch ==
  /\ phase = "switch"
  /\ phase' = "check"
  /\ nodes' \in NodeSets
  /\ UNCHANGED <<roundVars, pingVars, reportVars>>

Check ==
  /\ phase = "check"
  /\ phase' = "ping"
  /\ min_cond_messages' = [ftso |-> CalculateFtsoAnchorFeeds,
                           fdc |-> CalculateFdcParticipation,
                           staking |-> CalculateStaking]
  /\ fresh' = TRUE
  /\ UNCHANGED <<nodes, roundVars, pingVars>>

CheckNotDue ==
  /\ phase = "check"
  /\ phase' = "ping"
  /\ UNCHANGED <<nodes, roundVars, pingVars, reportVars>>

\* Mutant: the pings are counted after the first.
CountedLate == IF uptime_validations < Len(pings) THEN uptime_validations + 1 ELSE uptime_validations

\* Mutant: the count is not bounded as the deques are.
CountedOn == uptime_validations + 1

\* uptime_validations after one more answer
Counted == IF uptime_validations < Checks THEN uptime_validations + 1 ELSE uptime_validations

\* platform.getCurrentValidators answers for those of the nodes that are validators.
Ping(answer) ==
  /\ phase = "ping"
  /\ phase' = "finalize"
  /\ nodes # {}
  /\ uptime_validations' = Counted
  /\ node_connections' =
       [n \in Nodes |-> IF n \in DOMAIN answer
                        THEN Extend(node_connections[n], <<answer[n]>>, Checks)
                        ELSE node_connections[n]]
  /\ pings' = LastOf(Append(pings, answer), Checks)
  /\ UNCHANGED <<nodes, roundVars, reportVars>>

\* The ping is not due, or there is nothing to ask for, or the request raises.
NoAnswer ==
  /\ phase = "ping"
  /\ phase' = "finalize"
  /\ UNCHANGED <<nodes, roundVars, pingVars, reportVars>>

\* An "error" for an answer: the rest of the block is skipped.
PingError ==
  /\ phase = "ping"
  /\ nodes # {}
  /\ phase' = "switch"
  /\ UNCHANGED <<nodes, roundVars, pingVars, reportVars>>

\* Mutant: nothing is appended for a round without a reveal.
VotesRevealed(batch) == SelectSeq([i \in DOMAIN batch |-> batch[i].votes], LAMBDA v : v # <<>>)

\* The reveal of every round, or [].
VotesOf(batch) == [i \in DOMAIN batch |-> batch[i].votes]

\* Mutant: rounds without a signature leave no trace.
SignedOnly(batch) == SelectSeq([i \in DOMAIN batch |-> batch[i].signed], LAMBDA s : s)

SignaturesOf(batch) == [i \in DOMAIN batch |-> batch[i].signed]

Finalize(batch) ==
  /\ phase = "finalize"
  /\ phase' = "switch"
  /\ medians' = Extend(medians, [i \in DOMAIN batch |-> batch[i].medians], Window)
  /\ entity_votes' = Extend(entity_votes, VotesOf(batch), Window)
  /\ signatures' = Extend(signatures, SignaturesOf(batch), Window)
  /\ closed' = LastOf(closed \o batch, Window)
  /\ fresh' = (fresh /\ batch = <<>>)
  /\ UNCHANGED <<nodes, pingVars, min_cond_messages>>

Next ==
  \/ Switch \/ Check \/ CheckNotDue \/ NoAnswer \/ PingError \/ Restart
  \/ \E answer \in Answers(nodes) : Ping(answer)
  \/ \E batch \in SeqUpTo(Rounds, MaxBatch) : Finalize(batch)

Spec == Init /\ [][Next]_vars

-----------------------------------------------------------------------------
(***************************************************************************)
(* Properties.                                                             *)
(***************************************************************************)

\* calculate_staking divides by the number of answers so far, and a node cannot
\* have been in more of them: there is no division by zero and no rate above one,
\* though the two are counted apart and each is cut off at its own bound.
RatesDefined == \A n \in Nodes : Len(node_connections[n]) <= uptime_validations

\* A node that was in each of the last answers is warned of exactly if it was
\* disconnected in too many of them: what came before, a time as a node of another
\* entity's, a time out of the validator set, weighs in no more once as many
\* answers as are counted have come. (A node that was not in all of them may be
\* warned of though it was always connected, and one that left keeps its rate:
\* calculate_staking divides by the answers of the process, not of the node.)
StakingExact ==
  \A n \in Nodes :
    pings # <<>> /\ (\A i \in DOMAIN pings : n \in DOMAIN pings[i]) =>
      (n \in CalculateStaking <=>
         Cardinality({i \in DOMAIN pings : pings[i][n]}) * 10000 < StakingThreshold * Len(pings))

(***************************************************************************)
(* The two conditions sampled per round implement RollingRate.             *)
(***************************************************************************)

\* A vote no further from the median than the band allows.
Within(m, v) == v # NoVote /\ (IF v < m THEN m - v ELSE v - m) * 10000 <= m * Band

\* What the last rounds asked for and what of it was met. A round in which the
\* entity revealed nothing asks for all of its feeds.
FtsoRecent ==
  [i \in DOMAIN closed |->
     LET r == closed[i]
     IN [asked |-> DOMAIN r.medians,
         met |-> {f \in DOMAIN r.medians \cap DOMAIN r.votes : Within(r.medians[f], r.votes[f])}]]
FdcRecent ==
  [i \in DOMAIN closed |-> [asked |-> {"signature"}, met |-> {s \in {"signature"} : closed[i].signed}]]

Ftso == INSTANCE RollingRate WITH
  Threshold <- FtsoThreshold, recent <- FtsoRecent, alarm <- min_cond_messages.ftso
Fdc == INSTANCE RollingRate WITH
  Threshold <- FdcThreshold, recent <- FdcRecent, alarm <- min_cond_messages.fdc

\* The FTSO anchor feeds are judged by the last rounds the process has validated,
\* every feed of a round without a reveal counted as missed: medians and votes,
\* kept in two deques, stay aligned whatever batches finalize returns.
FtsoRate == Ftso!RateSpec

\* FDC participation is judged by the last rounds the process has validated.
FdcRate == Fdc!RateSpec

=============================================================================
