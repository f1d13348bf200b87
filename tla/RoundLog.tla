------------------------------ MODULE RoundLog ------------------------------
(***************************************************************************)
(* What the observer promises about voting rounds, with nothing about how  *)
(* it keeps them. A chain publishes items; the observer hands over, from   *)
(* time to time, a set of rounds together with the items it has of each.   *)
(* Every round handed over is newer than all the rounds handed over        *)
(* before it, its window has closed, nothing in it is made up, and of what *)
(* happened on the chain inside that window nothing is missing but what    *)
(* came from senders without a vote at the time, or from voters the        *)
(* observer's policy did not have.                                         *)
(***************************************************************************)
EXTENDS VotingEpochs

CONSTANTS
  Rounds,       \* voting round ids that can occur in payloads and events
  Senders,      \* addresses voters send submissions from
  Voters        \* Voters[e]: those with a vote in voting epoch e

VARIABLES
  ts,           \* timestamp of the newest block
  policy,       \* the senders the observer reads
  carried,      \* every item the chain has carried
  overlooked,   \* those of voters the observer's policy did not have
  validated,    \* rounds handed over to validation
  archived      \* archived[k]: the items round k was handed over with

logVars == <<ts, policy, carried, overlooked, validated, archived>>

\* One thing in a block that names a voting round: a submission, a relayed
\* protocol message or an attestation request.
Sources == Senders \cup {"relayed", "request"}
Item == [round : Rounds, from : Sources, ts : Nat]

LogInit ==
  /\ ts \in Nat
  /\ policy = {}
  /\ carried = {} /\ overlooked = {}
  /\ validated = {}
  /\ archived = [k \in Rounds |-> {}]

\* Chain time does not run backwards. The observer may take up another policy.
Advance ==
  /\ ts' \in Nat
  /\ ts' >= ts
  /\ policy' \in {policy, {}} \cup {Voters[e] : e \in DOMAIN Voters}
  /\ UNCHANGED <<carried, overlooked, validated, archived>>

Publish ==
  \E k \in Rounds, s \in Sources :
    LET i == [round |-> k, from |-> s, ts |-> ts]
    IN /\ carried' = carried \cup {i}
       /\ \/ UNCHANGED overlooked
          \/ s \in Voters[EpochAt(ts)] \ policy /\ overlooked' = overlooked \cup {i}
       /\ UNCHANGED <<ts, policy, validated, archived>>

Owed(i) == i.from \in Senders => i.from \in Voters[EpochAt(i.ts)]

Covers(items, k) ==
  /\ items \subseteq {i \in carried : i.round = k}
  /\ \A i \in carried \ overlooked :
       i.round = k /\ InWindow(k, i.ts) /\ Owed(i) => i \in items

HandOver ==
  \E batch \in SUBSET Rounds :
    /\ \A k \in batch : WindowEnd(k) < ts
    /\ \A k \in batch, q \in validated : q < k
    /\ archived' \in [Rounds -> SUBSET Item]
    /\ validated' = validated \cup batch
    /\ \A k \in batch : Covers(archived'[k], k)
    /\ \A k \in Rounds \ batch : archived'[k] = archived[k]
    /\ UNCHANGED <<ts, policy, carried, overlooked>>

LogNext == Advance \/ Publish \/ HandOver

LogSpec == LogInit /\ [][LogNext]_logVars

=============================================================================
