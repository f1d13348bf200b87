---------------------------- MODULE VotingEpochs ----------------------------
(***************************************************************************)
(* Voting epochs, as the observer uses them: every EpochLen seconds a new  *)
(* voting epoch begins, and the voting round of an epoch is the one whose  *)
(* data is committed in that epoch and revealed and signed in the next.    *)
(* The arithmetic itself lives in py_flare_common.fsp.epoch, which is not  *)
(* part of this repository; it is given here by how the code calls it.     *)
(***************************************************************************)
EXTENDS Integers

CONSTANTS
  EpochLen,     \* length of a voting epoch, in the model's time unit
  RevealLen     \* length of the reveal window at the start of an epoch

ASSUME EpochAssumption ==
  /\ EpochLen \in Nat \ {0}
  /\ RevealLen \in 0 .. EpochLen

\* VotingEpoch.start_s, VotingEpoch.end_s: an epoch ends where the next starts.
StartS(e) == e * EpochLen
EndS(e) == StartS(e + 1)

\* VotingEpoch.reveal_deadline
RevealDeadline(e) == StartS(e) + RevealLen

\* VotingEpochFactory.from_timestamp
EpochAt(t) == t \div EpochLen

(***************************************************************************)
(* The window of round k as extract_round_for_entity cuts it: commits in   *)
(* epoch k, reveals and signatures in epoch k + 1; submissions with a      *)
(* timestamp outside are kept, but only as "early" or "late".              *)
(***************************************************************************)
WindowStart(k) == StartS(k)
WindowEnd(k) == EndS(k + 1)
InWindow(k, t) == WindowStart(k) <= t /\ t < WindowEnd(k)

=============================================================================
