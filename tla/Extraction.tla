----------------------------- MODULE Extraction -----------------------------
(***************************************************************************)
(* How the observer takes a voter's transactions of one kind apart for one *)
(* voting round (WParsedPayloadList.extract in observer/voting_round.py,   *)
(* called by extract_round_for_entity in observer/validation), and, apart  *)
(* from it, what the protocol takes for the transaction that counts.       *)
(*                                                                         *)
(* A list of transactions is a sequence, in the order of their insertion,  *)
(* of records with a field ts. What may be absent is a set with at most    *)
(* one element.                                                            *)
(***************************************************************************)
EXTENDS VotingEpochs, Sequences

CONSTANTS
  Grace,            \* length of the grace period for signatures, 60 seconds
  Round             \* id of the voting round

ASSUME RoundAssumption == Grace \in Nat /\ Round \in Nat

NextRound == Round + 1

\* Mutant: the end of the window belongs to it.
InsideClosed(t, from, to) == from <= t /\ t <= to

\* WParsedPayloadList.extract: the three parts of the list ...
Inside(t, from, to) == from <= t /\ t < to
Early(txs, from) == \E i \in DOMAIN txs : txs[i].ts < from
Late(txs, to) == \E i \in DOMAIN txs : txs[i].ts >= to

\* ... and the one that counts, the first with the latest timestamp in the window.
Extracted(txs, from, to) ==
  LET inside == {i \in DOMAIN txs : Inside(txs[i].ts, from, to)}
      best == {i \in inside : \A j \in inside : /\ txs[j].ts <= txs[i].ts
                                                /\ j < i => txs[j].ts < txs[i].ts}
  IN {txs[i] : i \in best}

\* extract_round_for_entity: the commit, reveal and signing windows.
Commit(txs) == Extracted(txs, StartS(Round), EndS(Round))
Reveal(txs) == Extracted(txs, StartS(NextRound), RevealDeadline(NextRound))
Signing(txs) == Extracted(txs, RevealDeadline(NextRound), EndS(NextRound))

-----------------------------------------------------------------------------
(***************************************************************************)
(* The rules of the protocol: the transactions in a window, of which those *)
(* with the last timestamp count.                                          *)
(***************************************************************************)
Timely(txs, from, to) == {txs[i] : i \in {i \in DOMAIN txs : from <= txs[i].ts /\ txs[i].ts < to}}
Counting(txs, from, to) ==
  {x \in Timely(txs, from, to) : \A y \in Timely(txs, from, to) : y.ts <= x.ts}

CommitPhase(txs) == Counting(txs, StartS(Round), StartS(Round + 1))
RevealPhase(txs) == Counting(txs, StartS(Round + 1), StartS(Round + 1) + RevealLen)
SigningPhase(txs) == Counting(txs, StartS(Round + 1) + RevealLen, StartS(Round + 2))

\* A transaction is in the grace period, or else before the finalization, if any.
InTime(x, finalization) ==
  x.ts <= StartS(Round + 1) + Grace \/ \E f \in finalization : x.ts <= f

=============================================================================
