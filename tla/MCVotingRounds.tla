--------------------------- MODULE MCVotingRounds ---------------------------
(***************************************************************************)
(* TLC instances of VotingRounds.                                          *)
(***************************************************************************)
EXTENDS VotingRounds

CONSTANT v1

\* Epoch 0 is where the process may start, 1 the first it can collect, and a
\* payload may name a round of the past, the present or the future.
MCRounds == 0 .. 2

\* The voter is not in the policy that comes into force in epoch 2, while the last
\* round of the old one is revealed and signed, and is back in the next, in epoch 3.
MCSenders == {v1}
MCVoters == [e \in 0 .. MaxTs |-> IF e = 2 THEN {} ELSE {v1}]

=============================================================================
