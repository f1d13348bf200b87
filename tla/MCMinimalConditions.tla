------------------------ MODULE MCMinimalConditions ------------------------
(***************************************************************************)
(* TLC instances of MinimalConditions.                                     *)
(***************************************************************************)
EXTENDS MinimalConditions, TLC

CONSTANT n1

\* The deques of two nodes have nothing in common but the number of answers, and an
\* answer without n1 is to n1 what an answer for another node is.
MCNodes == {n1}
MCNodeSets == {{}, {n1}}

\* At a median of 200 a vote of 199 is the last within a band of 50 basis points
\* below, 201 the last above it.
MCRounds ==
  { [medians |-> <<200>>, votes |-> <<199>>, signed |-> TRUE],
    [medians |-> <<200>>, votes |-> <<>>, signed |-> FALSE],
    [medians |-> <<200, 200>>, votes |-> <<202, 201>>, signed |-> TRUE],
    [medians |-> <<200, 200>>, votes |-> <<NoVote>>, signed |-> FALSE] }

=============================================================================
