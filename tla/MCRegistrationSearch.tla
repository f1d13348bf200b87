------------------------ MODULE MCRegistrationSearch ------------------------
(***************************************************************************)
(* TLC instances of RegistrationSearch.                                    *)
(***************************************************************************)
EXTENDS RegistrationSearch

\* Chains with one pace up to a block and another after it, and a halt in
\* between: the usual block time of 2, faster and slower ones. Strides of three
\* blocks fit the tolerance at a pace of 1 and 2, not at 3 or across a halt.
MCPaces == {1, 2, 3}
MCHalts == {0, 6}
MCTurns == {0, 4, 8, 12}
MCChain(early, late, turn, halt) ==
  [b \in 0 .. Head |-> IF b <= turn THEN b * early ELSE turn * early + halt + (b - turn) * late]
MCChains ==
  {MCChain(early, late, turn, halt) :
     early \in MCPaces, late \in MCPaces, turn \in MCTurns, halt \in MCHalts}
MCDelays == {0, 3}

=============================================================================
