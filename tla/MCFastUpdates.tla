--------------------------- MODULE MCFastUpdates ---------------------------
(***************************************************************************)
(* TLC instances of FastUpdates.                                           *)
(***************************************************************************)
EXTENDS FastUpdates

CONSTANT s1

\* The feeds of the first reward epoch fill two bytes exactly, those of the second
\* take an odd number of bytes, those of the third leave room in the second byte.
MCFeedCounts == <<8, 9, 7>>
MCDeltaBytes == {2, 3, 4}
MCSenders == {s1}

\* Of a weight of 12: 4 halve the chance with every block, 6 quarter it, 12 make it
\* a power of a negative number. The key is kept or changed.
MCEntities ==
  { <<[weight |-> 4, key |-> 1], [weight |-> 6, key |-> 1], [weight |-> 4, key |-> 1]>>,
    <<[weight |-> 6, key |-> 1], [weight |-> 12, key |-> 2], [weight |-> 4, key |-> 3]>> }

=============================================================================
