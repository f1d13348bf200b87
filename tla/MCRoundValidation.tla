------------------------- MODULE MCRoundValidation -------------------------
(***************************************************************************)
(* TLC instances of RoundValidation: every record of the one protocol with *)
(* a sound record of the other, many with one that has an offence.         *)
(***************************************************************************)
EXTENDS RoundValidation

\* Sequences of at most two elements of S in the order of their timestamps.
Ordered(S) ==
  {<<>>} \cup {<<x>> : x \in S} \cup {l \in S \X S : l[1].ts <= l[2].ts}

\* Epochs of 5, reveal 2, grace 3: round 1 is committed in 5 .. 9, revealed in
\* 10 .. 11, signed in 12 .. 14, and the grace period ends with 13.
MCFinalizations == {{}, {12}, {15}}

-----------------------------------------------------------------------------
(***************************************************************************)
(* FTSO: two hashes of 32 bytes and one that is too short.                 *)
(***************************************************************************)
MCHashes == {"a", "b"}

One == <<TRUE>>
None == <<FALSE>>
Two == <<TRUE, TRUE>>

MCFtsoSubmit1 ==
  {<<[ts |-> 9, hash |-> "short"]>>} \cup Ordered([ts : {4, 9, 10}, hash : MCHashes])
MCFtsoSubmit2 ==
  {<<[ts |-> 11, hash |-> "short", vote |-> One]>>}
    \cup Ordered([ts : {9, 10, 12}, hash : {"a"}, vote : {One, None, Two}])
MCFtsoSignatures ==
  {<<>>, <<[ts |-> 11, sig |-> "own"]>>, <<[ts |-> 13, sig |-> "own"]>>,
   <<[ts |-> 13, sig |-> "other"]>>, <<[ts |-> 13, sig |-> "malformed"]>>,
   <<[ts |-> 14, sig |-> "own"]>>, <<[ts |-> 15, sig |-> "own"]>>,
   <<[ts |-> 11, sig |-> "own"], [ts |-> 13, sig |-> "own"]>>}
MCOtherVotes == {<<>>, <<None>>, <<Two, One>>, <<Two, Two>>}

Signed == <<[ts |-> 13, sig |-> "own"]>>

\* The signatures have nothing in common with the votes of others.
FtsoRecords ==
  {r \in Ftso!Records : r.signatures = Signed /\ r.finalization = {12}}
    \cup {r \in Ftso!Records : r.others = <<Two, Two>> /\ r.first}

-----------------------------------------------------------------------------
(***************************************************************************)
(* FDC: votes on one request or two.                                       *)
(***************************************************************************)
Yes == <<TRUE>>
No == <<FALSE>>
Mixed == <<TRUE, FALSE>>

MCFdcSubmit1 == {<<>>, <<[ts |-> 5]>>}
MCFdcSubmit2 == Ordered([ts : {9, 10, 11, 12}, bits : {Yes, No, Mixed}])
MCFdcSignatures ==
  {<<[ts |-> 13, sig |-> "malformed"]>>}
    \cup Ordered([ts : {11, 13, 14, 15}, sig : {"own", "other"}])
Message(bits, count) == [bits |-> bits, count |-> count, readable |-> TRUE]
MCTallies ==
  {<<>>, <<Message(Yes, 1)>>, <<Message(No, 1)>>,
   <<Message(Yes, 1), Message(No, 2)>>, <<Message(No, 1), Message(Yes, 1)>>,
   <<Message(Yes, 1), [Message(Yes, 2) EXCEPT !.readable = FALSE]>>}
MCRequestCounts == {1, 2}

\* Of two lists of two transactions only the ones that count can be told apart.
FdcRecords ==
  {r \in Fdc!Records :
     /\ r.submit1 = <<>> \/ r.signatures = Signed
     /\ Len(r.submit2) < 2 \/ Len(r.signatures) < 2}

-----------------------------------------------------------------------------
\* What the other protocol holds meanwhile: all as it should be, or an offence.
FtsoClean ==
  [submit1 |-> <<[ts |-> 9, hash |-> "a"]>>, submit2 |-> <<[ts |-> 10, hash |-> "a", vote |-> Two]>>,
   signatures |-> Signed, others |-> <<Two, Two>>, first |-> TRUE, finalization |-> {12}]
FdcClean ==
  [submit1 |-> <<>>, submit2 |-> <<[ts |-> 10, bits |-> Yes]>>, signatures |-> Signed,
   tally |-> <<Message(Yes, 1)>>, requests |-> 1, finalization |-> {12}]
FtsoOffending == [FtsoClean EXCEPT !.submit2 = <<>>]
FdcOffending == [FdcClean EXCEPT !.signatures = <<>>]

\* With an offence in the other protocol, what is in one list at a time.
FtsoFew == {r \in FtsoRecords : r.finalization = {12} /\ Len(r.submit1) < 2}
FdcFew == {r \in FdcRecords : Len(r.submit2) < 2 /\ Len(r.signatures) < 2}

MCRoundRecords ==
  (FtsoRecords \X {FdcClean}) \cup (FtsoFew \X {FdcOffending})
    \cup ({FtsoClean} \X FdcRecords) \cup ({FtsoOffending} \X FdcFew)
=============================================================================
