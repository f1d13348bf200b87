--------------------------- MODULE RoundValidation ---------------------------
(***************************************************************************)
(* Validation of one voting round as the loop calls it (validate_round in  *)
(* observer/validation/validation.py): the medians and the FTSO validators *)
(* of FtsoValidation, then, on the same round, the FDC validators of       *)
(* FdcValidation. What they find is returned when the last of them has     *)
(* run; an exception in any of them ends the process and the messages of   *)
(* all of them are lost with it.                                           *)
(***************************************************************************)
EXTENDS Extraction

CONSTANTS
  FtsoSubmit1, FtsoSubmit2, FtsoSignatures, OtherVotes, Hashes,
  FdcSubmit1, FdcSubmit2, FdcSignatures, Tallies, RequestCounts,
  Finalizations,
  RoundRecords      \* <<round.ftso, round.fdc>> of the rounds considered

\* Whose key a signature of the finalization has, if one can be recovered.
Signers == {"own", "other", "malformed"}

\* What the parser of the payloads and the collection of a round leave in its lists.
ASSUME PayloadAssumption ==
  /\ FtsoSubmit1 \subseteq Seq([ts : Nat, hash : STRING])
  /\ FtsoSubmit2 \subseteq Seq([ts : Nat, hash : STRING, vote : Seq(BOOLEAN)])
  /\ FtsoSignatures \subseteq Seq([ts : Nat, sig : Signers])
  /\ OtherVotes \subseteq Seq(Seq(BOOLEAN))
  /\ FdcSubmit1 \subseteq Seq([ts : Nat])
  /\ FdcSubmit2 \subseteq Seq([ts : Nat, bits : Seq(BOOLEAN)])
  /\ FdcSignatures \subseteq Seq([ts : Nat, sig : Signers])
  /\ Tallies \subseteq Seq([bits : Seq(BOOLEAN), count : Nat, readable : BOOLEAN])
  /\ RequestCounts \subseteq Nat
  /\ \A f \in Finalizations : f \subseteq Nat /\ \A t \in f, u \in f : t = u

VARIABLES
  ftso,             \* round.ftso
  medians,          \* round.ftso.medians
  ftsoStep, ftsoIssues,
  fdc,              \* round.fdc
  fdcStep, fdcIssues,
  submitted,        \* round.submitted_signatures
  returned          \* what validate_round has returned, a set of at most one set

ftsoVars == <<ftso, medians, ftsoStep, ftsoIssues>>
fdcVars == <<fdc, fdcStep, fdcIssues, submitted>>
vars == <<ftsoVars, fdcVars, returned>>

Ftso == INSTANCE FtsoValidation WITH
  Submit1Lists <- FtsoSubmit1, Submit2Lists <- FtsoSubmit2, SignatureLists <- FtsoSignatures,
  record <- ftso, step <- ftsoStep, issues <- ftsoIssues
Fdc == INSTANCE FdcValidation WITH
  Submit1Lists <- FdcSubmit1, Submit2Lists <- FdcSubmit2, SignatureLists <- FdcSignatures,
  record <- fdc, step <- fdcStep, issues <- fdcIssues

TypeOK ==
  /\ Ftso!TypeOK
  /\ Fdc!TypeOK
  /\ \A found \in returned : found \subseteq [level : Ftso!Levels, about : Ftso!Findings \cup Fdc!Findings]

Init ==
  /\ \E r \in RoundRecords : ftso = r[1] /\ fdc = r[2]
  /\ Ftso!Init
  /\ Fdc!Init
  /\ returned = {}

\* round.ftso.calculate_medians and for validator in ftso_validations
ValidateFtso ==
  /\ Ftso!Next
  /\ UNCHANGED <<fdcVars, returned>>

FtsoDone == ftsoStep = "done"

\* for validator in fdc_validations
ValidateFdc ==
  /\ FtsoDone
  /\ Fdc!Next
  /\ UNCHANGED <<ftsoVars, returned>>

\* Mutant: the list of issues begins anew with the second protocol.
FdcIssuesOnly == fdcIssues

AllIssues == ftsoIssues \cup fdcIssues

Return ==
  /\ fdcStep = "done" /\ returned = {}
  /\ returned' = {AllIssues}
  /\ UNCHANGED <<ftsoVars, fdcVars>>

Next == ValidateFtso \/ ValidateFdc \/ Return

Spec == Init /\ [][Next]_vars

-----------------------------------------------------------------------------
(***************************************************************************)
(* Properties.                                                             *)
(***************************************************************************)

\* Silence is right in each protocol, see FtsoValidation and FdcValidation: what
\* raises no issue is what the protocol asks for.
NoIssueMeansCompliant == Ftso!NoIssueMeansCompliant /\ Fdc!NoIssueMeansCompliant

\* Alarm is right in each protocol: what the protocol asks for raises no issue.
FtsoCompliantMeansNoIssue == Ftso!CompliantMeansNoIssue
FdcCompliantMeansNoIssue == Fdc!CompliantMeansNoIssue

\* "the message must exist and the signature must match the finalization"
\* (observer/validation/fdc.py:165): a round counts as one the entity has signed
\* only if it has.
SubmittedMeansSigned == Fdc!SubmittedMeansSigned

\* A critical message of a protocol is about a reveal offence in it.
CriticalMeansRevealOffence == Ftso!CriticalMeansRevealOffence /\ Fdc!CriticalMeansRevealOffence

-----------------------------------------------------------------------------
(***************************************************************************)
(* What the round as a whole comes to.                                     *)
(***************************************************************************)

\* The entity committed, and revealed nothing it had committed to.
FtsoOffence ==
  /\ CommitPhase(ftso.submit1) # {}
  /\ \A c \in CommitPhase(ftso.submit1), r \in RevealPhase(ftso.submit2) : c.hash # r.hash

\* The entity revealed a vote that confirms whatever was signed, and signed nothing.
FdcOffence ==
  /\ ~Fdc!NoConsensus
  /\ RevealPhase(fdc.submit2) # {}
  /\ \A x \in RevealPhase(fdc.submit2) :
       /\ Len(x.bits) = fdc.requests
       /\ \A i \in DOMAIN fdc.tally, n \in 1 .. fdc.requests : fdc.tally[i].bits[n] => x.bits[n]
  /\ SigningPhase(fdc.signatures) = {}

\* The other voters leave the observer a median of each feed, and the messages signed
\* can be read and have as many requests as the observer has seen: nothing they send
\* ends it in this round.
OthersSound ==
  /\ Len(ftso.others) > 1
  /\ \A i \in DOMAIN ftso.others :
       ftso.others[i] = ftso.others[1] /\ \A f \in DOMAIN ftso.others[i] : ftso.others[i][f]
  /\ \A i \in DOMAIN fdc.tally :
       fdc.tally[i].readable /\ Len(fdc.tally[i].bits) = fdc.requests

\* The entity has signed a finalized round with something that is no signature.
MalformedSignature ==
  \/ ftso.finalization # {} /\ \E x \in SigningPhase(ftso.signatures) : x.sig = "malformed"
  \/ fdc.finalization # {} /\ \E x \in SigningPhase(fdc.signatures) : x.sig = "malformed"

Over == returned # {} \/ ftsoStep = "crashed" \/ fdcStep = "crashed"

\* A reveal offence in one protocol is reported as critical, whatever the entity did
\* in the other one: the validators of the other neither end the process nor take
\* away what was found. One thing the entity does is excepted, and the observer
\* should not: to recover the key of a malformed signature raises, which ends the
\* process, and the offence is lost with it. (The comments at fdc.py:173 and
\* ftso.py:224 promise an error for a signature that does not match.)
OffenceReported ==
  Over /\ OthersSound /\ ~MalformedSignature /\ (FtsoOffence \/ FdcOffence) =>
    \E found \in returned : \E x \in found : x.level = "CRITICAL"

=============================================================================
