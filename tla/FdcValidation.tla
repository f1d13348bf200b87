---------------------------- MODULE FdcValidation ----------------------------
(***************************************************************************)
(* Validation of the FDC part of one voting round for the observed entity  *)
(* (observer/validation/fdc.py), with the extraction of its transactions   *)
(* from the record of the round (extract, extract_round_for_entity). The   *)
(* validators run one after the other on the same record; the last of them *)
(* also sets round.submitted_signatures, which the minimal condition on    *)
(* FDC participation counts.                                               *)
(*                                                                         *)
(* Bit votes are sequences of Booleans, in the order of the requests; what *)
(* may be absent is a set with at most one element. A message that was     *)
(* signed is readable when it has a length, and no bit set beyond it; a    *)
(* signature of the finalization is the entity's own, another's, or        *)
(* malformed: then no key can be recovered from it. Both attempts raise.   *)
(***************************************************************************)
EXTENDS Extraction, FiniteSetsExt

CONSTANTS
  Submit1Lists,     \* the entity's submit1 transactions: sequences of [ts]
  Submit2Lists,     \* ... submit2: sequences of [ts, bits]
  SignatureLists,   \* ... submitSignatures: sequences of [ts, sig]
  Tallies,          \* consensus_bitvote: sequences of [bits, count, readable], as inserted
  RequestCounts,    \* numbers of distinct attestation requests
  Finalizations     \* {} or {timestamp} of ProtocolMessageRelayed

VARIABLES
  record,       \* round.fdc, what has been collected for the entity
  step,         \* the validator that is next
  issues,       \* what the validators have returned
  submitted     \* round.submitted_signatures

vars == <<record, step, issues, submitted>>

Records ==
  [submit1 : Submit1Lists, submit2 : Submit2Lists, signatures : SignatureLists,
   tally : Tallies, requests : RequestCounts, finalization : Finalizations]

Levels == {"WARNING", "ERROR", "CRITICAL"}
Findings ==
  {"submit1_found", "bit_vote_length", "not_confirmed", "no_submit2",
   "submit2_outside_window", "no_submitSignatures", "reveal_offence",
   "after_grace_period", "submitSignatures_before_window", "signature_mismatch"}
Steps == {"submit1", "submit2", "signatures", "done", "crashed"}

TypeOK ==
  /\ record \in Records
  /\ step \in Steps
  /\ issues \subseteq [level : Levels, about : Findings]
  /\ submitted \in BOOLEAN

Init ==
  /\ record \in Records
  /\ step = "submit1"
  /\ issues = {}
  /\ submitted = FALSE

\* Mutant: the arguments of build are swapped.
IssueSwapped(level, about) == {[level |-> about, about |-> level]}

\* MessageBuilder.build, for what the properties tell apart of a message.
Issue(level, about) == {[level |-> level, about |-> about]}
When(condition, found) == IF condition THEN found ELSE {}

-----------------------------------------------------------------------------
(***************************************************************************)
(* What the validators are given (extract_round_for_entity).               *)
(***************************************************************************)
Submit1 == Commit(record.submit1)
Submit2 == Reveal(record.submit2)
Signature == Signing(record.signatures)

\* The message signed most often, the first inserted of several.
Leading ==
  LET t == record.tally
  IN {t[i] : i \in {i \in DOMAIN t : \A j \in DOMAIN t : /\ t[j].count <= t[i].count
                                                         /\ j < i => t[j].count < t[i].count}}

Consensus == {message.bits : message \in Leading}
Readable == \A message \in Leading : message.readable

NoConsensus == record.tally = <<>>

\* all(b or not cb for b, cb in zip(...)): zip ends with the shorter one.
Dominates(bits, consensus) ==
  \A i \in DOMAIN bits \cap DOMAIN consensus : consensus[i] => bits[i]

-----------------------------------------------------------------------------
(***************************************************************************)
(* The validators.                                                         *)
(***************************************************************************)

\* In the FDC protocol submit1 is not used.
Submit1Issues ==
  When(Submit1 # {} \/ Late(record.submit1, EndS(Round)), Issue("ERROR", "submit1_found"))

CheckSubmit1 ==
  /\ step = "submit1"
  /\ issues' = issues \cup Submit1Issues
  /\ step' = "submit2"
  /\ UNCHANGED <<record, submitted>>

\* What is found of the bit vote in the window.
BitVoteIssues ==
  When(\E s \in Submit2 : Len(s.bits) # record.requests, Issue("ERROR", "bit_vote_length"))
    \cup When(\E s \in Submit2, c \in Consensus :
                Len(s.bits) = record.requests /\ ~Dominates(s.bits, c),
              Issue("ERROR", "not_confirmed"))

OutsideSubmit2 ==
  Early(record.submit2, StartS(NextRound)) \/ Late(record.submit2, RevealDeadline(NextRound))

Submit2Issues ==
  When(~NoConsensus,
       When(Submit2 = {}, Issue("ERROR", "no_submit2"))
         \cup BitVoteIssues
         \cup When(Submit2 # {} /\ OutsideSubmit2, Issue("ERROR", "submit2_outside_window")))

CheckSubmit2 ==
  /\ step = "submit2"
  /\ NoConsensus \/ (Readable /\ \A c \in Consensus : Len(c) = record.requests)
  /\ issues' = issues \cup Submit2Issues
  /\ step' = "signatures"
  /\ UNCHANGED <<record, submitted>>

\* The message has no length or bits beyond it, or the assertion
\* len(sorted_requests) == n_requests fails: the observer ends here.
CheckSubmit2Fails ==
  /\ step = "submit2"
  /\ ~NoConsensus
  /\ ~Readable \/ \E c \in Consensus : Len(c) # record.requests
  /\ step' = "crashed"
  /\ UNCHANGED <<record, issues, submitted>>

\* Mutant: a vote that does not confirm the consensus is taken for an accepted one.
RevealOffenceAny ==
  /\ Signature = {}
  /\ \E s \in Submit2, c \in Consensus : Len(s.bits) = Len(c)

\* The bit vote was accepted, so the signature had to follow.
RevealOffence ==
  /\ Signature = {}
  /\ \E s \in Submit2, c \in Consensus : Len(s.bits) = Len(c) /\ Dominates(s.bits, c)

\* Mutant: a finalization within the grace period shortens it.
DeadlineEarlier ==
  IF record.finalization = {} THEN StartS(NextRound) + Grace ELSE Max(record.finalization)

Deadline == Max({StartS(NextRound) + Grace} \cup record.finalization)

\* What check_submit_signatures returns.
SignatureIssues ==
  When(Submit2 = {} /\ Signature = {}, Issue("ERROR", "no_submitSignatures"))
    \cup When(RevealOffence, Issue("CRITICAL", "reveal_offence"))
    \cup When(\E s \in Signature : s.ts > Deadline, Issue("WARNING", "after_grace_period"))
    \cup When(Signature # {} /\ Early(record.signatures, RevealDeadline(NextRound)),
              Issue("ERROR", "submitSignatures_before_window"))
    \cup When(record.finalization # {} /\ \E s \in Signature : s.sig = "other",
              Issue("ERROR", "signature_mismatch"))

\* The message is read again when a signature is missing; a signature is only looked
\* at when there is a finalization to compare it with.
Unreadable == Submit2 # {} /\ Signature = {} /\ ~Readable
Unrecoverable == record.finalization # {} /\ \E s \in Signature : s.sig = "malformed"

CheckSubmitSignatures ==
  /\ step = "signatures"
  /\ NoConsensus \/ (~Unreadable /\ ~Unrecoverable)
  /\ IF NoConsensus
     THEN UNCHANGED <<issues, submitted>>
     ELSE /\ issues' = issues \cup SignatureIssues
          /\ submitted' = (SignatureIssues = {} \/ submitted)
  /\ step' = "done"
  /\ UNCHANGED record

\* The message, from_parsed_signature, or the recovery of the key: the observer ends
\* here.
CheckSubmitSignaturesFails ==
  /\ step = "signatures"
  /\ ~NoConsensus
  /\ Unreadable \/ Unrecoverable
  /\ step' = "crashed"
  /\ UNCHANGED <<record, issues, submitted>>

Next ==
  \/ CheckSubmit1 \/ CheckSubmit2 \/ CheckSubmit2Fails
  \/ CheckSubmitSignatures \/ CheckSubmitSignaturesFails

Spec == Init /\ [][Next]_vars

-----------------------------------------------------------------------------
(***************************************************************************)
(* The rules of the protocol, stated without the validators.               *)
(***************************************************************************)

\* The vote confirms every request of the most signed message.
Confirms(x) ==
  /\ Len(x.bits) = record.requests
  /\ \E i \in DOMAIN record.tally :
       /\ record.tally[i].readable
       /\ \A j \in DOMAIN record.tally : record.tally[j].count <= record.tally[i].count
       /\ \A n \in 1 .. record.requests : record.tally[i].bits[n] => x.bits[n]

Compliant ==
  /\ ~NoConsensus /\ \A i \in DOMAIN record.tally : record.tally[i].readable
  /\ record.submit1 = <<>>
  /\ \E x \in RevealPhase(record.submit2) :
       /\ record.submit2 = <<x>>
       /\ Len(x.bits) = record.requests
       /\ \A i \in DOMAIN record.tally, n \in 1 .. record.requests :
            record.tally[i].bits[n] => x.bits[n]
  /\ \E x \in SigningPhase(record.signatures) :
       record.signatures = <<x>> /\ x.sig = "own" /\ InTime(x, record.finalization)

-----------------------------------------------------------------------------
(***************************************************************************)
(* Properties.                                                             *)
(***************************************************************************)

\* Silence is right: when a round with a consensus raises no issue, the entity has
\* revealed a vote that confirms the consensus and signed the finalization in
\* time. The windows of three validators, the zip that cuts the longer vote and
\* the validators' own holes together let no failure through.
NoIssueMeansCompliant ==
  step = "done" /\ issues = {} /\ ~NoConsensus =>
    /\ \E x \in RevealPhase(record.submit2) : Confirms(x)
    /\ \E x \in SigningPhase(record.signatures) :
         InTime(x, record.finalization) /\ (record.finalization # {} => x.sig = "own")

\* Alarm is right: an entity with a single transaction in each window, that
\* follows the rules, raises no issue and is counted as a participant.
CompliantMeansNoIssue == step = "done" /\ Compliant => issues = {} /\ submitted

\* The critical message is about a reveal offence: a vote that confirms the
\* consensus and no signature after it. (That such an offence is reported is said
\* of the round as a whole, see OffenceReported in RoundValidation.)
CriticalMeansRevealOffence ==
  step = "done" /\ (\E x \in issues : x.level = "CRITICAL") =>
    /\ SigningPhase(record.signatures) = {}
    /\ \E x \in RevealPhase(record.submit2) : Confirms(x)

\* "the message must exist and the signature must match the finalization"
\* (observer/validation/fdc.py:165): an entity is counted as having submitted
\* signatures only if it has.
SubmittedMeansSigned ==
  step = "done" /\ submitted => SigningPhase(record.signatures) # {}

=============================================================================
