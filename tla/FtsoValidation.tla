--------------------------- MODULE FtsoValidation ---------------------------
(***************************************************************************)
(* Validation of the FTSO part of one voting round for the observed entity *)
(* (observer/validation/ftso.py), with the medians it is compared with     *)
(* (FtsoVotingRoundProtocol.calculate_medians in observer/voting_round.py):*)
(* validate_round computes the medians of the votes of all voters of the   *)
(* policy and runs the three validators on the entity's own transactions.  *)
(*                                                                         *)
(* A vote is a sequence with an element for each feed, TRUE for a value    *)
(* and FALSE for None: no validator looks at a value any closer. What the  *)
(* commit hash of a reveal comes to is a field of the reveal. A signature  *)
(* of the finalization is the entity's own, another's, or malformed: then  *)
(* no key can be recovered from it, and the attempt raises.                *)
(***************************************************************************)
EXTENDS Extraction, FiniteSetsExt

CONSTANTS
  Submit1Lists,     \* the entity's submit1 transactions: sequences of [ts, hash]
  Submit2Lists,     \* ... submit2: sequences of [ts, hash, vote]
  SignatureLists,   \* ... submitSignatures: sequences of [ts, sig]
  OtherVotes,       \* the votes of other voters, revealed as committed
  Hashes,           \* commit hashes of 32 bytes
  Finalizations     \* {} or {timestamp} of ProtocolMessageRelayed

VARIABLES
  record,       \* round.ftso, what has been collected
  medians,      \* round.ftso.medians: the number of them
  step,         \* the validator that is next
  issues        \* what the validators have returned

vars == <<record, medians, step, issues>>

\* The entity comes before or after the others in signing_policy.entities.
Records ==
  [submit1 : Submit1Lists, submit2 : Submit2Lists, signatures : SignatureLists,
   others : OtherVotes, first : BOOLEAN, finalization : Finalizations]

Levels == {"WARNING", "ERROR", "CRITICAL"}
Findings ==
  {"submit1_after_window", "no_submit1", "hash_length", "no_submit2",
   "reveal_mismatch", "number_of_feeds", "none_in_vote", "submit2_outside_window",
   "no_submitSignatures", "after_grace_period", "submitSignatures_before_window",
   "signature_mismatch"}
Steps == {"medians", "submit1", "submit2", "signatures", "done", "crashed"}

TypeOK ==
  /\ record \in Records
  /\ medians \in Nat
  /\ step \in Steps
  /\ issues \subseteq [level : Levels, about : Findings]

Init ==
  /\ record \in Records
  /\ medians = 0
  /\ step = "medians"
  /\ issues = {}

\* MessageBuilder.build, for what the properties tell apart of a message.
Issue(level, about) == {[level |-> level, about |-> about]}
When(condition, found) == IF condition THEN found ELSE {}

\* What the validators are given (extract_round_for_entity).
Submit1 == Commit(record.submit1)
Submit2 == Reveal(record.submit2)
Signature == Signing(record.signatures)

-----------------------------------------------------------------------------
(***************************************************************************)
(* The medians.                                                            *)
(***************************************************************************)

\* The entity's vote, if it is considered.
Revealed == {r.vote : r \in {r \in Submit2 : \E c \in Submit1 : c.hash = r.hash}}

\* votes_to_consider, in the order of the policy.
Votes ==
  LET own == {<<v>> : v \in Revealed}
      mine == IF own = {} THEN <<>> ELSE CHOOSE s \in own : TRUE
  IN IF record.first THEN mine \o record.others ELSE record.others \o mine

\* number_of_feeds: how many votes are of a length, and the length that most
\* are of, the first met of several.
OfLength(votes, n) == Cardinality({i \in DOMAIN votes : Len(votes[i]) = n})
Prevails(votes, n) ==
  \A j \in DOMAIN votes : Len(votes[j]) # n =>
    \/ OfLength(votes, Len(votes[j])) < OfLength(votes, n)
    \/ /\ OfLength(votes, Len(votes[j])) = OfLength(votes, n)
       /\ \E k \in 1 .. j - 1 : Len(votes[k]) = n
Feeds(votes) == {n \in {Len(votes[i]) : i \in DOMAIN votes} : Prevails(votes, n)}

\* Every one of n feeds has a vote, so there are n medians.
Voted(votes, n) == \A f \in 1 .. n : \E i \in DOMAIN votes : f <= Len(votes[i]) /\ votes[i][f]

CalculateMedians ==
  LET votes == Votes
  IN /\ step = "medians"
     /\ \E n \in Feeds(votes) : Voted(votes, n) /\ medians' = n
     /\ step' = "submit1"
     /\ UNCHANGED <<record, issues>>

\* max() of nothing, or the assertion on a median: the observer ends here.
CalculateMediansFails ==
  LET votes == Votes
  IN /\ step = "medians"
     /\ \A n \in Feeds(votes) : ~Voted(votes, n)
     /\ step' = "crashed"
     /\ UNCHANGED <<record, medians, issues>>

-----------------------------------------------------------------------------
(***************************************************************************)
(* The validators.                                                         *)
(***************************************************************************)
Submit1Issues ==
  LET late == Late(record.submit1, EndS(Round))
  IN When(late, Issue("ERROR", "submit1_after_window"))
       \cup When(Submit1 = {} /\ ~late, Issue("ERROR", "no_submit1"))
       \cup When(\E c \in Submit1 : c.hash \notin Hashes, Issue("ERROR", "hash_length"))

CheckSubmit1 ==
  /\ step = "submit1"
  /\ issues' = issues \cup Submit1Issues
  /\ step' = "submit2"
  /\ UNCHANGED <<record, medians>>

OutsideSubmit2 ==
  Early(record.submit2, StartS(NextRound)) \/ Late(record.submit2, RevealDeadline(NextRound))

\* Nothing was revealed, an offence when something was committed.
MissingReveal ==
  When(Submit2 = {}, Issue(IF Submit1 = {} THEN "ERROR" ELSE "CRITICAL", "no_submit2"))

Submit2Issues ==
  MissingReveal
    \cup When(\E c \in Submit1, r \in Submit2 : c.hash # r.hash,
              Issue("CRITICAL", "reveal_mismatch"))
    \cup When(\E r \in Submit2 : Len(r.vote) # medians, Issue("WARNING", "number_of_feeds"))
    \cup When(\E r \in Submit2 : Len(r.vote) = medians /\ \E f \in DOMAIN r.vote : ~r.vote[f],
              Issue("WARNING", "none_in_vote"))
    \cup When(Submit2 # {} /\ OutsideSubmit2, Issue("ERROR", "submit2_outside_window"))

CheckSubmit2 ==
  /\ step = "submit2"
  /\ issues' = issues \cup Submit2Issues
  /\ step' = "signatures"
  /\ UNCHANGED <<record, medians>>

\* Mutant: a finalization within the grace period shortens it.
DeadlineEarlier ==
  IF record.finalization = {} THEN StartS(NextRound) + Grace ELSE Max(record.finalization)

Deadline == Max({StartS(NextRound) + Grace} \cup record.finalization)

SignatureIssues ==
  When(Signature = {}, Issue("ERROR", "no_submitSignatures"))
    \cup When(\E s \in Signature : s.ts > Deadline, Issue("WARNING", "after_grace_period"))
    \cup When(Signature # {} /\ Early(record.signatures, RevealDeadline(NextRound)),
              Issue("ERROR", "submitSignatures_before_window"))
    \cup When(record.finalization # {} /\ \E s \in Signature : s.sig = "other",
              Issue("ERROR", "signature_mismatch"))

\* A signature is only looked at when there is a finalization to compare it with.
Unrecoverable == record.finalization # {} /\ \E s \in Signature : s.sig = "malformed"

CheckSubmitSignatures ==
  /\ step = "signatures"
  /\ ~Unrecoverable
  /\ issues' = issues \cup SignatureIssues
  /\ step' = "done"
  /\ UNCHANGED <<record, medians>>

\* from_parsed_signature, or the recovery of the key: the observer ends here.
CheckSubmitSignaturesFails ==
  /\ step = "signatures"
  /\ Unrecoverable
  /\ step' = "crashed"
  /\ UNCHANGED <<record, medians, issues>>

Next ==
  \/ CalculateMedians \/ CalculateMediansFails
  \/ CheckSubmit1 \/ CheckSubmit2 \/ CheckSubmitSignatures \/ CheckSubmitSignaturesFails

Spec == Init /\ [][Next]_vars

-----------------------------------------------------------------------------
(***************************************************************************)
(* The rules of the protocol, stated without the validators.               *)
(***************************************************************************)
Signed ==
  \E x \in SigningPhase(record.signatures) :
    InTime(x, record.finalization) /\ (record.finalization # {} => x.sig = "own")

\* A vote with a value for each of n feeds.
Complete(vote, n) == Len(vote) = n /\ \A f \in DOMAIN vote : vote[f]

Matches(c, r) == c.hash = r.hash /\ c.hash \in Hashes

\* More of the other voters vote on n feeds than on any other number.
Agreed(n) ==
  LET votesOn(m) == Cardinality({i \in DOMAIN record.others : Len(record.others[i]) = m})
  IN \A i \in DOMAIN record.others :
       Len(record.others[i]) # n => votesOn(Len(record.others[i])) <= votesOn(n)

Compliant ==
  /\ \E c \in CommitPhase(record.submit1), r \in RevealPhase(record.submit2) :
       /\ record.submit1 = <<c>> /\ record.submit2 = <<r>>
       /\ Matches(c, r)
       /\ Agreed(Len(r.vote)) /\ Complete(r.vote, Len(r.vote))
  /\ \E x \in SigningPhase(record.signatures) :
       record.signatures = <<x>> /\ x.sig = "own" /\ InTime(x, record.finalization)

-----------------------------------------------------------------------------
(***************************************************************************)
(* Properties.                                                             *)
(***************************************************************************)

\* Silence is right: when a round raises no issue, the entity has committed in
\* time, revealed what it had committed to, with a value for every feed that has
\* a median, and signed the finalization in time.
NoIssueMeansCompliant ==
  step = "done" /\ issues = {} =>
    /\ \E c \in CommitPhase(record.submit1), r \in RevealPhase(record.submit2) :
         Matches(c, r) /\ Complete(r.vote, medians)
    /\ Signed

\* Alarm is right: an entity that follows the rules and votes on the feeds most
\* others vote on raises no issue; and whatever the others send, a single such
\* vote is enough for the medians, so the observer does not end in this round.
CompliantMeansNoIssue ==
  Compliant /\ step \in {"done", "crashed"} => step = "done" /\ issues = {}

\* The critical message is sent if and only if the entity committed and then did
\* not reveal what it had committed to (exact when no two of its transactions are
\* in one block).
CriticalMeansRevealOffence ==
  LET offence(c) == \A r \in RevealPhase(record.submit2) : c.hash # r.hash
      maybe(c) == \/ RevealPhase(record.submit2) = {}
                  \/ \E r \in RevealPhase(record.submit2) : c.hash # r.hash
      critical == \E x \in issues : x.level = "CRITICAL"
      commits == CommitPhase(record.submit1)
  IN step = "done" =>
       /\ critical => \E c \in commits : maybe(c)
       /\ commits # {} /\ (\A c \in commits : offence(c)) => critical

=============================================================================
