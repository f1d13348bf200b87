----------------------- MODULE RoundValidation_proof -----------------------
(***************************************************************************)
(* Proofs about RoundValidation: what the validators report of a round is  *)
(* what the entity did, for any payloads, epochs and grace period.         *)
(*                                                                         *)
(* A validator reports a function of the record of the round, so the       *)
(* invariant says what has been reported at each step; that this is right  *)
(* is then a matter of what the validators look at: the transactions that  *)
(* are extracted of a list are among those that count, and some are if any *)
(* counts, which takes an induction on the list, done here with a smallest *)
(* counterexample. That a complete vote on the feeds most others vote on   *)
(* always leaves the medians defined is a count of the votes. What ends    *)
(* the observer is told apart by where it does: at the medians, at the     *)
(* messages that were signed, or at a signature no key can be recovered of.*)
(***************************************************************************)
EXTENDS RoundValidation, FiniteSetTheorems, TLAPS

FtsoBegun == {"submit1", "submit2", "signatures", "done"}

\* What has been reported of the FTSO part.
FtsoFound ==
  ftsoStep # "crashed" => ftsoIssues =
    Ftso!When(ftsoStep \in FtsoBegun \ {"submit1"}, Ftso!Submit1Issues)
      \cup Ftso!When(ftsoStep \in {"signatures", "done"}, Ftso!Submit2Issues)
      \cup Ftso!When(ftsoStep = "done", Ftso!SignatureIssues)

\* The medians are those of the votes and a key was recovered of the signature, or the
\* observer ends.
MediansOfVotes ==
  /\ ftsoStep \in FtsoBegun => medians \in Ftso!Feeds(Ftso!Votes) /\ Ftso!Voted(Ftso!Votes, medians)
  /\ ftsoStep = "done" => ~Ftso!Unrecoverable
  /\ ftsoStep = "crashed" =>
       Ftso!Unrecoverable \/ (\A n \in Ftso!Feeds(Ftso!Votes) : ~Ftso!Voted(Ftso!Votes, n))

\* What has been reported of the FDC part.
FdcFound ==
  fdcStep # "crashed" => fdcIssues =
    Fdc!When(fdcStep # "submit1", Fdc!Submit1Issues)
      \cup Fdc!When(fdcStep \in {"signatures", "done"}, Fdc!Submit2Issues)
      \cup Fdc!When(fdcStep = "done" /\ ~Fdc!NoConsensus, Fdc!SignatureIssues)

\* The message signed most can be read and has as many requests as were counted, and a
\* key was recovered of the signature, or the observer ends.
RequestsAgree ==
  /\ fdcStep \in {"signatures", "done"} =>
       Fdc!NoConsensus \/ (Fdc!Readable /\ \A c \in Fdc!Consensus : Len(c) = fdc.requests)
  /\ fdcStep = "done" => Fdc!NoConsensus \/ ~Fdc!Unrecoverable
  /\ fdcStep = "crashed" =>
       /\ ~Fdc!NoConsensus
       /\ \/ ~Fdc!Readable \/ Fdc!Unrecoverable
          \/ \E c \in Fdc!Consensus : Len(c) # fdc.requests

\* An entity takes part in a round with a consensus when its signature raises no issue.
Participates ==
  submitted <=> fdcStep = "done" /\ ~Fdc!NoConsensus /\ Fdc!SignatureIssues = {}

\* The FDC validators run after the FTSO validators, and what both find is returned.
OneAfterOther ==
  /\ fdcStep # "submit1" => FtsoDone
  /\ returned # {} => fdcStep = "done" /\ returned = {AllIssues}

IInv ==
  /\ TypeOK
  /\ FtsoFound /\ MediansOfVotes
  /\ FdcFound /\ RequestsAgree /\ Participates
  /\ OneAfterOther

-----------------------------------------------------------------------------
(***************************************************************************)
(* Induction on a set of numbers, by its smallest counterexample, and the  *)
(* first maximum of a sequence of numbers.                                 *)
(***************************************************************************)
Before == {p \in Nat \X Nat : p[1] < p[2]}

LEMMA BeforeWellFounded == IsWellFoundedOn(Before, Nat)
  BY NatLessThanWellFounded, Zenon DEF OpToRel, Before

LEMMA Induction ==
  ASSUME NEW T \in SUBSET Nat, 0 \in T, \A n \in T : n + 1 \in T
  PROVE  \A n \in Nat : n \in T
<1> SUFFICES ASSUME Nat \ T # {} PROVE FALSE
  OBVIOUS
<1>1. PICK x \in Nat \ T : \A y \in Nat \ T : ~(<<y, x>> \in Before)
  <2>1. Nat \ T \in SUBSET Nat
    OBVIOUS
  <2> QED
    BY <2>1, BeforeWellFounded, WFMin
<1>2. x \in Nat /\ x # 0 /\ x - 1 \in Nat
  BY <1>1
<1>3. <<x - 1, x>> \in Before
  BY <1>2 DEF Before
<1>4. x - 1 \in T
  BY <1>1, <1>2, <1>3
<1> QED
  BY <1>1, <1>2, <1>4

FirstBest(f, n, i) == \A j \in 1 .. n : f[j] <= f[i] /\ (j < i => f[j] < f[i])

LEMMA FirstBestExists ==
  ASSUME NEW n \in Nat, n # 0, NEW f \in [1 .. n -> Int]
  PROVE  \E i \in 1 .. n : FirstBest(f, n, i)
<1> DEFINE T == {m \in Nat : m + 1 \in 1 .. n => \E i \in 1 .. m + 1 : FirstBest(f, m + 1, i)}
<1>1. 0 \in T
  BY DEF FirstBest
<1>2. ASSUME NEW m \in T PROVE m + 1 \in T
  <2> SUFFICES ASSUME m + 2 \in 1 .. n PROVE \E i \in 1 .. m + 2 : FirstBest(f, m + 2, i)
    OBVIOUS
  <2>1. m \in Nat /\ m + 1 \in 1 .. n
    OBVIOUS
  <2>2. PICK i \in 1 .. m + 1 : FirstBest(f, m + 1, i)
    BY <2>1
  <2>3. i \in 1 .. n /\ i \in 1 .. m + 2 /\ m + 2 \in 1 .. m + 2
    BY <2>1
  <2>4. /\ f[i] \in Int /\ f[m + 2] \in Int
        /\ \A j \in 1 .. m + 1 : f[j] \in Int
    BY <2>1, <2>3
  <2>5. \A j \in 1 .. m + 2 : j \in 1 .. m + 1 \/ j = m + 2
    BY <2>1
  <2>6. CASE f[m + 2] <= f[i]
    <3>1. FirstBest(f, m + 2, i)
      BY <2>1, <2>2, <2>4, <2>5, <2>6 DEF FirstBest
    <3> QED
      BY <3>1, <2>3
  <2>7. CASE f[i] < f[m + 2]
    <3>1. FirstBest(f, m + 2, m + 2)
      BY <2>1, <2>2, <2>4, <2>5, <2>7 DEF FirstBest
    <3> QED
      BY <3>1, <2>3
  <2> QED
    BY <2>4, <2>6, <2>7
<1> HIDE DEF T
<1>3. T \in SUBSET Nat
  BY DEF T
<1>4. \A m \in Nat : m \in T
  BY <1>1, <1>2, <1>3, Induction
<1>5. n - 1 \in Nat /\ (n - 1) + 1 = n /\ n \in 1 .. n
  OBVIOUS
<1>6. n - 1 \in T
  BY <1>4, <1>5
<1> QED
  BY <1>5, <1>6 DEF T

-----------------------------------------------------------------------------
(***************************************************************************)
(* The windows of a round.                                                 *)
(***************************************************************************)
LEMMA Times ==
  /\ StartS(Round) \in Nat /\ EndS(Round) \in Nat /\ StartS(NextRound) \in Nat
  /\ RevealDeadline(NextRound) \in Nat /\ EndS(NextRound) \in Nat
  /\ StartS(NextRound) + Grace \in Nat
  /\ EndS(Round) = StartS(Round + 1) /\ StartS(NextRound) = StartS(Round + 1)
  /\ RevealDeadline(NextRound) = StartS(Round + 1) + RevealLen
  /\ EndS(NextRound) = StartS(Round + 2)
<1>1. EpochLen \in Nat /\ RevealLen \in Nat /\ Round \in Nat /\ Grace \in Nat
  BY EpochAssumption, RoundAssumption
<1>2. NextRound \in Nat /\ NextRound = Round + 1 /\ NextRound + 1 = Round + 2
  BY <1>1 DEF NextRound
<1>3. \A e \in Nat : StartS(e) \in Nat /\ EndS(e) = StartS(e + 1)
  BY <1>1 DEF StartS, EndS
<1> QED
  BY <1>1, <1>2, <1>3 DEF RevealDeadline

\* A list of stamped transactions.
Stamped(txs) == \E n \in Nat : DOMAIN txs = 1 .. n /\ \A i \in 1 .. n : txs[i].ts \in Nat

\* What is extracted is among what counts, and something is if anything counts.
LEMMA ExtractedCounts ==
  ASSUME NEW txs, Stamped(txs), NEW from \in Nat, NEW to \in Nat
  PROVE  /\ Extracted(txs, from, to) \subseteq Counting(txs, from, to)
         /\ Counting(txs, from, to) # {} => Extracted(txs, from, to) # {}
<1>1. PICK n \in Nat : DOMAIN txs = 1 .. n /\ \A i \in 1 .. n : txs[i].ts \in Nat
  BY DEF Stamped
<1> DEFINE inside == {i \in DOMAIN txs : Inside(txs[i].ts, from, to)}
           best == {i \in inside : \A j \in inside : /\ txs[j].ts <= txs[i].ts
                                                     /\ j < i => txs[j].ts < txs[i].ts}
<1>2. Extracted(txs, from, to) = {txs[i] : i \in best}
  BY DEF Extracted
<1>3. Timely(txs, from, to) = {txs[i] : i \in inside}
  BY DEF Timely, Inside
<1>4. ASSUME NEW i \in best PROVE txs[i] \in Counting(txs, from, to)
  BY <1>3 DEF Counting
<1>5. ASSUME Counting(txs, from, to) # {} PROVE \E i \in best : TRUE
  <2>1. PICK k \in inside : TRUE
    BY <1>3, <1>5 DEF Counting
  <2> DEFINE f == [i \in 1 .. n |-> IF i \in inside THEN txs[i].ts ELSE -1]
  <2>2. f \in [1 .. n -> Int]
    BY <1>1
  <2>3. n # 0 /\ k \in 1 .. n
    BY <1>1, <2>1
  <2>4. PICK i \in 1 .. n : FirstBest(f, n, i)
    <3> HIDE DEF f
    <3> QED
      BY <2>2, <2>3, FirstBestExists
  <2>5. f[k] \in Nat /\ f[k] <= f[i]
    BY <1>1, <2>1, <2>3, <2>4 DEF FirstBest
  <2>6. i \in inside
    BY <2>4, <2>5
  <2>7. \A j \in inside : /\ j \in 1 .. n /\ f[j] = txs[j].ts
                          /\ f[j] <= f[i] /\ (j < i => f[j] < f[i])
    BY <1>1, <2>4 DEF FirstBest
  <2>8. i \in best
    BY <2>6, <2>7
  <2> QED
    BY <2>8
<1> QED
  BY <1>2, <1>4, <1>5

LEMMA Windows ==
  ASSUME NEW txs, Stamped(txs)
  PROVE  /\ Commit(txs) \subseteq CommitPhase(txs) /\ (CommitPhase(txs) # {} => Commit(txs) # {})
         /\ Reveal(txs) \subseteq RevealPhase(txs) /\ (RevealPhase(txs) # {} => Reveal(txs) # {})
         /\ Signing(txs) \subseteq SigningPhase(txs) /\ (SigningPhase(txs) # {} => Signing(txs) # {})
  BY Times, ExtractedCounts
     DEF Commit, Reveal, Signing, CommitPhase, RevealPhase, SigningPhase

\* A single transaction that counts is the one that is extracted.
LEMMA Alone ==
  ASSUME NEW x, x.ts \in Nat, NEW from \in Nat, NEW to \in Nat,
         NEW y \in Counting(<<x>>, from, to)
  PROVE  /\ Extracted(<<x>>, from, to) = {x} /\ from <= x.ts
         /\ ~Early(<<x>>, from) /\ ~Late(<<x>>, to)
<1>1. from <= x.ts /\ x.ts < to
  BY DEF Counting, Timely
<1>2. DOMAIN <<x>> = {1} /\ <<x>>[1] = x
  OBVIOUS
<1>3. ~Early(<<x>>, from) /\ ~Late(<<x>>, to)
  BY <1>1, <1>2 DEF Early, Late
<1> DEFINE inside == {i \in DOMAIN <<x>> : Inside(<<x>>[i].ts, from, to)}
           best == {i \in inside : \A j \in inside : /\ <<x>>[j].ts <= <<x>>[i].ts
                                                     /\ j < i => <<x>>[j].ts < <<x>>[i].ts}
<1>4. inside = {1}
  BY <1>1, <1>2 DEF Inside
<1>5. best = {1}
  BY <1>1, <1>2, <1>4
<1>6. Extracted(<<x>>, from, to) = {<<x>>[i] : i \in best}
  BY DEF Extracted
<1> QED
  BY <1>1, <1>2, <1>3, <1>5, <1>6

LEMMA AloneInWindow ==
  ASSUME NEW x, x.ts \in Nat
  PROVE  /\ CommitPhase(<<x>>) # {} => Commit(<<x>>) = {x} /\ ~Late(<<x>>, EndS(Round))
         /\ RevealPhase(<<x>>) # {} =>
              /\ Reveal(<<x>>) = {x}
              /\ ~Early(<<x>>, StartS(NextRound)) /\ ~Late(<<x>>, RevealDeadline(NextRound))
         /\ SigningPhase(<<x>>) # {} =>
              Signing(<<x>>) = {x} /\ ~Early(<<x>>, RevealDeadline(NextRound))
  BY Times, Alone DEF Commit, Reveal, Signing, CommitPhase, RevealPhase, SigningPhase

LEMMA NothingExtracted ==
  /\ Commit(<<>>) = {} /\ ~Late(<<>>, EndS(Round))
  BY DEF Commit, Extracted, Late

\* The later of two times.
Later(a, finalization) ==
  CHOOSE m \in {a} \cup finalization : \A y \in {a} \cup finalization : m >= y

LEMMA LaterOf ==
  ASSUME NEW a \in Nat, NEW finalization \in Finalizations, NEW t \in Nat
  PROVE  Later(a, finalization) \in Nat
         /\ (t <= Later(a, finalization) <=> t <= a \/ \E f \in finalization : t <= f)
<1> DEFINE S == {a} \cup finalization
<1>1. finalization \subseteq Nat /\ \A f \in finalization, g \in finalization : f = g
  BY PayloadAssumption
<1>2. \E m \in S : \A y \in S : m >= y
  <2>1. CASE finalization = {}
    BY <2>1
  <2>2. CASE \E f \in finalization : finalization = {f}
    <3>1. PICK f \in finalization : finalization = {f}
      BY <2>2
    <3>2. f \in Nat
      BY <1>1
    <3>3. CASE a >= f
      BY <3>1, <3>2, <3>3
    <3>4. CASE f >= a
      BY <3>1, <3>2, <3>4
    <3> QED
      BY <3>2, <3>3, <3>4
  <2> QED
    BY <1>1, <2>1, <2>2
<1>3. Later(a, finalization) \in S /\ \A y \in S : Later(a, finalization) >= y
  BY <1>2 DEF Later
<1>4. Later(a, finalization) \in Nat /\ \A f \in finalization : f \in Nat
  BY <1>1, <1>3
<1> HIDE DEF S
<1>5. a \in S /\ (\A f \in finalization : f \in S) /\ \A y \in S : y = a \/ y \in finalization
  BY DEF S
<1>6. ASSUME t <= Later(a, finalization) PROVE t <= a \/ \E f \in finalization : t <= f
  BY <1>3, <1>4, <1>5, <1>6
<1>7. ASSUME t <= a \/ \E f \in finalization : t <= f PROVE t <= Later(a, finalization)
  BY <1>3, <1>4, <1>5, <1>7
<1> QED
  BY <1>4, <1>6, <1>7

-----------------------------------------------------------------------------
(***************************************************************************)
(* The invariant is inductive.                                             *)
(***************************************************************************)

\* The three levels and a subject make an issue.
LEMMA IssuesTyped ==
  /\ Ftso!Submit1Issues \subseteq [level : Ftso!Levels, about : Ftso!Findings]
  /\ Ftso!Submit2Issues \subseteq [level : Ftso!Levels, about : Ftso!Findings]
  /\ Ftso!SignatureIssues \subseteq [level : Ftso!Levels, about : Ftso!Findings]
  /\ Fdc!Submit1Issues \subseteq [level : Fdc!Levels, about : Fdc!Findings]
  /\ Fdc!Submit2Issues \subseteq [level : Fdc!Levels, about : Fdc!Findings]
  /\ Fdc!SignatureIssues \subseteq [level : Fdc!Levels, about : Fdc!Findings]
<1> DEFINE R == [level : Ftso!Levels, about : Ftso!Findings]
           Q == [level : Fdc!Levels, about : Fdc!Findings]
<1>1. \A level \in Ftso!Levels, about \in Ftso!Findings : Ftso!Issue(level, about) \subseteq R
  BY DEF Ftso!Issue
<1>2. \A level \in Fdc!Levels, about \in Fdc!Findings : Fdc!Issue(level, about) \subseteq Q
  BY DEF Fdc!Issue
<1>3. /\ "WARNING" \in Ftso!Levels /\ "ERROR" \in Ftso!Levels /\ "CRITICAL" \in Ftso!Levels
      /\ "WARNING" \in Fdc!Levels /\ "ERROR" \in Fdc!Levels /\ "CRITICAL" \in Fdc!Levels
  BY DEF Ftso!Levels, Fdc!Levels
<1> HIDE DEF R, Q
<1>4. Ftso!Submit1Issues \subseteq R
  BY <1>1, <1>3 DEF Ftso!Submit1Issues, Ftso!When, Ftso!Findings
<1>5. Ftso!Submit2Issues \subseteq R
  BY <1>1, <1>3 DEF Ftso!Submit2Issues, Ftso!MissingReveal, Ftso!When, Ftso!Findings
<1>6. Ftso!SignatureIssues \subseteq R
  BY <1>1, <1>3 DEF Ftso!SignatureIssues, Ftso!When, Ftso!Findings
<1>7. Fdc!Submit1Issues \subseteq Q
  BY <1>2, <1>3 DEF Fdc!Submit1Issues, Fdc!When, Fdc!Findings
<1>8. Fdc!Submit2Issues \subseteq Q
  BY <1>2, <1>3 DEF Fdc!Submit2Issues, Fdc!BitVoteIssues, Fdc!When, Fdc!Findings
<1>9. Fdc!SignatureIssues \subseteq Q
  BY <1>2, <1>3 DEF Fdc!SignatureIssues, Fdc!When, Fdc!Findings
<1> QED
  BY <1>4, <1>5, <1>6, <1>7, <1>8, <1>9 DEF R, Q

\* What the validators look at does not change.
LEMMA FtsoSame ==
  ASSUME UNCHANGED ftso
  PROVE  /\ Ftso!Votes' = Ftso!Votes /\ Ftso!Unrecoverable' = Ftso!Unrecoverable
         /\ Ftso!Submit1Issues' = Ftso!Submit1Issues
         /\ Ftso!SignatureIssues' = Ftso!SignatureIssues
         /\ UNCHANGED medians => Ftso!Submit2Issues' = Ftso!Submit2Issues
<1>1. /\ Ftso!Submit1' = Ftso!Submit1 /\ Ftso!Submit2' = Ftso!Submit2
      /\ Ftso!Signature' = Ftso!Signature /\ Ftso!Deadline' = Ftso!Deadline
  BY DEF Ftso!Submit1, Ftso!Submit2, Ftso!Signature, Ftso!Deadline
<1>2. Ftso!Votes' = Ftso!Votes /\ Ftso!Unrecoverable' = Ftso!Unrecoverable
  BY <1>1 DEF Ftso!Votes, Ftso!Revealed, Ftso!Unrecoverable
<1>3. Ftso!Submit1Issues' = Ftso!Submit1Issues
  BY <1>1 DEF Ftso!Submit1Issues
<1>4. Ftso!SignatureIssues' = Ftso!SignatureIssues
  BY <1>1 DEF Ftso!SignatureIssues
<1>5. UNCHANGED medians => Ftso!Submit2Issues' = Ftso!Submit2Issues
  BY <1>1 DEF Ftso!Submit2Issues, Ftso!MissingReveal, Ftso!OutsideSubmit2
<1> QED
  BY <1>2, <1>3, <1>4, <1>5

LEMMA FdcSame ==
  ASSUME UNCHANGED fdc
  PROVE  /\ Fdc!NoConsensus' = Fdc!NoConsensus /\ Fdc!Consensus' = Fdc!Consensus
         /\ Fdc!Readable' = Fdc!Readable /\ Fdc!Unrecoverable' = Fdc!Unrecoverable
         /\ Fdc!Submit1Issues' = Fdc!Submit1Issues
         /\ Fdc!Submit2Issues' = Fdc!Submit2Issues
         /\ Fdc!SignatureIssues' = Fdc!SignatureIssues
<1>1. /\ Fdc!Submit1' = Fdc!Submit1 /\ Fdc!Submit2' = Fdc!Submit2
      /\ Fdc!Signature' = Fdc!Signature /\ Fdc!Deadline' = Fdc!Deadline
      /\ Fdc!NoConsensus' = Fdc!NoConsensus /\ Fdc!Leading' = Fdc!Leading
  BY DEF Fdc!Submit1, Fdc!Submit2, Fdc!Signature, Fdc!Deadline, Fdc!NoConsensus, Fdc!Leading
<1>5. /\ Fdc!Consensus' = Fdc!Consensus /\ Fdc!Readable' = Fdc!Readable
      /\ Fdc!Unrecoverable' = Fdc!Unrecoverable
  BY <1>1 DEF Fdc!Consensus, Fdc!Readable, Fdc!Unrecoverable
<1>2. Fdc!Submit1Issues' = Fdc!Submit1Issues
  BY <1>1 DEF Fdc!Submit1Issues
<1>3. Fdc!Submit2Issues' = Fdc!Submit2Issues
  BY <1>1, <1>5 DEF Fdc!Submit2Issues, Fdc!OutsideSubmit2, Fdc!BitVoteIssues
<1>4. Fdc!SignatureIssues' = Fdc!SignatureIssues
  BY <1>1, <1>5 DEF Fdc!SignatureIssues, Fdc!RevealOffence
<1> QED
  BY <1>1, <1>2, <1>3, <1>4, <1>5

LEMMA ExtractedFrom ==
  ASSUME NEW txs, NEW from, NEW to, NEW x \in Extracted(txs, from, to)
  PROVE  \E i \in DOMAIN txs : x = txs[i]
  BY DEF Extracted

-----------------------------------------------------------------------------
(***************************************************************************)
(* The validators of both protocols read the round by the same windows.    *)
(***************************************************************************)
LEMMA FtsoReads ==
  /\ Ftso!Submit1 = Commit(ftso.submit1) /\ Ftso!Submit2 = Reveal(ftso.submit2)
  /\ Ftso!Signature = Signing(ftso.signatures)
  /\ \A txs : /\ Ftso!CommitPhase(txs) = CommitPhase(txs)
              /\ Ftso!RevealPhase(txs) = RevealPhase(txs)
              /\ Ftso!SigningPhase(txs) = SigningPhase(txs)
  /\ \A x, f : Ftso!InTime(x, f) <=> InTime(x, f)
  /\ \A txs, t : (Ftso!Early(txs, t) <=> Early(txs, t)) /\ (Ftso!Late(txs, t) <=> Late(txs, t))
  /\ Ftso!EndS(Round) = EndS(Round) /\ Ftso!StartS(Ftso!NextRound) = StartS(NextRound)
  /\ Ftso!RevealDeadline(Ftso!NextRound) = RevealDeadline(NextRound)
  /\ Ftso!Deadline = Later(StartS(NextRound) + Grace, ftso.finalization)
<1>1. /\ \A e : Ftso!StartS(e) = StartS(e) /\ Ftso!EndS(e) = EndS(e)
      /\ \A e : Ftso!RevealDeadline(e) = RevealDeadline(e)
      /\ Ftso!NextRound = NextRound
  BY DEF Ftso!StartS, StartS, Ftso!EndS, EndS, Ftso!RevealDeadline, RevealDeadline,
         Ftso!NextRound, NextRound
<1>2. /\ \A txs, from, to : Ftso!Extracted(txs, from, to) = Extracted(txs, from, to)
      /\ \A txs, from, to : Ftso!Counting(txs, from, to) = Counting(txs, from, to)
  BY DEF Ftso!Extracted, Extracted, Ftso!Inside, Inside, Ftso!Counting, Counting, Ftso!Timely, Timely
<1>3. /\ Ftso!Submit1 = Commit(ftso.submit1) /\ Ftso!Submit2 = Reveal(ftso.submit2)
      /\ Ftso!Signature = Signing(ftso.signatures)
  BY <1>1, <1>2 DEF Ftso!Submit1, Ftso!Submit2, Ftso!Signature, Ftso!Commit, Ftso!Reveal,
                    Ftso!Signing, Commit, Reveal, Signing
<1>4. \A txs : /\ Ftso!CommitPhase(txs) = CommitPhase(txs)
               /\ Ftso!RevealPhase(txs) = RevealPhase(txs)
               /\ Ftso!SigningPhase(txs) = SigningPhase(txs)
  BY <1>1, <1>2 DEF Ftso!CommitPhase, Ftso!RevealPhase, Ftso!SigningPhase,
                    CommitPhase, RevealPhase, SigningPhase
<1>5. \A x, f : Ftso!InTime(x, f) <=> InTime(x, f)
  BY <1>1 DEF Ftso!InTime, InTime
<1>6. \A txs, t : (Ftso!Early(txs, t) <=> Early(txs, t)) /\ (Ftso!Late(txs, t) <=> Late(txs, t))
  BY DEF Ftso!Early, Early, Ftso!Late, Late
<1>7. Ftso!Deadline = Later(StartS(NextRound) + Grace, ftso.finalization)
  BY <1>1 DEF Ftso!Deadline, Ftso!Max, Later
<1> QED
  BY <1>1, <1>3, <1>4, <1>5, <1>6, <1>7

LEMMA FdcReads ==
  /\ Fdc!Submit1 = Commit(fdc.submit1) /\ Fdc!Submit2 = Reveal(fdc.submit2)
  /\ Fdc!Signature = Signing(fdc.signatures)
  /\ \A txs : /\ Fdc!CommitPhase(txs) = CommitPhase(txs)
              /\ Fdc!RevealPhase(txs) = RevealPhase(txs)
              /\ Fdc!SigningPhase(txs) = SigningPhase(txs)
  /\ \A x, f : Fdc!InTime(x, f) <=> InTime(x, f)
  /\ \A txs, t : (Fdc!Early(txs, t) <=> Early(txs, t)) /\ (Fdc!Late(txs, t) <=> Late(txs, t))
  /\ Fdc!EndS(Round) = EndS(Round) /\ Fdc!StartS(Fdc!NextRound) = StartS(NextRound)
  /\ Fdc!RevealDeadline(Fdc!NextRound) = RevealDeadline(NextRound)
  /\ Fdc!Deadline = Later(StartS(NextRound) + Grace, fdc.finalization)
<1>1. /\ \A e : Fdc!StartS(e) = StartS(e) /\ Fdc!EndS(e) = EndS(e)
      /\ \A e : Fdc!RevealDeadline(e) = RevealDeadline(e)
      /\ Fdc!NextRound = NextRound
  BY DEF Fdc!StartS, StartS, Fdc!EndS, EndS, Fdc!RevealDeadline, RevealDeadline,
         Fdc!NextRound, NextRound
<1>2. /\ \A txs, from, to : Fdc!Extracted(txs, from, to) = Extracted(txs, from, to)
      /\ \A txs, from, to : Fdc!Counting(txs, from, to) = Counting(txs, from, to)
  BY DEF Fdc!Extracted, Extracted, Fdc!Inside, Inside, Fdc!Counting, Counting, Fdc!Timely, Timely
<1>3. /\ Fdc!Submit1 = Commit(fdc.submit1) /\ Fdc!Submit2 = Reveal(fdc.submit2)
      /\ Fdc!Signature = Signing(fdc.signatures)
  BY <1>1, <1>2 DEF Fdc!Submit1, Fdc!Submit2, Fdc!Signature, Fdc!Commit, Fdc!Reveal,
                    Fdc!Signing, Commit, Reveal, Signing
<1>4. \A txs : /\ Fdc!CommitPhase(txs) = CommitPhase(txs)
               /\ Fdc!RevealPhase(txs) = RevealPhase(txs)
               /\ Fdc!SigningPhase(txs) = SigningPhase(txs)
  BY <1>1, <1>2 DEF Fdc!CommitPhase, Fdc!RevealPhase, Fdc!SigningPhase,
                    CommitPhase, RevealPhase, SigningPhase
<1>5. \A x, f : Fdc!InTime(x, f) <=> InTime(x, f)
  BY <1>1 DEF Fdc!InTime, InTime
<1>6. \A txs, t : (Fdc!Early(txs, t) <=> Early(txs, t)) /\ (Fdc!Late(txs, t) <=> Late(txs, t))
  BY DEF Fdc!Early, Early, Fdc!Late, Late
<1>7. Fdc!Deadline = Later(StartS(NextRound) + Grace, fdc.finalization)
  BY <1>1 DEF Fdc!Deadline, Fdc!Max, Later
<1> QED
  BY <1>1, <1>3, <1>4, <1>5, <1>6, <1>7

\* The votes that the medians are computed of are sequences of Booleans.
LEMMA VotesTyped ==
  ASSUME ftso \in Ftso!Records
  PROVE  /\ Ftso!Votes \in Seq(Seq(BOOLEAN))
         /\ ftso.others \in Seq(Seq(BOOLEAN))
         /\ \A v \in Ftso!Revealed : v \in Seq(BOOLEAN)
         /\ \A i \in DOMAIN Ftso!Votes : Len(Ftso!Votes[i]) \in Nat
         /\ \/ Ftso!Revealed = {} /\ Ftso!Votes = ftso.others
            \/ \E v \in Ftso!Revealed : \/ Ftso!Votes = <<v>> \o ftso.others
                                        \/ Ftso!Votes = ftso.others \o <<v>>
<1> DEFINE own == {<<v>> : v \in Ftso!Revealed}
           mine == IF own = {} THEN <<>> ELSE CHOOSE s \in own : TRUE
<1>1. ftso.others \in Seq(Seq(BOOLEAN)) /\ ftso.submit2 \in Seq([ts : Nat, hash : STRING, vote : Seq(BOOLEAN)])
  BY PayloadAssumption DEF Ftso!Records
<1>2. Ftso!Votes = IF ftso.first THEN mine \o ftso.others ELSE ftso.others \o mine
  BY DEF Ftso!Votes
<1>3. \A r \in Ftso!Submit2 : r.vote \in Seq(BOOLEAN)
  <2>1. ASSUME NEW r \in Ftso!Submit2 PROVE \E i \in DOMAIN ftso.submit2 : r = ftso.submit2[i]
    BY FtsoReads, ExtractedFrom DEF Reveal
  <2> DEFINE R == [ts : Nat, hash : STRING, vote : Seq(BOOLEAN)]
  <2>2. \A r \in R : r.vote \in Seq(BOOLEAN)
    <3> DEFINE B == Seq(BOOLEAN)
    <3> HIDE DEF B
    <3>1. \A r \in [ts : Nat, hash : STRING, vote : B] : r.vote \in B
      OBVIOUS
    <3> QED
      BY <3>1 DEF B
  <2> HIDE DEF R
  <2>3. ftso.submit2 \in Seq(R)
    BY <1>1 DEF R
  <2>4. \A i \in DOMAIN ftso.submit2 : ftso.submit2[i] \in R
    BY <2>3
  <2> QED
    BY <2>1, <2>2, <2>4
<1>4. \A v \in Ftso!Revealed : v \in Seq(BOOLEAN)
  BY <1>3 DEF Ftso!Revealed
<1>5. (Ftso!Revealed = {} /\ mine = <<>>) \/ \E v \in Ftso!Revealed : mine = <<v>>
  OBVIOUS
<1> HIDE DEF mine
<1>6. \/ Ftso!Revealed = {} /\ Ftso!Votes = ftso.others
      \/ \E v \in Ftso!Revealed : \/ Ftso!Votes = <<v>> \o ftso.others
                                  \/ Ftso!Votes = ftso.others \o <<v>>
  <2>1. CASE Ftso!Revealed = {} /\ mine = <<>>
    <3>1. <<>> \o ftso.others = ftso.others /\ ftso.others \o <<>> = ftso.others
      BY <1>1
    <3> QED
      BY <1>2, <2>1, <3>1
  <2>2. CASE \E v \in Ftso!Revealed : mine = <<v>>
    BY <1>2, <2>2
  <2> QED
    BY <1>5, <2>1, <2>2
<1>7. \A v \in Ftso!Revealed : <<v>> \o ftso.others \in Seq(Seq(BOOLEAN))
                              /\ ftso.others \o <<v>> \in Seq(Seq(BOOLEAN))
  BY <1>1, <1>4
<1>8. Ftso!Votes \in Seq(Seq(BOOLEAN))
  BY <1>1, <1>6, <1>7
<1>9. \A i \in DOMAIN Ftso!Votes : Len(Ftso!Votes[i]) \in Nat
  BY <1>8
<1> QED
  BY <1>1, <1>4, <1>6, <1>8, <1>9

LEMMA InitHolds == Init => IInv
<1> SUFFICES ASSUME Init PROVE IInv
  OBVIOUS
<1> USE DEF Init, Ftso!Init, Fdc!Init
<1>1. TypeOK
  BY DEF TypeOK, Ftso!TypeOK, Fdc!TypeOK, Ftso!Steps, Fdc!Steps
<1>2. FtsoFound /\ MediansOfVotes
  BY DEF FtsoFound, MediansOfVotes, Ftso!When, FtsoBegun
<1>3. FdcFound /\ RequestsAgree /\ Participates
  BY DEF FdcFound, RequestsAgree, Participates, Fdc!When
<1>4. OneAfterOther
  BY DEF OneAfterOther
<1> QED
  BY <1>1, <1>2, <1>3, <1>4 DEF IInv

\* A step of the FTSO part keeps what has been said of it.
LEMMA FtsoStep ==
  ASSUME Ftso!TypeOK, FtsoFound, MediansOfVotes, Ftso!Next
  PROVE  /\ Ftso!TypeOK' /\ FtsoFound' /\ MediansOfVotes'
         /\ ~FtsoDone
<1> USE DEF FtsoDone
<1>1. CASE Ftso!CalculateMedians
  <2>1. PICK n \in Ftso!Feeds(Ftso!Votes) : Ftso!Voted(Ftso!Votes, n) /\ medians' = n
    BY <1>1 DEF Ftso!CalculateMedians
  <2>2. /\ ftsoStep = "medians" /\ ftsoStep' = "submit1"
        /\ UNCHANGED <<ftso, ftsoIssues>>
    BY <1>1 DEF Ftso!CalculateMedians
  <2>3. Ftso!Votes' = Ftso!Votes
    BY <2>2, FtsoSame
  <2>4. n \in Nat
    <3>1. ftso \in Ftso!Records
      BY DEF Ftso!TypeOK
    <3> QED
      BY <2>1, <3>1, VotesTyped DEF Ftso!Feeds
  <2>5. Ftso!TypeOK'
    BY <2>1, <2>2, <2>4 DEF Ftso!TypeOK, Ftso!Steps
  <2>6. FtsoFound'
    BY <2>2 DEF FtsoFound, FtsoBegun, Ftso!When
  <2>7. MediansOfVotes'
    BY <2>1, <2>2, <2>3 DEF MediansOfVotes, Ftso!Feeds, Ftso!Voted
  <2> QED
    BY <2>2, <2>5, <2>6, <2>7
<1>2. CASE Ftso!CalculateMediansFails
  <2>1. \A n \in Ftso!Feeds(Ftso!Votes) : ~Ftso!Voted(Ftso!Votes, n)
    BY <1>2 DEF Ftso!CalculateMediansFails
  <2>2. /\ ftsoStep = "medians" /\ ftsoStep' = "crashed"
        /\ UNCHANGED <<ftso, medians, ftsoIssues>>
    BY <1>2 DEF Ftso!CalculateMediansFails
  <2>3. Ftso!Votes' = Ftso!Votes
    BY <2>2, FtsoSame
  <2>4. Ftso!TypeOK'
    BY <2>2 DEF Ftso!TypeOK, Ftso!Steps
  <2>5. FtsoFound'
    BY <2>2 DEF FtsoFound, FtsoBegun, Ftso!When
  <2>6. MediansOfVotes'
    BY <2>1, <2>2, <2>3 DEF MediansOfVotes, FtsoBegun
  <2> QED
    BY <2>2, <2>4, <2>5, <2>6
<1>3. ASSUME UNCHANGED <<ftso, medians>>, ftsoStep \in FtsoBegun, ftsoStep' \in FtsoBegun,
             ftsoStep' = "done" => ~Ftso!Unrecoverable
      PROVE  MediansOfVotes'
  <2>1. Ftso!Votes' = Ftso!Votes /\ Ftso!Unrecoverable' = Ftso!Unrecoverable
    BY <1>3, FtsoSame
  <2> QED
    BY <1>3, <2>1 DEF MediansOfVotes, FtsoBegun
<1>4. CASE Ftso!CheckSubmit1
  <2>1. /\ ftsoStep = "submit1" /\ ftsoStep' = "submit2"
        /\ ftsoIssues' = ftsoIssues \cup Ftso!Submit1Issues
        /\ UNCHANGED <<ftso, medians>>
    BY <1>4 DEF Ftso!CheckSubmit1
  <2>2. Ftso!Submit1Issues' = Ftso!Submit1Issues
    BY <2>1, FtsoSame
  <2>3. Ftso!TypeOK'
    BY <2>1, IssuesTyped DEF Ftso!TypeOK, Ftso!Steps
  <2>4. FtsoFound'
    BY <2>1, <2>2 DEF FtsoFound, FtsoBegun, Ftso!When
  <2> QED
    BY <1>3, <2>1, <2>3, <2>4 DEF FtsoBegun
<1>5. CASE Ftso!CheckSubmit2
  <2>1. /\ ftsoStep = "submit2" /\ ftsoStep' = "signatures"
        /\ ftsoIssues' = ftsoIssues \cup Ftso!Submit2Issues
        /\ UNCHANGED <<ftso, medians>>
    BY <1>5 DEF Ftso!CheckSubmit2
  <2>2. Ftso!Submit1Issues' = Ftso!Submit1Issues /\ Ftso!Submit2Issues' = Ftso!Submit2Issues
    BY <2>1, FtsoSame
  <2>3. Ftso!TypeOK'
    BY <2>1, IssuesTyped DEF Ftso!TypeOK, Ftso!Steps
  <2>4. FtsoFound'
    BY <2>1, <2>2 DEF FtsoFound, FtsoBegun, Ftso!When
  <2> QED
    BY <1>3, <2>1, <2>3, <2>4 DEF FtsoBegun
<1>6. CASE Ftso!CheckSubmitSignatures
  <2>1. /\ ftsoStep = "signatures" /\ ftsoStep' = "done"
        /\ ftsoIssues' = ftsoIssues \cup Ftso!SignatureIssues
        /\ UNCHANGED <<ftso, medians>> /\ ~Ftso!Unrecoverable
    BY <1>6 DEF Ftso!CheckSubmitSignatures
  <2>2. /\ Ftso!Submit1Issues' = Ftso!Submit1Issues /\ Ftso!Submit2Issues' = Ftso!Submit2Issues
        /\ Ftso!SignatureIssues' = Ftso!SignatureIssues
    BY <2>1, FtsoSame
  <2>3. Ftso!TypeOK'
    BY <2>1, IssuesTyped DEF Ftso!TypeOK, Ftso!Steps
  <2>4. FtsoFound'
    BY <2>1, <2>2 DEF FtsoFound, FtsoBegun, Ftso!When
  <2> QED
    BY <1>3, <2>1, <2>3, <2>4 DEF FtsoBegun
<1>7. CASE Ftso!CheckSubmitSignaturesFails
  <2>1. /\ ftsoStep = "signatures" /\ ftsoStep' = "crashed"
        /\ UNCHANGED <<ftso, medians, ftsoIssues>> /\ Ftso!Unrecoverable
    BY <1>7 DEF Ftso!CheckSubmitSignaturesFails
  <2>2. Ftso!Unrecoverable'
    BY <2>1, FtsoSame
  <2>3. Ftso!TypeOK'
    BY <2>1 DEF Ftso!TypeOK, Ftso!Steps
  <2>4. FtsoFound'
    BY <2>1 DEF FtsoFound
  <2>5. MediansOfVotes'
    BY <2>1, <2>2 DEF MediansOfVotes, FtsoBegun
  <2> QED
    BY <2>1, <2>3, <2>4, <2>5
<1> QED
  BY <1>1, <1>2, <1>4, <1>5, <1>6, <1>7 DEF Ftso!Next

LEMMA FtsoKept ==
  ASSUME Ftso!TypeOK, FtsoFound, MediansOfVotes, UNCHANGED ftsoVars
  PROVE  Ftso!TypeOK' /\ FtsoFound' /\ MediansOfVotes'
<1>1. UNCHANGED <<ftso, medians, ftsoStep, ftsoIssues>>
  BY DEF ftsoVars
<1>2. /\ Ftso!Votes' = Ftso!Votes /\ Ftso!Unrecoverable' = Ftso!Unrecoverable
      /\ Ftso!Submit1Issues' = Ftso!Submit1Issues
      /\ Ftso!Submit2Issues' = Ftso!Submit2Issues /\ Ftso!SignatureIssues' = Ftso!SignatureIssues
  BY <1>1, FtsoSame
<1>3. Ftso!TypeOK'
  BY <1>1 DEF Ftso!TypeOK
<1>4. FtsoFound'
  BY <1>1, <1>2 DEF FtsoFound, Ftso!When
<1>5. MediansOfVotes'
  BY <1>1, <1>2 DEF MediansOfVotes
<1> QED
  BY <1>3, <1>4, <1>5

\* A step of the FDC part keeps what has been said of it.
LEMMA FdcStep ==
  ASSUME Fdc!TypeOK, FdcFound, RequestsAgree, Participates, Fdc!Next
  PROVE  /\ Fdc!TypeOK' /\ FdcFound' /\ RequestsAgree' /\ Participates'
         /\ fdcStep # "done" /\ fdcStep' # "submit1"
<1>1. UNCHANGED fdc
  BY DEF Fdc!Next, Fdc!CheckSubmit1, Fdc!CheckSubmit2, Fdc!CheckSubmit2Fails,
         Fdc!CheckSubmitSignatures, Fdc!CheckSubmitSignaturesFails
<1>2. /\ Fdc!NoConsensus' = Fdc!NoConsensus /\ Fdc!Consensus' = Fdc!Consensus
      /\ Fdc!Readable' = Fdc!Readable /\ Fdc!Unrecoverable' = Fdc!Unrecoverable
      /\ Fdc!Submit1Issues' = Fdc!Submit1Issues /\ Fdc!Submit2Issues' = Fdc!Submit2Issues
      /\ Fdc!SignatureIssues' = Fdc!SignatureIssues
  BY <1>1, FdcSame
<1>3. CASE Fdc!CheckSubmit1
  <2>1. /\ fdcStep = "submit1" /\ fdcStep' = "submit2"
        /\ fdcIssues' = fdcIssues \cup Fdc!Submit1Issues /\ UNCHANGED <<fdc, submitted>>
    BY <1>3 DEF Fdc!CheckSubmit1
  <2>2. Fdc!TypeOK'
    BY <2>1, IssuesTyped DEF Fdc!TypeOK, Fdc!Steps
  <2>3. FdcFound'
    BY <1>2, <2>1 DEF FdcFound, Fdc!When
  <2>4. RequestsAgree' /\ Participates'
    BY <1>2, <2>1 DEF RequestsAgree, Participates
  <2> QED
    BY <2>1, <2>2, <2>3, <2>4
<1>4. CASE Fdc!CheckSubmit2
  <2>1. /\ fdcStep = "submit2" /\ fdcStep' = "signatures"
        /\ fdcIssues' = fdcIssues \cup Fdc!Submit2Issues /\ UNCHANGED <<fdc, submitted>>
        /\ Fdc!NoConsensus \/ (Fdc!Readable /\ \A c \in Fdc!Consensus : Len(c) = fdc.requests)
    BY <1>4 DEF Fdc!CheckSubmit2
  <2>2. Fdc!TypeOK'
    BY <2>1, IssuesTyped DEF Fdc!TypeOK, Fdc!Steps
  <2>3. FdcFound'
    BY <1>2, <2>1 DEF FdcFound, Fdc!When
  <2>4. RequestsAgree' /\ Participates'
    BY <1>2, <2>1 DEF RequestsAgree, Participates
  <2> QED
    BY <2>1, <2>2, <2>3, <2>4
<1>5. CASE Fdc!CheckSubmit2Fails
  <2>1. /\ fdcStep = "submit2" /\ fdcStep' = "crashed" /\ UNCHANGED <<fdc, fdcIssues, submitted>>
        /\ ~Fdc!NoConsensus
        /\ ~Fdc!Readable \/ \E c \in Fdc!Consensus : Len(c) # fdc.requests
    BY <1>5 DEF Fdc!CheckSubmit2Fails
  <2>2. Fdc!TypeOK'
    BY <2>1 DEF Fdc!TypeOK, Fdc!Steps
  <2>3. FdcFound'
    BY <1>2, <2>1 DEF FdcFound, Fdc!When
  <2>4. RequestsAgree' /\ Participates'
    BY <1>2, <2>1 DEF RequestsAgree, Participates
  <2> QED
    BY <2>1, <2>2, <2>3, <2>4
<1>6. CASE Fdc!CheckSubmitSignatures
  <2>1. /\ fdcStep = "signatures" /\ fdcStep' = "done" /\ UNCHANGED fdc
        /\ Fdc!NoConsensus => UNCHANGED <<fdcIssues, submitted>>
        /\ ~Fdc!NoConsensus => /\ fdcIssues' = fdcIssues \cup Fdc!SignatureIssues
                               /\ submitted' = (Fdc!SignatureIssues = {} \/ submitted)
        /\ Fdc!NoConsensus \/ ~Fdc!Unrecoverable
    BY <1>6 DEF Fdc!CheckSubmitSignatures
  <2>2. submitted = FALSE
    BY <2>1 DEF Participates, Fdc!TypeOK
  <2>3. Fdc!TypeOK'
    BY <2>1, IssuesTyped DEF Fdc!TypeOK, Fdc!Steps
  <2>4. FdcFound'
    BY <1>2, <2>1 DEF FdcFound, Fdc!When
  <2>5. RequestsAgree'
    BY <1>2, <2>1 DEF RequestsAgree
  <2>6. Participates'
    <3>1. CASE Fdc!NoConsensus
      BY <1>2, <2>1, <2>2, <3>1 DEF Participates
    <3>2. CASE ~Fdc!NoConsensus
      <4>1. submitted' <=> Fdc!SignatureIssues = {}
        BY <2>1, <2>2, <3>2
      <4> QED
        BY <1>2, <2>1, <3>2, <4>1 DEF Participates
    <3> QED
      BY <3>1, <3>2
  <2> QED
    BY <2>1, <2>3, <2>4, <2>5, <2>6
<1>7. CASE Fdc!CheckSubmitSignaturesFails
  <2>1. /\ fdcStep = "signatures" /\ fdcStep' = "crashed" /\ UNCHANGED <<fdc, fdcIssues, submitted>>
        /\ ~Fdc!NoConsensus /\ (Fdc!Unreadable \/ Fdc!Unrecoverable)
    BY <1>7 DEF Fdc!CheckSubmitSignaturesFails
  <2>2. ~Fdc!Readable \/ Fdc!Unrecoverable
    BY <2>1 DEF Fdc!Unreadable
  <2>3. Fdc!TypeOK'
    BY <2>1 DEF Fdc!TypeOK, Fdc!Steps
  <2>4. FdcFound'
    BY <2>1 DEF FdcFound
  <2>5. RequestsAgree' /\ Participates'
    BY <1>2, <2>1, <2>2 DEF RequestsAgree, Participates
  <2> QED
    BY <2>1, <2>3, <2>4, <2>5
<1> QED
  BY <1>3, <1>4, <1>5, <1>6, <1>7 DEF Fdc!Next

LEMMA FdcKept ==
  ASSUME Fdc!TypeOK, FdcFound, RequestsAgree, Participates, UNCHANGED fdcVars
  PROVE  Fdc!TypeOK' /\ FdcFound' /\ RequestsAgree' /\ Participates'
<1>1. UNCHANGED <<fdc, fdcStep, fdcIssues, submitted>>
  BY DEF fdcVars
<1>2. /\ Fdc!NoConsensus' = Fdc!NoConsensus /\ Fdc!Consensus' = Fdc!Consensus
      /\ Fdc!Readable' = Fdc!Readable /\ Fdc!Unrecoverable' = Fdc!Unrecoverable
      /\ Fdc!Submit1Issues' = Fdc!Submit1Issues /\ Fdc!Submit2Issues' = Fdc!Submit2Issues
      /\ Fdc!SignatureIssues' = Fdc!SignatureIssues
  BY <1>1, FdcSame
<1>3. Fdc!TypeOK'
  BY <1>1 DEF Fdc!TypeOK
<1>4. FdcFound'
  BY <1>1, <1>2 DEF FdcFound, Fdc!When
<1>5. RequestsAgree' /\ Participates'
  BY <1>1, <1>2 DEF RequestsAgree, Participates
<1> QED
  BY <1>3, <1>4, <1>5

LEMMA NextKeeps == IInv /\ [Next]_vars => IInv'
<1> SUFFICES ASSUME IInv, [Next]_vars PROVE IInv'
  OBVIOUS
<1> USE DEF IInv
<1> DEFINE Both == [level : Ftso!Levels, about : Ftso!Findings \cup Fdc!Findings]
<1>0. /\ Ftso!TypeOK /\ Fdc!TypeOK
      /\ \A found \in returned : found \subseteq Both
  BY DEF TypeOK
<1>1. CASE ValidateFtso
  <2>1. Ftso!Next /\ UNCHANGED fdcVars /\ UNCHANGED <<fdcStep, fdcIssues, returned>>
    BY <1>1 DEF ValidateFtso, fdcVars
  <2>2. Ftso!TypeOK' /\ FtsoFound' /\ MediansOfVotes' /\ ~FtsoDone
    BY <1>0, <2>1, FtsoStep
  <2>3. Fdc!TypeOK' /\ FdcFound' /\ RequestsAgree' /\ Participates'
    BY <1>0, <2>1, FdcKept
  <2>4. TypeOK'
    BY <1>0, <2>1, <2>2, <2>3 DEF TypeOK
  <2>5. OneAfterOther'
    BY <2>1, <2>2 DEF OneAfterOther
  <2> QED
    BY <2>2, <2>3, <2>4, <2>5
<1>2. CASE ValidateFdc
  <2>1. Fdc!Next /\ FtsoDone /\ UNCHANGED ftsoVars /\ UNCHANGED <<ftsoStep, ftsoIssues, returned>>
    BY <1>2 DEF ValidateFdc, ftsoVars
  <2>2. Fdc!TypeOK' /\ FdcFound' /\ RequestsAgree' /\ Participates' /\ fdcStep # "done"
    BY <1>0, <2>1, FdcStep
  <2>3. Ftso!TypeOK' /\ FtsoFound' /\ MediansOfVotes'
    BY <1>0, <2>1, FtsoKept
  <2>4. TypeOK'
    BY <1>0, <2>1, <2>2, <2>3 DEF TypeOK
  <2>5. OneAfterOther'
    BY <2>1, <2>2 DEF OneAfterOther, FtsoDone
  <2> QED
    BY <2>2, <2>3, <2>4, <2>5
<1>3. CASE Return
  <2>1. /\ fdcStep = "done" /\ returned' = {AllIssues}
        /\ UNCHANGED ftsoVars /\ UNCHANGED fdcVars
        /\ UNCHANGED <<ftsoStep, ftsoIssues, fdcStep, fdcIssues>>
    BY <1>3 DEF Return, ftsoVars, fdcVars
  <2>2. Ftso!TypeOK' /\ FtsoFound' /\ MediansOfVotes'
    BY <1>0, <2>1, FtsoKept
  <2>3. Fdc!TypeOK' /\ FdcFound' /\ RequestsAgree' /\ Participates'
    BY <1>0, <2>1, FdcKept
  <2>4. AllIssues \subseteq Both
    <3>1. Fdc!Levels = Ftso!Levels
      BY DEF Fdc!Levels, Ftso!Levels
    <3> QED
      BY <1>0, <3>1 DEF AllIssues, Ftso!TypeOK, Fdc!TypeOK
  <2>5. TypeOK'
    BY <2>1, <2>2, <2>3, <2>4 DEF TypeOK
  <2>6. OneAfterOther'
    BY <2>1 DEF OneAfterOther, FtsoDone, AllIssues
  <2> QED
    BY <2>2, <2>3, <2>5, <2>6
<1>4. CASE UNCHANGED vars
  <2>1. UNCHANGED ftsoVars /\ UNCHANGED fdcVars
        /\ UNCHANGED <<ftsoStep, ftsoIssues, fdcStep, fdcIssues, returned>>
    BY <1>4 DEF vars, ftsoVars, fdcVars
  <2>2. Ftso!TypeOK' /\ FtsoFound' /\ MediansOfVotes'
    BY <1>0, <2>1, FtsoKept
  <2>3. Fdc!TypeOK' /\ FdcFound' /\ RequestsAgree' /\ Participates'
    BY <1>0, <2>1, FdcKept
  <2>4. TypeOK'
    BY <1>0, <2>1, <2>2, <2>3 DEF TypeOK
  <2>5. OneAfterOther'
    BY <2>1 DEF OneAfterOther, FtsoDone, AllIssues
  <2> QED
    BY <2>2, <2>3, <2>4, <2>5
<1> QED
  BY <1>1, <1>2, <1>3, <1>4 DEF Next

\* What has been reported at each step of the validation is what the validators up to
\* it make of the record.
THEOREM Inductive == Spec => []IInv
  BY InitHolds, NextKeeps, PTL DEF Spec

\* A round, its issues and what is returned have their types.
THEOREM TypeCorrect == Spec => []TypeOK
<1>1. IInv => TypeOK
  BY DEF IInv
<1> QED
  BY Inductive, <1>1, PTL

-----------------------------------------------------------------------------
(***************************************************************************)
(* What is reported, and when it is critical.                              *)
(***************************************************************************)
Critical(found) == {x \in found : x.level = "CRITICAL"}

LEMMA FtsoSilent ==
  /\ Ftso!Submit1Issues = {} <=>
       /\ Ftso!Submit1 # {} /\ ~Late(ftso.submit1, EndS(Round))
       /\ \A c \in Ftso!Submit1 : c.hash \in Hashes
  /\ Ftso!Submit2Issues = {} <=>
       /\ Ftso!Submit2 # {}
       /\ \A c \in Ftso!Submit1, r \in Ftso!Submit2 : c.hash = r.hash
       /\ \A r \in Ftso!Submit2 : Len(r.vote) = medians /\ \A f \in DOMAIN r.vote : r.vote[f]
       /\ ~Ftso!OutsideSubmit2
  /\ Ftso!SignatureIssues = {} <=>
       /\ Ftso!Signature # {}
       /\ \A x \in Ftso!Signature : ~(x.ts > Ftso!Deadline)
       /\ ~Early(ftso.signatures, RevealDeadline(NextRound))
       /\ ftso.finalization # {} => \A x \in Ftso!Signature : x.sig # "other"
<1>1. \A level, about : Ftso!Issue(level, about) # {}
  BY DEF Ftso!Issue
<1>2. Ftso!Submit1Issues = {} <=>
        /\ Ftso!Submit1 # {} /\ ~Late(ftso.submit1, EndS(Round))
        /\ \A c \in Ftso!Submit1 : c.hash \in Hashes
  BY <1>1, FtsoReads DEF Ftso!Submit1Issues, Ftso!When
<1>3. Ftso!Submit2Issues = {} <=>
        /\ Ftso!Submit2 # {}
        /\ \A c \in Ftso!Submit1, r \in Ftso!Submit2 : c.hash = r.hash
        /\ \A r \in Ftso!Submit2 : Len(r.vote) = medians /\ \A f \in DOMAIN r.vote : r.vote[f]
        /\ ~Ftso!OutsideSubmit2
  BY <1>1 DEF Ftso!Submit2Issues, Ftso!MissingReveal, Ftso!When
<1>4. Ftso!SignatureIssues = {} <=>
        /\ Ftso!Signature # {}
        /\ \A x \in Ftso!Signature : ~(x.ts > Ftso!Deadline)
        /\ ~Early(ftso.signatures, RevealDeadline(NextRound))
        /\ ftso.finalization # {} => \A x \in Ftso!Signature : x.sig # "other"
  BY <1>1, FtsoReads DEF Ftso!SignatureIssues, Ftso!When
<1> QED
  BY <1>2, <1>3, <1>4

LEMMA FtsoCritical ==
  /\ Critical(Ftso!Submit1Issues) = {} /\ Critical(Ftso!SignatureIssues) = {}
  /\ Critical(Ftso!Submit2Issues) # {} <=>
       \/ Ftso!Submit1 # {} /\ Ftso!Submit2 = {}
       \/ \E c \in Ftso!Submit1, r \in Ftso!Submit2 : c.hash # r.hash
<1>1. \A level, about : \A x \in Ftso!Issue(level, about) : x.level = level
  BY DEF Ftso!Issue
<1>2. ASSUME NEW x \in Ftso!Submit1Issues PROVE x.level # "CRITICAL"
  BY <1>1 DEF Ftso!Submit1Issues, Ftso!When
<1>3. ASSUME NEW x \in Ftso!SignatureIssues PROVE x.level # "CRITICAL"
  BY <1>1 DEF Ftso!SignatureIssues, Ftso!When
<1> DEFINE offence == \/ Ftso!Submit1 # {} /\ Ftso!Submit2 = {}
                      \/ \E c \in Ftso!Submit1, r \in Ftso!Submit2 : c.hash # r.hash
<1>4. ASSUME NEW x \in Ftso!Submit2Issues, x.level = "CRITICAL" PROVE offence
  BY <1>1, <1>4 DEF Ftso!Submit2Issues, Ftso!MissingReveal, Ftso!When
<1>5. ASSUME offence PROVE \E x \in Ftso!Submit2Issues : x.level = "CRITICAL"
  <2>1. CASE Ftso!Submit1 # {} /\ Ftso!Submit2 = {}
    <3> DEFINE x == [level |-> "CRITICAL", about |-> "no_submit2"]
    <3>1. x.level = "CRITICAL" /\ x \in Ftso!Issue("CRITICAL", "no_submit2")
      BY DEF Ftso!Issue
    <3> HIDE DEF x
    <3>2. x \in Ftso!Submit2Issues
      BY <2>1, <3>1 DEF Ftso!Submit2Issues, Ftso!MissingReveal, Ftso!When
    <3> QED
      BY <3>1, <3>2
  <2>2. CASE \E c \in Ftso!Submit1, r \in Ftso!Submit2 : c.hash # r.hash
    <3> DEFINE x == [level |-> "CRITICAL", about |-> "reveal_mismatch"]
    <3>1. x.level = "CRITICAL" /\ x \in Ftso!Issue("CRITICAL", "reveal_mismatch")
      BY DEF Ftso!Issue
    <3> HIDE DEF x
    <3>2. x \in Ftso!Submit2Issues
      BY <2>2, <3>1 DEF Ftso!Submit2Issues, Ftso!When
    <3> QED
      BY <3>1, <3>2
  <2> QED
    BY <1>5, <2>1, <2>2
<1> QED
  BY <1>2, <1>3, <1>4, <1>5 DEF Critical

LEMMA FdcSilent ==
  /\ Fdc!Submit1Issues = {} <=> Fdc!Submit1 = {} /\ ~Late(fdc.submit1, EndS(Round))
  /\ ~Fdc!NoConsensus =>
       (Fdc!Submit2Issues = {} <=>
          /\ Fdc!Submit2 # {} /\ ~Fdc!OutsideSubmit2
          /\ \A x \in Fdc!Submit2 : Len(x.bits) = fdc.requests
          /\ \A x \in Fdc!Submit2, c \in Fdc!Consensus : Fdc!Dominates(x.bits, c))
  /\ Fdc!NoConsensus => Fdc!Submit2Issues = {}
  /\ Fdc!SignatureIssues = {} <=>
       /\ Fdc!Submit2 # {} \/ Fdc!Signature # {}
       /\ ~Fdc!RevealOffence
       /\ \A x \in Fdc!Signature : ~(x.ts > Fdc!Deadline)
       /\ Fdc!Signature # {} => ~Early(fdc.signatures, RevealDeadline(NextRound))
       /\ fdc.finalization # {} => \A x \in Fdc!Signature : x.sig # "other"
<1>1. \A level, about : Fdc!Issue(level, about) # {}
  BY DEF Fdc!Issue
<1>2. Fdc!Submit1Issues = {} <=> Fdc!Submit1 = {} /\ ~Late(fdc.submit1, EndS(Round))
  BY <1>1, FdcReads DEF Fdc!Submit1Issues, Fdc!When
<1>3. ASSUME ~Fdc!NoConsensus
      PROVE  Fdc!Submit2Issues = {} <=>
               /\ Fdc!Submit2 # {} /\ ~Fdc!OutsideSubmit2
               /\ \A x \in Fdc!Submit2 : Len(x.bits) = fdc.requests
               /\ \A x \in Fdc!Submit2, c \in Fdc!Consensus : Fdc!Dominates(x.bits, c)
  BY <1>1, <1>3 DEF Fdc!Submit2Issues, Fdc!BitVoteIssues, Fdc!When
<1>4. ASSUME Fdc!NoConsensus PROVE Fdc!Submit2Issues = {}
  BY <1>4 DEF Fdc!Submit2Issues, Fdc!When
<1>5. Fdc!SignatureIssues = {} <=>
        /\ Fdc!Submit2 # {} \/ Fdc!Signature # {}
        /\ ~Fdc!RevealOffence
        /\ \A x \in Fdc!Signature : ~(x.ts > Fdc!Deadline)
        /\ Fdc!Signature # {} => ~Early(fdc.signatures, RevealDeadline(NextRound))
        /\ fdc.finalization # {} => \A x \in Fdc!Signature : x.sig # "other"
  BY <1>1, FdcReads DEF Fdc!SignatureIssues, Fdc!When
<1> QED
  BY <1>2, <1>3, <1>4, <1>5

LEMMA FdcCritical ==
  /\ Critical(Fdc!Submit1Issues) = {} /\ Critical(Fdc!Submit2Issues) = {}
  /\ Critical(Fdc!SignatureIssues) # {} <=> Fdc!RevealOffence
<1>1. \A level, about : \A x \in Fdc!Issue(level, about) : x.level = level
  BY DEF Fdc!Issue
<1>2. ASSUME NEW x \in Fdc!Submit1Issues PROVE x.level # "CRITICAL"
  BY <1>1 DEF Fdc!Submit1Issues, Fdc!When
<1>3. ASSUME NEW x \in Fdc!Submit2Issues PROVE x.level # "CRITICAL"
  BY <1>1 DEF Fdc!Submit2Issues, Fdc!BitVoteIssues, Fdc!When
<1>4. ASSUME NEW x \in Fdc!SignatureIssues, x.level = "CRITICAL" PROVE Fdc!RevealOffence
  BY <1>1, <1>4 DEF Fdc!SignatureIssues, Fdc!When, Fdc!RevealOffence
<1>5. ASSUME Fdc!RevealOffence PROVE \E x \in Fdc!SignatureIssues : x.level = "CRITICAL"
  <2> DEFINE x == [level |-> "CRITICAL", about |-> "reveal_offence"]
  <2>1. x.level = "CRITICAL" /\ x \in Fdc!Issue("CRITICAL", "reveal_offence")
    BY DEF Fdc!Issue
  <2> HIDE DEF x
  <2>2. x \in Fdc!SignatureIssues
    BY <1>5, <2>1 DEF Fdc!SignatureIssues, Fdc!When
  <2> QED
    BY <2>1, <2>2
<1> QED
  BY <1>2, <1>3, <1>4, <1>5 DEF Critical

-----------------------------------------------------------------------------
(***************************************************************************)
(* What the validators are given is what counts.                           *)
(***************************************************************************)
LEMMA StampedList ==
  ASSUME NEW R, \A r \in R : r.ts \in Nat, NEW txs \in Seq(R)
  PROVE  Stamped(txs)
<1>1. Len(txs) \in Nat /\ DOMAIN txs = 1 .. Len(txs) /\ \A i \in 1 .. Len(txs) : txs[i] \in R
  OBVIOUS
<1> QED
  BY <1>1 DEF Stamped

LEMMA FtsoStamped ==
  ASSUME ftso \in Ftso!Records
  PROVE  Stamped(ftso.submit1) /\ Stamped(ftso.submit2) /\ Stamped(ftso.signatures)
<1> DEFINE R == [ts : Nat, hash : STRING]
           Q == [ts : Nat, hash : STRING, vote : Seq(BOOLEAN)]
           S == [ts : Nat, sig : Signers]
<1>1. ftso.submit1 \in Seq(R) /\ ftso.submit2 \in Seq(Q) /\ ftso.signatures \in Seq(S)
  BY PayloadAssumption DEF Ftso!Records
<1>2. /\ \A r \in R : r.ts \in Nat
      /\ \A r \in Q : r.ts \in Nat
      /\ \A r \in S : r.ts \in Nat
  OBVIOUS
<1> HIDE DEF R, Q, S
<1> QED
  BY <1>1, <1>2, StampedList

LEMMA FdcStamped ==
  ASSUME fdc \in Fdc!Records
  PROVE  Stamped(fdc.submit1) /\ Stamped(fdc.submit2) /\ Stamped(fdc.signatures)
<1> DEFINE R == [ts : Nat]
           Q == [ts : Nat, bits : Seq(BOOLEAN)]
           S == [ts : Nat, sig : Signers]
<1>1. fdc.submit1 \in Seq(R) /\ fdc.submit2 \in Seq(Q) /\ fdc.signatures \in Seq(S)
  BY PayloadAssumption DEF Fdc!Records
<1>2. /\ \A r \in R : r.ts \in Nat
      /\ \A r \in Q : r.ts \in Nat
      /\ \A r \in S : r.ts \in Nat
  OBVIOUS
<1> HIDE DEF R, Q, S
<1> QED
  BY <1>1, <1>2, StampedList

\* The deadline of a signature is the end of the grace period or the finalization.
LEMMA InTimeMeans ==
  ASSUME NEW x, x.ts \in Nat, NEW finalization \in Finalizations
  PROVE  InTime(x, finalization) <=> ~(x.ts > Later(StartS(NextRound) + Grace, finalization))
<1> DEFINE a == StartS(NextRound) + Grace
<1>1. a \in Nat /\ a = StartS(Round + 1) + Grace
  BY Times
<1> HIDE DEF a
<1>2. Later(a, finalization) \in Nat
      /\ (x.ts <= Later(a, finalization) <=> x.ts <= a \/ \E f \in finalization : x.ts <= f)
  BY <1>1, LaterOf
<1>3. InTime(x, finalization) <=> x.ts <= a \/ \E f \in finalization : x.ts <= f
  BY <1>1 DEF InTime
<1>4. ~(x.ts > Later(a, finalization)) <=> x.ts <= Later(a, finalization)
  BY <1>2
<1> QED
  BY <1>2, <1>3, <1>4 DEF a

LEMMA SigningStamped ==
  ASSUME NEW txs, Stamped(txs), NEW x \in Signing(txs)
  PROVE  x.ts \in Nat
  BY ExtractedFrom DEF Signing, Stamped

LEMMA FtsoWindows ==
  ASSUME ftso \in Ftso!Records
  PROVE  /\ Ftso!Submit1 \subseteq CommitPhase(ftso.submit1)
         /\ CommitPhase(ftso.submit1) # {} => Ftso!Submit1 # {}
         /\ Ftso!Submit2 \subseteq RevealPhase(ftso.submit2)
         /\ RevealPhase(ftso.submit2) # {} => Ftso!Submit2 # {}
         /\ Ftso!Signature \subseteq SigningPhase(ftso.signatures)
         /\ SigningPhase(ftso.signatures) # {} => Ftso!Signature # {}
         /\ \A x \in Ftso!Signature :
              InTime(x, ftso.finalization) <=> ~(x.ts > Ftso!Deadline)
<1>1. ftso.finalization \in Finalizations
  BY DEF Ftso!Records
<1>2. \A x \in Ftso!Signature : x.ts \in Nat
  BY FtsoReads, FtsoStamped, SigningStamped
<1>3. \A x \in Ftso!Signature : InTime(x, ftso.finalization) <=> ~(x.ts > Ftso!Deadline)
  BY <1>1, <1>2, FtsoReads, InTimeMeans
<1> QED
  BY <1>3, FtsoReads, FtsoStamped, Windows

LEMMA FdcWindows ==
  ASSUME fdc \in Fdc!Records
  PROVE  /\ Fdc!Submit2 \subseteq RevealPhase(fdc.submit2)
         /\ RevealPhase(fdc.submit2) # {} => Fdc!Submit2 # {}
         /\ Fdc!Signature \subseteq SigningPhase(fdc.signatures)
         /\ SigningPhase(fdc.signatures) # {} => Fdc!Signature # {}
         /\ \A x \in Fdc!Signature :
              InTime(x, fdc.finalization) <=> ~(x.ts > Fdc!Deadline)
<1>1. fdc.finalization \in Finalizations
  BY DEF Fdc!Records
<1>2. \A x \in Fdc!Signature : x.ts \in Nat
  BY FdcReads, FdcStamped, SigningStamped
<1>3. \A x \in Fdc!Signature : InTime(x, fdc.finalization) <=> ~(x.ts > Fdc!Deadline)
  BY <1>1, <1>2, FdcReads, InTimeMeans
<1> QED
  BY <1>3, FdcReads, FdcStamped, Windows

\* There is a most signed message, the first inserted of several.
LEMMA ConsensusExists ==
  ASSUME fdc \in Fdc!Records, ~Fdc!NoConsensus
  PROVE  \E i \in DOMAIN fdc.tally :
           /\ fdc.tally[i] \in Fdc!Leading /\ fdc.tally[i].bits \in Fdc!Consensus
           /\ \A j \in DOMAIN fdc.tally : fdc.tally[j].count <= fdc.tally[i].count
<1> DEFINE R == [bits : Seq(BOOLEAN), count : Nat, readable : BOOLEAN]
           t == fdc.tally
           n == Len(t)
           f == [i \in 1 .. n |-> t[i].count]
<1>1. t \in Seq(R)
  BY PayloadAssumption DEF Fdc!Records
<1>2. \A r \in R : r.count \in Nat
  OBVIOUS
<1> HIDE DEF R
<1>3. n \in Nat /\ DOMAIN t = 1 .. n /\ \A i \in 1 .. n : t[i].count \in Nat
  BY <1>1, <1>2
<1>4. n # 0
  BY <1>1 DEF Fdc!NoConsensus
<1>5. f \in [1 .. n -> Int]
  BY <1>3
<1>6. PICK i \in 1 .. n : FirstBest(f, n, i)
  <2> HIDE DEF f, n
  <2> QED
    BY <1>3, <1>4, <1>5, FirstBestExists
<1>7. \A j \in 1 .. n : t[j].count <= t[i].count /\ (j < i => t[j].count < t[i].count)
  BY <1>6 DEF FirstBest
<1>8. t[i] \in Fdc!Leading /\ t[i].bits \in Fdc!Consensus
  BY <1>3, <1>7 DEF Fdc!Consensus, Fdc!Leading
<1> QED
  BY <1>3, <1>7, <1>8

\* What is signed most is in the tally, and no message was signed more often.
LEMMA ConsensusFrom ==
  ASSUME NEW c \in Fdc!Consensus
  PROVE  \E i \in DOMAIN fdc.tally :
           /\ c = fdc.tally[i].bits /\ fdc.tally[i] \in Fdc!Leading
           /\ \A j \in DOMAIN fdc.tally : fdc.tally[j].count <= fdc.tally[i].count
  BY DEF Fdc!Consensus, Fdc!Leading

LEMMA TallyTyped ==
  ASSUME fdc \in Fdc!Records
  PROVE  /\ fdc.requests \in Nat
         /\ \A i \in DOMAIN fdc.tally : fdc.tally[i].bits \in Seq(BOOLEAN)
<1> DEFINE B == Seq(BOOLEAN)
           R == [bits : B, count : Nat, readable : BOOLEAN]
<1>1. fdc.tally \in Seq(R) /\ fdc.requests \in Nat
  BY PayloadAssumption DEF Fdc!Records
<1> HIDE DEF B
<1>2. \A r \in R : r.bits \in B
  OBVIOUS
<1> HIDE DEF R
<1>3. \A i \in DOMAIN fdc.tally : fdc.tally[i].bits \in B
  BY <1>1, <1>2
<1> QED
  BY <1>1, <1>3 DEF B

\* The bits of a vote in the window, and what it confirms when it is as long as the
\* consensus: zip cuts neither.
LEMMA BitsTyped ==
  ASSUME fdc \in Fdc!Records, NEW x \in Fdc!Submit2
  PROVE  x.bits \in Seq(BOOLEAN)
<1> DEFINE B == Seq(BOOLEAN)
           R == [ts : Nat, bits : B]
<1>1. fdc.submit2 \in Seq(R)
  BY PayloadAssumption DEF Fdc!Records
<1> HIDE DEF B
<1>2. \A r \in R : r.bits \in B
  OBVIOUS
<1> HIDE DEF R
<1>3. PICK i \in DOMAIN fdc.submit2 : x = fdc.submit2[i]
  BY FdcReads, ExtractedFrom DEF Reveal
<1>4. x.bits \in B
  BY <1>1, <1>2, <1>3
<1> QED
  BY <1>4 DEF B

LEMMA Confirming ==
  ASSUME fdc \in Fdc!Records, Fdc!Readable, NEW x \in Fdc!Submit2, NEW c \in Fdc!Consensus,
         Len(c) = fdc.requests, Len(x.bits) = fdc.requests, Fdc!Dominates(x.bits, c)
  PROVE  Fdc!Confirms(x)
<1>1. PICK i \in DOMAIN fdc.tally :
        /\ c = fdc.tally[i].bits /\ fdc.tally[i] \in Fdc!Leading
        /\ \A j \in DOMAIN fdc.tally : fdc.tally[j].count <= fdc.tally[i].count
  BY ConsensusFrom
<1>2. c \in Seq(BOOLEAN) /\ x.bits \in Seq(BOOLEAN)
  BY <1>1, TallyTyped, BitsTyped
<1>3. DOMAIN c = 1 .. fdc.requests /\ DOMAIN x.bits = 1 .. fdc.requests
  BY <1>2
<1>4. \A n \in 1 .. fdc.requests : fdc.tally[i].bits[n] => x.bits[n]
  BY <1>1, <1>3 DEF Fdc!Dominates
<1>5. fdc.tally[i].readable
  BY <1>1 DEF Fdc!Readable
<1> QED
  BY <1>1, <1>4, <1>5 DEF Fdc!Confirms

\* A key that was recovered, and is no one else's, is the entity's own.
LEMMA SignerTyped ==
  ASSUME NEW txs \in Seq([ts : Nat, sig : Signers]), NEW x \in Signing(txs)
  PROVE  x.sig \in {"own", "other", "malformed"}
<1> DEFINE R == [ts : Nat, sig : Signers]
<1>1. \A r \in R : r.sig \in {"own", "other", "malformed"}
  BY DEF Signers
<1>2. txs \in Seq(R)
  OBVIOUS
<1> HIDE DEF R
<1>3. PICK i \in DOMAIN txs : x = txs[i]
  BY ExtractedFrom DEF Signing
<1> QED
  BY <1>1, <1>2, <1>3

LEMMA OwnSignature ==
  /\ ftso \in Ftso!Records /\ ~Ftso!Unrecoverable /\ ftso.finalization # {} =>
       \A x \in Ftso!Signature : x.sig # "other" => x.sig = "own"
  /\ fdc \in Fdc!Records /\ ~Fdc!Unrecoverable /\ fdc.finalization # {} =>
       \A x \in Fdc!Signature : x.sig # "other" => x.sig = "own"
<1>1. ASSUME ftso \in Ftso!Records, ~Ftso!Unrecoverable, ftso.finalization # {},
             NEW x \in Ftso!Signature, x.sig # "other"
      PROVE  x.sig = "own"
  <2>1. ftso.signatures \in Seq([ts : Nat, sig : Signers])
    BY <1>1, PayloadAssumption DEF Ftso!Records
  <2>2. x.sig \in {"own", "other", "malformed"}
    BY <2>1, FtsoReads, SignerTyped
  <2> QED
    BY <1>1, <2>2 DEF Ftso!Unrecoverable
<1>2. ASSUME fdc \in Fdc!Records, ~Fdc!Unrecoverable, fdc.finalization # {},
             NEW x \in Fdc!Signature, x.sig # "other"
      PROVE  x.sig = "own"
  <2>1. fdc.signatures \in Seq([ts : Nat, sig : Signers])
    BY <1>2, PayloadAssumption DEF Fdc!Records
  <2>2. x.sig \in {"own", "other", "malformed"}
    BY <2>1, FdcReads, SignerTyped
  <2> QED
    BY <1>2, <2>2 DEF Fdc!Unrecoverable
<1> QED
  BY <1>1, <1>2

-----------------------------------------------------------------------------
(***************************************************************************)
(* Silence, alarm and the critical message.                                *)
(***************************************************************************)
LEMMA Reported ==
  ASSUME IInv
  PROVE  /\ ftso \in Ftso!Records /\ fdc \in Fdc!Records
         /\ ftsoStep = "done" =>
              ftsoIssues = Ftso!Submit1Issues \cup Ftso!Submit2Issues \cup Ftso!SignatureIssues
         /\ fdcStep = "done" /\ ~Fdc!NoConsensus =>
              /\ fdcIssues = Fdc!Submit1Issues \cup Fdc!Submit2Issues \cup Fdc!SignatureIssues
              /\ Fdc!Readable /\ \A c \in Fdc!Consensus : Len(c) = fdc.requests
              /\ ~Fdc!Unrecoverable
         /\ ftsoStep = "done" => ~Ftso!Unrecoverable
         /\ fdcStep = "done" /\ Fdc!NoConsensus => fdcIssues = Fdc!Submit1Issues
<1>1. ftso \in Ftso!Records /\ fdc \in Fdc!Records
  BY DEF IInv, TypeOK, Ftso!TypeOK, Fdc!TypeOK
<1>2. ftsoStep = "done" =>
        ftsoIssues = Ftso!Submit1Issues \cup Ftso!Submit2Issues \cup Ftso!SignatureIssues
  BY DEF IInv, FtsoFound, FtsoBegun, Ftso!When
<1>3. fdcStep = "done" /\ ~Fdc!NoConsensus =>
        fdcIssues = Fdc!Submit1Issues \cup Fdc!Submit2Issues \cup Fdc!SignatureIssues
  BY DEF IInv, FdcFound, Fdc!When
<1>4. /\ fdcStep = "done" /\ ~Fdc!NoConsensus =>
           /\ Fdc!Readable /\ \A c \in Fdc!Consensus : Len(c) = fdc.requests
           /\ ~Fdc!Unrecoverable
      /\ ftsoStep = "done" => ~Ftso!Unrecoverable
  BY DEF IInv, RequestsAgree, MediansOfVotes
<1>5. fdcStep = "done" /\ Fdc!NoConsensus => fdcIssues = Fdc!Submit1Issues
  <2>1. ASSUME fdcStep = "done", Fdc!NoConsensus
        PROVE  fdcIssues = Fdc!Submit1Issues \cup Fdc!Submit2Issues
    BY <2>1 DEF IInv, FdcFound, Fdc!When
  <2> QED
    BY <2>1, FdcSilent
<1> QED
  BY <1>1, <1>2, <1>3, <1>4, <1>5

LEMMA FtsoSilenceRight == IInv => Ftso!NoIssueMeansCompliant
<1> SUFFICES ASSUME IInv, ftsoStep = "done", ftsoIssues = {}
             PROVE  /\ \E c \in Ftso!CommitPhase(ftso.submit1), r \in Ftso!RevealPhase(ftso.submit2) :
                         Ftso!Matches(c, r) /\ Ftso!Complete(r.vote, medians)
                    /\ Ftso!Signed
  BY DEF Ftso!NoIssueMeansCompliant
<1>1. Ftso!Submit1Issues = {} /\ Ftso!Submit2Issues = {} /\ Ftso!SignatureIssues = {}
  BY Reported
<1>2. ftso \in Ftso!Records
  BY Reported
<1>3. PICK c \in Ftso!Submit1 : c.hash \in Hashes
  BY <1>1, FtsoSilent
<1>4. PICK r \in Ftso!Submit2 :
        c.hash = r.hash /\ Len(r.vote) = medians /\ \A f \in DOMAIN r.vote : r.vote[f]
  BY <1>1, FtsoSilent
<1>5. Ftso!Matches(c, r) /\ Ftso!Complete(r.vote, medians)
  BY <1>3, <1>4 DEF Ftso!Matches, Ftso!Complete
<1>6. c \in Ftso!CommitPhase(ftso.submit1) /\ r \in Ftso!RevealPhase(ftso.submit2)
  BY <1>2, FtsoWindows, FtsoReads
<1>7. PICK x \in Ftso!Signature :
        ~(x.ts > Ftso!Deadline) /\ (ftso.finalization # {} => x.sig # "other")
  BY <1>1, FtsoSilent
<1>8. x \in Ftso!SigningPhase(ftso.signatures) /\ Ftso!InTime(x, ftso.finalization)
  BY <1>2, <1>7, FtsoWindows, FtsoReads
<1>9. Ftso!Signed
  <2>1. ftso.finalization # {} => x.sig = "own"
    BY <1>2, <1>7, Reported, OwnSignature
  <2> QED
    BY <1>8, <2>1 DEF Ftso!Signed
<1> QED
  BY <1>5, <1>6, <1>9

LEMMA FdcSilenceRight == IInv => Fdc!NoIssueMeansCompliant
<1> SUFFICES ASSUME IInv, fdcStep = "done", fdcIssues = {}, ~Fdc!NoConsensus
             PROVE  /\ \E x \in Fdc!RevealPhase(fdc.submit2) : Fdc!Confirms(x)
                    /\ \E x \in Fdc!SigningPhase(fdc.signatures) :
                         Fdc!InTime(x, fdc.finalization) /\ (fdc.finalization # {} => x.sig = "own")
  BY DEF Fdc!NoIssueMeansCompliant
<1>1. Fdc!Submit1Issues = {} /\ Fdc!Submit2Issues = {} /\ Fdc!SignatureIssues = {}
  BY Reported
<1>2. /\ fdc \in Fdc!Records /\ \A c \in Fdc!Consensus : Len(c) = fdc.requests
      /\ Fdc!Readable /\ ~Fdc!Unrecoverable
  BY Reported
<1>3. PICK x \in Fdc!Submit2 :
        Len(x.bits) = fdc.requests /\ \A c \in Fdc!Consensus : Fdc!Dominates(x.bits, c)
  BY <1>1, FdcSilent
<1>4. PICK c \in Fdc!Consensus : TRUE
  BY <1>2, ConsensusExists
<1>5. Fdc!Confirms(x)
  BY <1>2, <1>3, <1>4, Confirming
<1>6. x \in Fdc!RevealPhase(fdc.submit2)
  BY <1>2, FdcWindows, FdcReads
<1>7. Fdc!Signature # {}
  <2>1. ~Fdc!RevealOffence
    BY <1>1, FdcSilent
  <2> QED
    BY <1>2, <1>3, <1>4, <2>1 DEF Fdc!RevealOffence
<1>8. PICK y \in Fdc!Signature :
        ~(y.ts > Fdc!Deadline) /\ (fdc.finalization # {} => y.sig # "other")
  BY <1>1, <1>7, FdcSilent
<1>9. y \in Fdc!SigningPhase(fdc.signatures) /\ Fdc!InTime(y, fdc.finalization)
  BY <1>2, <1>8, FdcWindows, FdcReads
<1>10. fdc.finalization # {} => y.sig = "own"
  BY <1>2, <1>8, OwnSignature
<1> QED
  BY <1>5, <1>6, <1>9, <1>10

LEMMA FtsoCriticalRight == IInv => Ftso!CriticalMeansRevealOffence
<1> DEFINE commits == CommitPhase(ftso.submit1)
           reveals == RevealPhase(ftso.submit2)
<1> SUFFICES ASSUME IInv, ftsoStep = "done"
             PROVE  /\ (\E x \in ftsoIssues : x.level = "CRITICAL") =>
                         \E c \in commits : reveals = {} \/ \E r \in reveals : c.hash # r.hash
                    /\ commits # {} /\ (\A c \in commits, r \in reveals : c.hash # r.hash) =>
                         \E x \in ftsoIssues : x.level = "CRITICAL"
  BY FtsoReads DEF Ftso!CriticalMeansRevealOffence
<1>1. (\E x \in ftsoIssues : x.level = "CRITICAL") <=> Critical(Ftso!Submit2Issues) # {}
  BY Reported, FtsoCritical DEF Critical
<1>2. /\ Ftso!Submit1 \subseteq commits /\ (commits # {} => Ftso!Submit1 # {})
      /\ Ftso!Submit2 \subseteq reveals /\ (reveals # {} => Ftso!Submit2 # {})
  BY Reported, FtsoWindows
<1>3. Critical(Ftso!Submit2Issues) # {} <=>
        \/ Ftso!Submit1 # {} /\ Ftso!Submit2 = {}
        \/ \E c \in Ftso!Submit1, r \in Ftso!Submit2 : c.hash # r.hash
  BY FtsoCritical
<1> HIDE DEF commits, reveals
<1>4. ASSUME Critical(Ftso!Submit2Issues) # {}
      PROVE  \E c \in commits : reveals = {} \/ \E r \in reveals : c.hash # r.hash
  BY <1>2, <1>3, <1>4
<1>5. ASSUME commits # {}, \A c \in commits, r \in reveals : c.hash # r.hash
      PROVE  Critical(Ftso!Submit2Issues) # {}
  BY <1>2, <1>3, <1>5
<1> QED
  BY <1>1, <1>4, <1>5

LEMMA FdcCriticalRight == IInv => Fdc!CriticalMeansRevealOffence
<1> SUFFICES ASSUME IInv, fdcStep = "done", \E x \in fdcIssues : x.level = "CRITICAL"
             PROVE  /\ Fdc!SigningPhase(fdc.signatures) = {}
                    /\ \E x \in Fdc!RevealPhase(fdc.submit2) : Fdc!Confirms(x)
  BY DEF Fdc!CriticalMeansRevealOffence
<1>1. ~Fdc!NoConsensus /\ Fdc!RevealOffence
  BY Reported, FdcCritical DEF Critical
<1>2. fdc \in Fdc!Records /\ Fdc!Readable /\ \A c \in Fdc!Consensus : Len(c) = fdc.requests
  BY <1>1, Reported
<1>3. Fdc!SigningPhase(fdc.signatures) = {}
  BY <1>1, <1>2, FdcWindows, FdcReads DEF Fdc!RevealOffence
<1>4. PICK x \in Fdc!Submit2, c \in Fdc!Consensus :
        Len(x.bits) = Len(c) /\ Fdc!Dominates(x.bits, c)
  BY <1>1 DEF Fdc!RevealOffence
<1>5. Fdc!Confirms(x)
  BY <1>2, <1>4, Confirming
<1>6. x \in Fdc!RevealPhase(fdc.submit2)
  BY <1>2, FdcWindows, FdcReads
<1> QED
  BY <1>3, <1>5, <1>6

\* Silence is right in both protocols: what raises no issue was committed, revealed
\* and signed as the protocol asks for.
THEOREM SilenceRight == Spec => []NoIssueMeansCompliant
<1>1. IInv => NoIssueMeansCompliant
  BY FtsoSilenceRight, FdcSilenceRight DEF NoIssueMeansCompliant
<1> QED
  BY Inductive, <1>1, PTL

\* A critical message is about a reveal offence, and an FTSO offence raises one.
THEOREM CriticalRight == Spec => []CriticalMeansRevealOffence
<1>1. IInv => CriticalMeansRevealOffence
  BY FtsoCriticalRight, FdcCriticalRight DEF CriticalMeansRevealOffence
<1> QED
  BY Inductive, <1>1, PTL

\* A list with one transaction in its window is all that is extracted, and nothing of
\* it is outside.
LEMMA OnlyOne ==
  ASSUME NEW x, Stamped(<<x>>)
  PROVE  /\ x.ts \in Nat
         /\ x \in CommitPhase(<<x>>) => Commit(<<x>>) = {x} /\ ~Late(<<x>>, EndS(Round))
         /\ x \in RevealPhase(<<x>>) =>
              /\ Reveal(<<x>>) = {x}
              /\ ~Early(<<x>>, StartS(NextRound)) /\ ~Late(<<x>>, RevealDeadline(NextRound))
         /\ x \in SigningPhase(<<x>>) =>
              Signing(<<x>>) = {x} /\ ~Early(<<x>>, RevealDeadline(NextRound))
<1>1. x.ts \in Nat
  <2>1. DOMAIN <<x>> = {1} /\ <<x>>[1] = x
    OBVIOUS
  <2> QED
    BY <2>1 DEF Stamped
<1> QED
  BY <1>1, AloneInWindow

LEMMA FdcAlarmRight == IInv => Fdc!CompliantMeansNoIssue
<1> SUFFICES ASSUME IInv, fdcStep = "done", Fdc!Compliant PROVE fdcIssues = {} /\ submitted
  BY DEF Fdc!CompliantMeansNoIssue
<1>1. ~Fdc!NoConsensus /\ fdc.submit1 = <<>>
  BY DEF Fdc!Compliant
<1>2. PICK x \in RevealPhase(fdc.submit2) :
        /\ fdc.submit2 = <<x>>
        /\ Len(x.bits) = fdc.requests
        /\ \A i \in DOMAIN fdc.tally, n \in 1 .. fdc.requests : fdc.tally[i].bits[n] => x.bits[n]
  BY FdcReads DEF Fdc!Compliant
<1>3. PICK y \in SigningPhase(fdc.signatures) :
        fdc.signatures = <<y>> /\ y.sig = "own" /\ InTime(y, fdc.finalization)
  BY FdcReads DEF Fdc!Compliant
<1>4. fdc \in Fdc!Records /\ \A c \in Fdc!Consensus : Len(c) = fdc.requests
  BY <1>1, Reported
<1>5. Stamped(<<x>>) /\ Stamped(<<y>>)
  BY <1>2, <1>3, <1>4, FdcStamped
<1>6. Fdc!Submit1Issues = {}
  BY <1>1, FdcReads, FdcSilent, NothingExtracted
<1>7. Fdc!Submit2 = {x} /\ ~Fdc!OutsideSubmit2
  BY <1>2, <1>5, FdcReads, OnlyOne DEF Fdc!OutsideSubmit2
<1>8. ASSUME NEW c \in Fdc!Consensus PROVE Fdc!Dominates(x.bits, c)
  <2>1. PICK i \in DOMAIN fdc.tally : c = fdc.tally[i].bits
    BY ConsensusFrom
  <2>2. c \in Seq(BOOLEAN) /\ Len(c) = fdc.requests
    BY <1>4, <2>1, TallyTyped
  <2>3. DOMAIN c = 1 .. fdc.requests
    BY <2>2
  <2> QED
    BY <1>2, <2>1, <2>3 DEF Fdc!Dominates
<1>9. Fdc!Submit2Issues = {}
  BY <1>1, <1>2, <1>7, <1>8, FdcSilent
<1>10. Fdc!Signature = {y} /\ ~Early(fdc.signatures, RevealDeadline(NextRound))
  BY <1>3, <1>5, FdcReads, OnlyOne
<1>11. ~(y.ts > Fdc!Deadline)
  BY <1>3, <1>4, <1>10, FdcWindows
<1>12. ~Fdc!RevealOffence
  BY <1>10 DEF Fdc!RevealOffence
<1>13. Fdc!SignatureIssues = {}
  BY <1>3, <1>7, <1>10, <1>11, <1>12, FdcSilent
<1>14. fdcIssues = {}
  BY <1>1, <1>6, <1>9, <1>13, Reported
<1>15. submitted
  BY <1>1, <1>13 DEF IInv, Participates
<1> QED
  BY <1>14, <1>15

\* Alarm is right in the FDC protocol: who follows the rules raises no issue and is
\* counted as a participant.
THEOREM FdcAlarm == Spec => []FdcCompliantMeansNoIssue
<1>1. IInv => FdcCompliantMeansNoIssue
  BY FdcAlarmRight DEF FdcCompliantMeansNoIssue
<1> QED
  BY Inductive, <1>1, PTL

-----------------------------------------------------------------------------
(***************************************************************************)
(* The votes counted, and the medians they leave.                          *)
(***************************************************************************)
VotesOn(votes, n) == {i \in DOMAIN votes : Len(votes[i]) = n}

LEMMA Counted == \A votes, n : Ftso!OfLength(votes, n) = Cardinality(VotesOn(votes, n))
<1>1. \A S : Ftso!Cardinality(S) = Cardinality(S)
  BY DEF Ftso!Cardinality, Cardinality
<1> QED
  BY <1>1 DEF Ftso!OfLength, VotesOn

LEMMA CountTyped ==
  ASSUME NEW B, NEW votes \in Seq(B), NEW n
  PROVE  IsFiniteSet(VotesOn(votes, n)) /\ Cardinality(VotesOn(votes, n)) \in Nat
<1>1. Len(votes) \in Nat /\ VotesOn(votes, n) \subseteq 1 .. Len(votes)
  BY DEF VotesOn
<1>2. IsFiniteSet(1 .. Len(votes))
  BY <1>1, FS_Interval
<1>3. IsFiniteSet(VotesOn(votes, n))
  BY <1>1, <1>2, FS_Subset
<1> QED
  BY <1>3, FS_CardinalityType

\* A vote before or after the others, and what it does to the count.
With(v, others, votes) == votes = <<v>> \o others \/ votes = others \o <<v>>

LEMMA WithMeans ==
  ASSUME NEW B, NEW others \in Seq(B), NEW v \in B, NEW votes, With(v, others, votes)
  PROVE  /\ \E k \in DOMAIN votes : votes[k] = v
         /\ \A i \in DOMAIN others : \E j \in DOMAIN votes : votes[j] = others[i]
         /\ \A j \in DOMAIN votes : votes[j] = v \/ \E i \in DOMAIN others : votes[j] = others[i]
<1> DEFINE L == Len(others)
<1>1. L \in Nat /\ DOMAIN others = 1 .. L
  OBVIOUS
<1>2. CASE votes = <<v>> \o others
  <2>1. /\ DOMAIN votes = 1 .. L + 1 /\ votes[1] = v
        /\ \A j \in 2 .. L + 1 : votes[j] = others[j - 1]
    BY <1>2
  <2>2. \A i \in 1 .. L : i + 1 \in 2 .. L + 1 /\ (i + 1) - 1 = i
    BY <1>1
  <2>3. \A j \in 1 .. L + 1 : j = 1 \/ (j \in 2 .. L + 1 /\ j - 1 \in 1 .. L)
    BY <1>1
  <2>4. 1 \in 1 .. L + 1 /\ 2 .. L + 1 \subseteq 1 .. L + 1
    BY <1>1
  <2> HIDE DEF L
  <2>5. \A i \in DOMAIN others : \E j \in DOMAIN votes : votes[j] = others[i]
    <3> TAKE i \in DOMAIN others
    <3>1. i + 1 \in DOMAIN votes /\ votes[i + 1] = others[i]
      BY <1>1, <2>1, <2>2, <2>4
    <3> QED
      BY <3>1
  <2> QED
    BY <1>1, <2>1, <2>3, <2>4, <2>5
<1>3. CASE votes = others \o <<v>>
  <2>1. /\ DOMAIN votes = 1 .. L + 1 /\ votes[L + 1] = v
        /\ \A j \in 1 .. L : votes[j] = others[j]
    BY <1>3
  <2>2. \A j \in 1 .. L + 1 : j = L + 1 \/ j \in 1 .. L
    BY <1>1
  <2>3. L + 1 \in 1 .. L + 1 /\ 1 .. L \subseteq 1 .. L + 1
    BY <1>1
  <2> HIDE DEF L
  <2> QED
    BY <1>1, <2>1, <2>2, <2>3
<1> QED
  BY <1>2, <1>3 DEF With

LEMMA OneMore ==
  ASSUME NEW B, NEW others \in Seq(B), NEW v \in B, NEW votes, With(v, others, votes), NEW n
  PROVE  Ftso!OfLength(votes, n) =
           Cardinality(VotesOn(others, n)) + (IF Len(v) = n THEN 1 ELSE 0)
<1> DEFINE L == Len(others)
           A == VotesOn(others, n)
<1>1. L \in Nat /\ DOMAIN others = 1 .. L
  OBVIOUS
<1>2. IsFiniteSet(A) /\ Cardinality(A) \in Nat /\ A \subseteq 1 .. L
  BY <1>1, CountTyped DEF VotesOn
<1>3. CASE votes = <<v>> \o others
  <2> DEFINE S == {i + 1 : i \in A}
             f == [i \in A |-> i + 1]
  <2>1. /\ DOMAIN votes = 1 .. L + 1 /\ votes[1] = v
        /\ \A j \in 2 .. L + 1 : votes[j] = others[j - 1]
    BY <1>3
  <2>2. f \in Bijection(A, S)
    <3>1. f \in [A -> S] /\ \A i \in A : f[i] = i + 1 /\ i \in Int
      BY <1>2
    <3>2. \A i \in A, j \in A : f[i] = f[j] => i = j
      BY <3>1
    <3>3. \A t \in S : \E i \in A : f[i] = t
      BY <3>1
    <3> HIDE DEF f, S
    <3> QED
      BY <3>1, <3>2, <3>3 DEF Bijection, Injection, Surjection, IsInjective
  <2>3. IsFiniteSet(S) /\ Cardinality(S) = Cardinality(A)
    <3>1. ExistsBijection(A, S)
      BY <2>2 DEF ExistsBijection
    <3> HIDE DEF A, S, f
    <3> QED
      BY <1>2, <3>1, FS_Bijection
  <2>4. 1 \notin S
    BY <1>2
  <2>5. VotesOn(votes, n) = IF Len(v) = n THEN S \cup {1} ELSE S
    <3>1. \A j \in 2 .. L + 1 : Len(votes[j]) = n <=> j \in S
      <4>1. \A j \in 2 .. L + 1 : j - 1 \in 1 .. L /\ (j - 1) + 1 = j
        BY <1>1
      <4>2. \A j \in 2 .. L + 1 : Len(votes[j]) = n <=> j - 1 \in A
        BY <1>1, <2>1, <4>1 DEF VotesOn
      <4>3. \A j \in 2 .. L + 1 : j - 1 \in A <=> j \in S
        BY <1>2, <4>1
      <4> QED
        BY <4>2, <4>3
    <3>2. S \subseteq 2 .. L + 1
      BY <1>1, <1>2
    <3>3. \A j : j \in 1 .. L + 1 <=> j = 1 \/ j \in 2 .. L + 1
      BY <1>1
    <3> HIDE DEF S, A, L
    <3> QED
      BY <2>1, <3>1, <3>2, <3>3 DEF VotesOn
  <2> HIDE DEF S
  <2>6. CASE Len(v) = n
    <3>1. Cardinality(S \cup {1}) = Cardinality(S) + 1
      BY <2>3, <2>4, FS_AddElement
    <3>2. Ftso!OfLength(votes, n) = Cardinality(S \cup {1})
      BY <2>5, <2>6, Counted
    <3> QED
      BY <2>3, <2>6, <3>1, <3>2
  <2>7. CASE Len(v) # n
    BY <1>2, <2>3, <2>5, <2>7, Counted
  <2> QED
    BY <2>6, <2>7
<1>4. CASE votes = others \o <<v>>
  <2>1. /\ DOMAIN votes = 1 .. L + 1 /\ votes[L + 1] = v
        /\ \A j \in 1 .. L : votes[j] = others[j]
    BY <1>4
  <2>2. L + 1 \notin A
    BY <1>1, <1>2
  <2>3. VotesOn(votes, n) = IF Len(v) = n THEN A \cup {L + 1} ELSE A
    <3>1. \A j : j \in 1 .. L + 1 <=> j = L + 1 \/ j \in 1 .. L
      BY <1>1
    <3>2. \A j \in 1 .. L : Len(votes[j]) = n <=> j \in A
      BY <1>1, <2>1 DEF VotesOn
    <3> HIDE DEF A, L
    <3> QED
      BY <1>2, <2>1, <3>1, <3>2 DEF VotesOn
  <2> HIDE DEF A, L
  <2>4. CASE Len(v) = n
    BY <1>2, <2>2, <2>3, <2>4, Counted, FS_AddElement DEF A
  <2>5. CASE Len(v) # n
    BY <1>2, <2>3, <2>5, Counted DEF A
  <2> QED
    BY <2>4, <2>5
<1> QED
  BY <1>3, <1>4 DEF With

\* The votes are those of the others, or those and the entity's own.
LEMMA VotesWith ==
  ASSUME ftso \in Ftso!Records, Ftso!Votes # ftso.others \/ Ftso!Revealed # {}
  PROVE  \E v \in Ftso!Revealed : v \in Seq(BOOLEAN) /\ With(v, ftso.others, Ftso!Votes)
  BY VotesTyped DEF With

\* What prevails among the votes, stated on the votes themselves.
LEMMA FeedsMeans ==
  ASSUME NEW n
  PROVE  n \in Ftso!Feeds(Ftso!Votes) <=>
           (\E j \in DOMAIN Ftso!Votes : Len(Ftso!Votes[j]) = n) /\ Ftso!Prevails(Ftso!Votes, n)
  BY DEF Ftso!Feeds

\* A complete vote on the feeds most others vote on decides the number of medians.
LEMMA CompleteVotePrevails ==
  ASSUME ftso \in Ftso!Records, NEW v \in Seq(BOOLEAN), With(v, ftso.others, Ftso!Votes),
         Ftso!Agreed(Len(v)), Ftso!Complete(v, Len(v))
  PROVE  /\ Len(v) \in Ftso!Feeds(Ftso!Votes) /\ Ftso!Voted(Ftso!Votes, Len(v))
         /\ \A n \in Ftso!Feeds(Ftso!Votes) : n = Len(v)
<1> DEFINE others == ftso.others
           votes == Ftso!Votes
           B == Seq(BOOLEAN)
           m == Len(v)
           count(n) == Cardinality(VotesOn(others, n))
<1>1. others \in Seq(B)
  BY VotesTyped
<1>2. \A n : count(n) \in Nat
  <2> HIDE DEF B, others
  <2> QED
    BY <1>1, CountTyped
<1>3. \A n : Ftso!OfLength(votes, n) = count(n) + (IF m = n THEN 1 ELSE 0)
  <2> HIDE DEF B
  <2>1. v \in B
    BY DEF B
  <2> QED
    BY <1>1, <2>1, OneMore
<1>4. /\ \E k \in DOMAIN votes : votes[k] = v
      /\ \A j \in DOMAIN votes : votes[j] = v \/ \E i \in DOMAIN others : votes[j] = others[i]
  <2> HIDE DEF B
  <2>1. v \in B
    BY DEF B
  <2> QED
    BY <1>1, <2>1, WithMeans
<1>5. \A i \in DOMAIN others : Len(others[i]) # m => count(Len(others[i])) <= count(m)
  <2> SUFFICES ASSUME NEW i \in DOMAIN others, Len(others[i]) # m
               PROVE  count(Len(others[i])) <= count(m)
    OBVIOUS
  <2>1. \A n : Ftso!Cardinality(VotesOn(others, n)) = count(n)
    BY DEF Ftso!Cardinality, Cardinality
  <2>2. Ftso!Cardinality(VotesOn(others, Len(others[i]))) <= Ftso!Cardinality(VotesOn(others, m))
    BY Zenon DEF Ftso!Agreed, VotesOn
  <2> QED
    BY <2>1, <2>2
<1> HIDE DEF count, others, votes, m
<1>6. PICK k \in DOMAIN votes : votes[k] = v
  BY <1>4
<1>7. ASSUME NEW j \in DOMAIN votes, Len(votes[j]) # m
      PROVE  Ftso!OfLength(votes, Len(votes[j])) < Ftso!OfLength(votes, m)
  <2>1. PICK i \in DOMAIN others : votes[j] = others[i]
    BY <1>4, <1>7 DEF m
  <2>2. count(Len(votes[j])) <= count(m)
    BY <1>5, <1>7, <2>1
  <2>3. Ftso!OfLength(votes, Len(votes[j])) = count(Len(votes[j]))
    BY <1>2, <1>3, <1>7
  <2>4. Ftso!OfLength(votes, m) = count(m) + 1
    BY <1>3
  <2> QED
    BY <1>2, <2>2, <2>3, <2>4
<1>8. Ftso!Prevails(votes, m)
  BY <1>7 DEF Ftso!Prevails
<1>9. Len(v) \in Ftso!Feeds(Ftso!Votes)
  BY <1>6, <1>8, FeedsMeans DEF votes, m
<1>10. Ftso!Voted(votes, m)
  <2> SUFFICES ASSUME NEW f \in 1 .. m
               PROVE  \E i \in DOMAIN votes : f <= Len(votes[i]) /\ votes[i][f]
    BY DEF Ftso!Voted
  <2>1. f <= m /\ f \in DOMAIN v
    BY DEF m
  <2>2. v[f]
    BY <2>1 DEF Ftso!Complete
  <2> QED
    BY <1>6, <2>1, <2>2 DEF m
<1>11. ASSUME NEW n \in Ftso!Feeds(Ftso!Votes) PROVE n = m
  <2> SUFFICES ASSUME n # m PROVE FALSE
    OBVIOUS
  <2>1. PICK j \in DOMAIN votes : Len(votes[j]) = n
    BY FeedsMeans DEF votes
  <2>2. Ftso!Prevails(votes, n)
    BY FeedsMeans DEF votes
  <2>3. Ftso!OfLength(votes, n) < Ftso!OfLength(votes, m)
    BY <1>7, <2>1
  <2>4. Len(votes[k]) = m
    BY <1>6 DEF m
  <2>5. \/ Ftso!OfLength(votes, m) < Ftso!OfLength(votes, n)
        \/ Ftso!OfLength(votes, m) = Ftso!OfLength(votes, n)
    BY <2>2, <2>4 DEF Ftso!Prevails
  <2>6. Ftso!OfLength(votes, n) \in Int /\ Ftso!OfLength(votes, m) \in Int
    <3>1. \A l : Ftso!OfLength(votes, l) \in Int
      BY <1>2, <1>3
    <3> QED
      BY <3>1
  <2> QED
    BY <2>3, <2>5, <2>6
<1> QED
  BY <1>9, <1>10, <1>11 DEF votes, m

LEMMA FtsoAlarmRight == IInv => Ftso!CompliantMeansNoIssue
<1> SUFFICES ASSUME IInv, Ftso!Compliant, ftsoStep \in {"done", "crashed"}
             PROVE  ftsoStep = "done" /\ ftsoIssues = {}
  BY DEF Ftso!CompliantMeansNoIssue
<1>1. ftso \in Ftso!Records
  BY Reported
<1>2. PICK c \in CommitPhase(ftso.submit1), r \in RevealPhase(ftso.submit2) :
        /\ ftso.submit1 = <<c>> /\ ftso.submit2 = <<r>>
        /\ Ftso!Matches(c, r)
        /\ Ftso!Agreed(Len(r.vote)) /\ Ftso!Complete(r.vote, Len(r.vote))
  BY FtsoReads DEF Ftso!Compliant
<1>3. PICK y \in SigningPhase(ftso.signatures) :
        ftso.signatures = <<y>> /\ y.sig = "own" /\ InTime(y, ftso.finalization)
  BY FtsoReads DEF Ftso!Compliant
<1>4. Stamped(<<c>>) /\ Stamped(<<r>>) /\ Stamped(<<y>>)
  BY <1>1, <1>2, <1>3, FtsoStamped
<1>5. Ftso!Submit1 = {c} /\ ~Late(ftso.submit1, EndS(Round))
  BY <1>2, <1>4, FtsoReads, OnlyOne
<1>6. Ftso!Submit2 = {r} /\ ~Ftso!OutsideSubmit2
  BY <1>2, <1>4, FtsoReads, OnlyOne DEF Ftso!OutsideSubmit2
<1>7. Ftso!Signature = {y} /\ ~Early(ftso.signatures, RevealDeadline(NextRound))
  BY <1>3, <1>4, FtsoReads, OnlyOne
<1>8. c.hash = r.hash /\ c.hash \in Hashes
  BY <1>2 DEF Ftso!Matches
<1>9. /\ Len(r.vote) \in Ftso!Feeds(Ftso!Votes) /\ Ftso!Voted(Ftso!Votes, Len(r.vote))
      /\ \A n \in Ftso!Feeds(Ftso!Votes) : n = Len(r.vote)
  <2>1. Ftso!Revealed = {r.vote}
    BY <1>5, <1>6, <1>8 DEF Ftso!Revealed
  <2>2. r.vote \in Seq(BOOLEAN) /\ With(r.vote, ftso.others, Ftso!Votes)
    BY <1>1, <2>1, VotesWith
  <2> QED
    BY <1>1, <1>2, <2>2, CompleteVotePrevails
<1>10. ftsoStep = "done"
  <2>1. ~Ftso!Unrecoverable
    BY <1>3, <1>7 DEF Ftso!Unrecoverable
  <2> QED
    BY <1>9, <2>1 DEF IInv, MediansOfVotes
<1>11. Len(r.vote) = medians
  BY <1>9, <1>10 DEF IInv, MediansOfVotes, FtsoBegun
<1>12. Ftso!Submit1Issues = {}
  BY <1>5, <1>8, FtsoSilent
<1>13. Ftso!Submit2Issues = {}
  <2>1. \A f \in DOMAIN r.vote : r.vote[f]
    BY <1>2 DEF Ftso!Complete
  <2> QED
    BY <1>5, <1>6, <1>8, <1>11, <2>1, FtsoSilent
<1>14. ~(y.ts > Ftso!Deadline)
  BY <1>1, <1>3, <1>7, FtsoWindows
<1>15. Ftso!SignatureIssues = {}
  BY <1>3, <1>7, <1>14, FtsoSilent
<1> QED
  BY <1>10, <1>12, <1>13, <1>15, Reported

\* Alarm is right in the FTSO protocol: who follows the rules and votes on the feeds
\* most others vote on raises no issue, and the medians are defined whatever the
\* others send.
THEOREM FtsoAlarm == Spec => []FtsoCompliantMeansNoIssue
<1>1. IInv => FtsoCompliantMeansNoIssue
  BY FtsoAlarmRight DEF FtsoCompliantMeansNoIssue
<1> QED
  BY Inductive, <1>1, PTL

\* With two votes or more of others that agree and are complete there are medians,
\* whatever the entity reveals.
LEMMA SoundMedians ==
  ASSUME ftso \in Ftso!Records, OthersSound
  PROVE  \E n \in Ftso!Feeds(Ftso!Votes) : Ftso!Voted(Ftso!Votes, n)
<1> DEFINE others == ftso.others
           votes == Ftso!Votes
           B == Seq(BOOLEAN)
           m == Len(others[1])
           count(n) == Cardinality(VotesOn(others, n))
<1>1. others \in Seq(B)
  BY VotesTyped
<1>2. /\ Len(others) > 1 /\ Len(others) \in Nat /\ DOMAIN others = 1 .. Len(others)
      /\ \A i \in DOMAIN others : others[i] = others[1]
      /\ 1 \in DOMAIN others /\ others[1] \in B
      /\ \A f \in DOMAIN others[1] : others[1][f]
  BY <1>1 DEF OthersSound
<1>3. \E k \in DOMAIN votes : votes[k] = others[1]
  <2>1. CASE votes = others
    BY <1>2, <2>1
  <2>2. CASE votes # others
    <3>1. PICK v \in B : With(v, others, votes)
      BY <2>2, VotesWith
    <3> HIDE DEF B, others, votes, count, m
    <3> QED
      BY <1>1, <1>2, <3>1, WithMeans
  <2> QED
    BY <2>1, <2>2
<1>4. Ftso!Voted(votes, m)
  <2> SUFFICES ASSUME NEW f \in 1 .. m
               PROVE  \E i \in DOMAIN votes : f <= Len(votes[i]) /\ votes[i][f]
    BY DEF Ftso!Voted
  <2>1. f <= m /\ f \in DOMAIN others[1]
    BY <1>2
  <2> HIDE DEF others, votes, B, count
  <2> QED
    BY <1>2, <1>3, <2>1
<1>5. Ftso!Prevails(votes, m)
  <2> SUFFICES ASSUME NEW j \in DOMAIN votes, Len(votes[j]) # m
               PROVE  Ftso!OfLength(votes, Len(votes[j])) < Ftso!OfLength(votes, m)
    BY DEF Ftso!Prevails
  <2>1. votes # others
    BY <1>2
  <2>2. PICK v \in B : With(v, others, votes)
    BY <2>1, VotesWith
  <2> HIDE DEF B, others, votes, m
  <2>3. \A n : Ftso!OfLength(votes, n) = count(n) + (IF Len(v) = n THEN 1 ELSE 0)
    BY <1>1, <2>2, OneMore
  <2>4. votes[j] = v \/ \E i \in DOMAIN others : votes[j] = others[i]
    BY <1>1, <2>2, WithMeans
  <2>5. votes[j] = v
    BY <1>2, <2>4 DEF m
  <2>6. VotesOn(others, Len(v)) = {} /\ VotesOn(others, m) = 1 .. Len(others)
    BY <1>2, <2>5 DEF VotesOn, m
  <2>7. count(Len(v)) = 0 /\ count(m) = Len(others)
    BY <1>2, <2>6, FS_EmptySet, FS_Interval
  <2>8. Ftso!OfLength(votes, Len(v)) = 1 /\ Ftso!OfLength(votes, m) = Len(others)
    BY <1>2, <2>3, <2>5, <2>7
  <2> QED
    BY <1>2, <2>5, <2>8
<1>6. m \in Ftso!Feeds(votes)
  BY <1>3, <1>5, FeedsMeans
<1> QED
  BY <1>4, <1>6

LEMMA OffenceIsReported == IInv => OffenceReported
<1> SUFFICES ASSUME IInv, Over, OthersSound, ~MalformedSignature, FtsoOffence \/ FdcOffence
             PROVE  \E found \in returned : \E x \in found : x.level = "CRITICAL"
  BY DEF OffenceReported
<1>1. ftso \in Ftso!Records /\ fdc \in Fdc!Records
  BY Reported
<1>2. ftsoStep # "crashed"
  <2>1. ~Ftso!Unrecoverable
    BY <1>1, FtsoWindows DEF MalformedSignature, Ftso!Unrecoverable
  <2> QED
    BY <1>1, <2>1, SoundMedians DEF IInv, MediansOfVotes
<1>3. fdcStep # "crashed"
  <2>1. \A c \in Fdc!Consensus : Len(c) = fdc.requests
    BY ConsensusFrom DEF OthersSound
  <2>2. Fdc!Readable
    BY DEF OthersSound, Fdc!Readable, Fdc!Leading
  <2>3. ~Fdc!Unrecoverable
    BY <1>1, FdcWindows DEF MalformedSignature, Fdc!Unrecoverable
  <2> QED
    BY <2>1, <2>2, <2>3 DEF IInv, RequestsAgree
<1>4. /\ returned = {ftsoIssues \cup fdcIssues}
      /\ fdcStep = "done" /\ ftsoStep = "done"
  BY <1>2, <1>3 DEF Over, IInv, OneAfterOther, FtsoDone, AllIssues
<1>5. CASE FtsoOffence
  <2>1. /\ CommitPhase(ftso.submit1) # {}
        /\ \A c \in CommitPhase(ftso.submit1), r \in RevealPhase(ftso.submit2) : c.hash # r.hash
    BY <1>5 DEF FtsoOffence
  <2>2. \E x \in ftsoIssues : x.level = "CRITICAL"
    BY <1>4, <2>1, FtsoCriticalRight, FtsoReads DEF Ftso!CriticalMeansRevealOffence
  <2> QED
    BY <1>4, <2>2
<1>6. CASE FdcOffence
  <2>1. /\ ~Fdc!NoConsensus /\ RevealPhase(fdc.submit2) # {}
        /\ \A x \in RevealPhase(fdc.submit2) :
             /\ Len(x.bits) = fdc.requests
             /\ \A i \in DOMAIN fdc.tally, n \in 1 .. fdc.requests :
                  fdc.tally[i].bits[n] => x.bits[n]
        /\ SigningPhase(fdc.signatures) = {}
    BY <1>6 DEF FdcOffence
  <2>2. Fdc!Signature = {}
    BY <1>1, <2>1, FdcWindows
  <2>3. PICK x \in Fdc!Submit2 : x \in RevealPhase(fdc.submit2)
    BY <1>1, <2>1, FdcWindows
  <2>4. PICK i \in DOMAIN fdc.tally : fdc.tally[i].bits \in Fdc!Consensus
    BY <1>1, <2>1, ConsensusExists
  <2> DEFINE c == fdc.tally[i].bits
  <2>5. c \in Seq(BOOLEAN) /\ Len(c) = fdc.requests
    BY <1>1, <2>4, TallyTyped DEF OthersSound
  <2>6. DOMAIN c = 1 .. fdc.requests
    BY <2>5
  <2>7. Fdc!Dominates(x.bits, c)
    BY <2>1, <2>3, <2>6 DEF Fdc!Dominates
  <2>8. Len(x.bits) = Len(c)
    BY <2>1, <2>3, <2>5
  <2>9. Fdc!RevealOffence
    BY <2>2, <2>4, <2>7, <2>8 DEF Fdc!RevealOffence
  <2>10. \E y \in fdcIssues : y.level = "CRITICAL"
    BY <1>4, <2>1, <2>9, FdcCritical, Reported DEF Critical
  <2> QED
    BY <1>4, <2>10
<1> QED
  BY <1>5, <1>6

\* With sound votes of the others, and unless the entity signed with what no key can be
\* recovered of, a reveal offence in one protocol is among what the validation of the
\* round returns, whatever else the entity did in the other.
THEOREM OffenceFound == Spec => []OffenceReported
  BY Inductive, OffenceIsReported, PTL

=============================================================================
