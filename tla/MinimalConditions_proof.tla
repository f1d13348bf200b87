---------------------- MODULE MinimalConditions_proof ----------------------
(***************************************************************************)
(* Proofs about MinimalConditions: the rates the check compares with its   *)
(* thresholds are those of the last rounds and the last answers, for any   *)
(* rounds, nodes, windows and batches; and the two conditions sampled per  *)
(* round implement RollingRate.                                            *)
(*                                                                         *)
(* The program keeps what it needs of a round in three deques and what it  *)
(* needs of an answer in one for each node and a counter. The invariant    *)
(* says what they hold of the rounds and the answers: the three deques are *)
(* aligned with the rounds, and the deque of a node ends with the answers  *)
(* of as long as it has been in all of them.                               *)
(***************************************************************************)
EXTENDS MinimalConditions, FiniteSetTheorems, SequenceTheorems, TLAPS

\* What finalize has returned of a round is at the same place in all deques.
Aligned ==
  /\ Len(medians) = Len(closed) /\ Len(entity_votes) = Len(closed)
  /\ Len(signatures) = Len(closed)
  /\ \A i \in 1 .. Len(closed) :
       /\ medians[i] = closed[i].medians /\ entity_votes[i] = closed[i].votes
       /\ signatures[i] = closed[i].signed

\* The answers are counted up to the number the deques have room for.
Answered ==
  /\ uptime_validations = Len(pings)
  /\ \A n \in Nodes : Len(node_connections[n]) <= Len(pings)

\* The deque of a node ends with the answers since the last it was missing from.
Trailing ==
  \A n \in Nodes : \A k \in 0 .. Len(pings) - 1 :
    (\A j \in 0 .. k : n \in DOMAIN pings[Len(pings) - j]) =>
      /\ k < Len(node_connections[n])
      /\ node_connections[n][Len(node_connections[n]) - k] = pings[Len(pings) - k][n]

IInv == TypeOK /\ Aligned /\ Answered /\ Trailing

-----------------------------------------------------------------------------
(***************************************************************************)
(* Deques.                                                                 *)
(***************************************************************************)
LEMMA UpToMeans ==
  ASSUME NEW S, NEW n \in Nat, NEW q
  PROVE  q \in SeqUpTo(S, n) <=> q \in Seq(S) /\ Len(q) <= n
<1>1. ASSUME q \in SeqUpTo(S, n) PROVE q \in Seq(S) /\ Len(q) <= n
  <2>1. PICK m \in 0 .. n : q \in [1 .. m -> S]
    BY <1>1 DEF SeqUpTo
  <2>2. m \in Nat /\ m <= n
    BY <2>1
  <2>3. q \in Seq(S) /\ Len(q) = m
    BY <2>1, <2>2
  <2> QED
    BY <2>2, <2>3
<1>2. ASSUME q \in Seq(S), Len(q) <= n PROVE q \in SeqUpTo(S, n)
  <2>1. Len(q) \in 0 .. n /\ q \in [1 .. Len(q) -> S]
    BY <1>2, LenProperties
  <2> QED
    BY <2>1 DEF SeqUpTo
<1> QED
  BY <1>1, <1>2

\* A deque keeps the newest elements, up to its bound.
Kept(s, max) == IF Len(s) <= max THEN Len(s) ELSE max

LEMMA LastMeans ==
  ASSUME NEW S, NEW s \in Seq(S), NEW max \in Nat
  PROVE  /\ LastOf(s, max) \in Seq(S)
         /\ Len(LastOf(s, max)) = Kept(s, max)
         /\ \A i \in 1 .. Kept(s, max) : LastOf(s, max)[i] = s[Len(s) - Kept(s, max) + i]
<1>1. Len(s) \in Nat
  OBVIOUS
<1>2. CASE Len(s) <= max
  <2>1. LastOf(s, max) = s /\ Kept(s, max) = Len(s)
    BY <1>2 DEF LastOf, Kept
  <2>2. \A i \in 1 .. Len(s) : Len(s) - Len(s) + i = i
    BY <1>1
  <2> QED
    BY <1>1, <2>1, <2>2
<1>3. CASE ~(Len(s) <= max)
  <2> DEFINE m == Len(s) - max + 1
  <2>1. LastOf(s, max) = SubSeq(s, m, Len(s)) /\ Kept(s, max) = max
    BY <1>3 DEF LastOf, Kept
  <2>2. m \in Int /\ m >= 1 /\ Len(s) - m + 1 = max
    BY <1>1, <1>3
  <2>3. \A i \in m .. Len(s) : s[i] \in S
    BY <1>1, <2>2
  <2>4. /\ SubSeq(s, m, Len(s)) \in Seq(S)
        /\ Len(SubSeq(s, m, Len(s))) = IF m <= Len(s) THEN Len(s) - m + 1 ELSE 0
        /\ \A i \in 1 .. Len(s) - m + 1 : SubSeq(s, m, Len(s))[i] = s[m + i - 1]
    <3> HIDE DEF m
    <3> QED
      BY <1>1, <2>2, <2>3, SubSeqProperties
  <2>5. Len(LastOf(s, max)) = max
    BY <1>1, <1>3, <2>1, <2>2, <2>4
  <2>6. \A i \in 1 .. max : m + i - 1 = Len(s) - max + i
    BY <1>1
  <2> HIDE DEF m
  <2> QED
    BY <2>1, <2>2, <2>4, <2>5, <2>6
<1> QED
  BY <1>2, <1>3

\* The k-th of q and then new.
At(q, new, k) == IF k <= Len(q) THEN q[k] ELSE new[k - Len(q)]

\* r is a sequence of the newest of q and then new, as many as there is room for.
Newest(S, q, new, max, r) ==
  /\ r \in Seq(S)
  /\ Len(r) = IF Len(q) + Len(new) <= max THEN Len(q) + Len(new) ELSE max
  /\ \A i \in 1 .. Len(r) : r[i] = At(q, new, Len(q) + Len(new) - Len(r) + i)

LEMMA ExtendMeans ==
  ASSUME NEW S, NEW q \in Seq(S), NEW new \in Seq(S), NEW max \in Nat
  PROVE  Newest(S, q, new, max, Extend(q, new, max))
<1> DEFINE all == q \o new
           r == Extend(q, new, max)
<1>1. /\ all \in Seq(S) /\ Len(all) = Len(q) + Len(new)
      /\ \A i \in 1 .. Len(q) + Len(new) : all[i] = At(q, new, i)
  BY ConcatProperties DEF At
<1>2. Len(q) \in Nat /\ Len(new) \in Nat
  OBVIOUS
<1>3. r = LastOf(all, max)
  BY DEF Extend
<1> HIDE DEF all, r
<1>4. /\ r \in Seq(S) /\ Len(r) = Kept(all, max)
      /\ \A i \in 1 .. Kept(all, max) : r[i] = all[Len(all) - Kept(all, max) + i]
  <2>1. all \in Seq(S)
    BY <1>1
  <2>2. /\ LastOf(all, max) \in Seq(S) /\ Len(LastOf(all, max)) = Kept(all, max)
        /\ \A i \in 1 .. Kept(all, max) :
             LastOf(all, max)[i] = all[Len(all) - Kept(all, max) + i]
    BY <2>1, LastMeans
  <2> QED
    BY <1>3, <2>2, Zenon
<1>5. Len(r) = IF Len(q) + Len(new) <= max THEN Len(q) + Len(new) ELSE max
  BY <1>1, <1>4 DEF Kept
<1>6. Len(r) \in 0 .. Len(all)
  BY <1>1, <1>2, <1>5
<1>7. \A i \in 1 .. Len(r) : Len(all) - Len(r) + i \in 1 .. Len(q) + Len(new)
  BY <1>1, <1>2, <1>6
<1>8. \A i \in 1 .. Len(r) : r[i] = At(q, new, Len(q) + Len(new) - Len(r) + i)
  BY <1>1, <1>4, <1>7
<1> QED
  BY <1>4, <1>5, <1>8 DEF Newest, r

\* r is q with x at its end, seen from the newest on.
Grown(S, q, x, max, r) ==
  /\ r \in Seq(S)
  /\ Len(r) = IF Len(q) < max THEN Len(q) + 1 ELSE max
  /\ r[Len(r)] = x
  /\ \A k \in 1 .. Len(r) - 1 : r[Len(r) - k] = q[Len(q) - (k - 1)]

LEMMA OneMoreAtEnd ==
  ASSUME NEW S, NEW q \in Seq(S), NEW x \in S, NEW max \in Nat \ {0},
         NEW r, r = Extend(q, <<x>>, max) \/ r = LastOf(Append(q, x), max)
  PROVE  Grown(S, q, x, max, r)
<1> DEFINE s == Append(q, x)
<1>1. /\ s \in Seq(S) /\ Len(s) = Len(q) + 1
      /\ \A i \in 1 .. Len(q) : s[i] = q[i]
      /\ s[Len(q) + 1] = x
  BY AppendProperties
<1>2. q \o <<x>> = s
  OBVIOUS
<1>3. r = LastOf(s, max)
  BY <1>2 DEF Extend
<1>4. Len(q) \in Nat
  OBVIOUS
<1> HIDE DEF s
<1>5. /\ r \in Seq(S) /\ Len(r) = Kept(s, max)
      /\ \A i \in 1 .. Kept(s, max) : r[i] = s[Len(s) - Kept(s, max) + i]
  BY <1>1, <1>3, LastMeans
<1>6. Len(r) = IF Len(q) < max THEN Len(q) + 1 ELSE max
  BY <1>1, <1>4, <1>5 DEF Kept
<1>7. Len(r) \in 1 .. Len(q) + 1 /\ Len(r) \in Nat
  BY <1>4, <1>6
<1>8. \A i \in 1 .. Len(r) : r[i] = s[Len(s) - Len(r) + i]
  BY <1>5
<1>9. r[Len(r)] = x
  <2>1. Len(r) \in 1 .. Len(r) /\ Len(s) - Len(r) + Len(r) = Len(q) + 1
    BY <1>1, <1>4, <1>7
  <2> QED
    BY <1>1, <1>8, <2>1
<1>10. ASSUME NEW k \in 1 .. Len(r) - 1 PROVE r[Len(r) - k] = q[Len(q) - (k - 1)]
  <2>1. /\ Len(r) - k \in 1 .. Len(r)
        /\ Len(s) - Len(r) + (Len(r) - k) = Len(q) - (k - 1)
        /\ Len(q) - (k - 1) \in 1 .. Len(q)
    BY <1>1, <1>4, <1>7
  <2> QED
    BY <1>1, <1>8, <2>1
<1> QED
  BY <1>5, <1>6, <1>9, <1>10 DEF Grown

-----------------------------------------------------------------------------
(***************************************************************************)
(* The invariant is inductive.                                             *)
(***************************************************************************)
Medians == {r.medians : r \in Rounds}
Votes == {r.votes : r \in Rounds}

\* The deques are sequences no longer than their bounds.
LEMMA Deques ==
  ASSUME TypeOK
  PROVE  /\ medians \in Seq(Medians) /\ Len(medians) <= Window
         /\ entity_votes \in Seq(Votes) /\ Len(entity_votes) <= Window
         /\ signatures \in Seq(BOOLEAN) /\ Len(signatures) <= Window
         /\ closed \in Seq(Rounds) /\ Len(closed) <= Window
         /\ pings \in Seq(Answers(Nodes)) /\ Len(pings) <= Checks
         /\ \A n \in Nodes :
              node_connections[n] \in Seq(BOOLEAN) /\ Len(node_connections[n]) <= Checks
<1>1. Window \in Nat /\ Checks \in Nat
  BY SizeAssumption
<1>2. medians \in SeqUpTo(Medians, Window) /\ entity_votes \in SeqUpTo(Votes, Window)
  BY DEF TypeOK, Medians, Votes
<1>3. /\ signatures \in SeqUpTo(BOOLEAN, Window) /\ closed \in SeqUpTo(Rounds, Window)
      /\ pings \in SeqUpTo(Answers(Nodes), Checks)
  BY DEF TypeOK
<1>4. \A n \in Nodes : node_connections[n] \in SeqUpTo(BOOLEAN, Checks)
  BY DEF TypeOK
<1> QED
  BY <1>1, <1>2, <1>3, <1>4, UpToMeans

LEMMA EmptyDeque == ASSUME NEW S, NEW n \in Nat, NEW q, q = <<>> PROVE q \in SeqUpTo(S, n)
<1>1. q \in Seq(S) /\ Len(q) = 0
  OBVIOUS
<1>2. Len(q) <= n
  BY <1>1
<1>3. q \in SeqUpTo(S, n) <=> q \in Seq(S) /\ Len(q) <= n
  BY UpToMeans
<1> QED
  BY <1>1, <1>2, <1>3

\* A state with nothing in it, that of a process that begins.
LEMMA NothingKept ==
  ASSUME phase = "switch", nodes \in NodeSets,
         medians = <<>>, entity_votes = <<>>, signatures = <<>>,
         node_connections = [n \in Nodes |-> <<>>], uptime_validations = 0,
         min_cond_messages = NoWarning, fresh = FALSE, pings = <<>>, closed = <<>>
  PROVE  IInv
<1>1. Window \in Nat /\ Checks \in Nat
  BY SizeAssumption
<1>2. /\ medians \in SeqUpTo({r.medians : r \in Rounds}, Window)
      /\ entity_votes \in SeqUpTo({r.votes : r \in Rounds}, Window)
      /\ signatures \in SeqUpTo(BOOLEAN, Window)
      /\ closed \in SeqUpTo(Rounds, Window) /\ pings \in SeqUpTo(Answers(Nodes), Checks)
  BY <1>1, EmptyDeque
<1>3. node_connections \in [Nodes -> SeqUpTo(BOOLEAN, Checks)]
  <2> DEFINE Deque == SeqUpTo(BOOLEAN, Checks)
  <2>1. <<>> \in Deque
    BY <1>1, EmptyDeque
  <2> HIDE DEF Deque
  <2>2. [n \in Nodes |-> <<>>] \in [Nodes -> Deque]
    BY <2>1
  <2> QED
    BY <2>2 DEF Deque
<1>4. min_cond_messages \in [ftso : BOOLEAN, fdc : BOOLEAN, staking : SUBSET Nodes]
  BY DEF NoWarning
<1>5. phase \in Phases /\ uptime_validations \in 0 .. Checks /\ fresh \in BOOLEAN
  <2>1. 0 \in 0 .. Checks
    BY <1>1
  <2> QED
    BY <2>1, Zenon DEF Phases
<1>11. TypeOK
  BY <1>2, <1>3, <1>4, <1>5, Zenon DEF TypeOK
<1>6. Len(pings) = 0 /\ Len(closed) = 0
  OBVIOUS
<1>7. Aligned
  BY <1>6 DEF Aligned
<1>8. \A n \in Nodes : Len(node_connections[n]) = 0
  OBVIOUS
<1>9. Answered
  BY <1>6, <1>8 DEF Answered
<1>10. Trailing
  BY <1>6 DEF Trailing
<1> QED
  BY <1>7, <1>9, <1>10, <1>11 DEF IInv

\* The messages of a check.
LEMMA Messages ==
  [ftso |-> CalculateFtsoAnchorFeeds, fdc |-> CalculateFdcParticipation,
   staking |-> CalculateStaking] \in [ftso : BOOLEAN, fdc : BOOLEAN, staking : SUBSET Nodes]
<1>1. CalculateFtsoAnchorFeeds \in BOOLEAN
  BY DEF CalculateFtsoAnchorFeeds, Below
<1>2. CalculateFdcParticipation \in BOOLEAN
  BY DEF CalculateFdcParticipation, Below
<1>3. CalculateStaking \subseteq Nodes
  BY DEF CalculateStaking
<1> QED
  BY <1>1, <1>2, <1>3

\* After finalize with this batch, next has the parts of the same rounds as now, in
\* the same places.
SameRounds(S, q, part, batch, next, now) ==
  /\ now \in Seq(Rounds) /\ Len(now) \in 0 .. Len(closed) + Len(batch)
  /\ Len(now) = IF Len(closed) + Len(batch) <= Window THEN Len(closed) + Len(batch) ELSE Window
  /\ next \in SeqUpTo(S, Window) /\ Len(next) = Len(now)
  /\ \A i \in 1 .. Len(now) :
       /\ next[i] = At(q, part, Len(closed) + Len(batch) - Len(now) + i)
       /\ now[i] = At(closed, batch, Len(closed) + Len(batch) - Len(now) + i)

LEMMA FinalizeMeans ==
  ASSUME TypeOK, NEW batch \in SeqUpTo(Rounds, MaxBatch),
         NEW S, NEW q \in Seq(S), Len(q) = Len(closed),
         NEW part \in Seq(S), Len(part) = Len(batch),
         NEW now, now = Extend(closed, batch, Window),
         NEW next, next = Extend(q, part, Window)
  PROVE  SameRounds(S, q, part, batch, next, now)
<1>1. Window \in Nat /\ MaxBatch \in Nat
  BY SizeAssumption
<1>2. batch \in Seq(Rounds) /\ Len(batch) <= MaxBatch
  BY <1>1, UpToMeans
<1>3. closed \in Seq(Rounds)
  BY Deques
<1>4. Len(batch) \in Nat /\ Len(closed) \in Nat
  BY <1>2, <1>3
<1>5. /\ now \in Seq(Rounds)
      /\ Len(now) = IF Len(closed) + Len(batch) <= Window THEN Len(closed) + Len(batch) ELSE Window
      /\ \A i \in 1 .. Len(now) : now[i] = At(closed, batch, Len(closed) + Len(batch) - Len(now) + i)
  <2>1. Newest(Rounds, closed, batch, Window, now)
    BY <1>1, <1>2, <1>3, ExtendMeans
  <2> QED
    BY <2>1 DEF Newest
<1>6. /\ next \in Seq(S)
      /\ Len(next) = IF Len(q) + Len(part) <= Window THEN Len(q) + Len(part) ELSE Window
      /\ \A i \in 1 .. Len(next) : next[i] = At(q, part, Len(q) + Len(part) - Len(next) + i)
  <2>1. Newest(S, q, part, Window, next)
    BY <1>1, ExtendMeans
  <2> QED
    BY <2>1 DEF Newest
<1>7. Len(next) = Len(now)
  BY <1>5, <1>6
<1>8. Len(now) \in 0 .. Len(closed) + Len(batch) /\ Len(now) <= Window
  BY <1>1, <1>4, <1>5
<1>9. next \in SeqUpTo(S, Window)
  <2>1. next \in SeqUpTo(S, Window) <=> next \in Seq(S) /\ Len(next) <= Window
    BY <1>1, UpToMeans
  <2> QED
    BY <1>6, <1>7, <1>8, <2>1
<1> QED
  <2>1. ASSUME NEW i \in 1 .. Len(now)
        PROVE  /\ next[i] = At(q, part, Len(closed) + Len(batch) - Len(now) + i)
               /\ now[i] = At(closed, batch, Len(closed) + Len(batch) - Len(now) + i)
    BY <1>5, <1>6, <1>7
  <2> QED
    BY <1>5, <1>7, <1>8, <1>9, <2>1 DEF SameRounds

\* A batch of rounds.
LEMMA FinalizeKeeps ==
  ASSUME IInv, NEW batch \in SeqUpTo(Rounds, MaxBatch), Finalize(batch)
  PROVE  IInv'
<1> DEFINE meds == [i \in DOMAIN batch |-> batch[i].medians]
           votes == [i \in DOMAIN batch |-> batch[i].votes]
           signed == [i \in DOMAIN batch |-> batch[i].signed]
           all == Len(closed) + Len(batch)
<1>1. Window \in Nat /\ MaxBatch \in Nat
  BY SizeAssumption
<1>2. batch \in Seq(Rounds)
  BY <1>1, UpToMeans
<1>3. Len(batch) \in Nat /\ DOMAIN batch = 1 .. Len(batch) /\ \A i \in 1 .. Len(batch) : batch[i] \in Rounds
  BY <1>2
<1>4. \A r \in Rounds : r.medians \in Medians /\ r.votes \in Votes /\ r.signed \in BOOLEAN
  BY RoundAssumption DEF Medians, Votes
<1>5. /\ meds \in Seq(Medians) /\ Len(meds) = Len(batch)
      /\ votes \in Seq(Votes) /\ Len(votes) = Len(batch)
      /\ signed \in Seq(BOOLEAN) /\ Len(signed) = Len(batch)
  <2> DEFINE n == Len(batch)
  <2>1. /\ \A i \in 1 .. n : batch[i].medians \in Medians
        /\ \A i \in 1 .. n : batch[i].votes \in Votes
        /\ \A i \in 1 .. n : batch[i].signed \in BOOLEAN
    BY <1>3, <1>4
  <2>2. n \in Nat /\ DOMAIN batch = 1 .. n
    BY <1>3
  <2> HIDE DEF n
  <2>3. meds \in [1 .. n -> Medians] /\ votes \in [1 .. n -> Votes] /\ signed \in [1 .. n -> BOOLEAN]
    BY <2>1, <2>2
  <2> HIDE DEF meds, votes, signed
  <2>4. /\ meds \in Seq(Medians) /\ Len(meds) = n
        /\ votes \in Seq(Votes) /\ Len(votes) = n
        /\ signed \in Seq(BOOLEAN) /\ Len(signed) = n
    BY <2>2, <2>3
  <2> QED
    BY <2>4 DEF n
<1>6. /\ medians \in Seq(Medians) /\ entity_votes \in Seq(Votes) /\ signatures \in Seq(BOOLEAN)
      /\ closed \in Seq(Rounds)
      /\ Len(medians) = Len(closed) /\ Len(entity_votes) = Len(closed) /\ Len(signatures) = Len(closed)
  BY Deques DEF IInv, Aligned
<1>7. TypeOK
  BY DEF IInv
<1>8. \A i \in 1 .. Len(batch) :
        meds[i] = batch[i].medians /\ votes[i] = batch[i].votes /\ signed[i] = batch[i].signed
  BY <1>3
<1>9. /\ medians' = Extend(medians, meds, Window)
      /\ entity_votes' = Extend(entity_votes, votes, Window)
      /\ signatures' = Extend(signatures, signed, Window)
      /\ closed' = Extend(closed, batch, Window)
  BY DEF Finalize, VotesOf, SignaturesOf, Extend
<1> HIDE DEF meds, votes, signed
<1>10. /\ SameRounds(Medians, medians, meds, batch, medians', closed')
       /\ SameRounds(Votes, entity_votes, votes, batch, entity_votes', closed')
       /\ SameRounds(BOOLEAN, signatures, signed, batch, signatures', closed')
  BY <1>5, <1>6, <1>7, <1>9, FinalizeMeans
<1>11. /\ closed' \in Seq(Rounds) /\ Len(closed') \in 0 .. all
       /\ medians' \in SeqUpTo(Medians, Window) /\ Len(medians') = Len(closed')
       /\ entity_votes' \in SeqUpTo(Votes, Window) /\ Len(entity_votes') = Len(closed')
       /\ signatures' \in SeqUpTo(BOOLEAN, Window) /\ Len(signatures') = Len(closed')
  BY <1>10 DEF SameRounds
<1>12. \A i \in 1 .. Len(closed') :
         LET k == all - Len(closed') + i
         IN /\ medians'[i] = At(medians, meds, k) /\ entity_votes'[i] = At(entity_votes, votes, k)
            /\ signatures'[i] = At(signatures, signed, k) /\ closed'[i] = At(closed, batch, k)
  BY <1>10 DEF SameRounds
<1>13. closed' \in SeqUpTo(Rounds, Window)
  <2>1. Len(closed') <= Window
    BY <1>1, <1>11, UpToMeans
  <2> QED
    BY <1>1, <1>11, <2>1, UpToMeans
<1>14. TypeOK'
  <2>1. phase' \in Phases /\ fresh' \in BOOLEAN
    BY <1>7 DEF Finalize, Phases, TypeOK
  <2> QED
    BY <1>7, <1>11, <1>13, <2>1 DEF TypeOK, Finalize, pingVars, Medians, Votes
<1>15. Aligned'
  <2>1. ASSUME NEW i \in 1 .. Len(closed')
        PROVE  /\ medians'[i] = closed'[i].medians /\ entity_votes'[i] = closed'[i].votes
               /\ signatures'[i] = closed'[i].signed
    <3> DEFINE k == all - Len(closed') + i
    <3>1. /\ Len(closed) \in Nat /\ k \in 1 .. all
          /\ k <= Len(closed) => k \in 1 .. Len(closed)
          /\ ~(k <= Len(closed)) => k - Len(closed) \in 1 .. Len(batch)
      BY <1>3, <1>6, <1>11
    <3>2. /\ medians'[i] = At(medians, meds, k) /\ entity_votes'[i] = At(entity_votes, votes, k)
          /\ signatures'[i] = At(signatures, signed, k) /\ closed'[i] = At(closed, batch, k)
      BY <1>12
    <3> HIDE DEF k
    <3>3. CASE k <= Len(closed)
      BY <1>6, <3>1, <3>2, <3>3 DEF At, IInv, Aligned
    <3>4. CASE ~(k <= Len(closed))
      BY <1>6, <1>8, <3>1, <3>2, <3>4 DEF At
    <3> QED
      BY <3>3, <3>4
  <2> QED
    BY <1>11, <2>1 DEF Aligned
<1>16. Answered' /\ Trailing'
  BY DEF IInv, Answered, Trailing, Finalize, pingVars
<1> QED
  BY <1>14, <1>15, <1>16 DEF IInv

\* An answer to the ping: a deque of a node that is in it grows by it at its end, as
\* the answers do, and the others stay.
LEMMA PingKeeps ==
  ASSUME IInv, NEW answer \in Answers(nodes), Ping(answer)
  PROVE  IInv'
<1>1. Checks \in Nat \ {0} /\ Window \in Nat
  BY SizeAssumption
<1>2. TypeOK /\ nodes \subseteq Nodes
  BY NodeAssumption DEF IInv, TypeOK
<1>3. answer \in Answers(Nodes) /\ DOMAIN answer \subseteq Nodes
      /\ \A n \in DOMAIN answer : answer[n] \in BOOLEAN
  <2>1. PICK S \in SUBSET nodes : answer \in [S -> BOOLEAN]
    BY DEF Answers
  <2>2. S \in SUBSET Nodes
    BY <1>2, <2>1
  <2> QED
    BY <2>1, <2>2 DEF Answers
<1>4. pings \in Seq(Answers(Nodes)) /\ Len(pings) <= Checks /\ Len(pings) \in Nat
  BY <1>2, Deques
<1>5. \A n \in Nodes : node_connections[n] \in Seq(BOOLEAN) /\ Len(node_connections[n]) \in Nat
  BY <1>2, Deques
<1>6. /\ uptime_validations = Len(pings)
      /\ \A n \in Nodes : Len(node_connections[n]) <= Len(pings)
  BY DEF IInv, Answered
<1>7. /\ pings' \in Seq(Answers(Nodes))
      /\ Len(pings') = IF Len(pings) < Checks THEN Len(pings) + 1 ELSE Checks
      /\ pings'[Len(pings')] = answer
      /\ \A k \in 1 .. Len(pings') - 1 : pings'[Len(pings') - k] = pings[Len(pings) - (k - 1)]
  <2>1. pings' = LastOf(Append(pings, answer), Checks)
    BY DEF Ping
  <2>2. Grown(Answers(Nodes), pings, answer, Checks, pings')
    BY <1>1, <1>3, <1>4, <2>1, OneMoreAtEnd
  <2> QED
    BY <2>2 DEF Grown
<1>8. Len(pings') \in Nat /\ Len(pings') <= Checks /\ Len(pings') <= Len(pings) + 1 /\ Len(pings') >= 1
      /\ Len(pings') >= Len(pings)
  BY <1>1, <1>4, <1>7
<1>9. node_connections' = [n \in Nodes |-> IF n \in DOMAIN answer
                                           THEN Extend(node_connections[n], <<answer[n]>>, Checks)
                                           ELSE node_connections[n]]
  BY DEF Ping
\* The deque of a node in the answer.
<1>10. ASSUME NEW n \in DOMAIN answer
       PROVE  /\ node_connections'[n] \in Seq(BOOLEAN)
              /\ Len(node_connections'[n]) = IF Len(node_connections[n]) < Checks
                                             THEN Len(node_connections[n]) + 1 ELSE Checks
              /\ node_connections'[n][Len(node_connections'[n])] = answer[n]
              /\ \A k \in 1 .. Len(node_connections'[n]) - 1 :
                   node_connections'[n][Len(node_connections'[n]) - k] =
                     node_connections[n][Len(node_connections[n]) - (k - 1)]
  <2>1. n \in Nodes /\ answer[n] \in BOOLEAN
    BY <1>3
  <2>2. node_connections[n] \in Seq(BOOLEAN)
    BY <1>5, <2>1
  <2>3. node_connections'[n] = Extend(node_connections[n], <<answer[n]>>, Checks)
    BY <1>9, <2>1
  <2>4. Grown(BOOLEAN, node_connections[n], answer[n], Checks, node_connections'[n])
    BY <1>1, <2>1, <2>2, <2>3, OneMoreAtEnd
  <2> QED
    BY <2>4 DEF Grown
<1>11. \A n \in Nodes \ DOMAIN answer : node_connections'[n] = node_connections[n]
  BY <1>9
<1>12. ASSUME NEW n \in Nodes
       PROVE  /\ node_connections'[n] \in Seq(BOOLEAN)
              /\ Len(node_connections'[n]) \in Nat /\ Len(node_connections'[n]) <= Len(pings')
  <2>1. CASE n \in DOMAIN answer
    <3>1. Len(node_connections[n]) \in Nat /\ Len(node_connections[n]) <= Len(pings)
      BY <1>5, <1>6
    <3> QED
      BY <1>1, <1>4, <1>7, <1>10, <2>1, <3>1
  <2>2. CASE n \notin DOMAIN answer
    BY <1>4, <1>5, <1>6, <1>8, <1>11, <2>2
  <2> QED
    BY <2>1, <2>2
<1>13. TypeOK'
  <2>1. phase' \in Phases
    BY DEF Ping, Phases
  <2>2. uptime_validations' = Len(pings')
    BY <1>1, <1>4, <1>6, <1>7 DEF Ping, Counted
  <2>3. uptime_validations' \in 0 .. Checks
    BY <1>1, <1>8, <2>2
  <2>4. pings' \in SeqUpTo(Answers(Nodes), Checks)
    BY <1>1, <1>7, <1>8, UpToMeans
  <2>5. node_connections' \in [Nodes -> SeqUpTo(BOOLEAN, Checks)]
    <3>1. \A n \in Nodes : node_connections'[n] \in SeqUpTo(BOOLEAN, Checks)
      <4>1. ASSUME NEW n \in Nodes PROVE node_connections'[n] \in SeqUpTo(BOOLEAN, Checks)
        <5>1. Len(node_connections'[n]) <= Checks /\ node_connections'[n] \in Seq(BOOLEAN)
          BY <1>1, <1>8, <1>12
        <5> QED
          BY <1>1, <5>1, UpToMeans
      <4> QED
        BY <4>1
    <3>2. DOMAIN node_connections' = Nodes /\ node_connections' = [n \in Nodes |-> node_connections'[n]]
      BY <1>9
    <3> DEFINE Deque == SeqUpTo(BOOLEAN, Checks)
    <3> HIDE DEF Deque
    <3>3. \A n \in Nodes : node_connections'[n] \in Deque
      BY <3>1 DEF Deque
    <3>4. node_connections' \in [Nodes -> Deque]
      BY <3>2, <3>3
    <3> QED
      BY <3>4 DEF Deque
  <2> QED
    BY <1>2, <2>1, <2>3, <2>4, <2>5 DEF TypeOK, Ping, roundVars, reportVars
<1>14. Answered'
  <2>1. uptime_validations' = Len(pings')
    BY <1>1, <1>4, <1>6, <1>7 DEF Ping, Counted
  <2> QED
    BY <1>12, <2>1 DEF Answered
<1>15. Trailing'
  <2> SUFFICES ASSUME NEW n \in Nodes, NEW k \in 0 .. Len(pings') - 1,
                      \A j \in 0 .. k : n \in DOMAIN pings'[Len(pings') - j]
               PROVE  /\ k < Len(node_connections'[n])
                      /\ node_connections'[n][Len(node_connections'[n]) - k] = pings'[Len(pings') - k][n]
    BY DEF Trailing
  <2>1. n \in DOMAIN answer
    <3>1. 0 \in 0 .. k /\ Len(pings') - 0 = Len(pings')
      BY <1>8
    <3> QED
      BY <1>7, <3>1
  <2>2. Len(node_connections[n]) \in Nat /\ Len(node_connections[n]) <= Len(pings)
    BY <1>5, <1>6
  <2>3. Len(node_connections'[n]) \in Nat /\ Len(node_connections'[n]) >= 1
    BY <1>1, <1>10, <2>1, <2>2
  <2>4. CASE k = 0
    <3>1. Len(node_connections'[n]) - k = Len(node_connections'[n]) /\ Len(pings') - k = Len(pings')
      BY <1>8, <2>3, <2>4
    <3> QED
      BY <1>7, <1>10, <2>1, <2>3, <2>4, <3>1
  <2>5. CASE k # 0
    <3>1. k - 1 \in 0 .. Len(pings) - 1 /\ k \in 1 .. Len(pings') - 1 /\ k \in Nat
      BY <1>4, <1>8, <2>5
    <3>2. \A j \in 0 .. k - 1 : n \in DOMAIN pings[Len(pings) - j]
      <4>1. ASSUME NEW j \in 0 .. k - 1 PROVE n \in DOMAIN pings[Len(pings) - j]
        <5>1. j + 1 \in 0 .. k /\ j + 1 \in 1 .. Len(pings') - 1 /\ (j + 1) - 1 = j
          BY <1>8, <3>1
        <5> QED
          BY <1>7, <5>1
      <4> QED
        BY <4>1
    <3>3. /\ k - 1 < Len(node_connections[n])
          /\ node_connections[n][Len(node_connections[n]) - (k - 1)] = pings[Len(pings) - (k - 1)][n]
      BY <3>1, <3>2 DEF IInv, Trailing
    <3>4. k < Len(node_connections'[n]) /\ k \in 1 .. Len(node_connections'[n]) - 1
      <4>1. k < Checks
        BY <1>1, <1>8, <3>1
      <4>2. Len(node_connections'[n]) = IF Len(node_connections[n]) < Checks
                                       THEN Len(node_connections[n]) + 1 ELSE Checks
        BY <1>10, <2>1
      <4>3. k < Len(node_connections'[n])
        BY <1>1, <2>2, <3>1, <3>3, <4>1, <4>2
      <4> QED
        BY <2>3, <3>1, <4>3
    <3> QED
      BY <1>7, <1>10, <2>1, <3>1, <3>3, <3>4
  <2> QED
    BY <2>4, <2>5
<1>16. Aligned'
  BY DEF IInv, Aligned, Ping, roundVars
<1> QED
  BY <1>13, <1>14, <1>15, <1>16 DEF IInv

\* Nothing that the invariant is about changes.
LEMMA QuietKeeps ==
  ASSUME IInv, phase' \in Phases, nodes' \in NodeSets, fresh' \in BOOLEAN,
         min_cond_messages' \in [ftso : BOOLEAN, fdc : BOOLEAN, staking : SUBSET Nodes],
         UNCHANGED <<medians, entity_votes, signatures, closed, pingVars>>
  PROVE  IInv'
<1>1. TypeOK'
  BY DEF IInv, TypeOK, pingVars
<1>2. Aligned' /\ Answered' /\ Trailing'
  BY DEF IInv, Aligned, Answered, Trailing, pingVars
<1> QED
  BY <1>1, <1>2 DEF IInv

LEMMA InitHolds == Init => IInv
<1> SUFFICES ASSUME Init PROVE IInv
  OBVIOUS
<1> QED
  BY NothingKept DEF Init

\* The same of the state after a step.
LEMMA BegunAgain == Init' => IInv'
<1> QED
  BY InitHolds, PTL

LEMMA NextKeeps == IInv /\ [Next]_vars => IInv'
<1> SUFFICES ASSUME IInv, [Next]_vars PROVE IInv'
  OBVIOUS
<1>1. /\ phase \in Phases /\ nodes \in NodeSets /\ fresh \in BOOLEAN
      /\ min_cond_messages \in [ftso : BOOLEAN, fdc : BOOLEAN, staking : SUBSET Nodes]
  BY DEF IInv, TypeOK
<1>2. {"switch", "check", "ping", "finalize"} \subseteq Phases
  BY DEF Phases
<1>3. CASE Switch
  BY <1>1, <1>2, <1>3, QuietKeeps DEF Switch, roundVars, reportVars
<1>4. CASE Check
  <2>1. min_cond_messages' \in [ftso : BOOLEAN, fdc : BOOLEAN, staking : SUBSET Nodes]
    BY <1>4, Messages DEF Check
  <2> QED
    BY <1>1, <1>2, <1>4, <2>1, QuietKeeps DEF Check, roundVars
<1>5. CASE CheckNotDue \/ NoAnswer \/ PingError
  BY <1>1, <1>2, <1>5, QuietKeeps DEF CheckNotDue, NoAnswer, PingError, roundVars, reportVars
<1>6. CASE Restart
  <2>1. Init'
    BY <1>6 DEF Restart, Init
  <2> QED
    BY <2>1, BegunAgain
<1>7. CASE \E answer \in Answers(nodes) : Ping(answer)
  BY <1>7, PingKeeps
<1>8. CASE \E batch \in SeqUpTo(Rounds, MaxBatch) : Finalize(batch)
  BY <1>8, FinalizeKeeps
<1>9. CASE UNCHANGED vars
  BY <1>1, <1>9, QuietKeeps DEF vars, roundVars, reportVars
<1> QED
  BY <1>3, <1>4, <1>5, <1>6, <1>7, <1>8, <1>9 DEF Next

\* The deques hold the rounds and the answers, in every reachable state
\* (minimal_conditions.py, and its calls in observer_loop).
THEOREM Inductive == Spec => []IInv
<1> QED
  BY InitHolds, NextKeeps, PTL DEF Spec

\* Every variable has its type: no deque grows beyond its maxlen.
THEOREM TypeCorrect == Spec => []TypeOK
<1>1. IInv => TypeOK
  BY DEF IInv
<1> QED
  BY <1>1, Inductive, PTL

\* calculate_staking never divides by zero, and no node has been in more answers than
\* are counted (RatesDefined).
THEOREM Defined == Spec => []RatesDefined
<1>1. IInv => RatesDefined
  BY DEF IInv, Answered, RatesDefined
<1> QED
  BY <1>1, Inductive, PTL

-----------------------------------------------------------------------------
(***************************************************************************)
(* The rates.                                                              *)
(***************************************************************************)

\* The rounding of the rate does not change what is below a threshold.
LEMMA BelowMeans ==
  ASSUME NEW hits \in Nat, NEW total \in Nat \ {0}, NEW threshold \in Nat
  PROVE  Below(hits, total, threshold) <=> hits * 10000 < threshold * total
<1> DEFINE a == hits * 10000
           d == a \div total
<1>1. a \in Nat
  OBVIOUS
<1>2. d \in Nat /\ total * d <= a /\ a < total * (d + 1)
  <2> HIDE DEF a
  <2> QED
    BY <1>1, SMTT(30)
<1> HIDE DEF d, a
<1>3. CASE d < threshold
  <2>1. PICK e \in Nat : threshold = (d + 1) + e
    <3>1. threshold - (d + 1) \in Nat /\ threshold = (d + 1) + (threshold - (d + 1))
      BY <1>2, <1>3
    <3> QED
      BY <3>1
  <2>2. threshold * total = total * (d + 1) + total * e /\ total * e >= 0
    BY <1>2, <2>1, SMTT(30)
  <2> QED
    BY <1>1, <1>2, <1>3, <2>2 DEF Below, d, a
<1>4. CASE ~(d < threshold)
  <2>1. PICK e \in Nat : d = threshold + e
    <3>1. d - threshold \in Nat /\ d = threshold + (d - threshold)
      BY <1>2, <1>4
    <3> QED
      BY <3>1
  <2>2. total * d = threshold * total + total * e /\ total * e >= 0
    BY <1>2, <2>1, SMTT(30)
  <2> QED
    BY <1>1, <1>2, <1>4, <2>2 DEF Below, d, a
<1> QED
  BY <1>3, <1>4

LEMMA Thresholds ==
  FtsoThreshold \in Nat /\ StakingThreshold \in Nat /\ FdcThreshold \in Nat
<1> DEFINE Bips == 0 .. 10000
<1>1. {FtsoThreshold, StakingThreshold, FdcThreshold} \subseteq Bips
  BY RateAssumption
<1>2. Bips \subseteq Nat
  OBVIOUS
<1> HIDE DEF Bips
<1> QED
  BY <1>1, <1>2

\* The elements of a sequence that have a property are finitely many.
LEMMA SomeOf ==
  ASSUME NEW n \in Nat, NEW S, S \subseteq 1 .. n
  PROVE  IsFiniteSet(S) /\ Cardinality(S) \in Nat
<1>1. IsFiniteSet(1 .. n)
  BY FS_Interval
<1>2. IsFiniteSet(S)
  BY <1>1, FS_Subset
<1> QED
  BY <1>2, FS_CardinalityType

\* The warning for a node that was in all of the last answers is the one these answers
\* call for, whatever there was before (StakingExact; calculate_staking).
THEOREM Exact == Spec => []StakingExact
<1>1. ASSUME IInv PROVE StakingExact
  <2> SUFFICES ASSUME NEW n \in Nodes, pings # <<>>, \A i \in DOMAIN pings : n \in DOMAIN pings[i]
               PROVE  n \in CalculateStaking <=>
                        Cardinality({i \in DOMAIN pings : pings[i][n]}) * 10000
                          < StakingThreshold * Len(pings)
    BY DEF StakingExact
  <2> DEFINE q == node_connections[n]
             m == Len(pings)
  <2>1. /\ pings \in Seq(Answers(Nodes)) /\ m \in Nat \ {0} /\ DOMAIN pings = 1 .. m
        /\ q \in Seq(BOOLEAN) /\ Len(q) \in Nat /\ DOMAIN q = 1 .. Len(q)
    <3>1. pings \in Seq(Answers(Nodes)) /\ q \in Seq(BOOLEAN)
      BY <1>1, Deques DEF IInv
    <3>2. m # 0
      BY <3>1, EmptySeq
    <3> QED
      BY <3>1, <3>2
  <2>2. uptime_validations = m /\ Len(q) <= m
    BY <1>1 DEF IInv, Answered
  <2>3. \A k \in 0 .. m - 1 : k < Len(q) /\ q[Len(q) - k] = pings[m - k][n]
    <3>1. ASSUME NEW k \in 0 .. m - 1 PROVE k < Len(q) /\ q[Len(q) - k] = pings[m - k][n]
      <4>1. \A j \in 0 .. k : m - j \in DOMAIN pings
        BY <2>1
      <4> QED
        BY <1>1, <4>1 DEF IInv, Trailing
    <3> QED
      BY <3>1
  <2>4. Len(q) = m
    <3>1. m - 1 \in 0 .. m - 1
      BY <2>1
    <3>2. m - 1 < Len(q)
      BY <2>3, <3>1
    <3> QED
      BY <2>1, <2>2, <3>2
  <2>5. \A i \in 1 .. m : q[i] = pings[i][n]
    <3>1. ASSUME NEW i \in 1 .. m PROVE q[i] = pings[i][n]
      <4>1. m - i \in 0 .. m - 1 /\ m - (m - i) = i
        BY <2>1
      <4> QED
        BY <2>3, <2>4, <4>1
    <3> QED
      BY <3>1
  <2> DEFINE up == {i \in DOMAIN pings : pings[i][n]}
  <2>6. {i \in DOMAIN q : q[i]} = up
    BY <2>1, <2>4, <2>5
  <2>7. Cardinality(up) \in Nat
    BY <2>1, SomeOf
  <2>8. n \in CalculateStaking <=> Below(Cardinality(up), m, StakingThreshold)
    <3>1. q # <<>>
      BY <2>1, <2>4
    <3> QED
      BY <2>2, <2>6, <3>1 DEF CalculateStaking, Trues
  <2>9. StakingThreshold \in Nat
    BY Thresholds
  <2> HIDE DEF up, q, m
  <2>10. Below(Cardinality(up), m, StakingThreshold) <=> Cardinality(up) * 10000 < StakingThreshold * m
    BY <2>1, <2>7, <2>9, BelowMeans
  <2> QED
    BY <2>8, <2>10 DEF up, m
<1> QED
  BY <1>1, Inductive, PTL

-----------------------------------------------------------------------------
(***************************************************************************)
(* The two conditions implement RollingRate.                               *)
(***************************************************************************)

\* A batch as the abstract specification sees it: the newest of the rounds that were
\* there stay, in order, and room for others is made only when there is none.
Moved(kept) ==
  /\ Len(closed') - kept \in 0 .. MaxBatch
  /\ Len(closed') <= Window
  /\ kept < Len(closed) => Len(closed') = Window
  /\ \A i \in 1 .. kept : /\ Len(closed) - kept + i \in 1 .. Len(closed)
                          /\ i \in 1 .. Len(closed')
                          /\ closed'[i] = closed[Len(closed) - kept + i]

LEMMA ClosedMoves ==
  ASSUME IInv, NEW batch \in SeqUpTo(Rounds, MaxBatch), Finalize(batch)
  PROVE  \E kept \in 0 .. Len(closed) : Moved(kept)
<1> DEFINE now == Len(closed')
           kept == IF now >= Len(batch) THEN now - Len(batch) ELSE 0
<1>1. Window \in Nat /\ MaxBatch \in Nat
  BY SizeAssumption
<1>2. batch \in Seq(Rounds) /\ Len(batch) \in Nat /\ Len(batch) <= MaxBatch
  BY <1>1, UpToMeans
<1>3. closed \in Seq(Rounds) /\ Len(closed) \in Nat
  BY Deques DEF IInv
<1>4. closed' = Extend(closed, batch, Window)
  BY DEF Finalize, Extend
<1>5. Newest(Rounds, closed, batch, Window, closed')
  BY <1>1, <1>2, <1>3, <1>4, ExtendMeans
<1>6. /\ now = IF Len(closed) + Len(batch) <= Window THEN Len(closed) + Len(batch) ELSE Window
      /\ \A i \in 1 .. now : closed'[i] = At(closed, batch, Len(closed) + Len(batch) - now + i)
  BY <1>5 DEF Newest
<1> HIDE DEF now
<1>7. now \in Nat /\ now <= Window
  BY <1>1, <1>2, <1>3, <1>6
<1>8. /\ kept \in 0 .. Len(closed) /\ kept <= now /\ now - kept \in 0 .. MaxBatch
      /\ kept < Len(closed) => now = Window
  BY <1>1, <1>2, <1>3, <1>6, <1>7
<1>9. ASSUME NEW i \in 1 .. kept
      PROVE  /\ Len(closed) - kept + i \in 1 .. Len(closed) /\ i \in 1 .. now
             /\ closed'[i] = closed[Len(closed) - kept + i]
  <2>1. Len(closed) - kept + i \in 1 .. Len(closed) /\ i \in 1 .. now
    BY <1>3, <1>7, <1>8
  <2>2. Len(closed) + Len(batch) - now + i = Len(closed) - kept + i
    <3>1. kept # 0 /\ kept = now - Len(batch)
      BY <1>2, <1>7
    <3> HIDE DEF kept
    <3> QED
      BY <1>2, <1>3, <1>7, <3>1
  <2>3. closed'[i] = At(closed, batch, Len(closed) - kept + i)
    BY <1>6, <2>1, <2>2
  <2>4. Len(closed) - kept + i <= Len(closed)
    BY <1>3, <2>1
  <2> QED
    BY <2>1, <2>3, <2>4 DEF At
<1>10. Moved(kept)
  <2> HIDE DEF kept
  <2> QED
    BY <1>7, <1>8, <1>9 DEF Moved, now
<1> QED
  BY <1>8, <1>10

\* Without a round there is nothing to observe.
LEMMA NothingComes ==
  ASSUME IInv, NEW batch, batch = <<>>, Finalize(batch)
  PROVE  closed' = closed /\ fresh' = fresh
<1>1. closed \in Seq(Rounds) /\ Len(closed) <= Window
  BY Deques DEF IInv
<1>2. closed \o batch = closed
  BY <1>1
<1>3. closed' = closed
  BY <1>1, <1>2 DEF Finalize, LastOf
<1>4. fresh' = fresh
  BY DEF Finalize, IInv, TypeOK
<1> QED
  BY <1>3, <1>4

\* As many pairs as there are indices.
LEMMA Labelled ==
  ASSUME NEW n \in Nat, NEW S, S \subseteq 1 .. n, NEW a,
         NEW P, \A e : e \in P <=> \E i \in S : e = <<i, a>>
  PROVE  Cardinality(P) = Cardinality(S)
<1> DEFINE f == [i \in S |-> <<i, a>>]
<1>1. f \in [S -> P] /\ \A i \in S : f[i] = <<i, a>>
  OBVIOUS
<1>2. \A i, j \in S : f[i] = f[j] => i = j
  BY <1>1
<1>3. \A e \in P : \E i \in S : f[i] = e
  BY <1>1
<1> HIDE DEF f
<1>4. f \in Bijection(S, P)
  BY <1>1, <1>2, <1>3 DEF Bijection, Injection, Surjection, IsInjective
<1>5. ExistsBijection(S, P)
  BY <1>4 DEF ExistsBijection
<1> QED
  BY <1>5, SomeOf, FS_Bijection

LEMMA FdcCardinality == \A S : Fdc!Cardinality(S) = Cardinality(S)
<1> QED
  BY DEF Fdc!Cardinality, Cardinality

\* What RollingRate knows of the rounds, for FDC.
LEMMA FdcRecentIs ==
  ASSUME IInv
  PROVE  /\ Len(closed) \in Nat /\ DOMAIN closed = 1 .. Len(closed)
         /\ DOMAIN FdcRecent = 1 .. Len(closed) /\ Len(FdcRecent) = Len(closed)
         /\ \A i \in 1 .. Len(closed) :
              /\ FdcRecent[i].asked = {"signature"}
              /\ FdcRecent[i].met = {s \in {"signature"} : closed[i].signed}
<1>1. Len(closed) \in Nat /\ DOMAIN closed = 1 .. Len(closed)
  BY Deques DEF IInv
<1>2. DOMAIN FdcRecent = 1 .. Len(closed)
  BY <1>1 DEF FdcRecent
<1>3. Len(FdcRecent) = Len(closed)
  BY <1>1 DEF FdcRecent
<1> QED
  BY <1>1, <1>2, <1>3 DEF FdcRecent

ClosedCounted == Len(closed) \in Nat /\ DOMAIN closed = 1 .. Len(closed)

LEMMA ClosedLength == IInv => ClosedCounted
<1> QED
  BY Deques DEF IInv, ClosedCounted

\* The same after a step.
LEMMA ClosedLengthAfter == IInv' => ClosedCounted'
<1> QED
  BY ClosedLength, PTL

LEMMA FdcRecentAfter ==
  ASSUME IInv'
  PROVE  /\ Len(closed') \in Nat /\ DOMAIN closed' = 1 .. Len(closed')
         /\ DOMAIN FdcRecent' = 1 .. Len(closed') /\ Len(FdcRecent') = Len(closed')
<1>1. Len(closed') \in Nat /\ DOMAIN closed' = 1 .. Len(closed')
  BY ClosedLengthAfter DEF ClosedCounted
<1>2. DOMAIN FdcRecent' = 1 .. Len(closed') /\ Len(FdcRecent') = Len(closed')
  BY <1>1 DEF FdcRecent
<1> QED
  BY <1>1, <1>2

LEMMA FdcBegins == Init => Fdc!RateInit
<1> SUFFICES ASSUME Init PROVE Fdc!RateInit
  OBVIOUS
<1>1. closed = <<>> /\ fresh = FALSE /\ min_cond_messages.fdc = FALSE
  BY DEF Init, NoWarning
<1>2. FdcRecent = <<>>
  BY <1>1 DEF FdcRecent
<1> QED
  BY <1>1, <1>2 DEF Fdc!RateInit

\* The share of the rounds signed, as the check counts it and as RollingRate does.
LEMMA FdcJudges ==
  ASSUME IInv
  PROVE  CalculateFdcParticipation <=>
           Fdc!Cardinality(Fdc!Met) * 10000 < FdcThreshold * Fdc!Cardinality(Fdc!Asked)
<1> DEFINE n == Len(closed)
           signed == {i \in 1 .. n : signatures[i]}
<1>1. /\ n \in Nat /\ DOMAIN FdcRecent = 1 .. n
      /\ \A i \in 1 .. n : /\ FdcRecent[i].asked = {"signature"}
                          /\ FdcRecent[i].met = {s \in {"signature"} : closed[i].signed}
  BY FdcRecentIs
<1>2. /\ Len(signatures) = n /\ signatures \in Seq(BOOLEAN)
      /\ \A i \in 1 .. n : signatures[i] = closed[i].signed
  BY Deques DEF IInv, Aligned
<1>3. Trues(signatures) = Cardinality(signed) /\ signed \subseteq 1 .. n
  <2>1. DOMAIN signatures = 1 .. n
    BY <1>2
  <2>2. {i \in DOMAIN signatures : signatures[i]} = signed
    BY <2>1
  <2> QED
    BY <2>2 DEF Trues
<1> HIDE DEF n
<1>4. \A e : e \in Fdc!Met <=> \E i \in signed : e = <<i, "signature">>
  BY <1>1, <1>2 DEF Fdc!Met
<1>5. \A e : e \in Fdc!Asked <=> \E i \in 1 .. n : e = <<i, "signature">>
  BY <1>1 DEF Fdc!Asked
<1> HIDE DEF signed
<1>6. Cardinality(Fdc!Met) = Cardinality(signed)
  BY <1>1, <1>3, <1>4, Labelled
<1>7. Cardinality(Fdc!Asked) = n
  <2>1. Cardinality(Fdc!Asked) = Cardinality(1 .. n)
    BY <1>1, <1>5, Labelled
  <2> QED
    BY <1>1, <2>1, FS_Interval
<1>8. Cardinality(signed) \in Nat /\ FdcThreshold \in Nat
  BY <1>1, <1>3, SomeOf, Thresholds
<1>9. CASE n = 0
  <2>1. signatures = <<>>
    BY <1>2, <1>9, EmptySeq
  <2>2. Fdc!Met = {}
    BY <1>1, <1>9 DEF Fdc!Met
  <2>3. Cardinality(Fdc!Met) = 0
    BY <2>2, FS_EmptySet
  <2> QED
    BY <1>7, <1>8, <1>9, <2>1, <2>3, FdcCardinality DEF CalculateFdcParticipation
<1>10. CASE n # 0
  <2>1. signatures # <<>> /\ n \in Nat \ {0}
    BY <1>1, <1>2, <1>10
  <2>2. Below(Cardinality(signed), n, FdcThreshold) <=> Cardinality(signed) * 10000 < FdcThreshold * n
    BY <1>8, <2>1, BelowMeans
  <2> QED
    BY <1>2, <1>3, <1>6, <1>7, <2>1, <2>2, FdcCardinality DEF CalculateFdcParticipation
<1> QED
  BY <1>9, <1>10

\* One step of the conditions is a step of RollingRate or leaves what it knows alone.
LEMMA FdcSteps == IInv /\ IInv' /\ [Next]_vars => [Fdc!RateNext]_Fdc!rateVars
<1> SUFFICES ASSUME IInv, IInv', [Next]_vars PROVE Fdc!RateNext \/ UNCHANGED Fdc!rateVars
  OBVIOUS
<1>1. CASE Check
  <2>1. /\ min_cond_messages'.fdc = CalculateFdcParticipation /\ fresh' = TRUE /\ closed' = closed
    BY <1>1 DEF Check, roundVars
  <2>2. FdcRecent' = FdcRecent
    BY <2>1 DEF FdcRecent
  <2> DEFINE judged == Fdc!Cardinality(Fdc!Met) * 10000 < FdcThreshold * Fdc!Cardinality(Fdc!Asked)
  <2>3. CalculateFdcParticipation \in BOOLEAN /\ judged \in BOOLEAN
    BY DEF CalculateFdcParticipation, Below
  <2>4. CalculateFdcParticipation <=> judged
    BY FdcJudges
  <2> HIDE DEF judged
  <2>5. min_cond_messages'.fdc = judged
    BY <2>1, <2>3, <2>4
  <2> QED
    BY <2>1, <2>2, <2>5 DEF Fdc!RateNext, Fdc!Judge, judged
<1>2. ASSUME NEW batch \in SeqUpTo(Rounds, MaxBatch), Finalize(batch)
      PROVE  Fdc!RateNext \/ UNCHANGED Fdc!rateVars
  <2>1. min_cond_messages' = min_cond_messages /\ fresh' = (fresh /\ batch = <<>>)
    BY <1>2 DEF Finalize
  <2>2. CASE batch = <<>>
    <3>1. closed' = closed /\ fresh' = fresh
      BY <1>2, <2>2, NothingComes
    <3>2. FdcRecent' = FdcRecent
      BY <3>1 DEF FdcRecent
    <3> QED
      BY <2>1, <3>1, <3>2 DEF Fdc!rateVars
  <2>3. CASE batch # <<>>
    <3>1. PICK kept \in 0 .. Len(closed) : Moved(kept)
      BY <1>2, ClosedMoves
    <3>2. Len(FdcRecent) = Len(closed) /\ Len(FdcRecent') = Len(closed')
      BY FdcRecentIs, FdcRecentAfter
    <3>3. \A i \in 1 .. kept : FdcRecent'[i] = FdcRecent[Len(closed) - kept + i]
      <4>1. ASSUME NEW i \in 1 .. kept PROVE FdcRecent'[i] = FdcRecent[Len(closed) - kept + i]
        <5>1. /\ Len(closed) - kept + i \in DOMAIN closed /\ i \in DOMAIN closed'
              /\ closed'[i] = closed[Len(closed) - kept + i]
          BY <3>1, FdcRecentIs, FdcRecentAfter DEF Moved
        <5> QED
          BY <5>1 DEF FdcRecent
      <4> QED
        BY <4>1
    <3>4. \A i \in DOMAIN FdcRecent' : FdcRecent'[i].met \subseteq FdcRecent'[i].asked
      BY DEF FdcRecent
    <3>5. fresh' = FALSE
      BY <2>1, <2>3
    <3>6. Fdc!Observe
      BY <2>1, <3>1, <3>2, <3>3, <3>4, <3>5 DEF Fdc!Observe, Moved
    <3> QED
      BY <3>6 DEF Fdc!RateNext
  <2> QED
    BY <2>2, <2>3
<1>3. CASE Restart
  <2>1. closed' = <<>> /\ fresh' = FALSE /\ min_cond_messages'.fdc = FALSE
    BY <1>3 DEF Restart, NoWarning
  <2>2. FdcRecent' = <<>>
    BY <2>1 DEF FdcRecent
  <2> QED
    BY <2>1, <2>2 DEF Fdc!RateNext, Fdc!Forget
<1>4. ASSUME UNCHANGED <<closed, min_cond_messages, fresh>>
      PROVE  UNCHANGED Fdc!rateVars
  <2>1. FdcRecent' = FdcRecent
    BY <1>4 DEF FdcRecent
  <2> QED
    BY <1>4, <2>1 DEF Fdc!rateVars
<1>5. CASE Switch \/ CheckNotDue \/ NoAnswer \/ PingError \/ UNCHANGED vars
  BY <1>4, <1>5 DEF Switch, CheckNotDue, NoAnswer, PingError, vars, roundVars, reportVars
<1>6. CASE \E answer \in Answers(nodes) : Ping(answer)
  BY <1>4, <1>6 DEF Ping, roundVars, reportVars
<1> QED
  BY <1>1, <1>2, <1>3, <1>5, <1>6 DEF Next

\* The FDC condition implements RollingRate: whatever batches finalize returns, the check
\* judges the last rounds of this process, and each by its signature (FdcRate).
THEOREM FdcImplements == Spec => FdcRate
<1> QED
  BY Inductive, FdcBegins, FdcSteps, PTL DEF Spec, FdcRate, Fdc!RateSpec

-----------------------------------------------------------------------------
(***************************************************************************)
(* The same for the FTSO anchor feeds, whose rounds ask for as many things *)
(* as they have feeds.                                                     *)
(***************************************************************************)
LEMMA FtsoCardinality == \A S : Ftso!Cardinality(S) = Cardinality(S)
<1> QED
  BY DEF Ftso!Cardinality, Cardinality

\* The two bounds the code tests are a distance from the median.
LEMMA HitMeans ==
  ASSUME NEW m \in Nat, NEW v \in Nat \cup {NoVote}
  PROVE  Hit(m, v) <=> Within(m, v)
<1>1. CASE v = NoVote
  BY <1>1 DEF Hit, Within
<1>2. CASE v # NoVote
  <2>1. v \in Nat
    BY <1>2
  <2>2. PICK p \in Nat : p = m * Band
    <3>1. Band \in Nat
      BY RateAssumption
    <3> QED
      BY <3>1
  <2>3. m * (10000 - Band) = m * 10000 - p /\ m * (10000 + Band) = m * 10000 + p
    <3>1. Band \in Int
      BY RateAssumption
    <3> QED
      BY <2>2, <3>1
  <2> QED
    BY <1>2, <2>1, <2>2, <2>3 DEF Hit, Within
<1> QED
  BY <1>1, <1>2

LEMMA FtsoRecentIs ==
  ASSUME IInv
  PROVE  /\ DOMAIN FtsoRecent = 1 .. Len(closed) /\ Len(FtsoRecent) = Len(closed)
         /\ \A i \in 1 .. Len(closed) :
              /\ FtsoRecent[i].asked = Feeds(i)
              /\ FtsoRecent[i].met = Hits(i)
              /\ IsFiniteSet(Feeds(i)) /\ Hits(i) \subseteq Feeds(i)
<1>1. ClosedCounted
  BY ClosedLength
<1>2. DOMAIN FtsoRecent = 1 .. Len(closed) /\ Len(FtsoRecent) = Len(closed)
  BY <1>1 DEF FtsoRecent, ClosedCounted
<1>3. ASSUME NEW i \in 1 .. Len(closed)
      PROVE  /\ FtsoRecent[i].asked = Feeds(i) /\ FtsoRecent[i].met = Hits(i)
             /\ IsFiniteSet(Feeds(i)) /\ Hits(i) \subseteq Feeds(i)
  <2>1. i \in DOMAIN closed /\ closed[i] \in Rounds
    BY <1>1, Deques DEF IInv, ClosedCounted
  <2>2. medians[i] = closed[i].medians /\ entity_votes[i] = closed[i].votes
    BY DEF IInv, Aligned
  <2>3. /\ FtsoRecent[i].asked = DOMAIN medians[i]
        /\ FtsoRecent[i].met = {f \in DOMAIN medians[i] \cap DOMAIN entity_votes[i] :
                                   Within(medians[i][f], entity_votes[i][f])}
    BY <2>1, <2>2 DEF FtsoRecent
  <2>4. medians[i] \in Seq(Nat) /\ entity_votes[i] \in Seq(Nat \cup {NoVote})
    BY <2>1, <2>2, RoundAssumption
  <2>5. \A f \in DOMAIN medians[i] \cap DOMAIN entity_votes[i] :
          Hit(medians[i][f], entity_votes[i][f]) <=> Within(medians[i][f], entity_votes[i][f])
    <3>1. ASSUME NEW f \in DOMAIN medians[i] \cap DOMAIN entity_votes[i]
          PROVE  Hit(medians[i][f], entity_votes[i][f]) <=> Within(medians[i][f], entity_votes[i][f])
      <4>1. medians[i][f] \in Nat /\ entity_votes[i][f] \in Nat \cup {NoVote}
        BY <2>4
      <4> QED
        BY <4>1, HitMeans
    <3> QED
      BY <3>1
  <2>6. FtsoRecent[i].met = Hits(i) /\ Hits(i) \subseteq Feeds(i)
    BY <2>3, <2>5 DEF Hits, Feeds
  <2>7. IsFiniteSet(Feeds(i))
    <3>1. Len(medians[i]) \in Nat /\ DOMAIN medians[i] = 1 .. Len(medians[i])
      BY <2>4
    <3> QED
      BY <3>1, FS_Interval DEF Feeds
  <2> QED
    BY <2>3, <2>6, <2>7 DEF Feeds
<1> QED
  BY <1>2, <1>3

\* Finitely many finite sets of pairs.
LEMMA PairsFinite ==
  ASSUME NEW n \in Nat, NEW F, \A i \in 1 .. n : IsFiniteSet(F[i])
  PROVE  IsFiniteSet(UNION {{i} \X F[i] : i \in 1 .. n})
<1> DEFINE T == {{i} \X F[i] : i \in 1 .. n}
           f == [i \in 1 .. n |-> {i} \X F[i]]
<1>1. f \in Surjection(1 .. n, T)
  <2>1. f \in [1 .. n -> T] /\ \A t \in T : \E i \in 1 .. n : f[i] = t
    OBVIOUS
  <2> QED
    BY <2>1 DEF Surjection
<1>2. IsFiniteSet(1 .. n)
  BY FS_Interval
<1>3. IsFiniteSet(T)
  <2> HIDE DEF f, T
  <2> QED
    BY <1>1, <1>2, FS_Surjection
<1>4. ASSUME NEW t \in T PROVE IsFiniteSet(t)
  <2>1. PICK i \in 1 .. n : t = {i} \X F[i]
    OBVIOUS
  <2>2. IsFiniteSet({i})
    BY FS_Singleton
  <2> QED
    BY <2>1, <2>2, FS_Product
<1> HIDE DEF T
<1>5. IsFiniteSet(UNION T)
  BY <1>3, <1>4, FS_UNION
<1> QED
  BY <1>5 DEF T

\* The share of the votes near the median, as the check counts it and as RollingRate does.
LEMMA FtsoJudges ==
  ASSUME IInv
  PROVE  CalculateFtsoAnchorFeeds <=>
           Ftso!Cardinality(Ftso!Met) * 10000 < FtsoThreshold * Ftso!Cardinality(Ftso!Asked)
<1> DEFINE n == Len(closed)
           total == UNION {{i} \X Feeds(i) : i \in Zipped}
           hit == UNION {{i} \X Hits(i) : i \in Zipped}
<1>1. n \in Nat /\ DOMAIN medians = 1 .. n /\ DOMAIN entity_votes = 1 .. n
  <2>1. /\ Len(medians) = n /\ Len(entity_votes) = n
        /\ medians \in Seq(Medians) /\ entity_votes \in Seq(Votes)
    BY Deques DEF IInv, Aligned
  <2> QED
    BY <2>1, ClosedLength DEF ClosedCounted
<1>2. Zipped = 1 .. n
  BY <1>1 DEF Zipped
<1>3. /\ DOMAIN FtsoRecent = 1 .. n
      /\ \A i \in 1 .. n : /\ FtsoRecent[i].asked = Feeds(i) /\ FtsoRecent[i].met = Hits(i)
                          /\ IsFiniteSet(Feeds(i)) /\ Hits(i) \subseteq Feeds(i)
  BY FtsoRecentIs
<1> HIDE DEF n
<1>4. Ftso!Asked = total
  BY <1>2, <1>3 DEF Ftso!Asked
<1>5. Ftso!Met = hit
  BY <1>2, <1>3 DEF Ftso!Met
<1>6. hit \subseteq total
  BY <1>2, <1>3
<1>7. IsFiniteSet(total)
  <2> DEFINE F == [i \in 1 .. n |-> Feeds(i)]
  <2>1. \A i \in 1 .. n : IsFiniteSet(F[i])
    BY <1>3
  <2>2. IsFiniteSet(UNION {{i} \X F[i] : i \in 1 .. n})
    <3> HIDE DEF F
    <3> QED
      BY <1>1, <2>1, PairsFinite
  <2>3. UNION {{i} \X F[i] : i \in 1 .. n} = total
    BY <1>2
  <2> QED
    BY <2>2, <2>3
<1> HIDE DEF total, hit
<1>8. Cardinality(total) \in Nat /\ Cardinality(hit) \in Nat /\ Cardinality(hit) <= Cardinality(total)
  <2>1. IsFiniteSet(hit) /\ Cardinality(hit) <= Cardinality(total)
    BY <1>6, <1>7, FS_Subset
  <2> QED
    BY <1>7, <2>1, FS_CardinalityType
<1>9. CalculateFtsoAnchorFeeds <=> total # {} /\ Below(Cardinality(hit), Cardinality(total), FtsoThreshold)
  BY DEF CalculateFtsoAnchorFeeds, total, hit
<1>10. FtsoThreshold \in Nat
  BY Thresholds
<1>11. CASE total = {}
  <2>1. Cardinality(total) = 0
    BY <1>11, FS_EmptySet
  <2> QED
    BY <1>4, <1>5, <1>8, <1>9, <1>10, <1>11, <2>1, FtsoCardinality
<1>12. CASE total # {}
  <2>1. Cardinality(total) \in Nat \ {0}
    BY <1>7, <1>8, <1>12, FS_EmptySet
  <2>2. Below(Cardinality(hit), Cardinality(total), FtsoThreshold) <=>
          Cardinality(hit) * 10000 < FtsoThreshold * Cardinality(total)
    BY <1>8, <1>10, <2>1, BelowMeans
  <2> QED
    BY <1>4, <1>5, <1>9, <1>12, <2>2, FtsoCardinality
<1> QED
  BY <1>11, <1>12

LEMMA FtsoBegins == Init => Ftso!RateInit
<1> SUFFICES ASSUME Init PROVE Ftso!RateInit
  OBVIOUS
<1>1. closed = <<>> /\ fresh = FALSE /\ min_cond_messages.ftso = FALSE
  BY DEF Init, NoWarning
<1>2. FtsoRecent = <<>>
  BY <1>1 DEF FtsoRecent
<1> QED
  BY <1>1, <1>2 DEF Ftso!RateInit

LEMMA FtsoRecentAfter ==
  ASSUME IInv'
  PROVE  DOMAIN FtsoRecent' = 1 .. Len(closed') /\ Len(FtsoRecent') = Len(closed')
<1>1. Len(closed') \in Nat /\ DOMAIN closed' = 1 .. Len(closed')
  BY ClosedLengthAfter DEF ClosedCounted
<1> QED
  BY <1>1 DEF FtsoRecent

LEMMA FtsoSteps == IInv /\ IInv' /\ [Next]_vars => [Ftso!RateNext]_Ftso!rateVars
<1> SUFFICES ASSUME IInv, IInv', [Next]_vars PROVE Ftso!RateNext \/ UNCHANGED Ftso!rateVars
  OBVIOUS
<1>1. CASE Check
  <2>1. /\ min_cond_messages'.ftso = CalculateFtsoAnchorFeeds /\ fresh' = TRUE /\ closed' = closed
    BY <1>1 DEF Check, roundVars
  <2>2. FtsoRecent' = FtsoRecent
    BY <2>1 DEF FtsoRecent
  <2> DEFINE judged == Ftso!Cardinality(Ftso!Met) * 10000 < FtsoThreshold * Ftso!Cardinality(Ftso!Asked)
  <2>3. CalculateFtsoAnchorFeeds \in BOOLEAN /\ judged \in BOOLEAN
    BY DEF CalculateFtsoAnchorFeeds, Below
  <2>4. CalculateFtsoAnchorFeeds <=> judged
    BY FtsoJudges
  <2> HIDE DEF judged
  <2>5. min_cond_messages'.ftso = judged
    BY <2>1, <2>3, <2>4
  <2> QED
    BY <2>1, <2>2, <2>5 DEF Ftso!RateNext, Ftso!Judge, judged
<1>2. ASSUME NEW batch \in SeqUpTo(Rounds, MaxBatch), Finalize(batch)
      PROVE  Ftso!RateNext \/ UNCHANGED Ftso!rateVars
  <2>1. min_cond_messages' = min_cond_messages /\ fresh' = (fresh /\ batch = <<>>)
    BY <1>2 DEF Finalize
  <2>2. CASE batch = <<>>
    <3>1. closed' = closed /\ fresh' = fresh
      BY <1>2, <2>2, NothingComes
    <3>2. FtsoRecent' = FtsoRecent
      BY <3>1 DEF FtsoRecent
    <3> QED
      BY <2>1, <3>1, <3>2 DEF Ftso!rateVars
  <2>3. CASE batch # <<>>
    <3>1. PICK kept \in 0 .. Len(closed) : Moved(kept)
      BY <1>2, ClosedMoves
    <3>2. Len(FtsoRecent) = Len(closed) /\ Len(FtsoRecent') = Len(closed')
      BY FtsoRecentIs, FtsoRecentAfter
    <3>3. ASSUME NEW i \in 1 .. kept PROVE FtsoRecent'[i] = FtsoRecent[Len(closed) - kept + i]
      <4>1. /\ Len(closed) - kept + i \in DOMAIN closed /\ i \in DOMAIN closed'
            /\ closed'[i] = closed[Len(closed) - kept + i]
        BY <3>1, ClosedLength, ClosedLengthAfter DEF Moved, ClosedCounted
      <4> QED
        BY <4>1 DEF FtsoRecent
    <3>4. \A i \in DOMAIN FtsoRecent' : FtsoRecent'[i].met \subseteq FtsoRecent'[i].asked
      BY DEF FtsoRecent
    <3>5. fresh' = FALSE
      BY <2>1, <2>3
    <3>6. Ftso!Observe
      BY <2>1, <3>1, <3>2, <3>3, <3>4, <3>5 DEF Ftso!Observe, Moved
    <3> QED
      BY <3>6 DEF Ftso!RateNext
  <2> QED
    BY <2>2, <2>3
<1>3. CASE Restart
  <2>1. closed' = <<>> /\ fresh' = FALSE /\ min_cond_messages'.ftso = FALSE
    BY <1>3 DEF Restart, NoWarning
  <2>2. FtsoRecent' = <<>>
    BY <2>1 DEF FtsoRecent
  <2> QED
    BY <2>1, <2>2 DEF Ftso!RateNext, Ftso!Forget
<1>4. ASSUME UNCHANGED <<closed, min_cond_messages, fresh>>
      PROVE  UNCHANGED Ftso!rateVars
  <2>1. FtsoRecent' = FtsoRecent
    BY <1>4 DEF FtsoRecent
  <2> QED
    BY <1>4, <2>1 DEF Ftso!rateVars
<1>5. CASE Switch \/ CheckNotDue \/ NoAnswer \/ PingError \/ UNCHANGED vars
  BY <1>4, <1>5 DEF Switch, CheckNotDue, NoAnswer, PingError, vars, roundVars, reportVars
<1>6. CASE \E answer \in Answers(nodes) : Ping(answer)
  BY <1>4, <1>6 DEF Ping, roundVars, reportVars
<1> QED
  BY <1>1, <1>2, <1>3, <1>5, <1>6 DEF Next

\* The condition for the FTSO anchor feeds implements RollingRate: medians and votes, kept
\* in two deques, stay aligned, and a round without a reveal counts as missed (FtsoRate).
THEOREM FtsoImplements == Spec => FtsoRate
<1> QED
  BY Inductive, FtsoBegins, FtsoSteps, PTL DEF Spec, FtsoRate, Ftso!RateSpec

=============================================================================
