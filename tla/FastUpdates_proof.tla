------------------------- MODULE FastUpdates_proof -------------------------
(***************************************************************************)
(* Proofs about FastUpdates: the length of an update is reported when it   *)
(* is wrong and only then, and the warning of a silence is right and does  *)
(* not fall, for any feeds, weights and keys and without a bound on time.  *)
(*                                                                         *)
(* Lengths: what the manager knows of the feeds is right for the reward    *)
(* epoch it was told under, unless that epoch began before its policy.     *)
(* Silence: the manager counts from the last update the entity made, as    *)
(* long as the process works with the policy the update was made under.    *)
(* The chance is a power of a fraction, which falls with the exponent;     *)
(* that takes an induction, done here with a smallest counterexample.      *)
(***************************************************************************)
EXTENDS FastUpdates, WellFoundedInduction, TLAPS

Running == phase \in {"polling", "logs", "check"}

\* The clock is ahead of the policy in a reward epoch that began late.
ClockAhead == inForce <= clock /\ (inForce < clock => clock \in late)

\* A process that does not observe knows nothing.
Idle == ~Running => ~feedsSeen /\ judged = None /\ alarm = "none"

\* The feeds that were told are those of the reward epoch they were told under, or
\* that epoch began late; those told under the policy in force are its own.
FeedsKnown ==
  /\ nr_of_feeds # 0 =>
       /\ fast_update_re \in RewardEpochs
       /\ fast_update_re \in late \/ nr_of_feeds = FeedCounts[fast_update_re]
  /\ feedsSeen =>
       /\ nr_of_feeds = FeedCounts[inForce]
       /\ inForce <= fast_update_re /\ fast_update_re <= clock

\* The manager counts from the last sign of the entity.
CountsFromSign ==
  Running => /\ last_update_block <= LastSign
             /\ followed => last_update_block = LastSign

\* A warning was given for a silence that has lasted since.
AlarmFromSilence ==
  alarm # "none" =>
    \E m \in 0 .. block - last_update_block : alarm = Level(m, entity[policy].weight)

IInv ==
  /\ TypeOK
  /\ ClockAhead /\ Idle
  /\ FeedsKnown /\ RightLengthReportedIffOdd /\ WrongLengthReported
  /\ CountsFromSign /\ AlarmFromSilence

-----------------------------------------------------------------------------
(***************************************************************************)
(* Induction on a set of numbers, by its smallest counterexample.          *)
(***************************************************************************)
Before == {p \in Nat \X Nat : p[1] < p[2]}

LEMMA BeforeWellFounded == IsWellFoundedOn(Before, Nat)
  BY NatLessThanWellFounded, Zenon DEF OpToRel, Before

LEMMA SmallestOf ==
  ASSUME NEW T \in SUBSET Nat, T # {}
  PROVE  \E x \in T : \A y \in T : x <= y
<1>1. PICK x \in T : \A y \in T : ~(<<y, x>> \in Before)
  BY BeforeWellFounded, WFMin
<1>2. ASSUME NEW y \in T PROVE x <= y
  <2>1. x \in Nat /\ y \in Nat
    OBVIOUS
  <2>2. ~(y < x)
    BY <1>1, <2>1 DEF Before
  <2> QED
    BY <2>1, <2>2
<1> QED
  BY <1>2

LEMMA Induction ==
  ASSUME NEW T \in SUBSET Nat, 0 \in T, \A n \in T : n + 1 \in T
  PROVE  \A n \in Nat : n \in T
<1> SUFFICES ASSUME Nat \ T # {} PROVE FALSE
  OBVIOUS
<1>1. PICK x \in Nat \ T : \A y \in Nat \ T : x <= y
  BY SmallestOf
<1>2. x \in Nat /\ x # 0 /\ x - 1 \in Nat
  BY <1>1
<1>3. x - 1 \in T
  BY <1>1, <1>2
<1> QED
  BY <1>1, <1>2, <1>3

-----------------------------------------------------------------------------
(***************************************************************************)
(* Powers and chances.                                                     *)
(***************************************************************************)

\* p holds the powers of base up to the n-th.
PowersTo(base, n, p) == p = [i \in 0 .. n |-> IF i = 0 THEN 1 ELSE base * p[i - 1]]

\* There are such powers, in any set of numbers that has 1 and what base makes of
\* its elements.
LEMMA PowersExist ==
  ASSUME NEW base \in Int, NEW S \in SUBSET Int, 1 \in S, \A x \in S : base * x \in S
  PROVE  \A n \in Nat : \E p \in [0 .. n -> S] : PowersTo(base, n, p)
<1> DEFINE T == {n \in Nat : \E p \in [0 .. n -> S] : PowersTo(base, n, p)}
<1>1. 0 \in T
  <2> DEFINE p == [i \in 0 .. 0 |-> 1]
  <2>1. p \in [0 .. 0 -> S] /\ PowersTo(base, 0, p)
    BY DEF PowersTo
  <2> QED
    BY <2>1
<1>2. ASSUME NEW n \in T PROVE n + 1 \in T
  <2>1. n \in Nat
    OBVIOUS
  <2>2. PICK p \in [0 .. n -> S] : PowersTo(base, n, p)
    OBVIOUS
  <2> DEFINE q == [i \in 0 .. n + 1 |-> IF i = 0 THEN 1 ELSE base * p[i - 1]]
  <2>3. \A i \in 0 .. n : q[i] = p[i]
    BY <2>1, <2>2 DEF PowersTo
  <2>4. \A i \in 0 .. n + 1 : i # 0 => i - 1 \in 0 .. n
    BY <2>1
  <2>5. q = [i \in 0 .. n + 1 |-> IF i = 0 THEN 1 ELSE base * q[i - 1]]
    BY <2>3, <2>4
  <2>6. q \in [0 .. n + 1 -> S]
    BY <2>1, <2>2, <2>4
  <2>7. PowersTo(base, n + 1, q)
    BY <2>5 DEF PowersTo
  <2> HIDE DEF q
  <2> QED
    BY <2>1, <2>6, <2>7
<1> HIDE DEF T
<1>3. T \in SUBSET Nat
  BY DEF T
<1>4. \A n \in Nat : n \in T
  BY <1>1, <1>2, <1>3, Induction
<1> QED
  BY <1>4 DEF T

LEMMA PowersUnique ==
  ASSUME NEW base \in Int, NEW n \in Nat, NEW p, NEW q, PowersTo(base, n, p), PowersTo(base, n, q)
  PROVE  p = q
<1> DEFINE T == {i \in Nat : i \in 0 .. n => p[i] = q[i]}
<1>1. /\ \A i \in 0 .. n : p[i] = IF i = 0 THEN 1 ELSE base * p[i - 1]
      /\ \A i \in 0 .. n : q[i] = IF i = 0 THEN 1 ELSE base * q[i - 1]
  BY DEF PowersTo
<1>2. 0 \in T
  BY <1>1
<1>3. ASSUME NEW i \in T PROVE i + 1 \in T
  <2>1. i \in Nat /\ (i + 1) - 1 = i /\ i + 1 # 0
    OBVIOUS
  <2>2. CASE i + 1 \in 0 .. n
    <3>1. i \in 0 .. n
      BY <2>1, <2>2
    <3> QED
      BY <1>1, <2>1, <2>2, <3>1
  <2> QED
    BY <2>1, <2>2
<1> HIDE DEF T
<1>4. T \in SUBSET Nat
  BY DEF T
<1>5. \A i \in Nat : i \in T
  BY <1>2, <1>3, <1>4, Induction
<1>6. \A i \in 0 .. n : p[i] = q[i]
  BY <1>5 DEF T
<1>7. /\ p = [i \in 0 .. n |-> p[i]]
      /\ q = [i \in 0 .. n |-> q[i]]
  BY DEF PowersTo
<1> QED
  BY <1>6, <1>7

LEMMA PowerOf ==
  ASSUME NEW base \in Int, NEW n \in Nat, NEW p, PowersTo(base, n, p)
  PROVE  Power(base, n) = p[n]
<1> DEFINE P == CHOOSE f : PowersTo(base, n, f)
<1>1. Power(base, n) = P[n]
  BY DEF Power, PowersTo
<1>2. PowersTo(base, n, P)
  OBVIOUS
<1>3. P = p
  BY <1>2, PowersUnique
<1> QED
  BY <1>1, <1>3

\* The powers of a natural number, one after the other.
LEMMA PowerSteps ==
  ASSUME NEW base \in Nat, NEW n \in Nat
  PROVE  /\ Power(base, n) \in Nat
         /\ base # 0 => Power(base, n) # 0
         /\ Power(base, n + 1) = base * Power(base, n)
<1> DEFINE S == IF base = 0 THEN Nat ELSE Nat \ {0}
<1>0. base \in Int
  OBVIOUS
<1>1. S \in SUBSET Int /\ 1 \in S /\ \A x \in S : base * x \in S
  BY SMTT(30)
<1> HIDE DEF S
<1>2. PICK q \in [0 .. n + 1 -> S] : PowersTo(base, n + 1, q)
  <2>1. \A k \in Nat : \E p \in [0 .. k -> S] : PowersTo(base, k, p)
    BY <1>1, <1>0, PowersExist, Zenon
  <2>2. n + 1 \in Nat
    OBVIOUS
  <2> QED
    BY <2>1, <2>2
<1> DEFINE p == [i \in 0 .. n |-> q[i]]
<1>3. \A i \in 0 .. n + 1 : q[i] = IF i = 0 THEN 1 ELSE base * q[i - 1]
  BY <1>2 DEF PowersTo
<1>4. \A i \in 0 .. n : p[i] = q[i] /\ (i # 0 => i - 1 \in 0 .. n) /\ i \in 0 .. n + 1
  OBVIOUS
<1>5. PowersTo(base, n, p)
  BY <1>3, <1>4 DEF PowersTo
<1>6. Power(base, n) = q[n]
  BY <1>5, PowerOf
<1>7. Power(base, n + 1) = q[n + 1]
  BY <1>2, PowerOf
<1>8. q[n] \in S /\ q[n + 1] = base * q[n]
  BY <1>3
<1> QED
  BY <1>6, <1>7, <1>8 DEF S

\* A fraction of two products gets no larger with a factor a above and b below the
\* line, when a is at most b.
LEMMA QuotientFalls ==
  ASSUME NEW s \in Nat, NEW x \in Nat, NEW y \in Nat \ {0},
         NEW a \in Nat, NEW b \in Nat \ {0}, a <= b
  PROVE  (s * (a * x)) \div (b * y) <= (s * x) \div y
<1> DEFINE u == s * x
           r == u \div y
<1>1. u \in Nat
  BY SMTT(30)
<1>2. r \in Nat /\ u < (r + 1) * y
  <2>1. u \div y \in Nat
    BY <1>1, SMTT(30)
  <2>2. u % y \in 0 .. y - 1 /\ u = y * (u \div y) + (u % y)
    BY <1>1, SMTT(30)
  <2>3. (u \div y + 1) * y = y * (u \div y) + y
    BY <2>1, SMTT(30)
  <2> HIDE DEF u
  <2> QED
    BY <1>1, <2>1, <2>2, <2>3
<1>3. s * (a * x) = a * u /\ b * y \in Nat \ {0}
  BY SMTT(30)
<1> HIDE DEF u, r
<1>4. a * u <= b * u /\ a * u \in Nat /\ b * u \in Nat
  BY <1>1, SMTT(30)
<1>5. b * u < b * ((r + 1) * y)
  BY <1>1, <1>2, SMTT(30)
<1>6. b * ((r + 1) * y) = (r + 1) * (b * y)
  BY <1>2, SMTT(30)
<1>7. a * u < (r + 1) * (b * y)
  BY <1>2, <1>3, <1>4, <1>5, <1>6, SMTT(30)
<1>8. (a * u) \div (b * y) <= r
  <2> DEFINE v == a * u
             z == b * y
             q == v \div z
  <2>1. v \in Nat /\ z \in Nat \ {0} /\ v < (r + 1) * z
    BY <1>3, <1>4, <1>7
  <2> HIDE DEF v, z
  <2>2. q \in Nat /\ q * z <= v
    <3>1. v \div z \in Nat
      BY <2>1, SMTT(30)
    <3>2. v % z \in 0 .. z - 1 /\ v = z * (v \div z) + (v % z)
      BY <2>1, SMTT(30)
    <3>3. (v \div z) * z = z * (v \div z) /\ z * (v \div z) \in Nat
      BY <2>1, <3>1, SMTT(30)
    <3> QED
      BY <2>1, <3>1, <3>2, <3>3
  <2> HIDE DEF q
  <2>3. q * z < (r + 1) * z
    BY <1>2, <2>1, <2>2, SMTT(30)
  <2>4. q < r + 1
    BY <1>2, <2>1, <2>2, <2>3, SMTT(30)
  <2> QED
    BY <1>2, <2>2, <2>4 DEF q, v, z
<1> QED
  BY <1>3, <1>8 DEF r, u

\* An entity with at most two thirds of the weight.
Usual(weight) == weight \in Nat /\ 3 * weight <= 2 * TotalWeight

\* The longer the silence, the smaller its chance.
LEMMA ChanceFalls ==
  ASSUME NEW w \in Nat, Usual(w), NEW m \in Nat, NEW n \in Nat, m <= n
  PROVE  Chance(m, w) \in Nat /\ Chance(n, w) <= Chance(m, w)
<1> DEFINE a == 2 * TotalWeight - 3 * w
           b == 2 * TotalWeight
<1>1. a \in Nat /\ b \in Nat \ {0} /\ a <= b /\ Scale \in Nat
  BY EntityAssumption, ChanceAssumption DEF Usual
<1> HIDE DEF a, b
<1>2. ASSUME NEW k \in Nat
      PROVE  Chance(k, w) \in Nat /\ Chance(k + 1, w) <= Chance(k, w)
  <2>1. Power(a, k) \in Nat /\ Power(a, k + 1) = a * Power(a, k)
    BY <1>1, PowerSteps
  <2>2. Power(b, k) \in Nat \ {0} /\ Power(b, k + 1) = b * Power(b, k)
    BY <1>1, PowerSteps
  <2>3. \A x \in Nat, y \in Nat \ {0} : (Scale * x) \div y \in Nat
    BY <1>1, SMTT(30)
  <2> QED
    BY <1>1, <2>1, <2>2, <2>3, QuotientFalls DEF Chance, a, b
<1> DEFINE T == {k \in Nat : Chance(m + k, w) <= Chance(m, w)}
<1>3. 0 \in T
  BY <1>2
<1>4. ASSUME NEW k \in T PROVE k + 1 \in T
  <2>1. m + k \in Nat /\ (m + k) + 1 = m + (k + 1)
    OBVIOUS
  <2>2. Chance(m + (k + 1), w) <= Chance(m + k, w) /\ Chance(m + k, w) \in Nat
    BY <1>2, <2>1
  <2>3. Chance(m, w) \in Nat /\ Chance(m + (k + 1), w) \in Nat
    BY <1>2
  <2> QED
    BY <2>2, <2>3
<1> HIDE DEF T
<1>5. \A k \in Nat : k \in T
  <2>1. T \in SUBSET Nat
    BY DEF T
  <2> QED
    BY <1>3, <1>4, <2>1, Induction
<1>6. n - m \in Nat /\ m + (n - m) = n
  OBVIOUS
<1> QED
  BY <1>2, <1>5, <1>6 DEF T

\* The longer the silence, the higher the level of the warning.
LEMMA LevelRises ==
  ASSUME NEW w \in Nat, Usual(w), NEW m \in Nat, NEW n \in Nat, m <= n
  PROVE  Rank[Level(m, w)] <= Rank[Level(n, w)]
<1> DEFINE bm == IF m >= MaxExponent THEN MaxExponent ELSE m
           bn == IF n >= MaxExponent THEN MaxExponent ELSE n
<1>1. bm \in Nat /\ bn \in Nat /\ bm <= bn /\ (bm = MaxExponent => bn = MaxExponent)
  BY ChanceAssumption
<1>2. /\ Level(m, w) = IF Chance(bm, w) <= Critical THEN "critical"
                       ELSE IF bm < MaxExponent THEN "none" ELSE "warning"
      /\ Level(n, w) = IF Chance(bn, w) <= Critical THEN "critical"
                       ELSE IF bn < MaxExponent THEN "none" ELSE "warning"
  BY DEF Level
<1>3. bm <= MaxExponent /\ bn <= MaxExponent
  BY ChanceAssumption
<1> HIDE DEF bm, bn
<1>4. /\ Chance(bm, w) \in Nat /\ Chance(bn, w) \in Nat
      /\ Chance(bn, w) <= Chance(bm, w)
  BY <1>1, ChanceFalls
<1>5. Rank["none"] = 0 /\ Rank["warning"] = 1 /\ Rank["critical"] = 2
  BY DEF Rank, Levels
<1> QED
  BY <1>1, <1>2, <1>3, <1>4, <1>5, ChanceAssumption

\* A silence is warned of when it is improbable or too long to be told, and one of
\* MaxExponent blocks is.
LEMMA LevelGrounds ==
  ASSUME NEW n \in Nat, NEW w
  PROVE  /\ Level(n, w) \in Levels
         /\ Level(n, w) # "none" => n >= MaxExponent \/ Chance(n, w) <= Critical
         /\ n >= MaxExponent => Level(n, w) # "none"
  BY ChanceAssumption DEF Level, Levels

\* expected is the length of the array, or an entry of four more when that has an odd
\* number of bytes.
LEMMA PaddedToEven ==
  ASSUME NEW n \in Nat \ {0}
  PROVE  /\ RightSize(n) \in Nat /\ Padded(n) \in Nat
         /\ Padded(n) = IF OddBytes(RightSize(n)) THEN RightSize(n) + Entries(1) ELSE RightSize(n)
<1>1. PICK q \in Nat, d \in 1 .. 8 : n = 8 * q + d
  <2>1. /\ (n - 1) \div 8 \in Nat /\ ((n - 1) % 8) + 1 \in 1 .. 8
        /\ n = 8 * ((n - 1) \div 8) + (((n - 1) % 8) + 1)
    OBVIOUS
  <2> QED
    BY <2>1
<1>2. Padded(n) = 8 * q + 8
  BY <1>1 DEF Padded
<1>3. CASE d <= 4
  <2>1. (n + 3) \div 4 = 2 * q + 1
    BY <1>1, <1>3
  <2>2. RightSize(n) = 8 * q + 4
    BY <2>1 DEF RightSize, Entries
  <2> QED
    BY <1>2, <2>2 DEF OddBytes, Entries
<1>4. CASE d > 4
  <2>1. (n + 3) \div 4 = 2 * q + 2
    BY <1>1, <1>4
  <2>2. RightSize(n) = 8 * q + 8
    BY <2>1 DEF RightSize, Entries
  <2> QED
    BY <1>2, <2>2 DEF OddBytes, Entries
<1> QED
  BY <1>1, <1>3, <1>4

-----------------------------------------------------------------------------
(***************************************************************************)
(* Types.                                                                  *)
(***************************************************************************)

\* Variables that hold a truth value, and the others.
FlagTypes ==
  informed \in BOOLEAN /\ reported \in BOOLEAN /\ followed \in BOOLEAN /\ feedsSeen \in BOOLEAN

OtherTypes ==
  /\ block \in 0 .. MaxBlock
  /\ clock \in RewardEpochs /\ inForce \in RewardEpochs
  /\ initialized \in RewardEpochs /\ policy \in RewardEpochs
  /\ entity \in Entities
  /\ phase \in Phases
  /\ nr_of_feeds \in Nat /\ fast_update_re \in {0} \cup RewardEpochs
  /\ last_update \in [epoch : RewardEpochs, size : Nat]
  /\ last_update_block \in 0 .. block
  /\ address_list \subseteq Senders
  /\ since \in 0 .. block /\ submitted \in 0 .. block
  /\ late \subseteq RewardEpochs
  /\ judged \in Judgement \cup {None}
  /\ alarm \in Levels

LEMMA TypeHalves == TypeOK <=> FlagTypes /\ OtherTypes
  BY DEF TypeOK, FlagTypes, OtherTypes

LEMMA RightSizeIsNumber ==
  ASSUME NEW r \in RewardEpochs
  PROVE  RightSize(FeedCounts[r]) \in Nat
  BY FeedAssumption, PaddedToEven

\* A block is one later, and the reward epochs stay among those there are.
LEMMA GrowTypes ==
  ASSUME OtherTypes, Grow
  PROVE  /\ block' \in 0 .. MaxBlock /\ block' = block + 1
         /\ clock' \in RewardEpochs /\ inForce' \in RewardEpochs
         /\ initialized' = initialized /\ entity' = entity
         /\ late' \subseteq RewardEpochs /\ late \subseteq late'
<1> USE DEF OtherTypes, Grow
<1>1. block' \in 0 .. MaxBlock /\ block' = block + 1
  BY BoundAssumption
<1>2. clock' \in RewardEpochs
  BY BoundAssumption DEF RewardEpochs
<1> QED
  BY <1>1, <1>2

LEMMA NextFlagTypes == FlagTypes /\ [Next]_vars => FlagTypes'
<1> SUFFICES ASSUME FlagTypes, [Next]_vars PROVE FlagTypes'
  OBVIOUS
<1> USE DEF FlagTypes, chainVars, feedVars, updateVars, historyVars
<1>1. CASE UNCHANGED vars
  BY <1>1, Zenon DEF vars
<1>2. CASE UnwatchedBlock \/ Startup \/ FirstBlock
  BY <1>2, Zenon DEF UnwatchedBlock, Startup, FirstBlock
<1>3. CASE Crash \/ SwitchFails
  BY <1>3, Zenon DEF Crash, SwitchFails, Forgotten
<1>4. CASE NextBlock
  BY <1>4, Zenon DEF NextBlock
<1>5. CASE SigningPolicyInitialized \/ FastUpdateFeeds
  BY <1>5, Zenon DEF SigningPolicyInitialized, FastUpdateFeeds
<1>6. ASSUME NEW u, FastUpdateFeedsSubmitted(u) PROVE FlagTypes'
  BY <1>6, Zenon DEF FastUpdateFeedsSubmitted, LengthIssue
<1>7. CASE LogsDone \/ Check \/ CheckNotDue
  BY <1>7, Zenon DEF LogsDone, Check, CheckNotDue
<1> QED
  BY <1>1, <1>2, <1>3, <1>4, <1>5, <1>6, <1>7 DEF Next

\* An update the entity sends.
LEMMA SubmittedTypes ==
  ASSUME TypeOK, NEW bytes \in DeltaBytes, NEW sender \in Senders,
         FastUpdateFeedsSubmitted(UpdateFromTx(bytes, sender))
  PROVE  OtherTypes'
<1> DEFINE u == UpdateFromTx(bytes, sender)
<1>t. OtherTypes /\ FlagTypes
  BY TypeHalves
<1>1. u.size \in Nat /\ u.sender \in Senders
  BY FeedAssumption DEF UpdateFromTx, Entries
<1> HIDE DEF u
<1>2. /\ UNCHANGED <<chainVars, phase, policy, informed, feedVars, since, late, feedsSeen>>
      /\ submitted' = block
  BY DEF FastUpdateFeedsSubmitted, u
<1>3. CASE Own(u.key)
  <2>1. /\ last_update' = [epoch |-> policy, size |-> u.size]
        /\ last_update_block' = block
        /\ address_list' = address_list \cup {u.sender}
        /\ judged' = [size |-> u.size, right |-> RightSize(FeedCounts[inForce]),
                      known |-> feedsSeen /\ clock = inForce /\ policy = inForce]
        /\ alarm' = "none"
    BY <1>3 DEF FastUpdateFeedsSubmitted, u
  <2>2. (feedsSeen /\ clock = inForce /\ policy = inForce) \in BOOLEAN
    OBVIOUS
  <2>3. judged' \in Judgement
    BY <1>t, <1>1, <2>1, <2>2, RightSizeIsNumber DEF Judgement, OtherTypes
  <2> QED
    BY <1>t, <1>1, <1>2, <2>1, <2>3 DEF OtherTypes, chainVars, feedVars, Levels
<1>4. CASE ~Own(u.key)
  BY <1>t, <1>2, <1>4 DEF FastUpdateFeedsSubmitted, u, OtherTypes, chainVars, feedVars, updateVars
<1> QED
  BY <1>3, <1>4

LEMMA NextOtherTypes == TypeOK /\ [Next]_vars => OtherTypes'
<1> SUFFICES ASSUME TypeOK, [Next]_vars PROVE OtherTypes'
  OBVIOUS
<1>t. OtherTypes
  BY TypeHalves
<1>b. \A k \in 0 .. block : k \in 0 .. block + 1
  BY <1>t, BoundAssumption DEF OtherTypes
<1>o. 1 \in RewardEpochs
  BY BoundAssumption DEF RewardEpochs
<1> USE <1>t DEF chainVars, feedVars, updateVars, historyVars
<1>1. CASE UNCHANGED vars
  BY <1>1 DEF vars, OtherTypes
<1>2. CASE UnwatchedBlock
  BY <1>2, <1>b, GrowTypes DEF UnwatchedBlock, OtherTypes
<1>3. CASE Startup
  BY <1>3 DEF Startup, OtherTypes, Phases
<1>4. CASE Crash
  BY <1>4, <1>o, BoundAssumption DEF Crash, Forgotten, OtherTypes, Phases, Levels
<1>5. CASE FirstBlock
  BY <1>5, <1>b, GrowTypes DEF FirstBlock, FirstUpdateBlock, OtherTypes, Phases
<1>6. CASE NextBlock
  <2>1. policy' \in RewardEpochs /\ alarm' \in Levels
    BY <1>6, GrowTypes DEF NextBlock, OtherTypes, Levels
  <2> QED
    BY <1>6, <1>b, <2>1, GrowTypes DEF NextBlock, OtherTypes, Phases
<1>7. CASE SwitchFails
  BY <1>7, <1>b, <1>o, GrowTypes DEF SwitchFails, Forgotten, OtherTypes, Phases, Levels
<1>8. CASE SigningPolicyInitialized
  <2>1. initialized' \in RewardEpochs
    BY <1>8, BoundAssumption DEF SigningPolicyInitialized, Initialize, OtherTypes, RewardEpochs
  <2> QED
    BY <1>8, <2>1 DEF SigningPolicyInitialized, Initialize, OtherTypes
<1>9. CASE FastUpdateFeeds
  BY <1>9, FeedAssumption DEF FastUpdateFeeds, OtherTypes
<1>10. ASSUME NEW bytes \in DeltaBytes, NEW sender \in Senders,
              FastUpdateFeedsSubmitted(UpdateFromTx(bytes, sender))
       PROVE  OtherTypes'
  BY <1>10, SubmittedTypes
<1>11. CASE LogsDone \/ CheckNotDue
  BY <1>11 DEF LogsDone, CheckNotDue, OtherTypes, Phases
<1>12. CASE Check
  <2>1. alarm' \in Levels
    BY <1>12, LevelGrounds, BoundAssumption DEF Check, OtherTypes
  <2> QED
    BY <1>12, <2>1 DEF Check, OtherTypes, Phases
<1> QED
  BY <1>1, <1>2, <1>3, <1>4, <1>5, <1>6, <1>7, <1>8, <1>9, <1>10, <1>11, <1>12 DEF Next

LEMMA NextTypeOK == TypeOK /\ [Next]_vars => TypeOK'
<1> SUFFICES ASSUME TypeOK, [Next]_vars PROVE FlagTypes' /\ OtherTypes'
  BY DEF TypeOK, FlagTypes, OtherTypes
<1>1. FlagTypes'
  BY TypeHalves, NextFlagTypes
<1>2. OtherTypes'
  BY NextOtherTypes
<1> QED
  BY <1>1, <1>2

LEMMA InitIInv == Init => IInv
<1> SUFFICES ASSUME Init PROVE IInv
  OBVIOUS
<1>1. FlagTypes
  BY Zenon DEF Init, FlagTypes
<1>2. OtherTypes
  BY BoundAssumption DEF Init, OtherTypes, RewardEpochs, Phases, Levels
<1>3. ClockAhead /\ Idle /\ CountsFromSign /\ AlarmFromSilence
  BY DEF Init, ClockAhead, Idle, CountsFromSign, AlarmFromSilence, Running
<1>4. FeedsKnown /\ RightLengthReportedIffOdd /\ WrongLengthReported
  BY DEF Init, FeedsKnown, RightLengthReportedIffOdd, WrongLengthReported
<1> QED
  BY <1>1, <1>2, <1>3, <1>4, TypeHalves DEF IInv

-----------------------------------------------------------------------------
(***************************************************************************)
(* The clock and the feeds.                                                *)
(***************************************************************************)
LEMMA NextClockAhead == IInv /\ [Next]_vars => ClockAhead' /\ clock <= clock' /\ late \subseteq late'
<1> SUFFICES ASSUME IInv, [Next]_vars PROVE ClockAhead' /\ clock <= clock' /\ late \subseteq late'
  OBVIOUS
<1>t. ClockAhead /\ clock \in Nat /\ inForce \in Nat
  BY TypeHalves DEF IInv, OtherTypes, RewardEpochs
<1>1. CASE Grow
  BY <1>t, <1>1 DEF Grow, ClockAhead
<1>2. CASE UNCHANGED <<clock, inForce, late>>
  BY <1>t, <1>2 DEF ClockAhead
<1> QED
  BY <1>1, <1>2
  DEF Next, vars, chainVars, historyVars, UnwatchedBlock, Startup, Crash, FirstBlock, NextBlock,
      SwitchFails, SigningPolicyInitialized, Initialize, FastUpdateFeeds,
      FastUpdateFeedsSubmitted, LogsDone, Check, CheckNotDue

LEMMA NextIdle == IInv /\ [Next]_vars => Idle'
<1> SUFFICES ASSUME IInv, [Next]_vars PROVE Idle'
  OBVIOUS
<1>t. Idle
  BY DEF IInv
<1> USE DEF Idle, Running
<1>1. CASE UNCHANGED <<phase, feedsSeen, judged, alarm>>
  BY <1>t, <1>1
<1>2. CASE Startup
  BY <1>t, <1>2 DEF Startup, historyVars
<1>3. CASE Forgotten
  BY <1>3 DEF Forgotten
<1>4. CASE phase' \in {"polling", "logs", "check"}
  BY <1>4
<1> QED
  BY <1>1, <1>2, <1>3, <1>4
  DEF Next, vars, historyVars, UnwatchedBlock, Crash, FirstBlock, NextBlock, SwitchFails,
      SigningPolicyInitialized, FastUpdateFeeds, FastUpdateFeedsSubmitted, LogsDone, Check,
      CheckNotDue

LEMMA NextFeedsKnown == IInv /\ [Next]_vars => FeedsKnown'
<1> SUFFICES ASSUME IInv, [Next]_vars PROVE FeedsKnown'
  OBVIOUS
<1>t. /\ FeedsKnown /\ ClockAhead /\ Idle
      /\ clock \in RewardEpochs /\ inForce \in RewardEpochs /\ RewardEpochs \subseteq Nat
      /\ fast_update_re \in Nat
  BY TypeHalves DEF IInv, OtherTypes, RewardEpochs
<1>c. clock <= clock' /\ late \subseteq late' /\ clock' \in Nat
  BY NextClockAhead, NextTypeOK DEF IInv, TypeOK, RewardEpochs
<1>1. CASE Forgotten
  BY <1>1 DEF Forgotten, FeedsKnown
<1>2. CASE FastUpdateFeeds
  <2>1. /\ nr_of_feeds' = FeedCounts[inForce] /\ fast_update_re' = clock
        /\ UNCHANGED <<clock, inForce, late>>
    BY <1>2 DEF FastUpdateFeeds, chainVars
  <2>2. clock \in late \/ clock = inForce
    BY <1>t DEF ClockAhead
  <2>3. inForce <= clock /\ clock <= clock
    BY <1>t DEF ClockAhead
  <2> QED
    BY <1>t, <2>1, <2>2, <2>3 DEF FeedsKnown
<1>3. CASE UNCHANGED feedVars /\ (feedsSeen' => feedsSeen /\ inForce' = inForce)
  BY <1>t, <1>c, <1>3 DEF FeedsKnown, feedVars
<1>4. CASE UnwatchedBlock \/ FirstBlock
  <2>1. ~feedsSeen /\ UNCHANGED feedVars /\ feedsSeen' = feedsSeen
    BY <1>t, <1>4, Zenon DEF UnwatchedBlock, FirstBlock, Idle, Running
  <2>2. ~feedsSeen'
    BY <2>1, Zenon
  <2> QED
    BY <1>3, <2>1, <2>2
<1>5. CASE NextBlock
  <2>1. UNCHANGED feedVars /\ (feedsSeen' => feedsSeen /\ inForce' = inForce)
    BY <1>5, Zenon DEF NextBlock
  <2> QED
    BY <1>3, <2>1
<1>6. CASE UNCHANGED <<feedVars, feedsSeen, inForce>>
  <2>1. UNCHANGED feedVars /\ (feedsSeen' => feedsSeen /\ inForce' = inForce)
    BY <1>6, Zenon
  <2> QED
    BY <1>3, <2>1
<1> QED
  BY <1>1, <1>2, <1>4, <1>5, <1>6
  DEF Next, vars, chainVars, historyVars, Startup, Crash, SwitchFails, SigningPolicyInitialized,
      Initialize, FastUpdateFeedsSubmitted, LogsDone, Check, CheckNotDue

-----------------------------------------------------------------------------
(***************************************************************************)
(* The lengths.                                                            *)
(***************************************************************************)

\* What the manager finds of an update of its own policy: a right one is reported only
\* by the mistake with odd bytes, and once the feeds are known by every such mistake.
LEMMA RightLengthIssue ==
  ASSUME IInv, policy = inForce, inForce \notin late
  PROVE  LET right == RightSize(FeedCounts[inForce])
         IN LengthIssue([epoch |-> policy, size |-> right], nr_of_feeds, fast_update_re)
              => OddBytes(right)
<1>t. FeedsKnown /\ inForce \in RewardEpochs /\ RewardEpochs \subseteq Nat /\ fast_update_re \in Nat
  BY TypeHalves DEF IInv, OtherTypes, RewardEpochs
<1> DEFINE right == RightSize(FeedCounts[inForce])
<1>1. /\ FeedCounts[inForce] # 0
      /\ ~OddBytes(right) => Padded(FeedCounts[inForce]) = right
  BY <1>t, FeedAssumption, PaddedToEven
<1> HIDE DEF right
<1>2. ~OddBytes(right) => ~LengthIssue([epoch |-> policy, size |-> right], nr_of_feeds, fast_update_re)
  BY <1>t, <1>1 DEF LengthIssue, FeedsKnown
<1> QED
  BY <1>2 DEF right

LEMMA KnownLengthIssue ==
  ASSUME IInv, feedsSeen, clock = inForce, policy = inForce, NEW size \in Nat
  PROVE  LET right == RightSize(FeedCounts[inForce])
         IN LengthIssue([epoch |-> policy, size |-> size], nr_of_feeds, fast_update_re)
              <=> size # (IF OddBytes(right) THEN right + Entries(1) ELSE right)
<1>t. FeedsKnown /\ inForce \in RewardEpochs /\ RewardEpochs \subseteq Nat /\ fast_update_re \in Nat
  BY TypeHalves DEF IInv, OtherTypes, RewardEpochs
<1> DEFINE right == RightSize(FeedCounts[inForce])
           expected == IF OddBytes(right) THEN right + Entries(1) ELSE right
<1>1. FeedCounts[inForce] # 0 /\ Padded(FeedCounts[inForce]) = expected
  BY <1>t, FeedAssumption, PaddedToEven
<1> HIDE DEF expected
<1>2. LengthIssue([epoch |-> policy, size |-> size], nr_of_feeds, fast_update_re) <=> size # expected
  BY <1>t, <1>1 DEF LengthIssue, FeedsKnown
<1> QED
  BY <1>2 DEF expected

\* What an update that is the entity's own is found to be.
LEMMA SubmittedLengths ==
  ASSUME IInv, NEW bytes \in DeltaBytes, NEW sender,
         FastUpdateFeedsSubmitted(UpdateFromTx(bytes, sender)),
         Own(UpdateFromTx(bytes, sender).key)
  PROVE  RightLengthReportedIffOdd' /\ WrongLengthReported'
<1> DEFINE size == Entries(bytes)
           right == RightSize(FeedCounts[inForce])
<1>1. UpdateFromTx(bytes, sender).size = size /\ size \in Nat
  BY FeedAssumption DEF UpdateFromTx, Entries
<1>2. right \in Nat /\ right # right + Entries(1)
  BY TypeHalves, RightSizeIsNumber DEF IInv, OtherTypes, Entries
<1>3. /\ reported' = LengthIssue([epoch |-> policy, size |-> size], nr_of_feeds, fast_update_re)
      /\ judged' = [size |-> size, right |-> right,
                    known |-> feedsSeen /\ clock = inForce /\ policy = inForce]
      /\ UNCHANGED <<policy, inForce, late>>
  BY <1>1 DEF FastUpdateFeedsSubmitted, chainVars
<1>4. /\ judged'.size = size /\ judged'.right = right
      /\ judged'.known <=> feedsSeen /\ clock = inForce /\ policy = inForce
  BY <1>3
<1>5. size = right /\ policy = inForce /\ inForce \notin late /\ reported' => OddBytes(right)
  BY <1>3, RightLengthIssue
<1>6. judged'.known => (reported' <=> size # (IF OddBytes(right) THEN right + Entries(1) ELSE right))
  BY <1>1, <1>3, <1>4, KnownLengthIssue
<1> HIDE DEF size, right
<1>7. RightLengthReportedIffOdd'
  BY <1>2, <1>3, <1>4, <1>5, <1>6 DEF RightLengthReportedIffOdd
<1>8. WrongLengthReported'
  BY <1>2, <1>4, <1>6 DEF WrongLengthReported
<1> QED
  BY <1>7, <1>8

LEMMA NextLengths == IInv /\ [Next]_vars => RightLengthReportedIffOdd' /\ WrongLengthReported'
<1> SUFFICES ASSUME IInv, [Next]_vars PROVE RightLengthReportedIffOdd' /\ WrongLengthReported'
  OBVIOUS
<1>t. RightLengthReportedIffOdd /\ WrongLengthReported /\ Idle /\ inForce \in RewardEpochs
  BY TypeHalves DEF IInv, OtherTypes
<1>1. CASE judged' = None
  BY <1>1 DEF RightLengthReportedIffOdd, WrongLengthReported
<1>2. CASE UNCHANGED <<judged, reported, policy, inForce, late>>
  BY <1>t, <1>2 DEF RightLengthReportedIffOdd, WrongLengthReported
<1>3. CASE UnwatchedBlock \/ Startup \/ FirstBlock
  BY <1>t, <1>1, <1>3 DEF UnwatchedBlock, Startup, FirstBlock, Idle, Running, historyVars
<1>4. ASSUME NEW bytes \in DeltaBytes, NEW sender \in Senders,
             FastUpdateFeedsSubmitted(UpdateFromTx(bytes, sender))
      PROVE  RightLengthReportedIffOdd' /\ WrongLengthReported'
  <2>2. CASE Own(UpdateFromTx(bytes, sender).key)
    BY <1>4, <2>2, SubmittedLengths
  <2>3. CASE ~Own(UpdateFromTx(bytes, sender).key)
    BY <1>2, <1>4, <2>3 DEF FastUpdateFeedsSubmitted, chainVars
  <2> QED
    BY <2>2, <2>3
<1> QED
  BY <1>1, <1>2, <1>3, <1>4
  DEF Next, vars, chainVars, historyVars, Crash, Forgotten, NextBlock, SwitchFails,
      SigningPolicyInitialized, Initialize, FastUpdateFeeds, LogsDone, Check, CheckNotDue

-----------------------------------------------------------------------------
(***************************************************************************)
(* The silence.                                                            *)
(***************************************************************************)
LEMMA NextCountsFromSign == IInv /\ [Next]_vars => CountsFromSign'
<1> SUFFICES ASSUME IInv, [Next]_vars PROVE CountsFromSign'
  OBVIOUS
<1>t. /\ CountsFromSign /\ OtherTypes
      /\ block \in Nat /\ since \in Nat /\ submitted \in Nat /\ last_update_block \in Nat
      /\ since <= block /\ submitted <= block
  BY TypeHalves, BoundAssumption DEF IInv, OtherTypes
<1>1. CASE Running /\ UNCHANGED <<last_update_block, since, submitted, followed>>
  BY <1>t, <1>1 DEF CountsFromSign, LastSign
<1>2. CASE ~Running'
  BY <1>2 DEF CountsFromSign
<1>3. CASE FirstBlock
  <2>1. /\ last_update_block' = block' /\ since' = block' /\ submitted' = submitted
        /\ block' = block + 1
    BY <1>t, <1>3, GrowTypes DEF FirstBlock, FirstUpdateBlock
  <2> QED
    BY <1>t, <2>1 DEF CountsFromSign, LastSign
<1>4. ASSUME NEW bytes, NEW sender, FastUpdateFeedsSubmitted(UpdateFromTx(bytes, sender))
      PROVE  CountsFromSign'
  <2>1. submitted' = block /\ UNCHANGED since /\ Running
    BY <1>4 DEF FastUpdateFeedsSubmitted, Running
  <2>2. LastSign' = block /\ LastSign <= block /\ LastSign \in Nat
    BY <1>t, <2>1 DEF LastSign
  <2>3. CASE Own(UpdateFromTx(bytes, sender).key)
    <3>1. last_update_block' = block
      BY <1>4, <2>3 DEF FastUpdateFeedsSubmitted
    <3> QED
      BY <1>t, <2>2, <3>1 DEF CountsFromSign
  <2>4. CASE ~Own(UpdateFromTx(bytes, sender).key)
    <3>1. last_update_block' = last_update_block
      BY <1>4, <2>4 DEF FastUpdateFeedsSubmitted, updateVars
    <3>2. policy # inForce
      BY <2>4 DEF Own, UpdateFromTx
    <3>3. ~followed'
      BY <1>4, <3>2, Zenon DEF FastUpdateFeedsSubmitted
    <3> QED
      BY <1>t, <2>1, <2>2, <3>1, <3>3 DEF CountsFromSign
  <2> QED
    BY <2>3, <2>4
<1> QED
  BY <1>1, <1>2, <1>3, <1>4
  DEF Next, vars, historyVars, updateVars, UnwatchedBlock, Startup, Crash, NextBlock,
      SwitchFails, SigningPolicyInitialized, FastUpdateFeeds, LogsDone, Check, CheckNotDue, Running

LEMMA NextAlarmFromSilence == IInv /\ [Next]_vars => AlarmFromSilence'
<1> SUFFICES ASSUME IInv, [Next]_vars PROVE AlarmFromSilence'
  OBVIOUS
<1>t. /\ AlarmFromSilence /\ Idle /\ OtherTypes
      /\ block \in Nat /\ last_update_block \in Nat /\ last_update_block <= block
  BY TypeHalves, BoundAssumption DEF IInv, OtherTypes
<1>1. CASE alarm' = "none"
  BY <1>1 DEF AlarmFromSilence
<1>2. CASE UNCHANGED <<alarm, last_update_block, entity, policy>> /\ block' \in {block, block + 1}
  <2> SUFFICES ASSUME alarm' # "none"
               PROVE  \E m \in 0 .. block' - last_update_block' :
                        alarm' = Level(m, entity'[policy'].weight)
    BY DEF AlarmFromSilence, Level, Chance
  <2>1. PICK m \in 0 .. block - last_update_block : alarm = Level(m, entity[policy].weight)
    BY <1>t, <1>2 DEF AlarmFromSilence
  <2>2. m \in 0 .. block' - last_update_block'
    <3>1. last_update_block' = last_update_block /\ (block' = block \/ block' = block + 1)
      BY <1>2
    <3>2. m \in Int /\ 0 <= m /\ m <= block - last_update_block
      BY <1>t
    <3>3. m <= block' - last_update_block' /\ block' - last_update_block' \in Int
      BY <1>t, <3>1, <3>2
    <3> QED
      BY <3>2, <3>3
  <2>3. alarm' = alarm /\ entity'[policy'].weight = entity[policy].weight
    BY <1>2
  <2> QED
    BY <2>1, <2>2, <2>3
<1>3. CASE UnwatchedBlock \/ Startup \/ FirstBlock
  BY <1>t, <1>1, <1>3 DEF UnwatchedBlock, Startup, FirstBlock, Idle, Running, historyVars
<1>4. CASE NextBlock
  BY <1>1, <1>2, <1>4, <1>t, GrowTypes DEF NextBlock, updateVars
<1>5. CASE Check
  <2>1. /\ alarm' = Level(block - last_update_block, entity[policy].weight)
        /\ UNCHANGED <<block, last_update_block, entity, policy>>
    BY <1>5 DEF Check, chainVars, updateVars
  <2>2. block - last_update_block \in 0 .. block - last_update_block
    BY <1>t
  <2> QED
    BY <2>1, <2>2 DEF AlarmFromSilence
<1>6. ASSUME NEW u, FastUpdateFeedsSubmitted(u) PROVE AlarmFromSilence'
  BY <1>1, <1>2, <1>6 DEF FastUpdateFeedsSubmitted, chainVars, updateVars
<1> QED
  BY <1>1, <1>2, <1>3, <1>4, <1>5, <1>6
  DEF Next, vars, chainVars, historyVars, updateVars, Crash, Forgotten, SwitchFails,
      SigningPolicyInitialized, Initialize, FastUpdateFeeds, LogsDone, CheckNotDue

\* The feeds that were told are right for the epoch they were told under, and the
\* count begins with the last sign of the entity.
THEOREM Inductive == Spec => []IInv
<1>1. IInv /\ [Next]_vars => IInv'
  BY NextTypeOK, NextClockAhead, NextIdle, NextFeedsKnown, NextLengths, NextCountsFromSign,
     NextAlarmFromSilence DEF IInv
<1> QED
  BY <1>1, InitIInv, PTL DEF Spec

-----------------------------------------------------------------------------
(***************************************************************************)
(* The properties.                                                         *)
(***************************************************************************)

\* All variables keep their types.
THEOREM TypeCorrect == Spec => []TypeOK
<1>1. IInv => TypeOK
  BY DEF IInv
<1> QED
  BY <1>1, Inductive, PTL

\* A right update is reported when its bytes are odd in number and only then, whatever
\* the numbers of feeds.
THEOREM RightReportedIffOdd == Spec => []RightLengthReportedIffOdd
<1>1. IInv => RightLengthReportedIffOdd
  BY DEF IInv
<1> QED
  BY <1>1, Inductive, PTL

\* A wrong update is reported, but for a byte too many after an odd number, whatever the
\* numbers of feeds.
THEOREM WrongReported == Spec => []WrongLengthReported
<1>1. IInv => WrongLengthReported
  BY DEF IInv
<1> QED
  BY <1>1, Inductive, PTL

\* A warning has a silence behind it that the process itself has seen.
THEOREM AfterSilence == Spec => []AlarmOnlyAfterSilence
<1>1. IInv => AlarmOnlyAfterSilence
  <2> SUFFICES ASSUME IInv, alarm # "none", followed
               PROVE  \E n \in 0 .. block - LastSign :
                        n >= MaxExponent \/ Chance(n, entity[policy].weight) <= Critical
    BY DEF AlarmOnlyAfterSilence
  <2>1. CountsFromSign /\ AlarmFromSilence /\ Idle
    BY DEF IInv
  <2>2. LastSign = last_update_block
    BY <2>1 DEF Idle, CountsFromSign
  <2>3. PICK m \in 0 .. block - last_update_block : alarm = Level(m, entity[policy].weight)
    BY <2>1 DEF AlarmFromSilence
  <2>4. m \in Nat
    BY TypeHalves, BoundAssumption DEF IInv, OtherTypes
  <2> QED
    BY <2>2, <2>3, <2>4, LevelGrounds
<1> QED
  BY <1>1, Inductive, PTL

\* A long silence is warned of in every check, under whatever policy.
THEOREM SilenceWarned == Spec => SilenceReported
<1>1. IInv /\ [Next]_vars =>
        [Check /\ block - LastSign >= MaxExponent => alarm' # "none"]_vars
  <2> SUFFICES ASSUME IInv, Check, block - LastSign >= MaxExponent
               PROVE  alarm' # "none"
    OBVIOUS
  <2>1. CountsFromSign /\ Running
    BY DEF IInv, Check, Running
  <2>2. block \in Nat /\ last_update_block \in 0 .. block /\ since \in Nat /\ submitted \in Nat
    BY TypeHalves, BoundAssumption DEF IInv, OtherTypes
  <2>3. block - last_update_block \in Nat /\ block - last_update_block >= MaxExponent
    BY <2>1, <2>2, ChanceAssumption DEF CountsFromSign, LastSign
  <2> QED
    BY <2>3, LevelGrounds DEF Check
<1> QED
  BY <1>1, Inductive, PTL DEF Spec, SilenceReported

\* While the entity is silent the level of the warning does not fall.
THEOREM Grows == Spec => AlarmGrows
<1>1. IInv /\ [Next]_vars =>
        [Check /\ 3 * entity[policy].weight <= 2 * TotalWeight => Rank[alarm] <= Rank[alarm']]_vars
  <2> SUFFICES ASSUME IInv, Check, 3 * entity[policy].weight <= 2 * TotalWeight
               PROVE  Rank[alarm] <= Rank[alarm']
    OBVIOUS
  <2> DEFINE w == entity[policy].weight
             n == block - last_update_block
  <2>1. AlarmFromSilence /\ OtherTypes
    BY TypeHalves DEF IInv
  <2>2. w \in Nat /\ Usual(w)
    BY <2>1, EntityAssumption DEF OtherTypes, Usual
  <2>3. n \in Nat /\ block \in Nat /\ last_update_block \in Nat
    BY <2>1, BoundAssumption DEF OtherTypes
  <2>4. alarm' = Level(n, w)
    BY DEF Check
  <2>5. CASE alarm = "none"
    <3>1. alarm' \in Levels
      BY <2>3, <2>4, LevelGrounds
    <3> QED
      BY <2>5, <3>1 DEF Rank, Levels
  <2>6. CASE alarm # "none"
    <3>1. PICK m \in 0 .. n : alarm = Level(m, w)
      BY <2>1, <2>6 DEF AlarmFromSilence
    <3>2. m \in Nat /\ m <= n
      BY <2>3, <3>1
    <3> HIDE DEF w, n
    <3> QED
      BY <2>2, <2>3, <2>4, <3>1, <3>2, LevelRises
  <2> QED
    BY <2>5, <2>6
<1> QED
  BY <1>1, Inductive, PTL DEF Spec, AlarmGrows

=============================================================================
