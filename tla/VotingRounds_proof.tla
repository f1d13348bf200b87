------------------------- MODULE VotingRounds_proof -------------------------
(***************************************************************************)
(* Proofs about VotingRounds, for every set of rounds, every epoch length  *)
(* and every bound: the inductive invariant, the safety properties that    *)
(* follow from it, and that the module implements RoundLog.                *)
(***************************************************************************)
EXTENDS VotingRounds, TLAPS

-----------------------------------------------------------------------------
(***************************************************************************)
(* Epoch arithmetic. The main proofs use these facts and never the         *)
(* multiplication and division behind them.                                *)
(***************************************************************************)

\* Voting epochs are in order and EpochLen apart (VotingEpoch.start_s, end_s).
LEMMA StartGap ==
  ASSUME NEW e \in Nat, NEW f \in Nat, e < f
  PROVE  StartS(e) + EpochLen <= StartS(f)
<1>1. PICK d \in Nat : f = e + 1 + d
  <2>1. f - e - 1 \in Nat /\ f = e + 1 + (f - e - 1)
    OBVIOUS
  <2> QED BY <2>1
<1>2. EpochLen \in Nat
  BY EpochAssumption
<1>3. f * EpochLen = e * EpochLen + EpochLen + d * EpochLen
  BY <1>1, <1>2, SMTT(30)
<1>4. d * EpochLen \in Nat /\ e * EpochLen \in Nat /\ f * EpochLen \in Nat
  BY <1>2, SMTT(30)
<1> QED BY <1>2, <1>3, <1>4 DEF StartS

\* Epoch boundaries are times.
LEMMA StartType ==
  ASSUME NEW e \in Nat
  PROVE  StartS(e) \in Nat
BY EpochAssumption, SMTT(30) DEF StartS

\* A timestamp lies in the epoch VotingEpochFactory.from_timestamp gives it.
LEMMA EpochAtBounds ==
  ASSUME NEW t \in Nat
  PROVE  /\ EpochAt(t) \in Nat
         /\ StartS(EpochAt(t)) <= t
         /\ t < StartS(EpochAt(t) + 1)
<1>1. EpochLen \in Nat /\ EpochLen > 0
  BY EpochAssumption
<1>2. t \div EpochLen \in Nat
  BY <1>1, SMTT(30)
<1>3. t % EpochLen \in 0 .. EpochLen - 1 /\ t = EpochLen * (t \div EpochLen) + (t % EpochLen)
  BY <1>1, SMTT(30)
<1>4. (t \div EpochLen) * EpochLen = EpochLen * (t \div EpochLen)
  BY <1>1, <1>2, SMTT(30)
<1>5. (t \div EpochLen + 1) * EpochLen = EpochLen * (t \div EpochLen) + EpochLen
  BY <1>1, <1>2, SMTT(30)
<1> QED BY <1>1, <1>2, <1>3, <1>4, <1>5 DEF EpochAt, StartS

\* The voting epoch of a block has a policy.
LEMMA EpochHasPolicy ==
  ASSUME NEW t \in 0 .. MaxTs
  PROVE  EpochAt(t) \in 0 .. MaxTs
<1>1. EpochLen \in Nat /\ EpochLen > 0 /\ MaxTs \in Nat /\ t \in Nat
  BY EpochAssumption, BoundsAssumption
<1>2. t \div EpochLen \in Nat /\ t \div EpochLen <= t
  BY <1>1, SMTT(30)
<1> QED BY <1>1, <1>2 DEF EpochAt

\* A round's window begins with its epoch and ends two epochs later; it is at
\* least EpochLen away from the end of the window of any other round.
LEMMA WindowBounds ==
  ASSUME NEW e \in Nat, NEW f \in Nat, e < f
  PROVE  /\ WindowEnd(e) \in Nat /\ WindowEnd(f) \in Nat
         /\ WindowEnd(e) < WindowEnd(f)
         /\ WindowEnd(e) + EpochLen <= WindowEnd(f)
         /\ WindowStart(f) >= StartS(e + 1)
<1>1. StartS(e + 2) \in Nat /\ StartS(f + 2) \in Nat /\ StartS(f) \in Nat /\ StartS(e + 1) \in Nat
  BY StartType
<1>2. StartS(e + 2) + EpochLen <= StartS(f + 2)
  BY StartGap
<1>3. StartS(f) >= StartS(e + 1)
  BY <1>1, StartGap, EpochAssumption
<1> QED BY <1>1, <1>2, <1>3, EpochAssumption DEF WindowEnd, WindowStart, EndS

-----------------------------------------------------------------------------
(***************************************************************************)
(* The inductive invariant, in the parts the argument goes through.        *)
(***************************************************************************)
Running == phase \in {"polling", "logs", "txs"}

\* What the chain has carried is in the past, and what a round has collected is
\* of that round; a process that does not run collects nothing.
CollectedIsReal ==
  /\ \A i \in carried : i.ts <= ts
  /\ \A k \in Rounds : content[k] \subseteq {i \in carried : i.round = k}
  /\ \A k \in Rounds : content[k] # {} => k \in rounds /\ Running
  /\ rounds # {} \/ observed # {} => Running

\* While the process waits, the epoch it waits for has not begun, or has been
\* passed over by a gap in the chain, in which case it waits for good.
WaitsForFuture ==
  phase = "waiting" => ts < StartS(startEpoch + 1) \/ EndS(startEpoch + 1) <= ts

\* Above the watermark nothing a round is owed and the process did not pass over is
\* missing from its record.
AboveMarkComplete ==
  Running =>
    /\ startEpoch <= finalized
    /\ StartS(startEpoch + 1) <= ts
    /\ \A i \in carried \ overlooked :
         i.round > finalized /\ InWindow(i.round, i.ts) /\ Owed(i) => i \in content[i.round]

\* Validated rounds are closed, at or below the watermark, and complete.
ValidatedIsClosed ==
  \A k \in validated :
    /\ WindowEnd(k) < ts
    /\ Running => k <= finalized

IInv ==
  /\ TypeOK
  /\ CollectedIsReal
  /\ WaitsForFuture
  /\ AboveMarkComplete
  /\ ValidatedIsClosed
  /\ RecordComplete

LEMMA InitIInv == Init => IInv
<1> SUFFICES ASSUME Init PROVE IInv
  OBVIOUS
<1>1. TypeOK
  BY BoundsAssumption DEF Init, TypeOK, Phases
<1>2. CollectedIsReal /\ WaitsForFuture /\ AboveMarkComplete /\ ValidatedIsClosed /\ RecordComplete
  BY DEF Init, CollectedIsReal, WaitsForFuture, AboveMarkComplete, ValidatedIsClosed, RecordComplete, Running
<1> QED BY <1>1, <1>2 DEF IInv

(***************************************************************************)
(* An item of the block at hand is stored, or passed over. The lemmas are  *)
(* stated for all the actions that carry an item; which it is does not     *)
(* matter.                                                                 *)
(***************************************************************************)
CarriedInBlock(i) ==
  /\ i.ts = ts /\ phase \in {"logs", "txs"}
  /\ Carry(i)
  /\ UNCHANGED <<ts, phase, startEpoch, policy>>

Stored(i) == Store(i) /\ UNCHANGED overlooked

PassedOver(i) ==
  /\ i.from \in Senders
  /\ overlooked' = overlooked \cup (IF i.from \in Voters[EpochAt(i.ts)] THEN {i} ELSE {})
  /\ UNCHANGED <<dictVars, observed>>

\* Nothing is added to the window of a round that is validated.
LEMMA WindowIsClosed ==
  ASSUME IInv, NEW i \in Item, i.ts = ts
  PROVE  ~InWindow(i.round, i.ts) \/ i.round \notin validated
<1>1. i.round \in Nat /\ ts \in Nat
  BY RoundsAssumption DEF Item, IInv, TypeOK
<1>2. WindowEnd(i.round) \in Nat
  BY <1>1, StartType DEF WindowEnd, EndS
<1> QED BY <1>1, <1>2 DEF IInv, ValidatedIsClosed, InWindow

LEMMA StoreIInv ==
  ASSUME IInv, NEW i \in Item, CarriedInBlock(i), Stored(i)
  PROVE  IInv'
<1> USE DEF IInv, CarriedInBlock, Stored
<1>1. i.round \in Rounds /\ i.round \in Nat
  BY RoundsAssumption DEF Item
<1>2. TypeOK'
  <2>1. older' \subseteq rounds' \X rounds'
    BY <1>1 DEF TypeOK, Store
  <2>2. overlooked' \subseteq carried'
    BY DEF TypeOK, Carry
  <2> QED BY <1>1, <2>1, <2>2 DEF TypeOK, Carry, Store
<1>3. content'[i.round] = content[i.round] \cup {i} /\ \A k \in Rounds \ {i.round} : content'[k] = content[k]
  BY <1>1 DEF TypeOK, Store
<1>4. CollectedIsReal'
  BY <1>1, <1>3 DEF TypeOK, CollectedIsReal, Running, Carry, Store
<1>5. WaitsForFuture' /\ ValidatedIsClosed'
  BY DEF WaitsForFuture, ValidatedIsClosed, Running, Carry, Store
<1>6. AboveMarkComplete'
  <2>1. \A j \in carried' : j = i \/ j \in carried
    BY DEF Carry
  <2>2. \A j \in carried : j.round \in Rounds
    BY DEF TypeOK, Item
  <2> QED BY <1>1, <1>3, <2>1, <2>2 DEF AboveMarkComplete, Running, Carry, Store
<1>7. RecordComplete'
  BY WindowIsClosed DEF RecordComplete, Carry
<1> QED BY <1>2, <1>4, <1>5, <1>6, <1>7

LEMMA PassedOverIInv ==
  ASSUME IInv, NEW i \in Item, CarriedInBlock(i), PassedOver(i)
  PROVE  IInv'
<1> USE DEF IInv, CarriedInBlock
<1>1. UNCHANGED <<ts, phase, startEpoch, policy, finalized, rounds, older, content, observed,
                  validated, archived, swept, punctual>>
  BY DEF Carry, PassedOver, dictVars
<1>2. /\ carried' = carried \cup {i}
      /\ overlooked \subseteq overlooked' /\ overlooked' \subseteq overlooked \cup {i}
      /\ Owed(i) => i \in overlooked'
  BY DEF Carry, PassedOver, Owed
<1>3. \A j \in carried' \ overlooked' : j \in carried \ overlooked \/ ~Owed(j)
  BY <1>2
<1>4. TypeOK'
  BY <1>1, <1>2 DEF TypeOK
<1>5. CollectedIsReal'
  BY <1>1, <1>2 DEF CollectedIsReal, Running, TypeOK
<1>6. WaitsForFuture' /\ ValidatedIsClosed'
  BY <1>1 DEF WaitsForFuture, ValidatedIsClosed, Running
<1>7. AboveMarkComplete'
  BY <1>1, <1>3 DEF AboveMarkComplete, Running
<1>8. RecordComplete'
  BY <1>1, <1>2, <1>3 DEF RecordComplete
<1> QED BY <1>4, <1>5, <1>6, <1>7, <1>8

(***************************************************************************)
(* finalize: every key it takes out is at or below the watermark it leaves. *)
(***************************************************************************)
LEMMA FinalizeMark ==
  ASSUME IInv, Finalize
  PROVE  /\ finalized' \in {finalized} \cup Closed
         /\ finalized <= finalized'
         /\ finalized' \in Nat
         /\ \A k \in rounds : k \in Remaining \/ k <= finalized'
         /\ \A k \in Finished : k > finalized /\ k <= finalized' /\ WindowEnd(k) < ts
<1>1. rounds \subseteq Nat /\ finalized \in Nat
  BY RoundsAssumption DEF IInv, TypeOK
<1>2. /\ finalized' \in {finalized} \cup Closed
      /\ \A k \in {finalized} \cup Closed : k <= finalized'
  BY DEF Finalize
<1>3. finalized' \in Nat /\ finalized <= finalized'
  BY <1>1, <1>2 DEF Closed
<1>4. ASSUME NEW k \in rounds, k \notin Remaining PROVE k <= finalized'
  <2>1. CASE Completed(k)
    BY <2>1, <1>2 DEF Closed
  <2>2. CASE Overtaken(k)
    <3>1. CASE k <= finalized
      BY <3>1, <1>1, <1>3
    <3>2. CASE ~(k <= finalized)
      <4>1. PICK j \in rounds : Completed(j) /\ k <= j
        BY <2>2, <3>2 DEF Overtaken
      <4>2. j <= finalized'
        BY <4>1, <1>2 DEF Closed
      <4> QED BY <4>1, <4>2, <1>1, <1>3
    <3> QED BY <3>1, <3>2
  <2> QED BY <2>1, <2>2, <1>4 DEF Remaining
<1>5. ASSUME NEW k \in Finished PROVE k > finalized /\ k <= finalized' /\ WindowEnd(k) < ts
  BY <1>1, <1>2 DEF Finished, Overtaken, Completed, Closed
<1> QED BY <1>2, <1>3, <1>4, <1>5

LEMMA FinalizeIInv ==
  ASSUME IInv, Finalize
  PROVE  IInv'
<1> USE DEF IInv
<1>1. rounds \subseteq Rounds /\ Rounds \subseteq Nat /\ Finished \subseteq rounds /\ Remaining \subseteq rounds
  BY RoundsAssumption DEF TypeOK, Finished, Remaining
<1>2. TypeOK'
  <2>1. ts \in Nat /\ ts' \in Nat /\ phase' \in Phases /\ startEpoch' \in Nat /\ finalized' \in Nat /\ swept' \in Nat
    BY FinalizeMark DEF TypeOK, Finalize, Phases
  <2>2. rounds' \subseteq Rounds /\ older' \subseteq rounds' \X rounds'
    BY <1>1 DEF TypeOK, Finalize
  <2>3. content' \in [Rounds -> SUBSET Item] /\ archived' \in [Rounds -> SUBSET Item]
    BY DEF TypeOK, Finalize
  <2>4. carried' \subseteq Item /\ overlooked' \subseteq carried' /\ policy' \subseteq Senders
        /\ validated' \subseteq Rounds /\ observed' \subseteq Rounds /\ punctual' \in BOOLEAN
    <3>1. punctual' \in BOOLEAN
      BY DEF TypeOK, Finalize
    <3> QED BY <1>1, <3>1 DEF TypeOK, Finalize
  <2> QED BY <2>1, <2>2, <2>3, <2>4 DEF TypeOK
<1>3. \A k \in Rounds : content'[k] = IF k \in Remaining THEN content[k] ELSE {}
  BY DEF Finalize
<1>4. CollectedIsReal'
  BY <1>1, <1>3 DEF CollectedIsReal, Running, Finalize
<1>5. WaitsForFuture'
  BY DEF WaitsForFuture, Finalize
<1>6. AboveMarkComplete'
  <2>1. startEpoch' <= finalized' /\ StartS(startEpoch + 1) <= ts
    BY FinalizeMark DEF AboveMarkComplete, Running, Finalize, TypeOK
  <2>2. ASSUME NEW i \in carried \ overlooked, i.round > finalized', InWindow(i.round, i.ts), Owed(i)
        PROVE  i \in content'[i.round]
    <3>1. i.round \in Rounds /\ i.round \in Nat
      BY RoundsAssumption DEF TypeOK, Item
    <3>2. i.round > finalized
      BY <2>2, <3>1, FinalizeMark DEF TypeOK
    <3>3. i \in content[i.round]
      BY <2>2, <3>2 DEF AboveMarkComplete, Running, Finalize
    <3>4. i.round \in rounds
      BY <3>1, <3>3 DEF CollectedIsReal
    <3>5. i.round \in Remaining
      BY <2>2, <3>1, <3>4, FinalizeMark
    <3> QED BY <1>3, <3>1, <3>3, <3>5
  <2> QED BY <2>1, <2>2 DEF AboveMarkComplete, Finalize
<1>7. ValidatedIsClosed'
  <2>1. ASSUME NEW k \in validated' PROVE WindowEnd(k) < ts /\ k <= finalized'
    <3>1. CASE k \in Finished
      BY <3>1, FinalizeMark
    <3>2. CASE k \in validated
      <4>1. k \in Nat /\ WindowEnd(k) < ts /\ k <= finalized
        BY <1>1, <3>2 DEF ValidatedIsClosed, Running, Finalize, TypeOK
      <4> QED BY <4>1, FinalizeMark DEF TypeOK
    <3> QED BY <2>1, <3>1, <3>2 DEF Finalize
  <2> QED BY <2>1 DEF ValidatedIsClosed, Finalize
<1>8. RecordComplete'
  <2>1. ASSUME NEW k \in validated'
        PROVE  /\ archived'[k] \subseteq {i \in carried : i.round = k}
               /\ \A i \in carried \ overlooked :
                    i.round = k /\ InWindow(k, i.ts) /\ Owed(i) => i \in archived'[k]
    <3>1. CASE k \in Finished
      <4>1. k \in Rounds /\ archived'[k] = content[k] /\ k > finalized
        BY <1>1, <3>1, FinalizeMark DEF Finalize
      <4> QED BY <4>1 DEF CollectedIsReal, AboveMarkComplete, Running, Finalize
    <3>2. CASE k \in validated /\ k \notin Finished
      <4>1. k \in Rounds /\ archived'[k] = archived[k]
        BY <3>2 DEF Finalize, TypeOK
      <4> QED BY <3>2, <4>1 DEF RecordComplete
    <3> QED BY <2>1, <3>1, <3>2 DEF Finalize
  <2> QED BY <2>1 DEF RecordComplete, Finalize
<1> QED BY <1>2, <1>4, <1>5, <1>6, <1>7, <1>8

\* The wait ends at a block of the epoch after the one the process was started
\* in, and nothing of a later round's window has been missed by then.
LEMMA FirstBlockIInv ==
  ASSUME IInv, FirstBlock
  PROVE  IInv'
<1> USE DEF IInv
<1>1. ts \in Nat /\ ts' \in Nat /\ ts <= ts' /\ startEpoch \in Nat
  BY DEF TypeOK, FirstBlock, Tick
<1>2. StartS(startEpoch + 1) <= ts' /\ ts' < EndS(startEpoch + 1)
  BY <1>1, EpochAtBounds DEF FirstBlock, EndS
<1>3. StartS(startEpoch + 1) \in Nat /\ EndS(startEpoch + 1) \in Nat
  BY <1>1, StartType DEF EndS
<1>4. ts < StartS(startEpoch + 1)
  BY <1>1, <1>2, <1>3 DEF WaitsForFuture, FirstBlock
<1>5. TypeOK'
  BY <1>1 DEF TypeOK, FirstBlock, Phases, InitialMark
<1>6. CollectedIsReal'
  <2>1. \A i \in carried : i.ts <= ts'
    BY <1>1 DEF CollectedIsReal, TypeOK, Item
  <2> QED BY <2>1 DEF CollectedIsReal, Running, FirstBlock
<1>7. WaitsForFuture'
  BY DEF WaitsForFuture, FirstBlock
<1>8. AboveMarkComplete'
  <2>1. ASSUME NEW i \in carried, i.round > startEpoch, InWindow(i.round, i.ts)
        PROVE  FALSE
    <3>1. i.round \in Nat /\ i.ts \in Nat /\ i.ts <= ts
      BY RoundsAssumption DEF TypeOK, Item, CollectedIsReal
    <3>2. WindowStart(i.round) >= StartS(startEpoch + 1)
      BY <1>1, <2>1, <3>1, WindowBounds
    <3>3. WindowStart(i.round) \in Nat
      BY <3>1, StartType DEF WindowStart
    <3> QED BY <1>1, <1>3, <1>4, <2>1, <3>1, <3>2, <3>3 DEF InWindow
  <2> QED BY <1>1, <1>2, <2>1 DEF AboveMarkComplete, FirstBlock, InitialMark
<1>9. ValidatedIsClosed'
  <2>1. ASSUME NEW k \in validated PROVE WindowEnd(k) < ts' /\ k <= startEpoch
    <3>1. k \in Nat /\ WindowEnd(k) < ts
      BY RoundsAssumption DEF TypeOK, ValidatedIsClosed
    <3>2. WindowEnd(k) \in Nat /\ WindowEnd(startEpoch) \in Nat
      BY <1>1, <3>1, StartType DEF WindowEnd, EndS
    <3>3. CASE k > startEpoch
      <4>1. WindowEnd(startEpoch) < WindowEnd(k)
        BY <1>1, <3>1, <3>3, WindowBounds
      <4>2. WindowEnd(startEpoch) = EndS(startEpoch + 1)
        BY DEF WindowEnd
      <4>3. EndS(startEpoch + 1) < ts'
        BY <1>1, <3>1, <3>2, <4>1, <4>2
      <4> QED BY <1>1, <1>2, <1>3, <4>3
    <3> QED BY <1>1, <3>1, <3>2, <3>3
  <2> QED BY <2>1 DEF ValidatedIsClosed, FirstBlock, InitialMark
<1>10. RecordComplete'
  BY DEF RecordComplete, FirstBlock
<1> QED BY <1>5, <1>6, <1>7, <1>8, <1>9, <1>10

\* Items nobody looks at: they belong to windows that have begun before the
\* epoch the process waits for, if it waits at all.
LEMMA MissedItemIInv ==
  ASSUME IInv, MissedItem
  PROVE  IInv'
<1> USE DEF IInv
<1>1. PICK k \in Rounds, s \in Sources : Carry([round |-> k, from |-> s, ts |-> ts])
  BY DEF MissedItem
<1> DEFINE i == [round |-> k, from |-> s, ts |-> ts]
<1>2. i \in Item /\ i.ts = ts /\ i.round = k /\ carried' = carried \cup {i}
  BY <1>1 DEF Item, TypeOK, Carry
<1>3. UNCHANGED <<ts, phase, startEpoch, policy, finalized, rounds, older, content,
                  observed, overlooked, validated, archived, swept, punctual>> /\ ~Running
  BY <1>1 DEF MissedItem, Carry, Running, dictVars
<1> HIDE DEF i
<1>4. TypeOK'
  BY <1>2, <1>3 DEF TypeOK
<1>5. CollectedIsReal'
  BY <1>2, <1>3 DEF CollectedIsReal, Running, TypeOK
<1>6. WaitsForFuture' /\ AboveMarkComplete' /\ ValidatedIsClosed'
  BY <1>3 DEF WaitsForFuture, AboveMarkComplete, ValidatedIsClosed, Running
<1>7. RecordComplete'
  BY <1>2, <1>3, WindowIsClosed DEF RecordComplete
<1> QED BY <1>4, <1>5, <1>6, <1>7

\* Blocks that are only the passing of time to the voting rounds.
LEMMA TimeIInv ==
  ASSUME IInv, UnwatchedBlock \/ NextBlock
  PROVE  IInv'
<1> USE DEF IInv
<1>1. /\ ts \in Nat /\ ts' \in Nat /\ ts <= ts' /\ startEpoch \in Nat
      /\ UNCHANGED <<startEpoch, dictVars, historyVars>>
  BY DEF TypeOK, UnwatchedBlock, NextBlock, Tick
<1>2. phase' = phase \/ (Running /\ phase' = "logs")
  BY DEF UnwatchedBlock, NextBlock, Running
<1>3. Running' <=> Running
  BY <1>2 DEF Running
<1>4. TypeOK'
  <2>1. policy' \subseteq Senders
    <3>1. CASE UNCHANGED policy
      BY <3>1 DEF TypeOK
    <3>2. CASE NextBlock /\ policy' = Voters[EpochAt(ts')]
      <4>1. EpochAt(ts') \in 0 .. MaxTs
        BY <1>1, <3>2, EpochHasPolicy, BoundsAssumption DEF NextBlock, Tick
      <4> QED BY <3>2, <4>1, VotersAssumption
    <3> QED BY <3>1, <3>2 DEF UnwatchedBlock, NextBlock
  <2> QED BY <1>1, <1>2, <2>1 DEF TypeOK, Phases, dictVars, historyVars
<1>5. CollectedIsReal'
  <2>1. \A i \in carried : i.ts <= ts'
    BY <1>1 DEF CollectedIsReal, TypeOK, Item
  <2> QED BY <1>1, <1>3, <2>1 DEF CollectedIsReal, dictVars, historyVars
<1>6. WaitsForFuture'
  <2>1. CASE phase' = "waiting"
    <3>1. phase = "waiting" /\ EpochAt(ts') # startEpoch + 1
      BY <2>1 DEF UnwatchedBlock, NextBlock
    <3>2. /\ EpochAt(ts') \in Nat /\ StartS(EpochAt(ts')) <= ts' /\ ts' < StartS(EpochAt(ts') + 1)
          /\ StartS(EpochAt(ts')) \in Nat /\ StartS(EpochAt(ts') + 1) \in Nat
          /\ StartS(startEpoch + 1) \in Nat /\ StartS(startEpoch + 2) \in Nat
      BY <1>1, EpochAtBounds, StartType
    <3>3. CASE EpochAt(ts') < startEpoch + 1
      <4>1. EpochAt(ts') + 1 = startEpoch + 1 \/ StartS(EpochAt(ts') + 1) <= StartS(startEpoch + 1)
        BY <1>1, <3>2, <3>3, StartGap, EpochAssumption
      <4> QED BY <1>1, <3>2, <4>1 DEF WaitsForFuture
    <3>4. CASE EpochAt(ts') > startEpoch + 1
      <4>1. EpochAt(ts') = startEpoch + 2 \/ StartS(startEpoch + 2) <= StartS(EpochAt(ts'))
        BY <1>1, <3>2, <3>4, StartGap, EpochAssumption
      <4>2. startEpoch' + 1 + 1 = startEpoch + 2
        BY <1>1
      <4> QED BY <1>1, <3>2, <4>1, <4>2 DEF WaitsForFuture, EndS
    <3> QED BY <1>1, <3>1, <3>2, <3>3, <3>4
  <2> QED BY <2>1 DEF WaitsForFuture
<1>7. AboveMarkComplete'
  <2>1. StartS(startEpoch + 1) \in Nat
    BY <1>1, StartType
  <2> QED BY <1>1, <1>3, <2>1 DEF AboveMarkComplete, dictVars, historyVars
<1>8. ValidatedIsClosed'
  <2>1. \A k \in validated : WindowEnd(k) \in Nat
    BY RoundsAssumption, StartType DEF WindowEnd, EndS, TypeOK
  <2> QED BY <1>1, <1>3, <2>1 DEF ValidatedIsClosed, dictVars, historyVars
<1>9. RecordComplete'
  BY <1>1 DEF RecordComplete, historyVars
<1> QED BY <1>4, <1>5, <1>6, <1>7, <1>8, <1>9

\* The process starts, passes on within a block, or ends.
LEMMA ControlIInv ==
  ASSUME IInv, Startup \/ Crash \/ LogsDone \/ BlockAbandoned
  PROVE  IInv'
<1> USE DEF IInv
<1>1. TypeOK'
  <2>1. policy' \subseteq Senders
    <3>1. CASE Startup
      <4>1. PICK e \in EpochAt(ts) .. MaxTs : policy' = Voters[e]
        BY <3>1 DEF Startup
      <4>2. e \in 0 .. MaxTs
        BY <4>1, EpochAtBounds, BoundsAssumption DEF TypeOK
      <4> QED BY <4>1, <4>2, VotersAssumption
    <3>2. CASE Crash \/ LogsDone \/ BlockAbandoned
      BY <3>2 DEF TypeOK, Crash, LogsDone, BlockAbandoned
    <3> QED BY <3>1, <3>2
  <2> QED BY <2>1, EpochAtBounds
      DEF TypeOK, Phases, Startup, Crash, LogsDone, BlockAbandoned, dictVars, historyVars
<1>2. CollectedIsReal'
  <2>1. CASE Crash
    BY <2>1 DEF CollectedIsReal, Running, Crash
  <2>2. CASE Startup \/ LogsDone \/ BlockAbandoned
    BY <2>2 DEF CollectedIsReal, Running, Startup, LogsDone, BlockAbandoned, dictVars, historyVars
  <2> QED BY <2>1, <2>2
<1>3. WaitsForFuture'
  BY EpochAtBounds DEF WaitsForFuture, TypeOK, Startup, Crash, LogsDone, BlockAbandoned
<1>4. AboveMarkComplete' /\ ValidatedIsClosed'
  BY DEF AboveMarkComplete, ValidatedIsClosed, Running, Startup, Crash, LogsDone, BlockAbandoned,
         dictVars, historyVars
<1>5. RecordComplete'
  BY DEF RecordComplete, Startup, Crash, LogsDone, BlockAbandoned, historyVars
<1> QED BY <1>1, <1>2, <1>3, <1>4, <1>5

\* The three events of a block are all one kind of step.
LEMMA EventStores ==
  ASSUME IInv, Event
  PROVE  \E i \in Item : CarriedInBlock(i) /\ (Stored(i) \/ PassedOver(i))
<1>1. \A k \in Rounds, s \in Sources : [round |-> k, from |-> s, ts |-> ts] \in Item
  BY DEF IInv, TypeOK, Item
<1>2. CASE \E k \in Rounds : ProtocolMessageRelayed(k)
  BY <1>1, <1>2 DEF ProtocolMessageRelayed, Sources, CarriedInBlock, Stored
<1>3. CASE \E k \in Rounds : AttestationRequest(k)
  BY <1>1, <1>3 DEF AttestationRequest, Sources, CarriedInBlock, Stored
<1>4. ASSUME NEW k \in Rounds, NEW s \in Senders, Submission(k, s)
      PROVE  \E i \in Item : CarriedInBlock(i) /\ (Stored(i) \/ PassedOver(i))
  <2> DEFINE i == [round |-> k, from |-> s, ts |-> ts]
  <2>1. i \in Item /\ i.from = s /\ i.ts = ts
    BY <1>1 DEF Sources
  <2>2. CarriedInBlock(i)
    BY <1>4 DEF Submission, CarriedInBlock
  <2>3. Stored(i) \/ PassedOver(i)
    <3>1. CASE Known(s)
      BY <1>4, <3>1 DEF Submission, Stored
    <3>2. CASE ~Known(s)
      BY <1>4, <2>1, <3>2 DEF Submission, PassedOver
    <3> QED BY <3>1, <3>2
  <2> HIDE DEF i
  <2> QED BY <2>1, <2>2, <2>3
<1> QED BY <1>2, <1>3, <1>4 DEF Event

LEMMA NextIInv == IInv /\ [Next]_vars => IInv'
<1> SUFFICES ASSUME IInv, [Next]_vars PROVE IInv'
  OBVIOUS
<1>1. CASE Environment
  BY <1>1, TimeIInv, MissedItemIInv, ControlIInv DEF Environment
<1>2. CASE Process
  BY <1>2, TimeIInv, ControlIInv, FirstBlockIInv, FinalizeIInv DEF Process
<1>3. CASE Event
  BY <1>3, EventStores, StoreIInv, PassedOverIInv
<1>4. CASE UNCHANGED vars
  BY <1>4 DEF IInv, vars, dictVars, historyVars, TypeOK, CollectedIsReal, Running, WaitsForFuture,
              AboveMarkComplete, ValidatedIsClosed, RecordComplete
<1> QED BY <1>1, <1>2, <1>3, <1>4 DEF Next

\* The inductive invariant holds throughout.
THEOREM Inductive == Spec => []IInv
<1> QED BY InitIInv, NextIInv, PTL DEF Spec

\* The state of VotingRoundManager and of the loop around it stays well formed.
THEOREM TypeCorrect == Spec => []TypeOK
<1>1. IInv => TypeOK
  BY DEF IInv
<1> QED BY <1>1, Inductive, PTL

\* Whatever is validated is validated with all its window owes it, but for what a
\* process with another policy passed over: for every epoch length, gap between blocks,
\* sequence of policies, crash and restart.
THEOREM RecordsComplete == Spec => []RecordComplete
<1>1. IInv => RecordComplete
  BY DEF IInv
<1> QED BY <1>1, Inductive, PTL

-----------------------------------------------------------------------------
(***************************************************************************)
(* Order.                                                                  *)
(***************************************************************************)

\* Only finalize hands rounds over or touches what they were handed over with.
LEMMA OnlyFinalizeValidates ==
  ASSUME IInv, [Next]_vars, ~Finalize
  PROVE  UNCHANGED <<validated, archived>>
<1>1. CASE Event
  BY <1>1, EventStores DEF CarriedInBlock, Carry
<1>2. CASE Environment
  BY <1>2 DEF Environment, UnwatchedBlock, MissedItem, Crash, Carry, historyVars
<1>3. CASE Process
  BY <1>3 DEF Process, Startup, FirstBlock, NextBlock, LogsDone, BlockAbandoned, historyVars
<1>4. CASE UNCHANGED vars
  BY <1>4 DEF vars, historyVars
<1> QED BY <1>1, <1>2, <1>3, <1>4 DEF Next

\* Rounds are validated in the order of their ids and once only, across all
\* crashes and restarts: the watermark of a new process is never below a round
\* an earlier one has validated.
THEOREM InOrder == Spec => ValidatedInOrder
<1> DEFINE Step == /\ \A k \in validated' \ validated, q \in validated : q < k
                   /\ \A q \in validated : archived'[q] = archived[q]
<1>1. ASSUME IInv, [Next]_vars PROVE Step
  <2>1. CASE Finalize
    <3>1. \A q \in validated : q \in Rounds /\ q \in Nat /\ q <= finalized
      BY <1>1, <2>1, RoundsAssumption DEF IInv, TypeOK, ValidatedIsClosed, Running, Finalize
    <3>2. \A k \in Finished : k \in Nat /\ k > finalized
      BY <1>1, <2>1, FinalizeMark, RoundsAssumption DEF Finished, IInv, TypeOK
    <3>3. \A q \in validated : q \notin Finished
      BY <1>1, <3>1, <3>2 DEF IInv, TypeOK
    <3>4. \A k \in validated' \ validated : k \in Finished
      BY <2>1 DEF Finalize
    <3>5. \A q \in validated : archived'[q] = archived[q]
      BY <2>1, <3>1, <3>3 DEF Finalize
    <3> QED BY <1>1, <3>1, <3>2, <3>4, <3>5 DEF IInv, TypeOK
  <2>2. CASE ~Finalize
    BY <1>1, <2>2, OnlyFinalizeValidates
  <2> QED BY <2>1, <2>2
<1>2. IInv /\ [Next]_vars => [Step]_vars
  BY <1>1
<1> QED BY <1>2, Inductive, PTL DEF Spec, ValidatedInOrder

-----------------------------------------------------------------------------
(***************************************************************************)
(* No round is lost. A key that finalize drops has been overtaken by a key *)
(* inserted before it; both are completed in the same call only if the     *)
(* call comes more than EpochLen after the one before.                     *)
(***************************************************************************)
ObservedIsSafe ==
  /\ \A k \in Rounds : <<k, k>> \notin older
  /\ Running => swept <= ts /\ (finalized = startEpoch \/ WindowEnd(finalized) < swept)
  /\ \A k \in observed : k > startEpoch
  /\ punctual =>
       \A k \in observed : \/ k \in validated
                           \/ k \in rounds /\ k > finalized /\ swept <= WindowEnd(k)

LEMMA InitObserved == Init => ObservedIsSafe
BY DEF Init, ObservedIsSafe, Running

LEMMA StoreObserved ==
  ASSUME IInv, ObservedIsSafe, NEW i \in Item, CarriedInBlock(i), Stored(i)
  PROVE  ObservedIsSafe'
<1> USE DEF CarriedInBlock, Stored
<1>1. i.round \in Rounds /\ i.round \in Nat /\ ts \in Nat /\ swept \in Nat /\ finalized \in Nat /\ startEpoch \in Nat
  BY RoundsAssumption DEF Item, IInv, TypeOK
<1>2. /\ rounds' = rounds \cup {i.round}
      /\ UNCHANGED <<finalized, validated, swept, punctual, ts, phase, startEpoch>>
  BY DEF Store, Carry
<1>3. \A k \in Rounds : <<k, k>> \notin older'
  BY DEF ObservedIsSafe, Store
<1>4. ASSUME InWindow(i.round, ts), i.round > startEpoch
      PROVE  i.round > finalized /\ swept <= WindowEnd(i.round)
  <2>1. WindowEnd(i.round) \in Nat /\ WindowEnd(finalized) \in Nat
    BY <1>1, StartType DEF WindowEnd, EndS
  <2>2. swept <= ts /\ ts < WindowEnd(i.round) /\ (finalized = startEpoch \/ WindowEnd(finalized) < swept)
    BY <1>4 DEF InWindow, ObservedIsSafe, Running
  <2>3. CASE WindowEnd(finalized) < swept
    <3>1. WindowEnd(finalized) < WindowEnd(i.round)
      BY <1>1, <2>1, <2>2, <2>3
    <3>2. ~(i.round < finalized) /\ i.round # finalized
      BY <1>1, <2>1, <3>1, WindowBounds
    <3> QED BY <1>1, <2>1, <2>2, <3>2
  <2>4. CASE finalized = startEpoch
    BY <1>1, <1>4, <2>1, <2>2, <2>4
  <2> QED BY <2>2, <2>3, <2>4
<1>5. \A k \in observed' : k \in observed \/ (k = i.round /\ InWindow(i.round, ts) /\ i.round > startEpoch)
  BY DEF Store
<1> QED BY <1>2, <1>3, <1>4, <1>5 DEF ObservedIsSafe, Running

LEMMA PassedOverObserved ==
  ASSUME ObservedIsSafe, NEW i, CarriedInBlock(i), PassedOver(i)
  PROVE  ObservedIsSafe'
BY DEF ObservedIsSafe, Running, CarriedInBlock, Carry, PassedOver, dictVars

LEMMA FinalizeObserved ==
  ASSUME IInv, ObservedIsSafe, Finalize
  PROVE  ObservedIsSafe'
<1>1. /\ ts \in Nat /\ swept \in Nat /\ finalized \in Nat /\ rounds \subseteq Nat /\ rounds \subseteq Rounds
      /\ EpochLen \in Nat /\ finalized' \in Nat
  BY RoundsAssumption, EpochAssumption, FinalizeMark DEF IInv, TypeOK
<1>2. \A k \in Rounds : <<k, k>> \notin older'
  BY DEF ObservedIsSafe, Finalize
<1>3. swept' = ts /\ UNCHANGED <<ts, startEpoch, observed>> /\ swept <= ts
  BY DEF Finalize, ObservedIsSafe, Running
<1>4. finalized' = startEpoch \/ WindowEnd(finalized') < ts
  <2>1. CASE finalized' = finalized
    <3>1. WindowEnd(finalized) \in Nat
      BY <1>1, StartType DEF WindowEnd, EndS
    <3>2. finalized = startEpoch \/ WindowEnd(finalized) < swept
      BY DEF ObservedIsSafe, Running, Finalize
    <3> QED BY <1>1, <1>3, <2>1, <3>1, <3>2
  <2>2. CASE finalized' \in Closed
    BY <2>2 DEF Closed, Completed
  <2> QED BY <2>1, <2>2, FinalizeMark
<1>5. ASSUME punctual', NEW k \in observed
      PROVE  k \in validated' \/ (k \in rounds' /\ k > finalized' /\ ts <= WindowEnd(k))
  <2>1. punctual /\ ts <= swept + EpochLen
    BY <1>5 DEF Finalize
  <2>2. CASE k \in validated
    BY <2>2 DEF Finalize
  <2>3. CASE k \in rounds /\ k > finalized /\ swept <= WindowEnd(k)
    <3>1. k \in Nat /\ WindowEnd(k) \in Nat
      BY <1>1, <2>3, StartType DEF WindowEnd, EndS
    <3>2. ~Overtaken(k)
      <4>0. ~(k <= finalized)
        BY <1>1, <2>3, <3>1
      <4>1. SUFFICES ASSUME NEW j \in rounds, <<j, k>> \in older, Completed(j), k <= j PROVE FALSE
        BY <4>0, Zenon DEF Overtaken
      <4>2. j \in Nat /\ k < j
        BY <1>1, <2>3, <3>1, <4>1 DEF ObservedIsSafe
      <4>3. WindowEnd(k) + EpochLen <= WindowEnd(j) /\ WindowEnd(j) \in Nat
        BY <3>1, <4>2, WindowBounds
      <4> QED BY <1>1, <2>1, <2>3, <3>1, <4>1, <4>3 DEF Completed
    <3>3. CASE Completed(k)
      BY <2>3, <3>2, <3>3 DEF Finished, Finalize
    <3>4. CASE ~Completed(k)
      <4>1. k \in rounds' /\ ts <= WindowEnd(k)
        BY <1>1, <2>3, <3>1, <3>2, <3>4 DEF Remaining, Finalize, Completed
      <4>2. k > finalized'
        <5>1. CASE finalized' = finalized
          BY <2>3, <5>1
        <5>2. CASE finalized' \in Closed
          <6>1. WindowEnd(finalized') < ts /\ WindowEnd(finalized') \in Nat
            BY <1>1, <5>2, StartType DEF Closed, Completed, WindowEnd, EndS
          <6>2. WindowEnd(finalized') < WindowEnd(k)
            BY <1>1, <3>1, <4>1, <6>1
          <6>3. ~(k < finalized') /\ k # finalized'
            BY <1>1, <3>1, <6>1, <6>2, WindowBounds
          <6> QED BY <1>1, <3>1, <6>3
        <5> QED BY <5>1, <5>2, FinalizeMark
      <4> QED BY <4>1, <4>2
    <3> QED BY <3>3, <3>4
  <2> QED BY <2>1, <2>2, <2>3 DEF ObservedIsSafe
<1>6. Running' => swept' <= ts' /\ (finalized' = startEpoch' \/ WindowEnd(finalized') < swept')
  BY <1>1, <1>3, <1>4
<1>7. \A k \in observed' : k > startEpoch'
  BY <1>3 DEF ObservedIsSafe
<1>8. punctual' => \A k \in observed' :
        k \in validated' \/ (k \in rounds' /\ k > finalized' /\ swept' <= WindowEnd(k))
  BY <1>3, <1>5
<1> QED BY <1>2, <1>6, <1>7, <1>8 DEF ObservedIsSafe

LEMMA OtherObserved ==
  ASSUME IInv, ObservedIsSafe, Environment \/ (Process /\ ~Finalize) \/ UNCHANGED vars
  PROVE  ObservedIsSafe'
<1>1. ts \in Nat /\ swept \in Nat
  BY DEF IInv, TypeOK
<1>2. CASE UnwatchedBlock \/ NextBlock
  <2>1. ts' \in Nat /\ ts <= ts'
    BY <1>1, <1>2 DEF UnwatchedBlock, NextBlock, Tick, IInv, TypeOK
  <2>2. (Running' <=> Running) /\ UNCHANGED <<startEpoch, dictVars, historyVars>>
    BY <1>2 DEF UnwatchedBlock, NextBlock, Running
  <2> QED BY <1>1, <2>1, <2>2 DEF ObservedIsSafe, dictVars, historyVars
<1>3. CASE FirstBlock
  <2>1. observed = {} /\ older' = older
    BY <1>3 DEF IInv, CollectedIsReal, Running, FirstBlock
  <2>2. ts' \in Nat /\ swept' = ts' /\ finalized' = startEpoch /\ observed' = {} /\ startEpoch' = startEpoch
    BY <1>1, <1>3, <2>1 DEF FirstBlock, Tick, InitialMark
  <2> QED BY <2>1, <2>2 DEF ObservedIsSafe
<1>4. CASE Crash
  BY <1>4 DEF ObservedIsSafe, Running, Crash
<1>5. CASE MissedItem
  BY <1>5 DEF ObservedIsSafe, Running, MissedItem, Carry, dictVars
<1>6. CASE Startup
  BY <1>6 DEF ObservedIsSafe, Running, Startup, dictVars, historyVars, IInv, CollectedIsReal
<1>7. CASE LogsDone \/ BlockAbandoned \/ UNCHANGED vars
  BY <1>7 DEF ObservedIsSafe, Running, LogsDone, BlockAbandoned, vars, dictVars, historyVars
<1> QED BY <1>2, <1>3, <1>4, <1>5, <1>6, <1>7 DEF Environment, Process

\* As long as finalize calls are at most a voting epoch apart, no round of
\* which the process has seen something in its window is dropped unvalidated,
\* whatever rounds the payloads name and in whatever order.
THEOREM NoneLost == Spec => []NoObservedRoundLost
<1>1. Init => ObservedIsSafe
  BY InitObserved
<1>2. IInv /\ ObservedIsSafe /\ [Next]_vars => ObservedIsSafe'
  <2> SUFFICES ASSUME IInv, ObservedIsSafe, [Next]_vars PROVE ObservedIsSafe'
    OBVIOUS
  <2>1. CASE Event
    BY <2>1, EventStores, StoreObserved, PassedOverObserved
  <2>2. CASE Finalize
    BY <2>2, FinalizeObserved
  <2>3. CASE Environment \/ (Process /\ ~Finalize) \/ UNCHANGED vars
    BY <2>3, OtherObserved
  <2> QED BY <2>1, <2>2, <2>3 DEF Next
<1>3. ObservedIsSafe => NoObservedRoundLost
  BY DEF ObservedIsSafe, NoObservedRoundLost
<1> QED BY <1>1, <1>2, <1>3, Inductive, PTL DEF Spec

-----------------------------------------------------------------------------
(***************************************************************************)
(* VotingRounds implements RoundLog.                                       *)
(***************************************************************************)

LEMMA SameWindow ==
  ASSUME NEW k
  PROVE  Log!WindowEnd(k) = WindowEnd(k) /\ \A t : Log!InWindow(k, t) = InWindow(k, t)
BY DEF Log!WindowEnd, WindowEnd, Log!WindowStart, WindowStart, Log!EndS, EndS, Log!StartS, StartS,
       Log!InWindow, InWindow

LEMMA SameItems ==
  /\ Log!Sources = Sources /\ Log!Item = Item
  /\ \A t : Log!EpochAt(t) = EpochAt(t)
  /\ \A i : Log!Owed(i) <=> Owed(i)
BY DEF Log!Sources, Sources, Log!Item, Item, Log!EpochAt, EpochAt, Log!Owed, Owed

LEMMA ItemPublished ==
  ASSUME NEW k \in Rounds, NEW s \in Sources, Carry([round |-> k, from |-> s, ts |-> ts]),
         UNCHANGED <<ts, policy>>,
         \/ UNCHANGED overlooked
         \/ /\ s \in Voters[EpochAt(ts)] \ policy
            /\ overlooked' = overlooked \cup {[round |-> k, from |-> s, ts |-> ts]}
  PROVE  Log!Publish
BY SameItems DEF Carry, Log!Publish

\* finalize hands over a batch as RoundLog allows it.
LEMMA FinalizeHandsOver ==
  ASSUME IInv, IInv', Finalize
  PROVE  Log!HandOver
<1>1. Finished \in SUBSET Rounds
  BY DEF Finished, IInv, TypeOK
<1>2. \A k \in Finished : Log!WindowEnd(k) < ts
  BY FinalizeMark, SameWindow
<1>3. \A k \in Finished, q \in validated : q < k
  <2>1. \A q \in validated : q \in Nat /\ q <= finalized
    BY RoundsAssumption DEF IInv, TypeOK, ValidatedIsClosed, Running, Finalize
  <2>2. \A k \in Finished : k \in Nat /\ k > finalized /\ finalized \in Nat
    BY FinalizeMark, RoundsAssumption DEF Finished, IInv, TypeOK
  <2> QED BY <2>1, <2>2
<1>4. archived' \in [Rounds -> SUBSET Log!Item]
  BY SameItems DEF IInv, TypeOK
<1>5. validated' = validated \cup Finished /\ UNCHANGED <<ts, policy, carried, overlooked>>
  BY DEF Finalize
<1>6. \A k \in Finished : Log!Covers(archived'[k], k)
  <2>1. ASSUME NEW k \in Finished
        PROVE  /\ archived'[k] \subseteq {i \in carried : i.round = k}
               /\ \A i \in carried \ overlooked :
                    i.round = k /\ InWindow(k, i.ts) /\ Owed(i) => i \in archived'[k]
    <3>1. k \in validated' /\ carried' = carried /\ overlooked' = overlooked
      BY <1>5
    <3> QED BY <3>1 DEF IInv, RecordComplete
  <2> QED BY <2>1, SameWindow, SameItems DEF Log!Covers
<1>7. \A k \in Rounds \ Finished : archived'[k] = archived[k]
  BY DEF Finalize
<1> QED BY <1>1, <1>2, <1>3, <1>4, <1>5, <1>6, <1>7 DEF Log!HandOver

\* A policy the process takes up is one of those there are.
LEMMA PolicyTakenUp ==
  ASSUME IInv, Startup \/ Crash \/ UnwatchedBlock \/ FirstBlock \/ NextBlock
  PROVE  policy' \in {policy, {}} \cup {Voters[e] : e \in DOMAIN Voters}
<1>1. CASE Startup
  <2>1. PICK e \in EpochAt(ts) .. MaxTs : policy' = Voters[e]
    BY <1>1 DEF Startup
  <2>2. e \in 0 .. MaxTs
    BY <2>1, EpochAtBounds, BoundsAssumption DEF IInv, TypeOK
  <2> QED BY <2>1, <2>2, VotersAssumption
<1>2. CASE NextBlock
  <2>1. EpochAt(ts') \in 0 .. MaxTs
    BY <1>2, EpochHasPolicy, BoundsAssumption DEF NextBlock, Tick, IInv, TypeOK
  <2> QED BY <1>2, <2>1, VotersAssumption DEF NextBlock
<1>3. CASE Crash \/ UnwatchedBlock \/ FirstBlock
  BY <1>3 DEF Crash, UnwatchedBlock, FirstBlock
<1> QED BY <1>1, <1>2, <1>3

\* The collection of rounds, with its dict, watermark, wait, crashes and
\* restarts, implements the log of rounds that RoundLog promises.
THEOREM ImplementsLog == Spec => LogSpec
<1>1. Init => Log!LogInit
  BY BoundsAssumption DEF Init, Log!LogInit
<1>2. ASSUME IInv, IInv', [Next]_vars PROVE [Log!LogNext]_Log!logVars
  <2>1. CASE Event
    <3>1. CASE \E k \in Rounds : ProtocolMessageRelayed(k) \/ AttestationRequest(k)
      BY <3>1, ItemPublished DEF ProtocolMessageRelayed, AttestationRequest, Sources, Log!LogNext
    <3>2. ASSUME NEW k \in Rounds, NEW s \in Senders, Submission(k, s)
          PROVE  Log!Publish
      <4>1. \/ UNCHANGED overlooked
            \/ /\ s \in Voters[EpochAt(ts)] \ policy
               /\ overlooked' = overlooked \cup {[round |-> k, from |-> s, ts |-> ts]}
        <5>1. CASE Known(s)
          BY <3>2, <5>1 DEF Submission
        <5>2. CASE ~Known(s)
          BY <3>2, <5>2 DEF Submission, Known
        <5> QED BY <5>1, <5>2
      <4> QED BY <3>2, <4>1, ItemPublished DEF Submission, Sources
    <3> QED BY <2>1, <3>1, <3>2 DEF Event, Log!LogNext
  <2>2. CASE Finalize
    BY <1>2, <2>2, FinalizeHandsOver DEF Log!LogNext
  <2>3. CASE UnwatchedBlock \/ FirstBlock \/ NextBlock \/ Startup \/ Crash
    <3>1. ts \in Nat /\ ts' \in Nat /\ ts' >= ts
      BY <1>2, <2>3 DEF IInv, TypeOK, UnwatchedBlock, FirstBlock, NextBlock, Tick, Startup, Crash
    <3>2. UNCHANGED <<carried, overlooked, validated, archived>>
      BY <2>3 DEF UnwatchedBlock, FirstBlock, NextBlock, Startup, Crash, historyVars
    <3> QED BY <1>2, <2>3, <3>1, <3>2, PolicyTakenUp DEF Log!Advance, Log!LogNext
  <2>4. CASE MissedItem
    BY <2>4, ItemPublished DEF MissedItem, Log!LogNext
  <2>5. CASE LogsDone \/ BlockAbandoned \/ UNCHANGED vars
    BY <2>5 DEF LogsDone, BlockAbandoned, vars, dictVars, historyVars, Log!logVars
  <2> QED BY <1>2, <2>1, <2>2, <2>3, <2>4, <2>5 DEF Next, Environment, Process
<1> QED BY <1>1, <1>2, Inductive, PTL DEF Spec, LogSpec, Log!LogSpec

=============================================================================
