---------------------- MODULE RegistrationSearch_proof ----------------------
(***************************************************************************)
(* Proofs about RegistrationSearch, for every chain whose timestamps do    *)
(* not fall: the logs that are read cover the registration, a search goes  *)
(* one way, and it does not leave a chain that reaches back.               *)
(*                                                                         *)
(* What has to be remembered is where the blocks found lie and, while a    *)
(* search goes on, on which side of the target the block before this one   *)
(* was. The timestamps order the blocks, so the rest is arithmetic.        *)
(***************************************************************************)
EXTENDS RegistrationSearch, TLAPS

\* The blocks found so far are near their targets.
FoundNear ==
  /\ phase \in {"end", "done"} => range[1] \in Blocks /\ Near("start", range[1])
  /\ phase = "end" => range = <<range[1]>>
  /\ phase = "done" => range[2] \in Blocks /\ Near("end", range[2])

\* The stride that led to this block began on the side of the target it led away
\* from, and not near it.
CameFrom ==
  phase \in {"start", "end"} =>
    /\ heading = 1 =>
         probe - Stride \in Blocks /\ Offset(phase, probe - Stride) < -Tolerance
    /\ heading = -1 =>
         probe + Stride \in Blocks /\ Offset(phase, probe + Stride) > Tolerance

IInv ==
  /\ TypeOK
  /\ epochStart >= StartLead
  /\ phase = "begin" => heading = 0
  /\ FoundNear
  /\ CameFrom
  /\ FailsOnYoungChain

-----------------------------------------------------------------------------
(***************************************************************************)
(* The chain and the targets.                                              *)
(***************************************************************************)

\* Timestamps do not fall.
LEMMA ChainOrdered ==
  ASSUME TypeOK
  PROVE  /\ \A b \in Blocks : ts[b] \in Nat
         /\ \A a, b \in Blocks : a <= b => ts[a] <= ts[b]
<1>1. ts \in Chains
  BY DEF TypeOK
<1>2. ts \in [Blocks -> Nat]
  BY <1>1, ChainAssumption
<1>3. \A a, b \in Blocks : a <= b => ts[a] <= ts[b]
  BY <1>1, ChainAssumption
<1> QED
  BY <1>2, <1>3

\* The first target lies before the second.
LEMMA Targets ==
  ASSUME TypeOK
  PROVE  Target("start") \in Int /\ Target("end") \in Int /\ Target("start") <= Target("end")
  BY SearchAssumption DEF TypeOK, Target

LEMMA GuessIsNumber ==
  ASSUME TypeOK
  PROVE  Guess("start") \in Int /\ Guess("end") \in Int
  BY Targets, ChainAssumption, SearchAssumption DEF TypeOK, Guess

\* A block that is earlier in time is earlier in the chain.
LEMMA EarlierBlock ==
  ASSUME TypeOK, NEW a \in Blocks, NEW b \in Blocks, ts[a] < ts[b]
  PROVE  a < b
  BY ChainOrdered, ChainAssumption DEF Blocks

\* A stride that is made because a block is not near, and stays with the chain
\* if it reaches back.
LEMMA StrideOnChain ==
  ASSUME TypeOK, ChainReaches,
         phase \in {"start", "end"}, ~Near(phase, probe)
  PROVE  probe + Stride * Way(phase, probe) \in Blocks
<1>1. probe \in Blocks /\ ts[probe] \in Nat
  BY ChainOrdered DEF TypeOK
<1>2. Stride \in Blocks /\ Head - Stride \in Blocks
  BY ChainAssumption, SearchAssumption DEF ChainReaches, Blocks
<1>3. ts[Stride] \in Nat /\ ts[Head - Stride] \in Nat
  BY <1>2, ChainOrdered
<1>4. Target(phase) \in Int /\ ts[Stride] <= Target(phase) /\ Target(phase) <= ts[Head - Stride]
  BY <1>3, Targets DEF ChainReaches
<1>5. CASE Offset(phase, probe) > 0
  <2>1. Stride < probe
    BY <1>1, <1>2, <1>3, <1>4, <1>5, EarlierBlock DEF Offset
  <2>2. probe - Stride \in Blocks
    BY <1>1, <2>1, ChainAssumption, SearchAssumption DEF Blocks
  <2>3. Stride * Way(phase, probe) = -Stride
    BY <1>5, SearchAssumption DEF Way
  <2> QED
    BY <1>1, <2>2, <2>3, SearchAssumption DEF Blocks
<1>6. CASE ~(Offset(phase, probe) > 0)
  <2>1. ts[probe] < ts[Head - Stride]
    BY <1>1, <1>3, <1>4, <1>6, SearchAssumption DEF Offset, Near
  <2>2. probe < Head - Stride
    BY <1>1, <1>2, <2>1, EarlierBlock
  <2>3. Stride * Way(phase, probe) = Stride
    BY <1>6, SearchAssumption DEF Way
  <2> QED
    BY <1>1, <2>2, <2>3, ChainAssumption, SearchAssumption DEF Blocks
<1> QED
  BY <1>5, <1>6

\* Where a stride leads, by the side the block it begins with is on.
LEMMA StrideEnds ==
  ASSUME TypeOK, phase \in {"start", "end"}, ~Near(phase, probe)
  PROVE  \/ /\ Way(phase, probe) = -1 /\ Offset(phase, probe) > Tolerance
            /\ probe + Stride * Way(phase, probe) = probe - Stride
         \/ /\ Way(phase, probe) = 1 /\ Offset(phase, probe) < -Tolerance
            /\ probe + Stride * Way(phase, probe) = probe + Stride
<1>1. probe \in Int /\ Offset(phase, probe) \in Int
  BY ChainOrdered, Targets, ChainAssumption DEF TypeOK, Offset, Blocks
<1> QED
  BY <1>1, SearchAssumption DEF Way, Near

-----------------------------------------------------------------------------
(***************************************************************************)
(* The strengthening is inductive.                                         *)
(***************************************************************************)
LEMMA InitIInv == Init => IInv
<1> SUFFICES ASSUME Init PROVE IInv
  OBVIOUS
<1>1. Head \in Blocks /\ ts \in [Blocks -> Nat]
  BY ChainAssumption DEF Init, Blocks
<1>2. ts[Head] \in Nat
  BY <1>1
<1>3. now \in Nat
  BY <1>2, ChainAssumption DEF Init
<1>4. epochStart \in Nat /\ epochStart >= StartLead
  BY <1>2, SearchAssumption DEF Init
<1> QED
  BY <1>3, <1>4
  DEF Init, IInv, TypeOK, Phases, FoundNear, CameFrom, FailsOnYoungChain

\* The chain, the clock and the reward epoch do not change, nor anything that is
\* computed from them.
LEMMA ChainFixed ==
  ASSUME [Next]_vars
  PROVE  /\ UNCHANGED chainVars
         /\ ChainReaches' <=> ChainReaches
         /\ \A s, b : (Near(s, b))' <=> Near(s, b)
         /\ \A s, b : (Offset(s, b))' = Offset(s, b)
<1>1. UNCHANGED chainVars
  BY DEF Next, Begin, Stray, StartFound, EndFound, vars
<1> QED
  BY <1>1 DEF chainVars, ChainReaches, Near, Offset, Target, Guess

LEMMA NextTypeOK == IInv /\ [Next]_vars => TypeOK'
<1> SUFFICES ASSUME IInv, [Next]_vars PROVE TypeOK'
  OBVIOUS
<1>t. TypeOK /\ FoundNear
  BY DEF IInv
<1>0. UNCHANGED <<ts, now, epochStart>>
  BY ChainFixed DEF chainVars
<1>1. CASE UNCHANGED vars
  BY <1>t, <1>1 DEF TypeOK, vars, chainVars
<1>2. CASE Begin
  BY <1>t, <1>0, <1>2 DEF TypeOK, Begin, Ask, Phases
<1>3. CASE Stray
  <2>1. heading' \in {-1, 0, 1}
    BY <1>3 DEF Stray, Way
  <2> QED
    BY <1>t, <1>0, <1>3, <2>1 DEF TypeOK, Stray, Ask, Phases
<1>4. CASE StartFound
  <2>1. probe \in Blocks /\ range' = <<probe>>
    BY <1>t, <1>4 DEF TypeOK, StartFound
  <2> QED
    BY <1>t, <1>0, <1>4, <2>1 DEF TypeOK, StartFound, Ask, Phases
<1>5. CASE EndFound
  <2>1. probe \in Blocks /\ range[1] \in Blocks
    BY <1>t, <1>5 DEF TypeOK, FoundNear, EndFound
  <2>2. range' \in Blocks \X Blocks
    BY <1>5, <2>1 DEF EndFound
  <2> QED
    BY <1>t, <1>0, <1>5, <2>2 DEF TypeOK, EndFound, Phases
<1> QED
  BY <1>1, <1>2, <1>3, <1>4, <1>5 DEF Next

LEMMA NextFoundNear == IInv /\ [Next]_vars => FoundNear'
<1> SUFFICES ASSUME IInv, [Next]_vars PROVE FoundNear'
  OBVIOUS
<1>t. TypeOK /\ FoundNear
  BY DEF IInv
<1>0. \A s, b : (Near(s, b))' <=> Near(s, b)
  BY ChainFixed
<1>1. CASE UNCHANGED <<phase, range>>
  BY <1>t, <1>0, <1>1 DEF FoundNear
<1>2. CASE Begin
  BY <1>2 DEF Begin, Ask, FoundNear
<1>3. CASE Stray
  BY <1>t, <1>0, <1>3 DEF Stray, Ask, FoundNear
<1>4. CASE StartFound
  <2>1. probe \in Blocks /\ Near("start", probe)
    BY <1>t, <1>4 DEF TypeOK, StartFound
  <2>2. range' = <<probe>> /\ range'[1] = probe
    BY <1>4 DEF StartFound
  <2>3. phase' # "done"
    BY <1>4 DEF StartFound, Ask
  <2> QED
    BY <1>0, <2>1, <2>2, <2>3 DEF FoundNear
<1>5. CASE EndFound
  <2>1. probe \in Blocks /\ Near("end", probe)
    BY <1>t, <1>5 DEF TypeOK, EndFound
  <2>2. range[1] \in Blocks /\ Near("start", range[1])
    BY <1>t, <1>5 DEF FoundNear, EndFound
  <2>3. range'[1] = range[1] /\ range'[2] = probe /\ phase' = "done"
    BY <1>5 DEF EndFound
  <2> QED
    BY <1>0, <2>1, <2>2, <2>3 DEF FoundNear
<1> QED
  BY <1>1, <1>2, <1>3, <1>4, <1>5 DEF Next, vars

LEMMA NextCameFrom ==
  IInv /\ [Next]_vars => CameFrom' /\ (phase' = "begin" => heading' = 0)
<1> SUFFICES ASSUME IInv, [Next]_vars PROVE CameFrom' /\ (phase' = "begin" => heading' = 0)
  OBVIOUS
<1>t. TypeOK /\ CameFrom /\ (phase = "begin" => heading = 0)
  BY DEF IInv
<1>0. \A s, b : (Offset(s, b))' = Offset(s, b)
  BY ChainFixed
<1>1. CASE UNCHANGED <<phase, probe, heading>>
  BY <1>t, <1>0, <1>1 DEF CameFrom
<1>2. CASE Begin
  BY <1>t, <1>2 DEF Begin, Ask, CameFrom
<1>3. CASE Stray /\ phase' = phase
  <2>1. phase \in {"start", "end"} /\ ~Near(phase, probe) /\ probe \in Blocks
    BY <1>t, <1>3 DEF Stray, TypeOK
  <2>2. probe' = probe + Stride * Way(phase, probe) /\ heading' = Way(phase, probe)
    BY <1>3, <2>1 DEF Stray, Ask
  <2>3. CASE heading' = -1
    <3>1. probe' + Stride = probe /\ Offset(phase, probe) > Tolerance
      BY <1>t, <2>1, <2>2, <2>3, StrideEnds, ChainAssumption, SearchAssumption DEF Blocks
    <3> QED
      BY <1>0, <1>3, <2>1, <2>3, <3>1 DEF CameFrom
  <2>4. CASE heading' = 1
    <3>1. probe' - Stride = probe /\ Offset(phase, probe) < -Tolerance
      BY <1>t, <2>1, <2>2, <2>4, StrideEnds, ChainAssumption, SearchAssumption DEF Blocks
    <3> QED
      BY <1>0, <1>3, <2>1, <2>4, <3>1 DEF CameFrom
  <2> QED
    BY <2>1, <2>2, <2>3, <2>4 DEF Way, CameFrom
<1>4. CASE Stray /\ phase' # phase
  BY <1>4 DEF Stray, Ask, CameFrom
<1>5. CASE StartFound
  BY <1>5 DEF StartFound, Ask, CameFrom
<1>6. CASE EndFound
  BY <1>6 DEF EndFound, CameFrom
<1> QED
  BY <1>1, <1>2, <1>3, <1>4, <1>5, <1>6 DEF Next, vars

LEMMA NextFails == IInv /\ [Next]_vars => FailsOnYoungChain'
<1> SUFFICES ASSUME IInv, [Next]_vars, ChainReaches, phase' = "failed" PROVE FALSE
  BY ChainFixed DEF FailsOnYoungChain
<1>t. TypeOK /\ phase # "failed"
  BY DEF IInv, FailsOnYoungChain
<1>1. Guess("start") \in Blocks /\ Guess("end") \in Blocks
  BY DEF ChainReaches
<1>2. CASE Stray
  <2>1. probe + Stride * Way(phase, probe) \in Blocks
    BY <1>t, <1>2, StrideOnChain DEF Stray
  <2> QED
    BY <1>2, <2>1 DEF Stray, Ask
<1> QED
  BY <1>t, <1>1, <1>2 DEF Next, vars, Begin, StartFound, EndFound, Ask

\* Besides the properties: where the blocks found are, and which side of the target
\* the last stride began on.
THEOREM Inductive == Spec => []IInv
<1>1. IInv /\ [Next]_vars => IInv'
  <2> SUFFICES ASSUME IInv, [Next]_vars PROVE IInv'
    OBVIOUS
  <2>1. (epochStart >= StartLead)'
    BY ChainFixed DEF IInv, chainVars
  <2> QED
    BY <2>1, NextTypeOK, NextFoundNear, NextCameFrom, NextFails DEF IInv
<1> QED
  BY <1>1, InitIInv, PTL DEF Spec

-----------------------------------------------------------------------------
(***************************************************************************)
(* The properties.                                                         *)
(***************************************************************************)

\* All variables keep their types: a block that is looked at is one of the chain.
THEOREM TypeCorrect == Spec => []TypeOK
<1>1. IInv => TypeOK
  BY DEF IInv
<1> QED
  BY <1>1, Inductive, PTL

\* The logs that are read have every block of the registration of voters, on any
\* chain and for any stride.
THEOREM Covered == Spec => []RegistrationCovered
<1>1. IInv => RegistrationCovered
  <2> SUFFICES ASSUME IInv, phase = "done", NEW b \in Blocks,
                      epochStart - OpenLead <= ts[b], ts[b] <= epochStart - CloseLead
               PROVE  range[1] <= b /\ b <= range[2]
    BY DEF RegistrationCovered
  <2>1. /\ range[1] \in Blocks /\ Near("start", range[1])
        /\ range[2] \in Blocks /\ Near("end", range[2])
    BY DEF IInv, FoundNear
  <2>2. TypeOK /\ epochStart \in Nat
    BY DEF IInv, TypeOK
  <2>3. ts[b] \in Nat /\ ts[range[1]] \in Nat /\ ts[range[2]] \in Nat
    BY <2>1, <2>2, ChainOrdered
  <2>4. ts[range[1]] < ts[b]
    BY <2>1, <2>2, <2>3, SearchAssumption, PeriodAssumption DEF Near, Offset, Target
  <2>5. ts[b] < ts[range[2]]
    BY <2>1, <2>2, <2>3, SearchAssumption, PeriodAssumption DEF Near, Offset, Target
  <2>6. range[1] < b /\ b < range[2]
    BY <2>1, <2>2, <2>4, <2>5, EarlierBlock
  <2> QED
    BY <2>1, <2>6, ChainAssumption DEF Blocks
<1> QED
  BY <1>1, Inductive, PTL

\* The start of the observer fails only on a chain that does not reach back.
THEOREM Fails == Spec => []FailsOnYoungChain
<1>1. IInv => FailsOnYoungChain
  BY DEF IInv
<1> QED
  BY <1>1, Inductive, PTL

\* A stride that fits the tolerance does not lead past the times near enough, so
\* that a search goes on the way it began.
THEOREM OneWay == Spec => NeverTurns
<1>1. IInv /\ [Next]_vars =>
        [StridesFit /\ phase' = phase /\ heading # 0 => heading' = heading]_vars
  <2> SUFFICES ASSUME IInv, Next, StridesFit, phase' = phase, heading # 0
               PROVE  heading' = heading
    OBVIOUS
  <2>t. TypeOK /\ CameFrom /\ (phase = "begin" => heading = 0)
    BY DEF IInv
  <2>1. Stray
    BY <2>t DEF Next, Begin, StartFound, EndFound, Ask
  <2>2. phase \in {"start", "end"} /\ probe \in Blocks /\ ~Near(phase, probe)
    BY <2>t, <2>1 DEF Stray, TypeOK
  <2>3. Target(phase) \in Int /\ ts[probe] \in Nat
    BY <2>t, <2>2, Targets, ChainOrdered
  <2>4. CASE heading = 1
    <3>1. probe - Stride \in Blocks /\ Offset(phase, probe - Stride) < -Tolerance
      BY <2>t, <2>2, <2>4 DEF CameFrom
    <3>2. (probe - Stride) + Stride = probe /\ ts[probe - Stride] \in Nat
      BY <2>t, <2>2, <3>1, ChainOrdered, ChainAssumption, SearchAssumption DEF Blocks
    <3>3. ts[probe] - ts[probe - Stride] <= 2 * Tolerance + 1
      BY <2>2, <3>1, <3>2 DEF StridesFit
    <3>4. Offset(phase, probe) <= Tolerance
      BY <2>3, <3>1, <3>2, <3>3, SearchAssumption DEF Offset
    <3> QED
      BY <2>t, <2>1, <2>2, <2>3, <2>4, <3>4, StrideEnds, SearchAssumption DEF Stray, Offset
  <2>5. CASE heading = -1
    <3>1. probe + Stride \in Blocks /\ Offset(phase, probe + Stride) > Tolerance
      BY <2>t, <2>2, <2>5 DEF CameFrom
    <3>2. ts[probe + Stride] - ts[probe] <= 2 * Tolerance + 1 /\ ts[probe + Stride] \in Nat
      BY <2>t, <2>2, <3>1, ChainOrdered DEF StridesFit
    <3>3. Offset(phase, probe) >= -Tolerance
      BY <2>3, <3>1, <3>2, SearchAssumption DEF Offset
    <3> QED
      BY <2>t, <2>1, <2>2, <2>3, <2>5, <3>3, StrideEnds, SearchAssumption DEF Stray, Offset
  <2> QED
    BY <2>t, <2>4, <2>5 DEF TypeOK
<1> QED
  BY <1>1, Inductive, PTL DEF Spec, NeverTurns

=============================================================================
