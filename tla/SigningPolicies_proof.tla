----------------------- MODULE SigningPolicies_proof -----------------------
(***************************************************************************)
(* Proofs about SigningPolicies: a process that began early enough and met *)
(* a block in the first voting epoch of every policy works with the policy *)
(* in force, for any lengths, any voters and any number of reward epochs.  *)
(*                                                                         *)
(* The chain makes one policy at a time, each for a later start than the   *)
(* one before it, so that what is out is always of the policy after the    *)
(* one in force. A process that saw all of it therefore has in its builder *)
(* exactly the events of that policy, and the switch is due when the       *)
(* policy comes into force.                                                *)
(***************************************************************************)
EXTENDS SigningPolicies, TLAPS

(***************************************************************************)
(* What the chain has done.                                                *)
(***************************************************************************)

\* The events of one reward epoch come in their order.
InOrder ==
  \A r \in RewardEpochs :
    /\ start[r] # 0 <=> "init" \in emitted[r]
    /\ emitted[r] # {} => "random" \in emitted[r]
    /\ emitted[r] \cap Voters # {} => "votepower" \in emitted[r]
    /\ "init" \in emitted[r] => "votepower" \in emitted[r]
    /\ voters[r] \subseteq emitted[r]

\* Startup finds what was emitted, and a policy only if it begins when its reward
\* epoch does.
Reached ==
  \A r \in RewardEpochs :
    /\ inReach[r] \subseteq emitted[r]
    /\ "init" \in inReach[r] => start[r] = NominalStart(r)

\* The policies start one after the other ...
StartsAscend ==
  \A r, s \in RewardEpochs : r < s /\ start[s] # 0 => start[r] # 0 /\ start[r] < start[s]

\* ... and nothing of a policy is out before the one before it has started.
OneAtATime ==
  /\ start[1] # 0
  /\ \A r \in RewardEpochs :
       r > 1 /\ emitted[r] # {} => start[r - 1] # 0 /\ start[r - 1] <= now

ChainInv ==
  /\ now >= RewardLen /\ RewardEpochAt(now) <= MaxEpoch
  /\ InOrder /\ Reached /\ StartsAscend /\ OneAtATime

(***************************************************************************)
(* What the process has made of it.                                        *)
(***************************************************************************)

\* The policy of the process has started.
Started == start[policy] # 0 /\ start[policy] <= now

\* Events of the policy after that of the process.
Coming == IF policy < MaxEpoch THEN emitted[policy + 1] ELSE {}

\* The process works with the policy in force, and its builder holds all there
\* is of the next.
Following ==
  /\ Started
  /\ policy < MaxEpoch /\ start[policy + 1] # 0 => start[policy + 1] > now
  /\ builder = [epoch |-> policy + 1, got |-> Coming \X {policy + 1}]

ProcessInv ==
  /\ phase # "down" => failure = "none"
  /\ phase = "waiting" => Started /\ builder = Builder(policy + 1)
  /\ phase = "observing" /\ early /\ ~skipped => Following

IInv == TypeOK /\ ChainInv /\ ProcessInv /\ BuilderFailsForReason

-----------------------------------------------------------------------------
(***************************************************************************)
(* Reward epochs.                                                          *)
(***************************************************************************)

LEMMA EpochOfTime ==
  ASSUME NEW t \in Nat, t >= RewardLen
  PROVE  /\ RewardEpochAt(t) \in Nat \ {0}
         /\ NominalStart(RewardEpochAt(t)) <= t
<1>1. RewardLen \in Nat /\ RewardLen > 0
  BY LengthAssumption
<1>2. t \div RewardLen \in Nat
  BY <1>1, SMTT(30)
<1>3. t % RewardLen \in 0 .. RewardLen - 1 /\ t = RewardLen * (t \div RewardLen) + (t % RewardLen)
  BY <1>1, SMTT(30)
<1>4. (t \div RewardLen) * RewardLen = RewardLen * (t \div RewardLen)
  BY <1>1, <1>2, SMTT(30)
<1>5. t \div RewardLen # 0
  BY <1>1, <1>3
<1> QED
  BY <1>1, <1>2, <1>3, <1>4, <1>5 DEF RewardEpochAt, NominalStart

LEMMA NominalIsTime ==
  ASSUME NEW r \in Nat
  PROVE  NominalStart(r) \in Nat
  BY LengthAssumption, SMTT(30) DEF NominalStart

\* The larger of two.
LEMMA MaxOfTwo ==
  ASSUME NEW a \in Int, NEW b \in Int
  PROVE  Max({a, b}) = IF a >= b THEN a ELSE b
  BY DEF Max

\* The policy in force is the last that has started.
LEMMA IsInForce ==
  ASSUME TypeOK, NEW k \in Nat, NEW p \in RewardEpochs, start[p] # 0, start[p] <= k,
         \A r \in RewardEpochs : r > p => start[r] = 0 \/ start[r] > k
  PROVE  InForce(k) = p
<1> DEFINE S == {r \in RewardEpochs : start[r] # 0 /\ start[r] <= k}
<1>1. p \in S /\ \A r \in S : p >= r
  BY DEF TypeOK, RewardEpochs
<1>2. \A q \in S : (\A r \in S : q >= r) => q = p
  BY <1>1 DEF RewardEpochs
<1>3. Max(S) = p
  BY <1>1, <1>2 DEF Max
<1> QED
  BY <1>3 DEF InForce

\* A process that follows works with the policy in force: the policies after the
\* next start later still.
LEMMA FollowingInForce ==
  ASSUME TypeOK, ChainInv, Following
  PROVE  policy = InForce(now)
<1>1. policy \in RewardEpochs /\ start[policy] # 0 /\ start[policy] <= now /\ now \in Nat
  BY DEF Following, Started, TypeOK
<1>2. ASSUME NEW r \in RewardEpochs, r > policy, start[r] # 0
      PROVE  start[r] > now
  <2>1. policy + 1 \in RewardEpochs /\ policy < MaxEpoch
    BY <1>1, <1>2, LengthAssumption DEF RewardEpochs
  <2>2. CASE r = policy + 1
    BY <1>2, <2>1, <2>2 DEF Following
  <2>3. CASE policy + 1 < r
    <3>1. start[policy + 1] # 0 /\ start[policy + 1] < start[r]
      BY <1>2, <2>1, <2>3 DEF ChainInv, StartsAscend
    <3>2. start[policy + 1] \in Nat /\ start[r] \in Nat
      BY <1>2, <2>1 DEF TypeOK
    <3> QED
      BY <1>1, <2>1, <3>1, <3>2 DEF Following
  <2> QED
    BY <1>1, <1>2, <2>2, <2>3, LengthAssumption DEF RewardEpochs
<1> QED
  BY <1>1, <1>2, IsInForce

\* What the chain may emit next is of the policy after the one followed.
LEMMA NextPolicyEmits ==
  ASSUME TypeOK, ChainInv, Following, NEW e \in Kinds, NEW r \in RewardEpochs, Allowed(e, r)
  PROVE  r = policy + 1
<1>1. policy \in RewardEpochs /\ start[r] = 0 /\ now \in Nat
  BY DEF TypeOK, Allowed
<1>2. policy < r
  <2>1. CASE r < policy
    BY <1>1, <2>1 DEF ChainInv, StartsAscend, Following, Started
  <2>2. CASE r = policy
    BY <1>1, <2>2 DEF Following, Started
  <2> QED
    BY <1>1, <2>1, <2>2, LengthAssumption DEF RewardEpochs
<1>3. r > 1 /\ r - 1 \in RewardEpochs /\ policy + 1 \in RewardEpochs /\ policy < MaxEpoch
  BY <1>1, <1>2, LengthAssumption DEF RewardEpochs
<1>4. start[r - 1] # 0 /\ start[r - 1] <= now
  <2>1. CASE e = "random"
    BY <2>1 DEF Allowed
  <2>2. CASE e # "random"
    <3>1. emitted[r] # {}
      BY <2>2 DEF Allowed, Kinds, Once
    <3> QED
      BY <1>3, <3>1 DEF ChainInv, OneAtATime
  <2> QED
    BY <2>1, <2>2
<1>5. ~(policy + 1 < r)
  <2> SUFFICES ASSUME policy + 1 < r PROVE FALSE
    OBVIOUS
  <2>1. start[policy + 1] # 0 /\ start[policy + 1] <= start[r - 1]
    <3>1. CASE policy + 1 = r - 1
      BY <1>3, <1>4, <3>1 DEF TypeOK
    <3>2. CASE policy + 1 < r - 1
      BY <1>3, <1>4, <3>2 DEF ChainInv, StartsAscend, TypeOK
    <3> QED
      BY <1>1, <3>1, <3>2, LengthAssumption DEF RewardEpochs
  <2>2. start[policy + 1] \in Nat /\ start[r - 1] \in Nat
    BY <1>3 DEF TypeOK
  <2> QED
    BY <1>1, <1>3, <1>4, <2>1, <2>2 DEF Following
<1> QED
  BY <1>1, <1>2, <1>5, LengthAssumption DEF RewardEpochs

-----------------------------------------------------------------------------
(***************************************************************************)
(* The initial states, and the types.                                      *)
(***************************************************************************)
LEMMA InitIInv == Init => IInv
<1> SUFFICES ASSUME Init PROVE IInv
  OBVIOUS
<1> USE DEF Init
<1>0. 1 \in RewardEpochs /\ RewardLen \in Nat \ {0} /\ RewardEpochs \subseteq Nat
  BY LengthAssumption DEF RewardEpochs
<1>1. TypeOK
  <2>1. builder \in [epoch : Nat, got : SUBSET (Kinds \X RewardEpochs)]
    BY DEF Builder
  <2>2. early \in BOOLEAN /\ skipped \in BOOLEAN
    BY Zenon
  <2>3. /\ emitted \in [RewardEpochs -> SUBSET Kinds] /\ inReach \in [RewardEpochs -> SUBSET Kinds]
        /\ start \in [RewardEpochs -> Nat] /\ voters \in [RewardEpochs -> SUBSET Voters]
    BY <1>0
  <2> QED
    BY <1>0, <2>1, <2>2, <2>3 DEF TypeOK, Failures
<1>2. now >= RewardLen /\ RewardEpochAt(now) <= MaxEpoch
  <2>1. RewardLen \div RewardLen = 1
    BY <1>0, SMTT(30)
  <2> QED
    BY <1>0, <2>1, LengthAssumption DEF RewardEpochAt
<1>3. InOrder
  BY <1>0, VotersAssumption DEF InOrder, Kinds, Once
<1>4. Reached
  BY <1>0 DEF Reached, NominalStart
<1>5. StartsAscend /\ OneAtATime
  BY <1>0 DEF StartsAscend, OneAtATime, RewardEpochs
<1>6. ProcessInv /\ BuilderFailsForReason
  BY DEF ProcessInv, BuilderFailsForReason
<1> QED
  BY <1>1, <1>2, <1>3, <1>4, <1>5, <1>6 DEF IInv, ChainInv

\* The builder of a reward epoch may only be built if there is such a reward epoch.
LEMMA BuiltIsEpoch ==
  ASSUME TypeOK, MayBuild(builder)
  PROVE  builder.epoch \in RewardEpochs
<1>1. <<"init", builder.epoch>> \in builder.got
  BY DEF MayBuild, Once
<1> QED
  BY <1>1 DEF TypeOK

\* The policy startup builds is one the chain has made.
LEMMA StartupEpoch ==
  ASSUME IInv
  PROVE  RewardEpochAt(now) \in RewardEpochs
  BY EpochOfTime, LengthAssumption DEF IInv, TypeOK, ChainInv, RewardEpochs

\* Variables of the chain.
ChainTypes ==
  /\ now \in Nat
  /\ emitted \in [RewardEpochs -> SUBSET Kinds]
  /\ inReach \in [RewardEpochs -> SUBSET Kinds]
  /\ start \in [RewardEpochs -> Nat]
  /\ voters \in [RewardEpochs -> SUBSET Voters]

\* Flags, the others of the process.
FlagTypes == early \in BOOLEAN /\ skipped \in BOOLEAN
ProcessTypes ==
  /\ phase \in {"down", "waiting", "observing"}
  /\ startEpoch \in Nat
  /\ policy \in RewardEpochs
  /\ builder \in [epoch : Nat, got : SUBSET (Kinds \X RewardEpochs)]
  /\ failure \in Failures
  /\ judged \subseteq Nat \X RewardEpochs

LEMMA TypeParts == TypeOK <=> ChainTypes /\ FlagTypes /\ ProcessTypes
  BY Zenon DEF TypeOK, ChainTypes, FlagTypes, ProcessTypes

\* Blocks only move the time on.
LEMMA NextEpochTypes ==
  ASSUME TypeOK, NextEpoch
  PROVE  ChainTypes' /\ now' > now
  BY LengthAssumption DEF TypeOK, NextEpoch, ChainTypes

LEMMA EmitTypes ==
  ASSUME TypeOK, NEW e \in Kinds, NEW r \in RewardEpochs, Emit(e, r)
  PROVE  ChainTypes'
<1> USE DEF TypeOK
<1>1. emitted' \in [RewardEpochs -> SUBSET Kinds] /\ now' = now
  BY DEF Emit
<1>2. inReach' \in [RewardEpochs -> SUBSET Kinds]
  BY DEF Emit
<1>3. start' \in [RewardEpochs -> Nat] /\ voters' \in [RewardEpochs -> SUBSET Voters]
  <2>1. CASE e = "init"
    <3>1. NominalStart(r) \in Nat /\ now + 1 \in Nat
      BY NominalIsTime DEF RewardEpochs
    <3>2. Max({NominalStart(r), now + 1}) \in Nat
      BY <3>1, MaxOfTwo
    <3>3. start' \in [RewardEpochs -> Nat]
      BY <2>1, <3>2 DEF Emit
    <3>4. PICK vs \in SUBSET (emitted[r] \cap Voters) : voters' = [voters EXCEPT ![r] = vs]
      BY <2>1 DEF Emit
    <3> QED
      BY <3>3, <3>4
  <2>2. CASE e # "init"
    BY <2>2 DEF Emit
  <2> QED
    BY <2>1, <2>2
<1> QED
  BY <1>1, <1>2, <1>3 DEF ChainTypes

LEMMA FailTypes ==
  ASSUME TypeOK, NEW reason \in Failures, Fail(reason)
  PROVE  FlagTypes' /\ ProcessTypes'
<1>1. FlagTypes'
  BY Zenon DEF TypeOK, FlagTypes, Fail
<1>2. ProcessTypes'
  BY DEF TypeOK, ProcessTypes, Fail, Builder
<1> QED
  BY <1>1, <1>2

LEMMA BlockTypes ==
  ASSUME IInv, Block
  PROVE  FlagTypes' /\ ProcessTypes'
<1>t. TypeOK
  BY DEF IInv
<1>1. FlagTypes'
  BY <1>t, Zenon DEF TypeOK, FlagTypes, Block
<1>2. policy' \in RewardEpochs /\ builder' \in [epoch : Nat, got : SUBSET (Kinds \X RewardEpochs)]
  BY <1>t, BuiltIsEpoch DEF TypeOK, Block, NextBuilder, Builder, MayBuild
<1>3. judged' \subseteq Nat \X RewardEpochs
  <2>1. \A p \in RewardEpochs : Judge(p) => judged' \subseteq Nat \X RewardEpochs
    BY <1>t DEF Judge, TypeOK
  <2> QED
    BY <1>t, <2>1, BuiltIsEpoch DEF TypeOK, Block
<1> QED
  BY <1>t, <1>1, <1>2, <1>3 DEF TypeOK, ProcessTypes, Block

LEMMA NextTypeOK == IInv /\ [Next]_vars => TypeOK'
<1> SUFFICES ASSUME IInv, [Next]_vars PROVE ChainTypes' /\ FlagTypes' /\ ProcessTypes'
  BY TypeParts DEF TypeOK, ChainTypes, FlagTypes, ProcessTypes
<1>t. TypeOK /\ ChainTypes /\ FlagTypes /\ ProcessTypes
  BY TypeParts DEF IInv
<1>f. {"none", "rpc", "startup", "build", "duplicate", "unregistered"} \subseteq Failures
  BY DEF Failures
<1>c. UNCHANGED chainVars => ChainTypes'
  BY <1>t DEF chainVars, ChainTypes
<1>p. UNCHANGED <<programVars, historyVars>> => FlagTypes' /\ ProcessTypes'
  BY <1>t DEF programVars, historyVars, FlagTypes, ProcessTypes
<1>1. CASE UNCHANGED vars
  BY <1>1, <1>c, <1>p DEF vars
<1>2. CASE Crash
  BY <1>2, <1>t, <1>f, <1>c, FailTypes DEF Crash
<1>3. CASE Startup
  <2>1. CASE Fail("startup")
    BY <1>3, <2>1, <1>t, <1>f, <1>c, FailTypes DEF Startup
  <2>2. CASE ~Fail("startup")
    <3>1. FlagTypes'
      BY <1>3, <2>2, <1>t, Zenon DEF Startup, FlagTypes
    <3>2. RewardEpochAt(now) \in RewardEpochs /\ RewardEpochAt(now) + 1 \in Nat
      BY StartupEpoch DEF RewardEpochs
    <3>3. ProcessTypes'
      BY <1>3, <2>2, <1>t, <1>f, <3>2 DEF Startup, ProcessTypes, ChainTypes, Builder
    <3> QED
      BY <1>3, <1>c, <3>1, <3>3 DEF Startup
  <2> QED
    BY <2>1, <2>2
<1>4. CASE UnwatchedBlock
  BY <1>4, <1>t, <1>p, NextEpochTypes DEF UnwatchedBlock
<1>5. CASE FirstBlock
  <2>1. CASE Fail("unregistered")
    BY <1>5, <2>1, <1>t, <1>f, NextEpochTypes, FailTypes DEF FirstBlock
  <2>2. CASE ~Fail("unregistered")
    <3>1. FlagTypes'
      BY <1>5, <2>2, Zenon DEF FirstBlock, FlagTypes
    <3>2. ProcessTypes'
      BY <1>5, <2>2, <1>t DEF FirstBlock, ProcessTypes
    <3> QED
      BY <1>5, <1>t, <3>1, <3>2, NextEpochTypes DEF FirstBlock
  <2> QED
    BY <2>1, <2>2
<1>6. CASE Block
  BY <1>6, <1>t, BlockTypes, NextEpochTypes DEF Block
<1>7. CASE BlockFails
  BY <1>7, <1>t, <1>f, NextEpochTypes, FailTypes DEF BlockFails
<1>8. ASSUME NEW e \in Kinds, NEW r \in RewardEpochs, Emit(e, r)
      PROVE  ChainTypes' /\ FlagTypes' /\ ProcessTypes'
  <2>1. ChainTypes'
    BY <1>8, <1>t, EmitTypes
  <2>2. CASE UNCHANGED <<programVars, historyVars>>
    BY <2>1, <2>2, <1>p
  <2>3. CASE Fail("duplicate")
    BY <2>1, <2>3, <1>t, <1>f, FailTypes
  <2>4. CASE builder' = Add(builder, e, r) /\ UNCHANGED <<phase, startEpoch, policy, historyVars>>
    <3>1. FlagTypes'
      BY <2>4, <1>t, Zenon DEF FlagTypes, historyVars
    <3>2. builder' \in [epoch : Nat, got : SUBSET (Kinds \X RewardEpochs)]
      BY <2>4, <1>t DEF ProcessTypes, Add
    <3>3. ProcessTypes'
      BY <2>4, <1>t, <3>2 DEF ProcessTypes, historyVars
    <3> QED
      BY <2>1, <3>1, <3>3
  <2> QED
    BY <1>8, <2>2, <2>3, <2>4 DEF Emit
<1> QED
  BY <1>1, <1>2, <1>3, <1>4, <1>5, <1>6, <1>7, <1>8 DEF Next

-----------------------------------------------------------------------------
(***************************************************************************)
(* The chain.                                                              *)
(***************************************************************************)

\* What one event does to the events and starts of all reward epochs.
LEMMA EmitChanges ==
  ASSUME TypeOK, NEW e \in Kinds, NEW r \in RewardEpochs, Emit(e, r)
  PROVE  /\ now' = now /\ now \in Nat
         /\ emitted'[r] = emitted[r] \cup {e}
         /\ e = "init" => /\ start'[r] > now /\ start'[r] >= NominalStart(r)
                          /\ now < NominalStart(r) => start'[r] = NominalStart(r)
                          /\ voters'[r] \subseteq emitted[r]
         /\ e # "init" => start'[r] = start[r] /\ voters'[r] = voters[r]
         /\ inReach'[r] \subseteq inReach[r] \cup {e}
         /\ e \in inReach'[r] => e \in inReach[r] \/ Searched(r, now)
         /\ \A s \in RewardEpochs \ {r} :
              /\ emitted'[s] = emitted[s] /\ start'[s] = start[s]
              /\ voters'[s] = voters[s] /\ inReach'[s] = inReach[s]
<1> USE DEF TypeOK
<1>1. now' = now /\ now \in Nat /\ emitted' = [emitted EXCEPT ![r] = @ \cup {e}]
  BY DEF Emit
<1>2. inReach' = IF Searched(r, now) THEN [inReach EXCEPT ![r] = @ \cup {e}] ELSE inReach
  BY DEF Emit
<1>5. /\ emitted'[r] = emitted[r] \cup {e}
      /\ inReach'[r] \subseteq inReach[r] \cup {e}
      /\ e \in inReach'[r] => e \in inReach[r] \/ Searched(r, now)
      /\ \A s \in RewardEpochs \ {r} : emitted'[s] = emitted[s] /\ inReach'[s] = inReach[s]
  BY <1>1, <1>2
<1>3. CASE e = "init"
  <2>1. NominalStart(r) \in Nat /\ now + 1 \in Nat
    BY NominalIsTime DEF RewardEpochs
  <2>2. start' = [start EXCEPT ![r] = Max({NominalStart(r), now + 1})]
    BY <1>3 DEF Emit
  <2>3. start'[r] = IF NominalStart(r) >= now + 1 THEN NominalStart(r) ELSE now + 1
    BY <2>1, <2>2, MaxOfTwo
  <2>4. PICK vs \in SUBSET (emitted[r] \cap Voters) : voters' = [voters EXCEPT ![r] = vs]
    BY <1>3 DEF Emit
  <2>5. voters'[r] \subseteq emitted[r]
    BY <2>4
  <2>6. \A s \in RewardEpochs \ {r} : start'[s] = start[s] /\ voters'[s] = voters[s]
    BY <2>2, <2>4
  <2> QED
    BY <1>1, <1>3, <1>5, <2>1, <2>3, <2>5, <2>6
<1>4. CASE e # "init"
  BY <1>1, <1>4, <1>5 DEF Emit
<1> QED
  BY <1>3, <1>4

LEMMA EmitChainInv ==
  ASSUME TypeOK, ChainInv, NEW e \in Kinds, NEW r \in RewardEpochs, Emit(e, r)
  PROVE  ChainInv'
<1>a. Allowed(e, r)
  BY DEF Emit
<1>0. now' = now /\ start[r] = 0 /\ start \in [RewardEpochs -> Nat] /\ now \in Nat
  BY <1>a, EmitChanges DEF Allowed, TypeOK
<1>1. InOrder'
  <2> SUFFICES ASSUME NEW s \in RewardEpochs
               PROVE  /\ start'[s] # 0 <=> "init" \in emitted'[s]
                      /\ emitted'[s] # {} => "random" \in emitted'[s]
                      /\ emitted'[s] \cap Voters # {} => "votepower" \in emitted'[s]
                      /\ "init" \in emitted'[s] => "votepower" \in emitted'[s]
                      /\ voters'[s] \subseteq emitted'[s]
    BY DEF InOrder
  <2>1. InOrder
    BY DEF ChainInv
  <2>2. CASE s # r
    BY <2>1, <2>2, EmitChanges DEF InOrder
  <2>3. CASE s = r
    <3>1. emitted'[r] = emitted[r] \cup {e}
      BY EmitChanges
    <3>2. e \in Voters \/ e \in Once
      BY DEF Kinds
    <3>3. start'[r] # 0 <=> "init" \in emitted'[r]
      BY <1>0, <2>1, <3>1, EmitChanges DEF InOrder
    <3>4. "random" \in emitted'[r]
      BY <1>a, <2>1, <3>1, <3>2 DEF InOrder, Allowed, Once
    <3>5. "votepower" \in emitted'[r] \/ e = "random"
      BY <1>a, <2>1, <3>1, <3>2 DEF InOrder, Allowed, Once
    <3>6. e = "random" => emitted'[r] \cap Voters = emitted[r] \cap Voters
      BY <3>1, VotersAssumption
    <3>7. voters'[r] \subseteq emitted'[r]
      BY <2>1, <3>1, EmitChanges DEF InOrder
    <3> QED
      BY <2>1, <2>3, <3>1, <3>3, <3>4, <3>5, <3>6, <3>7 DEF InOrder
  <2> QED
    BY <2>2, <2>3
<1>2. Reached'
  <2> SUFFICES ASSUME NEW s \in RewardEpochs
               PROVE  /\ inReach'[s] \subseteq emitted'[s]
                      /\ "init" \in inReach'[s] => start'[s] = NominalStart(s)
    BY DEF Reached, NominalStart
  <2>1. Reached /\ InOrder
    BY DEF ChainInv
  <2>2. CASE s # r
    BY <2>1, <2>2, EmitChanges DEF Reached
  <2>3. CASE s = r
    <3>1. inReach'[r] \subseteq emitted'[r]
      BY <2>1, EmitChanges DEF Reached
    <3>2. "init" \notin inReach[r]
      BY <1>0, <2>1 DEF Reached, InOrder
    <3>3. ASSUME "init" \in inReach'[r] PROVE start'[r] = NominalStart(r)
      <4>1. e = "init" /\ Searched(r, now)
        BY <3>2, <3>3, EmitChanges
      <4>2. NominalStart(r) \in Nat /\ WindowTail \in Nat
        BY NominalIsTime, LengthAssumption DEF RewardEpochs
      <4>3. now < NominalStart(r)
        BY <1>0, <4>1, <4>2 DEF Searched
      <4> QED
        BY <4>1, <4>3, EmitChanges
    <3> QED
      BY <2>3, <3>1, <3>3
  <2> QED
    BY <2>2, <2>3
<1>o. /\ StartsAscend /\ OneAtATime
      /\ \A s \in RewardEpochs : start[s] # 0 => s # r
      /\ 1 \in RewardEpochs
  BY <1>0, LengthAssumption DEF ChainInv, RewardEpochs
<1>r. r > 1 /\ r - 1 \in RewardEpochs
  BY <1>o, LengthAssumption DEF OneAtATime, RewardEpochs
<1>p. start[r - 1] # 0 /\ start[r - 1] <= now
  <2>1. CASE e = "random"
    BY <1>a, <2>1 DEF Allowed
  <2>2. CASE e # "random"
    <3>1. emitted[r] # {}
      BY <1>a, <2>2 DEF Allowed, Kinds, Once
    <3> QED
      BY <1>o, <1>r, <3>1 DEF OneAtATime
  <2> QED
    BY <2>1, <2>2
<1>3. StartsAscend'
  <2> SUFFICES ASSUME NEW q \in RewardEpochs, NEW s \in RewardEpochs, q < s, start'[s] # 0
               PROVE  start'[q] # 0 /\ start'[q] < start'[s]
    BY DEF StartsAscend
  <2>1. CASE s # r
    <3>1. start[s] # 0 /\ start[q] # 0 /\ start[q] < start[s] /\ start'[s] = start[s]
      BY <1>o, <2>1, EmitChanges DEF StartsAscend
    <3>2. start'[q] = start[q]
      BY <1>o, <3>1, EmitChanges
    <3> QED
      BY <3>1, <3>2
  <2>2. CASE s = r
    <3>1. start'[r] > now
      BY <1>0, <2>2, EmitChanges
    <3>2. start[q] # 0 /\ start[q] <= start[r - 1]
      <4>1. CASE q = r - 1
        BY <1>0, <1>p, <1>r, <4>1
      <4>2. CASE q < r - 1
        BY <1>0, <1>p, <1>r, <1>o, <4>2 DEF StartsAscend
      <4> QED
        BY <2>2, <4>1, <4>2, LengthAssumption DEF RewardEpochs
    <3>3. start'[q] = start[q] /\ start[q] \in Nat /\ start[r - 1] \in Nat /\ start'[r] \in Nat
      BY <1>0, <1>r, <1>o, <3>2, EmitChanges, EmitTypes DEF ChainTypes
    <3> QED
      BY <1>0, <1>p, <2>2, <3>1, <3>2, <3>3
  <2> QED
    BY <2>1, <2>2
<1>4. OneAtATime'
  <2>1. start'[1] # 0
    BY <1>o, EmitChanges DEF OneAtATime
  <2> SUFFICES ASSUME NEW s \in RewardEpochs, s > 1, emitted'[s] # {}
               PROVE  start'[s - 1] # 0 /\ start'[s - 1] <= now
    BY <1>0, <2>1 DEF OneAtATime
  <2>2. s - 1 \in RewardEpochs
    BY LengthAssumption DEF RewardEpochs
  <2>3. start[s - 1] # 0 /\ start[s - 1] <= now
    BY <1>o, <1>p, EmitChanges DEF OneAtATime
  <2> QED
    BY <1>o, <2>2, <2>3, EmitChanges
<1> QED
  BY <1>0, <1>1, <1>2, <1>3, <1>4 DEF ChainInv, RewardEpochAt

LEMMA NextEpochChainInv ==
  ASSUME TypeOK, ChainInv, NextEpoch
  PROVE  ChainInv'
<1>1. now' \in Nat /\ now' > now /\ now \in Nat /\ UNCHANGED <<emitted, inReach, start, voters>>
  BY LengthAssumption DEF TypeOK, NextEpoch
<1>2. (now >= RewardLen)' /\ (RewardEpochAt(now) <= MaxEpoch)'
  <2>1. now' >= RewardLen
    BY <1>1, LengthAssumption DEF ChainInv
  <2>2. RewardEpochAt(now') <= MaxEpoch
    BY DEF NextEpoch
  <2> QED
    BY <2>1, <2>2 DEF RewardEpochAt
<1>3. InOrder' /\ Reached' /\ StartsAscend'
  BY <1>1 DEF ChainInv, InOrder, Reached, StartsAscend, NominalStart
<1>4. OneAtATime'
  <2>1. \A r \in RewardEpochs : r > 1 => start[r - 1] \in Nat
    BY LengthAssumption DEF TypeOK, RewardEpochs
  <2> QED
    BY <1>1, <2>1 DEF ChainInv, OneAtATime
<1> QED
  BY <1>2, <1>3, <1>4 DEF ChainInv

LEMMA NextChainInv == IInv /\ [Next]_vars => ChainInv'
<1> SUFFICES ASSUME IInv, [Next]_vars PROVE ChainInv'
  OBVIOUS
<1>1. TypeOK /\ ChainInv
  BY DEF IInv
<1>2. CASE UNCHANGED chainVars
  BY <1>1, <1>2 DEF chainVars, ChainInv, RewardEpochAt, InOrder, Reached, NominalStart,
                    StartsAscend, OneAtATime
<1>3. CASE NextEpoch
  BY <1>1, <1>3, NextEpochChainInv
<1>4. CASE \E e \in Kinds, r \in RewardEpochs : Emit(e, r)
  BY <1>1, <1>4, EmitChainInv
<1> QED
  BY <1>2, <1>3, <1>4
  DEF Next, vars, Crash, Startup, UnwatchedBlock, FirstBlock, Block, BlockFails

-----------------------------------------------------------------------------
(***************************************************************************)
(* The process.                                                            *)
(***************************************************************************)

\* A builder with all of the policy it is for can be built, and the switch is due
\* when that policy starts.
LEMMA SwitchOfFollowing ==
  ASSUME IInv, Following, NEW t \in Nat, t > now
  PROVE  /\ SwitchDue(t) <=> policy < MaxEpoch /\ start[policy + 1] = t
         /\ SwitchDue(t) => MayBuild(builder)
<1>1. TypeOK /\ InOrder /\ policy \in RewardEpochs /\ now \in Nat
  BY DEF IInv, ChainInv, TypeOK
<1>2. builder.epoch = policy + 1 /\ builder.got = Coming \X {policy + 1}
  BY DEF Following
<1>3. policy < MaxEpoch => policy + 1 \in RewardEpochs
  BY <1>1, LengthAssumption DEF RewardEpochs
<1>4. SwitchDue(t) <=> "init" \in Coming /\ start[policy + 1] = t
  <2>1. ASSUME SwitchDue(t) PROVE "init" \in Coming /\ start[policy + 1] = t
    BY <1>2, <2>1 DEF SwitchDue
  <2>2. ASSUME "init" \in Coming, start[policy + 1] = t PROVE SwitchDue(t)
    <3>1. <<"init", policy + 1>> \in builder.got
      BY <1>2, <2>2
    <3> QED
      BY <2>2, <3>1 DEF SwitchDue
  <2> QED
    BY <2>1, <2>2
<1>5. "init" \in Coming <=> policy < MaxEpoch /\ start[policy + 1] # 0
  BY <1>1, <1>3 DEF Coming, InOrder
<1>6. SwitchDue(t) <=> policy < MaxEpoch /\ start[policy + 1] = t
  BY <1>1, <1>4, <1>5
<1>7. ASSUME SwitchDue(t) PROVE MayBuild(builder)
  <2>1. policy < MaxEpoch /\ policy + 1 \in RewardEpochs /\ "init" \in emitted[policy + 1]
    BY <1>3, <1>4, <1>6, <1>7 DEF Coming
  <2>2. Once \subseteq Coming /\ voters[policy + 1] \subseteq Coming
    BY <1>1, <2>1 DEF InOrder, Once, Coming
  <2>3. \A e \in Once : <<e, builder.epoch>> \in builder.got
    BY <1>2, <2>2
  <2>4. \A v \in voters[builder.epoch] : \E g \in builder.got : g[1] = v
    <3> SUFFICES ASSUME NEW v \in voters[policy + 1] PROVE \E g \in builder.got : g[1] = v
      BY <1>2
    <3>1. <<v, policy + 1>> \in builder.got
      BY <1>2, <2>2
    <3> QED
      BY <3>1
  <2> QED
    BY <2>3, <2>4 DEF MayBuild
<1> QED
  BY <1>6, <1>7

\* A block that is not the first: the policy stays in force, or the switch is made
\* to the one that comes into force.
LEMMA BlockFollows ==
  ASSUME IInv, Block, early, ~skipped'
  PROVE  Following'
<1>1. TypeOK /\ ChainInv /\ Following
  BY DEF IInv, ProcessInv, Block
<1>2. /\ now' \in Nat /\ now' > now /\ now \in Nat /\ policy \in RewardEpochs
      /\ UNCHANGED <<emitted, start>> /\ start \in [RewardEpochs -> Nat]
  BY <1>1, NextEpochTypes DEF Block, NextEpoch, ChainTypes, TypeOK
<1>3. policy < MaxEpoch => policy + 1 \in RewardEpochs
  BY <1>2, LengthAssumption DEF RewardEpochs
<1>4. \A r \in RewardEpochs : r > policy => start[r] \notin now + 1 .. now' - 1
  BY DEF Block
<1>5. CASE ~SwitchDue(now')
  <2>1. UNCHANGED <<policy, builder>>
    BY <1>5 DEF Block
  <2>2. start[policy] # 0 /\ start[policy] <= now'
    BY <1>1, <1>2 DEF Following, Started
  <2>3. ASSUME policy < MaxEpoch, start[policy + 1] # 0
        PROVE  start[policy + 1] > now'
    <3>1. start[policy + 1] # now'
      BY <1>1, <1>2, <1>5, <2>3, SwitchOfFollowing
    <3>2. start[policy + 1] \notin now + 1 .. now' - 1
      BY <1>2, <1>3, <1>4, <2>3, LengthAssumption DEF RewardEpochs
    <3>3. start[policy + 1] > now /\ start[policy + 1] \in Nat
      BY <1>1, <1>2, <1>3, <2>3 DEF Following
    <3> QED
      BY <1>2, <3>1, <3>2, <3>3
  <2> QED
    BY <1>1, <1>2, <2>1, <2>2, <2>3 DEF Following, Started, Coming
<1>6. CASE SwitchDue(now')
  <2>1. policy < MaxEpoch /\ start[policy + 1] = now' /\ policy + 1 \in RewardEpochs
    BY <1>1, <1>2, <1>3, <1>6, SwitchOfFollowing
  <2>2. policy' = policy + 1 /\ builder' = [epoch |-> policy' + 1, got |-> {}]
    BY <1>1, <1>6 DEF Block, Following, NextBuilder, Builder
  <2>3. start'[policy'] # 0 /\ start'[policy'] <= now'
    BY <1>2, <2>1, <2>2
  <2>4. ASSUME policy' < MaxEpoch
        PROVE  policy' + 1 \in RewardEpochs /\ emitted'[policy' + 1] = {} /\ start'[policy' + 1] = 0
    <3>1. policy + 2 \in RewardEpochs /\ policy + 2 > 1 /\ (policy + 2) - 1 = policy + 1
      BY <1>2, <2>2, <2>4, LengthAssumption DEF RewardEpochs
    <3>2. emitted[policy + 2] = {}
      BY <1>1, <1>2, <2>1, <3>1 DEF ChainInv, OneAtATime
    <3>3. start[policy + 2] = 0
      BY <1>1, <3>1, <3>2 DEF ChainInv, InOrder
    <3>4. policy' + 1 = policy + 2
      BY <1>2, <2>2, LengthAssumption DEF RewardEpochs
    <3> QED
      BY <1>2, <3>1, <3>2, <3>3, <3>4
  <2>5. Coming' = {}
    BY <2>4 DEF Coming
  <2>6. builder' = [epoch |-> policy' + 1, got |-> Coming' \X {policy' + 1}]
    BY <2>2, <2>5
  <2> QED
    BY <2>3, <2>4, <2>6 DEF Following, Started
<1> QED
  BY <1>5, <1>6

\* An event while the process follows: it goes into the builder.
LEMMA EmitFollows ==
  ASSUME IInv, Following, phase = "observing", NEW e \in Kinds, NEW r \in RewardEpochs, Emit(e, r)
  PROVE  ~Fail("duplicate") /\ Following'
<1>1. TypeOK /\ ChainInv /\ Allowed(e, r) /\ policy \in RewardEpochs
  BY DEF IInv, Emit, TypeOK
<1>2. r = policy + 1 /\ policy < MaxEpoch
  <2>1. r = policy + 1
    BY <1>1, NextPolicyEmits
  <2> QED
    BY <1>1, <2>1, LengthAssumption DEF RewardEpochs
<1>3. builder = [epoch |-> r, got |-> emitted[r] \X {r}] /\ e \notin emitted[r]
  BY <1>1, <1>2 DEF Following, Coming, Allowed
<1>4. MayAdd(builder, e)
  BY <1>3 DEF MayAdd
<1>5. phase' = "observing" /\ builder' = Add(builder, e, r) /\ policy' = policy
  BY <1>4 DEF Emit
<1>6. /\ emitted'[r] = emitted[r] \cup {e} /\ now' = now /\ now \in Nat
      /\ start'[policy] = start[policy]
      /\ start'[r] # start[r] => start'[r] > now
  BY <1>1, <1>2, EmitChanges, LengthAssumption DEF RewardEpochs
<1>7. builder' = [epoch |-> policy' + 1, got |-> Coming' \X {policy' + 1}]
  <2>1. (emitted[r] \X {r}) \cup {<<e, r>>} = emitted'[r] \X {r}
    BY <1>6
  <2>2. Coming' = emitted'[r]
    BY <1>2, <1>5 DEF Coming
  <2> QED
    BY <1>2, <1>3, <1>5, <2>1, <2>2 DEF Add
<1>8. Started' /\ (policy' < MaxEpoch /\ start'[policy' + 1] # 0 => start'[policy' + 1] > now')
  BY <1>2, <1>5, <1>6 DEF Following, Started
<1> QED
  BY <1>5, <1>7, <1>8 DEF Fail, Following

\* The process begins with a policy that has started.
LEMMA StartupStarted ==
  ASSUME IInv, MayBuild(FromLogs(RewardEpochAt(now)))
  PROVE  start[RewardEpochAt(now)] # 0 /\ start[RewardEpochAt(now)] <= now
<1> DEFINE r == RewardEpochAt(now)
<1>1. r \in RewardEpochs /\ now \in Nat /\ now >= RewardLen
  BY StartupEpoch DEF IInv, TypeOK, ChainInv
<1>2. "init" \in inReach[r]
  BY DEF MayBuild, FromLogs, Once
<1>3. start[r] = NominalStart(r) /\ start[r] # 0
  BY <1>1, <1>2 DEF IInv, ChainInv, Reached, InOrder
<1> QED
  BY <1>1, <1>3, EpochOfTime

\* The policy of a process that waits has started, and stays so.
LEMMA StartedStays ==
  ASSUME IInv, [Next]_vars, Started, policy' = policy
  PROVE  Started'
<1>1. TypeOK /\ policy \in RewardEpochs /\ now \in Nat /\ start \in [RewardEpochs -> Nat]
  BY DEF IInv, TypeOK
<1>2. CASE UNCHANGED <<now, start>>
  BY <1>2 DEF Started
<1>3. CASE NextEpoch
  BY <1>1, <1>3, NextEpochTypes DEF Started, NextEpoch, ChainTypes
<1>4. ASSUME NEW e \in Kinds, NEW r \in RewardEpochs, Emit(e, r)
      PROVE  Started'
  <2>1. r # policy
    BY <1>4 DEF Emit, Allowed, Started
  <2> QED
    BY <1>1, <1>4, <2>1, EmitChanges DEF Started
<1> QED
  BY <1>2, <1>3, <1>4
  DEF Next, vars, chainVars, Crash, Startup, UnwatchedBlock, FirstBlock, Block, BlockFails

\* The first block of the loop: nothing of the next policy was missed.
LEMMA FirstBlockFollows ==
  ASSUME IInv, FirstBlock, phase' = "observing", early'
  PROVE  Following'
<1>1. /\ TypeOK /\ Started /\ builder = Builder(policy + 1) /\ policy \in RewardEpochs
      /\ InOrder
  BY DEF IInv, ProcessInv, FirstBlock, TypeOK, ChainInv
<1>2. /\ early' = (policy < MaxEpoch => emitted[policy + 1] = {} /\ RewardEpochAt(now') = policy)
      /\ UNCHANGED <<policy, builder, emitted, start>>
  BY DEF FirstBlock, Fail, NextEpoch
<1>3. policy < MaxEpoch => emitted[policy + 1] = {}
  BY <1>2
<1>4. policy < MaxEpoch => start[policy + 1] = 0
  BY <1>1, <1>3, LengthAssumption DEF InOrder, RewardEpochs
<1>5. Coming' = {}
  BY <1>2, <1>3 DEF Coming
<1>6. Started'
  BY <1>1, <1>2, StartedStays DEF Next
<1> QED
  BY <1>1, <1>2, <1>4, <1>5, <1>6 DEF Following, Builder

LEMMA NextProcessInv == IInv /\ [Next]_vars => ProcessInv'
<1> SUFFICES ASSUME IInv, [Next]_vars PROVE ProcessInv'
  OBVIOUS
<1>t. TypeOK /\ ProcessInv
  BY DEF IInv
<1>1. phase' # "down" => failure' = "none"
  BY <1>t DEF ProcessInv, Next, vars, programVars, historyVars, Crash, Startup, UnwatchedBlock,
              FirstBlock, Block, BlockFails, Emit, Fail
<1>2. ASSUME phase' = "waiting"
      PROVE  Started' /\ builder' = Builder(policy' + 1)
  <2>1. CASE Startup
    <3>1. MayBuild(FromLogs(RewardEpochAt(now))) /\ UNCHANGED <<now, start>>
      BY <1>2, <2>1 DEF Startup, Fail, chainVars
    <3>2. policy' = RewardEpochAt(now) /\ builder' = Builder(policy' + 1)
      BY <1>2, <2>1 DEF Startup, Fail
    <3> QED
      BY <3>1, <3>2, StartupStarted DEF Started
  <2>2. CASE ~Startup
    <3>1. phase = "waiting" /\ UNCHANGED <<policy, builder>>
      BY <1>2, <2>2
      DEF Next, vars, programVars, historyVars, Crash, UnwatchedBlock, FirstBlock, Block,
          BlockFails, Emit, Fail
    <3> QED
      BY <1>t, <3>1, StartedStays DEF ProcessInv
  <2> QED
    BY <2>1, <2>2
<1>3. ASSUME phase' = "observing", early', ~skipped'
      PROVE  Following'
  <2>1. CASE UNCHANGED vars
    BY <1>t, <1>3, <2>1
    DEF ProcessInv, vars, chainVars, programVars, historyVars, Following, Started, Coming
  <2>2. CASE FirstBlock
    BY <1>3, <2>2, FirstBlockFollows
  <2>3. CASE Block
    <3>1. early
      BY <1>3, <2>3 DEF Block
    <3> QED
      BY <1>3, <2>3, <3>1, BlockFollows
  <2>4. ASSUME NEW e \in Kinds, NEW r \in RewardEpochs, Emit(e, r)
        PROVE  Following'
    <3>1. phase = "observing" /\ UNCHANGED <<early, skipped>>
      BY <1>3, <2>4 DEF Emit, Fail, programVars, historyVars
    <3>2. Following
      BY <1>t, <1>3, <3>1, Zenon DEF ProcessInv
    <3> QED
      BY <2>4, <3>1, <3>2, EmitFollows
  <2> QED
    BY <1>3, <2>1, <2>2, <2>3, <2>4
    DEF Next, Crash, Startup, UnwatchedBlock, BlockFails, Fail, programVars
<1> QED
  BY <1>1, <1>2, <1>3 DEF ProcessInv

LEMMA NextFails == IInv /\ [Next]_vars => BuilderFailsForReason'
<1> SUFFICES ASSUME IInv, [Next]_vars, failure' \in {"build", "duplicate"}, early', ~skipped'
             PROVE  FALSE
  BY DEF BuilderFailsForReason
<1>t. TypeOK /\ ProcessInv /\ BuilderFailsForReason
  BY DEF IInv
<1>1. CASE BlockFails
  <2>1. phase = "observing" /\ SwitchDue(now') /\ UNCHANGED <<early, skipped>>
    BY <1>1 DEF BlockFails, Fail
  <2>3. ~MayBuild(builder)
    BY <1>1 DEF BlockFails, Fail
  <2>4. early /\ ~skipped
    BY <2>1, Zenon
  <2>2. now' \in Nat /\ now' > now
    BY <1>1, <1>t, NextEpochTypes DEF BlockFails, ChainTypes
  <2> QED
    BY <1>t, <2>1, <2>2, <2>3, <2>4, SwitchOfFollowing DEF ProcessInv
<1>2. ASSUME NEW e \in Kinds, NEW r \in RewardEpochs, Emit(e, r)
      PROVE  FALSE
  <2>4. UNCHANGED <<early, skipped>>
    BY <1>2 DEF Emit, Fail, historyVars
  <2>1. early /\ ~skipped
    BY <2>4, Zenon
  <2>2. CASE phase = "observing"
    <3>1. Following /\ failure = "none"
      BY <1>t, <2>1, <2>2 DEF ProcessInv
    <3>2. ~Fail("duplicate")
      BY <1>2, <2>2, <3>1, EmitFollows
    <3> QED
      BY <1>2, <2>2, <3>1, <3>2 DEF Emit, historyVars
  <2>3. CASE phase # "observing"
    BY <1>2, <1>t, <2>1, <2>3 DEF Emit, historyVars, BuilderFailsForReason
  <2> QED
    BY <2>2, <2>3
<1>3. CASE FirstBlock
  BY <1>t, <1>3 DEF FirstBlock, Fail, ProcessInv
<1>4. CASE Block
  BY <1>t, <1>4 DEF Block, ProcessInv
<1>5. CASE Crash \/ Startup
  BY <1>5, <1>t DEF Crash, Startup, Fail
<1>6. CASE UnwatchedBlock \/ UNCHANGED vars
  BY <1>6, <1>t DEF UnwatchedBlock, vars, historyVars, BuilderFailsForReason
<1> QED
  BY <1>1, <1>2, <1>3, <1>4, <1>5, <1>6 DEF Next

\* The chain makes one policy at a time, and a process that follows has all of
\* what is out of the next.
THEOREM Inductive == Spec => []IInv
<1>1. IInv /\ [Next]_vars => IInv'
  BY NextTypeOK, NextChainInv, NextProcessInv, NextFails DEF IInv
<1> QED
  BY <1>1, InitIInv, PTL DEF Spec

-----------------------------------------------------------------------------
(***************************************************************************)
(* The properties.                                                         *)
(***************************************************************************)

\* All variables keep their types; the policy of the process is one the chain has.
THEOREM TypeCorrect == Spec => []TypeOK
<1>1. IInv => TypeOK
  BY DEF IInv
<1> QED
  BY <1>1, Inductive, PTL

\* A process that began early enough works with the policy in force, over any
\* number of switches.
THEOREM InForcePolicy == Spec => []PolicyInForce
<1>1. IInv => PolicyInForce
  BY FollowingInForce DEF IInv, ProcessInv, PolicyInForce
<1> QED
  BY <1>1, Inductive, PTL

\* The builder's assertions hold in a process that began early enough.
THEOREM FailsForReason == Spec => []BuilderFailsForReason
<1>1. IInv => BuilderFailsForReason
  BY DEF IInv
<1> QED
  BY <1>1, Inductive, PTL

=============================================================================
