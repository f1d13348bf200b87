------------------------- MODULE RegistrationSearch -------------------------
(***************************************************************************)
(* The search of the blocks between which the signing policy of the        *)
(* current reward epoch was made: find_voter_registration_blocks           *)
(* (observer/observer.py). A first block is found for a time somewhat      *)
(* before the registration of voters, a second for a time somewhat after   *)
(* it. Each search begins at a block guessed from the usual block time and *)
(* goes on in strides until the timestamp is near enough.                  *)
(*                                                                         *)
(* Every step asks a node for one block. The chain is long and fixed: the  *)
(* blocks it grows by while the search goes on lie after all it looks for. *)
(***************************************************************************)
EXTENDS Integers

CONSTANTS
  Head,         \* number of the block the search begins with
  Chains,       \* timestamps of the blocks 0 .. Head that are considered
  Delays,       \* how far the clock may be ahead of the newest block
  BlockTime,    \* avg_block_time, 1 second
  Stride,       \* 100 blocks
  Tolerance,    \* 600 seconds
  StartLead,    \* 9000 seconds from the first target to the reward epoch
  EndLead,      \* 3600 seconds from the second
  OpenLead,     \* registration opens 7200 seconds before the reward epoch ...
  CloseLead     \* ... and is over 5400 seconds before

Blocks == 0 .. Head

ASSUME ChainAssumption ==
  /\ Head \in Nat
  /\ Chains \subseteq [Blocks -> Nat]
  /\ \A c \in Chains : \A a, b \in Blocks : a <= b => c[a] <= c[b]
  /\ Delays \subseteq Nat
ASSUME SearchAssumption ==
  /\ BlockTime \in Nat \ {0} /\ Stride \in Nat \ {0} /\ Tolerance \in Nat
  /\ StartLead \in Nat /\ EndLead \in Nat /\ OpenLead \in Nat /\ CloseLead \in Nat
  /\ EndLead <= StartLead

\* Near a target is still on its side of the registration of voters: 600 seconds
\* are less than 9000 - 7200 and than 5400 - 3600.
ASSUME PeriodAssumption == OpenLead < StartLead - Tolerance /\ EndLead + Tolerance < CloseLead

VARIABLES
  ts,           \* ts[b]: timestamp of block b
  now,          \* current_ts
  epochStart,   \* reward_epoch.start_s
  phase,        \* see Phases
  probe,        \* start_block_id or end_block_id, whichever is looked for
  range         \* the blocks found: <<>>, <<start>>, <<start, end>>

\* History: no part of the program, only read by the properties.
VARIABLES
  heading       \* the way the last stride of this search went, 0 before the first

chainVars == <<ts, now, epochStart>>
vars == <<chainVars, phase, probe, range, heading>>

\* "start", "end": the block of that name is looked for; "failed": a block was
\* asked for that the chain does not have.
Phases == {"begin", "start", "end", "done", "failed"}

TypeOK ==
  /\ ts \in Chains
  /\ now \in Nat
  /\ epochStart \in Nat
  /\ phase \in Phases
  /\ phase \in {"start", "end"} => probe \in Blocks
  /\ range \in {<<>>} \cup {<<a>> : a \in Blocks} \cup (Blocks \X Blocks)
  /\ heading \in {-1, 0, 1}

\* The reward epoch has begun.
Init ==
  /\ ts \in Chains
  /\ now \in {ts[Head] + d : d \in Delays}
  /\ epochStart \in StartLead .. ts[Head]
  /\ phase = "begin"
  /\ probe = Head
  /\ range = <<>>
  /\ heading = 0

-----------------------------------------------------------------------------
\* target_start_ts and target_end_ts
Target(search) == epochStart - (IF search = "start" THEN StartLead ELSE EndLead)

\* The block that would have the target's timestamp at the usual block time.
Guess(search) == Head - (now - Target(search)) \div BlockTime

\* d, how far the block is behind the target.
Offset(search, b) == ts[b] - Target(search)

\* Mutant: the search goes on while the block lies before the target.
NearAhead(search, b) == Offset(search, b) <= Tolerance

\* Mutant: abs(d) < 600
NearStrictly(search, b) == -Tolerance < Offset(search, b) /\ Offset(search, b) < Tolerance

\* abs(d) <= 600
Near(search, b) == -Tolerance <= Offset(search, b) /\ Offset(search, b) <= Tolerance

\* Mutant: the wrong sign.
StrideAway(search, b) == IF Offset(search, b) > 0 THEN 1 ELSE -1

\* - (d // abs(d))
Way(search, b) == IF Offset(search, b) > 0 THEN -1 ELSE 1

\* Mutant: whatever number is asked for, there is an answer.
AskAnything(search, b) == phase' = search /\ probe' = b

\* w.eth.get_block(b) in one of the two searches.
Ask(search, b) ==
  \/ b \in Blocks /\ phase' = search /\ probe' = b
  \/ b \notin Blocks /\ phase' = "failed" /\ UNCHANGED probe

Begin ==
  /\ phase = "begin"
  /\ Ask("start", Guess("start"))
  /\ UNCHANGED <<chainVars, range, heading>>

\* The body of the while loop.
Stray ==
  /\ phase \in {"start", "end"}
  /\ ~Near(phase, probe)
  /\ Ask(phase, probe + Stride * Way(phase, probe))
  /\ heading' = Way(phase, probe)
  /\ UNCHANGED <<chainVars, range>>

StartFound ==
  /\ phase = "start"
  /\ Near(phase, probe)
  /\ range' = <<probe>>
  /\ Ask("end", Guess("end"))
  /\ heading' = 0
  /\ UNCHANGED chainVars

EndFound ==
  /\ phase = "end"
  /\ Near(phase, probe)
  /\ range' = <<range[1], probe>>
  /\ phase' = "done"
  /\ UNCHANGED <<chainVars, probe, heading>>

Next == Begin \/ Stray \/ StartFound \/ EndFound

Spec == Init /\ [][Next]_vars

\* Every request is answered, or raises: an HTTP provider has a timeout.
FairSpec == Spec /\ WF_vars(Next)

-----------------------------------------------------------------------------
(***************************************************************************)
(* Properties.                                                             *)
(***************************************************************************)

\* A stride never spans more time than there is from one end of the tolerance to
\* the other: 100 blocks take at most 20 minutes.
StridesFit == \A b \in Blocks : b + Stride \in Blocks => ts[b + Stride] - ts[b] <= 2 * Tolerance + 1

\* The chain is old enough for what is looked for.
ChainReaches ==
  /\ Stride <= Head
  /\ ts[Stride] <= Target("start") /\ Target("end") <= ts[Head - Stride]
  /\ Guess("start") \in Blocks /\ Guess("end") \in Blocks

\* "voter registration period is 2h before the reward epoch and lasts 30min"
\* (observer/observer.py:358): the logs that are read have every block of that
\* period, whatever the pace of the chain, though both ends are only near the
\* times aimed at.
RegistrationCovered ==
  phase = "done" =>
    \A b \in Blocks :
      epochStart - OpenLead <= ts[b] /\ ts[b] <= epochStart - CloseLead =>
        range[1] <= b /\ b <= range[2]

\* A search goes one way: when a stride cannot step over the times near enough, no
\* block is asked for twice.
NeverTurns == [][StridesFit /\ phase' = phase /\ heading # 0 => heading' = heading]_vars

\* On a chain that reaches back, the start of the observer does not fail here, even
\* when a stride can step over the times near enough.
FailsOnYoungChain == phase = "failed" => ~ChainReaches

\* The search ends, unless a stride can step over the times near enough: then it
\* may go to and fro for ever.
SearchEnds == StridesFit ~> phase \in {"done", "failed"}

=============================================================================
