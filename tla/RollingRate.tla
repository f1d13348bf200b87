----------------------------- MODULE RollingRate -----------------------------
(***************************************************************************)
(* What the observer promises about a minimal condition that is sampled    *)
(* per voting round: it looks at the last Window rounds of this process,   *)
(* and when it judges them, it warns exactly if less than Threshold of     *)
(* what these rounds asked for was met.                                    *)
(***************************************************************************)
EXTENDS Integers, Sequences, FiniteSets

CONSTANTS
  Window,       \* rounds looked at
  MaxBatch,     \* rounds that may come at once
  Threshold     \* of 10000

VARIABLES
  recent,       \* recent[i]: the sets of things asked for and met, newest last
  alarm,        \* a warning was given when they were judged last
  fresh         \* they have been judged since the newest came

rateVars == <<recent, alarm, fresh>>

RateInit == recent = <<>> /\ alarm = FALSE /\ fresh = FALSE

\* The newest rounds come in at the end, the oldest leave when there is no room;
\* what is known of the others does not change.
Observe ==
  \E kept \in 0 .. Len(recent) :
    LET new == Len(recent') - kept
    IN /\ new \in 0 .. MaxBatch
       /\ Len(recent') <= Window
       /\ kept < Len(recent) => Len(recent') = Window
       /\ \A i \in 1 .. kept : recent'[i] = recent[Len(recent) - kept + i]
       /\ \A i \in DOMAIN recent' : recent'[i].met \subseteq recent'[i].asked
       /\ fresh' = FALSE
       /\ UNCHANGED alarm

Asked == UNION {{i} \X recent[i].asked : i \in DOMAIN recent}
Met == UNION {{i} \X recent[i].met : i \in DOMAIN recent}

Judge ==
  /\ alarm' = (Cardinality(Met) * 10000 < Threshold * Cardinality(Asked))
  /\ fresh' = TRUE
  /\ UNCHANGED recent

\* The process begins anew with nothing.
Forget == recent' = <<>> /\ alarm' = FALSE /\ fresh' = FALSE

RateNext == Observe \/ Judge \/ Forget

RateSpec == RateInit /\ [][RateNext]_rateVars

=============================================================================
