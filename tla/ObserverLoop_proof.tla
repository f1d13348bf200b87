------------------------- MODULE ObserverLoop_proof -------------------------
(***************************************************************************)
(* Proofs about ObserverLoop, for every lag of the nodes and every length  *)
(* of the chain. One inductive invariant, IInv, carries all of them.       *)
(***************************************************************************)
EXTENDS ObserverLoop, TLAPS

\* The phases of a block in which its logs and transactions have been read.
AfterReading == phase \in BlockPhases \ {"reading"}

\* The block at hand lies before the end of its range, and has been read when
\* the loop is past reading it.
InRange ==
  /\ InBlock => pos < latest
  /\ AfterReading => pos \in begun

\* A process that has not begun to observe has read nothing and owes nothing.
NothingYet == phase \in {"down", "waiting"} => begun = {} /\ owed = {}

\* Between two blocks only abandoned ones owe messages; within a block what is
\* owed on top of that waits in the list.
OwedIsListed ==
  /\ phase \in {"polling", "reading"} => \A m \in owed : m.block \in abandoned
  /\ AfterReading => \A m \in owed : m.block \in abandoned \/ m \in messages

\* Unless the cursor has gone back, what was read lies before what is next.
ReadBefore ==
  ~steppedBack =>
    /\ phase = "polling" => \A b \in begun : b < cursor
    /\ phase = "reading" => \A b \in begun : b < pos
    /\ AfterReading => \A b \in begun : b <= pos

IInv ==
  /\ TypeOK
  /\ InRange
  /\ NothingYet
  /\ NoBlockSkipped
  /\ DeliversOwnBlock
  /\ OwedIsListed
  /\ ReadBefore

-----------------------------------------------------------------------------
\* What a node answers is a block number.
LEMMA AnswersAreNumbers == TypeOK => Answers \subseteq Nat
  BY DEF TypeOK, Answers

\* There is nothing between a number and the one before it.
LEMMA NothingBefore == \A n \in Nat : n .. n - 1 = {}
  OBVIOUS

\* A message raised in a block is of that block.
LEMMA MsgsType ==
  ASSUME NEW sources \in SUBSET Sources, TypeOK
  PROVE  /\ Msgs(sources) \subseteq Message
         /\ \A m \in Msgs(sources) : m.block = pos
  BY DEF Msgs, Message, TypeOK

LEMMA InitIInv == Init => IInv
<1> SUFFICES ASSUME Init PROVE IInv
  OBVIOUS
<1>1. phase = "down" /\ begun = {} /\ owed = {} /\ messages = {}
  BY DEF Init
<1>2. steppedBack \in BOOLEAN
  BY DEF Init
<1>3. TypeOK
  BY <1>1, <1>2, SMT DEF Init, TypeOK, Phases
<1> QED
  BY <1>1, <1>3 DEF IInv, InRange, NothingYet, NoBlockSkipped, DeliversOwnBlock,
         OwedIsListed, ReadBefore, AfterReading, InBlock, Running, BlockPhases

(***************************************************************************)
(* The steps outside a block.                                              *)
(***************************************************************************)
LEMMA OutsideIInv ==
  ASSUME IInv, NewBlock \/ Crash \/ Startup \/ Wait
  PROVE  IInv'
<1>1. CASE NewBlock
  BY <1>1 DEF NewBlock, programVars, historyVars, IInv, TypeOK, InRange, NothingYet,
              NoBlockSkipped, DeliversOwnBlock, OwedIsListed, ReadBefore, AfterReading,
              InBlock, Running
<1>2. CASE Crash
  BY <1>2 DEF Crash, IInv, TypeOK, InRange, NothingYet, NoBlockSkipped, DeliversOwnBlock,
              OwedIsListed, ReadBefore, AfterReading, InBlock, Running, Phases, BlockPhases
<1>3. CASE Startup
  BY <1>3, AnswersAreNumbers
  DEF Startup, historyVars, IInv, TypeOK, InRange, NothingYet, NoBlockSkipped,
      DeliversOwnBlock, OwedIsListed, ReadBefore, AfterReading, InBlock, Running,
      Phases, BlockPhases
<1>4. CASE Wait
  <2>1. /\ phase' \in {"waiting", "polling"}
        /\ begun' = {} /\ owed' = {}
        /\ phase' = "polling" => first' = cursor'
    BY <1>4 DEF Wait, IInv, NothingYet
  <2>2. TypeOK'
    BY <1>4 DEF Wait, IInv, TypeOK, Phases
  <2>3. NoBlockSkipped'
    <3>1. Running' => phase' = "polling" /\ ~InBlock'
      BY <2>1 DEF Running, InBlock, BlockPhases
    <3>2. Running' => first' .. (IF InBlock' THEN pos' ELSE cursor') - 1 = {}
      BY <2>1, <2>2, <3>1, NothingBefore DEF TypeOK
    <3> QED
      BY <3>2, Zenon DEF NoBlockSkipped
  <2> QED
    BY <2>1, <2>2, <2>3
    DEF IInv, InRange, NothingYet, DeliversOwnBlock, OwedIsListed, ReadBefore,
        AfterReading, InBlock, Running, BlockPhases
<1> QED
  BY <1>1, <1>2, <1>3, <1>4

\* A poll keeps all that was read before the cursor, wherever it moves it.
LEMMA PollIInv ==
  ASSUME IInv, NEW a \in Answers, Poll(a)
  PROVE  IInv'
<1>1. a \in Nat /\ cursor \in Nat /\ first \in Nat
  BY AnswersAreNumbers DEF IInv, TypeOK
<1>2. TypeOK'
  BY <1>1 DEF Poll, IInv, TypeOK, Phases, BlockPhases
<1>3. CASE cursor < a
  BY <1>1, <1>2, <1>3
  DEF Poll, IInv, TypeOK, InRange, NothingYet, NoBlockSkipped, DeliversOwnBlock,
      OwedIsListed, ReadBefore, AfterReading, InBlock, Running, BlockPhases
<1>4. CASE ~(cursor < a)
  <2>1. a < cursor /\ cursor' = a /\ phase = "polling" /\ phase' = "polling"
    BY <1>1, <1>4 DEF Poll
  <2>2. steppedBack'
    BY <2>1 DEF Poll
  <2>3. first .. a - 1 \subseteq first .. cursor - 1
    BY <1>1, <2>1
  <2>4. NoBlockSkipped'
    BY <2>1, <2>3 DEF Poll, IInv, NoBlockSkipped, InBlock, Running, BlockPhases
  <2> QED
    BY <1>2, <2>1, <2>2, <2>4
    DEF Poll, IInv, InRange, NothingYet, DeliversOwnBlock, OwedIsListed, ReadBefore,
        AfterReading, InBlock, BlockPhases
<1> QED
  BY <1>3, <1>4

(***************************************************************************)
(* The steps of a block.                                                   *)
(***************************************************************************)
LEMMA ReadBlockIInv ==
  ASSUME IInv, ReadBlock
  PROVE  IInv'
<1>1. PICK found \in SUBSET {"address"} :
        /\ messages' = Cleared \cup Msgs(found)
        /\ owed' = owed \cup Msgs(found)
  BY DEF ReadBlock
<1>2. /\ Msgs(found) \subseteq Message
      /\ \A m \in Msgs(found) : m.block = pos
  BY MsgsType DEF IInv, Sources
<1>3. TypeOK'
  BY <1>1, <1>2 DEF ReadBlock, IInv, TypeOK, Cleared, Phases, BlockPhases
<1> QED
  BY <1>1, <1>2, <1>3
  DEF ReadBlock, IInv, TypeOK, InRange, NothingYet, NoBlockSkipped, DeliversOwnBlock,
      OwedIsListed, ReadBefore, AfterReading, InBlock, Running, BlockPhases, Cleared

LEMMA ChecksIInv ==
  ASSUME IInv, CheckConditions \/ Ping
  PROVE  IInv'
<1>1. TypeOK'
  BY DEF CheckConditions, Ping, historyVars, IInv, TypeOK, Phases, BlockPhases
<1> QED
  BY <1>1
  DEF CheckConditions, Ping, historyVars, IInv, TypeOK, InRange, NothingYet,
      NoBlockSkipped, DeliversOwnBlock, OwedIsListed, ReadBefore, AfterReading, InBlock,
      Running, BlockPhases

LEMMA CloseBlockIInv ==
  ASSUME IInv, CloseBlock
  PROVE  IInv'
<1>1. PICK found \in SUBSET ({"round", "registration"} \cup (due \cap {"cron"})) :
        /\ messages' = Extended(found)
        /\ owed' = owed \cup Msgs(found)
  BY DEF CloseBlock
<1>2. /\ Msgs(found) \subseteq Message
      /\ \A m \in Msgs(found) : m.block = pos
  BY <1>1, MsgsType DEF IInv, Sources
<1>3. TypeOK'
  BY <1>1, <1>2 DEF CloseBlock, IInv, TypeOK, Extended, Phases, BlockPhases
<1> QED
  BY <1>1, <1>2, <1>3
  DEF CloseBlock, IInv, TypeOK, InRange, NothingYet, NoBlockSkipped, DeliversOwnBlock,
      OwedIsListed, ReadBefore, AfterReading, InBlock, Running, BlockPhases, Extended

\* The end of a block: Advance takes the loop to the next block of the range or
\* to the poll after it, and either way to where the block at hand ends.
LEMMA AdvanceIInv ==
  ASSUME IInv, AfterReading, Advance,
         UNCHANGED <<head, due, messages, first, begun, steppedBack>>,
         owed' \subseteq owed, abandoned \subseteq abandoned', abandoned' \subseteq Nat,
         \A m \in owed' : m.block \in abandoned'
  PROVE  IInv'
<1>1. pos < latest /\ pos \in begun
  BY DEF IInv, InRange, AfterReading, InBlock
<1>2. TypeOK'
  BY DEF Advance, IInv, TypeOK, Phases, BlockPhases
<1>3. first .. pos \subseteq begun
  BY <1>1 DEF IInv, NoBlockSkipped, AfterReading, InBlock, Running, TypeOK
<1>4. CASE pos + 1 < latest
  BY <1>1, <1>2, <1>3, <1>4
  DEF Advance, IInv, TypeOK, InRange, NothingYet, NoBlockSkipped, DeliversOwnBlock,
      OwedIsListed, ReadBefore, AfterReading, InBlock, Running, BlockPhases
<1>5. CASE ~(pos + 1 < latest)
  <2>1. latest = pos + 1
    BY <1>1, <1>5 DEF IInv, TypeOK
  <2> QED
    BY <1>1, <1>2, <1>3, <1>5, <2>1
    DEF Advance, IInv, TypeOK, InRange, NothingYet, NoBlockSkipped, DeliversOwnBlock,
        OwedIsListed, ReadBefore, AfterReading, InBlock, Running, BlockPhases
<1> QED
  BY <1>4, <1>5

LEMMA EndOfBlockIInv ==
  ASSUME IInv, PingError \/ Deliver
  PROVE  IInv'
<1>1. AfterReading
  BY DEF PingError, Deliver, AfterReading, BlockPhases
<1>2. \A m \in owed : m.block \in abandoned \/ (m \in messages /\ m.block = pos)
  BY <1>1 DEF IInv, OwedIsListed, DeliversOwnBlock, AfterReading
<1>3. CASE PingError
  BY <1>1, <1>2, <1>3, AdvanceIInv DEF PingError, IInv, TypeOK
<1>4. CASE Deliver
  BY <1>1, <1>2, <1>4, AdvanceIInv DEF Deliver, IInv, TypeOK
<1> QED
  BY <1>3, <1>4

-----------------------------------------------------------------------------
LEMMA NextIInv == IInv /\ [Next]_vars => IInv'
<1> SUFFICES ASSUME IInv, [Next]_vars
             PROVE  IInv'
  OBVIOUS
<1>1. CASE UNCHANGED vars
  BY <1>1 DEF vars, programVars, historyVars, IInv, TypeOK, InRange, NothingYet,
              NoBlockSkipped, DeliversOwnBlock, OwedIsListed, ReadBefore, AfterReading,
              InBlock, Running
<1>2. CASE BlockStep
  BY <1>2, ReadBlockIInv, ChecksIInv, CloseBlockIInv, EndOfBlockIInv DEF BlockStep
<1> QED
  BY <1>1, <1>2, OutsideIInv, PollIInv DEF Next

\* The strengthened invariant holds in every state of every behaviour.
THEOREM Inductive == Spec => []IInv
  BY InitIInv, NextIInv, PTL DEF Spec

\* Type correctness of the loop's state (observer_loop).
THEOREM TypeCorrect == Spec => []TypeOK
<1>1. IInv => TypeOK
  BY DEF IInv
<1> QED
  BY <1>1, Inductive, PTL

\* No block from the first on is left out, whatever the nodes answer (range,
\* block_number in observer_loop).
THEOREM NoneSkipped == Spec => []NoBlockSkipped
<1>1. IInv => NoBlockSkipped
  BY DEF IInv
<1> QED
  BY <1>1, Inductive, PTL

\* What is delivered belongs to the block at hand (messages in observer_loop).
THEOREM DeliveredInPlace == Spec => []DeliversOwnBlock
<1>1. IInv => DeliversOwnBlock
  BY DEF IInv
<1> QED
  BY <1>1, Inductive, PTL

\* A message that is not delivered with its block is one of a block abandoned at
\* the uptime ping (messages, continue in observer_loop).
THEOREM DroppedAtPing == Spec => []DroppedOnlyByPing
<1>1. IInv => DroppedOnlyByPing
  BY DEF IInv, OwedIsListed, DeliversOwnBlock, DroppedOnlyByPing, AfterReading, InBlock, Running
<1> QED
  BY <1>1, Inductive, PTL

\* Blocks are read once and in order while the answers do not go below the cursor
\* (range, block_number in observer_loop).
THEOREM InOrder == Spec => ReadOnceInOrder
<1>1. IInv /\ [Next]_vars =>
        [ReadBlock /\ ~steppedBack => pos \notin begun /\ \A b \in begun : b < pos]_vars
  BY DEF IInv, TypeOK, ReadBefore, ReadBlock
<1> QED
  BY <1>1, Inductive, PTL DEF Spec, ReadOnceInOrder

=============================================================================
