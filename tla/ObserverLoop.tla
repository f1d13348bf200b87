---------------------------- MODULE ObserverLoop ----------------------------
(***************************************************************************)
(* The control of observer_loop (observer/observer.py): how it follows the *)
(* head of the chain as a set of RPC nodes reports it, what it does with   *)
(* one block from reading it to the delivery of its messages, and how it   *)
(* ends. What the block contains is left to the other modules: here a      *)
(* block only raises messages.                                             *)
(*                                                                         *)
(* The nodes behind the RPC url need not agree: an answer may be up to Lag *)
(* blocks behind the head, and behind an earlier answer.                   *)
(***************************************************************************)
EXTENDS Integers

CONSTANTS
  Lag,          \* how far an RPC node may be behind the head of the chain
  MaxHead       \* bound: the chain ends here

ASSUME LagAssumption == Lag \in Nat
ASSUME BoundAssumption == MaxHead \in Nat

VARIABLES
  head,         \* number of the newest block
  phase,        \* where observer_loop is, see Phases
  cursor,       \* block_number
  latest,       \* latest_block
  pos,          \* block, the loop variable of the range
  due,          \* timers that have run out since they were last reset
  messages      \* the list messages

\* History: no part of the program, only read by the properties.
VARIABLES
  first,        \* the block the process begins to observe at
  begun,        \* blocks the process has read since
  abandoned,    \* blocks it left before the end
  owed,         \* messages raised and not delivered
  steppedBack   \* a poll has been answered with less than the cursor

programVars == <<phase, cursor, latest, pos, due, messages>>
historyVars == <<first, begun, abandoned, owed, steppedBack>>
vars == <<head, programVars, historyVars>>

\* "down": not running; "waiting": the wait for the next voting epoch;
\* "polling": between two ranges; then the steps of one block.
BlockPhases == {"reading", "checking", "pinging", "closing", "delivering"}
Phases == {"down", "waiting", "polling"} \cup BlockPhases
InBlock == phase \in BlockPhases
Running == InBlock \/ phase = "polling"

\* last_minimal_conditions_check, last_ping and cron_time, and the wait after
\* which last_registration_check makes a report possible.
Timers == {"conditions", "ping", "cron"}

\* Where a message comes from: an address check in the logs and transactions,
\* the hourly checks, a round, the registration.
Sources == {"address", "cron", "round", "registration"}
Message == [block : Nat, source : Sources]

TypeOK ==
  /\ head \in Nat
  /\ phase \in Phases
  /\ cursor \in Nat /\ latest \in Nat /\ pos \in Nat /\ first \in Nat
  /\ due \subseteq Timers
  /\ messages \subseteq Message
  /\ begun \subseteq Nat /\ abandoned \subseteq Nat
  /\ owed \subseteq Message
  /\ steppedBack \in BOOLEAN

Init ==
  /\ head \in 1 .. 2
  /\ phase = "down"
  /\ cursor = 0 /\ latest = 0 /\ pos = 0 /\ first = 0
  /\ due = {} /\ messages = {}
  /\ begun = {} /\ abandoned = {} /\ owed = {}
  /\ steppedBack = FALSE

-----------------------------------------------------------------------------
\* What a node may take for the head.
Answers == {a \in 0 .. head : head - Lag <= a}

NewBlock ==
  /\ head < MaxHead
  /\ head' = head + 1
  /\ UNCHANGED <<programVars, historyVars>>

\* An await raises, an assert fails: main sends one message and the process
\* ends; all its state goes with it.
Crash ==
  /\ phase # "down"
  /\ phase' = "down"
  /\ cursor' = 0 /\ latest' = 0 /\ pos' = 0 /\ first' = 0
  /\ due' = {} /\ messages' = {}
  /\ begun' = {} /\ abandoned' = {} /\ owed' = {}
  /\ steppedBack' = FALSE
  /\ UNCHANGED head

\* observer_loop up to the wait.
Startup ==
  /\ phase = "down"
  /\ phase' = "waiting"
  /\ cursor' \in Answers
  /\ UNCHANGED <<head, latest, pos, due, messages, historyVars>>

\* One turn of the wait. The block after the cursor is asked for whenever the
\* answer is not the cursor; when no node has it, get_block raises (Crash).
\* When the block is in the awaited epoch the process begins to observe with it.
Wait ==
  /\ phase = "waiting"
  /\ \E a \in Answers : a # cursor
  /\ cursor + 1 <= head
  /\ cursor' = cursor + 1
  /\ \/ /\ phase' = "waiting"
        /\ UNCHANGED first
     \/ /\ phase' = "polling"
        /\ first' = cursor'
  /\ UNCHANGED <<head, latest, pos, due, messages, begun, abandoned, owed, steppedBack>>

\* block_number = latest_block after the range; range(block_number, latest_block)
\* leaves out the latest block, it is the first of the next range.
Poll(a) ==
  /\ phase = "polling"
  /\ a # cursor
  /\ latest' = a
  /\ IF cursor < a
     THEN phase' = "reading" /\ pos' = cursor /\ UNCHANGED cursor
     ELSE phase' = "polling" /\ cursor' = a /\ UNCHANGED pos
  /\ steppedBack' = (steppedBack \/ a < cursor)
  /\ UNCHANGED <<head, due, messages, first, begun, abandoned, owed>>

\* Mutant: the cursor is moved past the latest block, which was not in the range.
AdvanceTooFar ==
  IF pos + 1 < latest
  THEN phase' = "reading" /\ pos' = pos + 1 /\ UNCHANGED <<cursor, latest>>
  ELSE phase' = "polling" /\ cursor' = latest + 1 /\ UNCHANGED <<pos, latest>>

\* Mutant: the range includes the latest block.
AdvanceInclusive ==
  IF pos < latest
  THEN phase' = "reading" /\ pos' = pos + 1 /\ UNCHANGED <<cursor, latest>>
  ELSE phase' = "polling" /\ cursor' = latest /\ UNCHANGED <<pos, latest>>

\* The block after pos, or the end of the range.
Advance ==
  IF pos + 1 < latest
  THEN phase' = "reading" /\ pos' = pos + 1 /\ UNCHANGED <<cursor, latest>>
  ELSE phase' = "polling" /\ cursor' = latest /\ UNCHANGED <<pos, latest>>

\* Mutant: messages that do not say where they come from.
MsgsUntagged(sources) == {[block |-> pos] : s \in sources}

Msgs(sources) == {[block |-> pos, source |-> s] : s \in sources}

\* Mutant: no clear, the messages of the block before are still there.
NotCleared == messages

\* messages.clear()
Cleared == {}

\* Mutant: the list is assigned anew where it should be extended.
Reassigned(found) == Msgs(found)

\* messages.extend
Extended(found) == messages \cup Msgs(found)

\* The messages of the logs and transactions replace those of the last block;
\* some time has passed since then.
ReadBlock ==
  /\ phase = "reading"
  /\ phase' = "checking"
  /\ begun' = begun \cup {pos}
  /\ \E found \in SUBSET {"address"} :
       /\ messages' = Cleared \cup Msgs(found)
       /\ owed' = owed \cup Msgs(found)
  /\ \E expired \in SUBSET Timers : due' = due \cup expired
  /\ UNCHANGED <<head, cursor, latest, pos, first, abandoned, steppedBack>>

\* The minimal conditions, when due, have a list of their own, delivered at once.
CheckConditions ==
  /\ phase = "checking"
  /\ phase' = "pinging"
  /\ due' = due \ {"conditions"}
  /\ UNCHANGED <<head, cursor, latest, pos, messages, historyVars>>

\* No ping is due, or it is answered, or requests raises: the timer restarts.
Ping ==
  /\ phase = "pinging"
  /\ phase' = "closing"
  /\ due' = due \ {"ping"}
  /\ UNCHANGED <<head, cursor, latest, pos, messages, historyVars>>

\* The answer is an "error": continue leaves the block, the timer stays due.
PingError ==
  /\ phase = "pinging"
  /\ "ping" \in due
  /\ Advance
  /\ abandoned' = abandoned \cup {pos}
  /\ UNCHANGED <<head, due, messages, first, begun, owed, steppedBack>>

\* The hourly checks when due, finalize and validate_round, registration.
CloseBlock ==
  /\ phase = "closing"
  /\ phase' = "delivering"
  /\ \E found \in SUBSET ({"round", "registration"} \cup (due \cap {"cron"})) :
       /\ messages' = Extended(found)
       /\ owed' = owed \cup Msgs(found)
  /\ due' = due \ {"cron"}
  /\ UNCHANGED <<head, cursor, latest, pos, first, begun, abandoned, steppedBack>>

\* log_message of every message; the list stays as it is until the next block.
Deliver ==
  /\ phase = "delivering"
  /\ owed' = owed \ messages
  /\ Advance
  /\ UNCHANGED <<head, due, messages, first, begun, abandoned, steppedBack>>

-----------------------------------------------------------------------------
BlockStep == ReadBlock \/ CheckConditions \/ Ping \/ PingError \/ CloseBlock \/ Deliver

Next ==
  \/ NewBlock \/ Crash \/ Startup \/ Wait
  \/ \E a \in Answers : Poll(a)
  \/ BlockStep

Spec == Init /\ [][Next]_vars

\* Nothing in a block takes for ever, and of the polls not all are answered by
\* a node that is behind.
FairSpec == Spec /\ WF_vars(BlockStep) /\ SF_vars(Poll(head))

-----------------------------------------------------------------------------
(***************************************************************************)
(* Properties.                                                             *)
(***************************************************************************)

\* From the first block on no block is skipped, though the answers jump ahead
\* by any number of blocks and step back (range and block_number).
NoBlockSkipped ==
  Running => first .. (IF InBlock THEN pos ELSE cursor) - 1 \subseteq begun

\* Blocks are read in order and once, unless a poll has been answered with less
\* than the cursor: the cursor then goes back, and events that are added to the
\* signing policy a second time fail an assertion of its builder.
ReadOnceInOrder ==
  [][ReadBlock /\ ~steppedBack => pos \notin begun /\ \A b \in begun : b < pos]_vars

\* Every message a block raises is delivered before the next block, and only
\* then: the exceptions are the blocks abandoned at the uptime ping, of which
\* all messages but those of the minimal conditions are dropped.
DroppedOnlyByPing ==
  Running => \A m \in owed : m.block \in abandoned \/ (InBlock /\ m.block = pos)

\* No message is delivered again with a later block: what the loop delivers is of
\* the block at hand (messages.clear).
DeliversOwnBlock == phase \in BlockPhases \ {"reading"} => \A m \in messages : m.block = pos

\* "check if transactions are made against correct contracts" (CHANGELOG.md:22):
\* what the check finds in a block is reported when the block has been left.
AddressMessagesDelivered ==
  phase = "polling" => \A m \in owed : m.source # "address"

\* Every block of the chain is read in the end, unless the process goes down.
EveryBlockRead ==
  \A b \in 1 .. MaxHead : (Running /\ first <= b /\ b < head) ~> (b \in begun \/ ~Running)

=============================================================================
