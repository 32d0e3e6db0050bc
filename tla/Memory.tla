-------------------------------- MODULE Memory --------------------------------
(***************************************************************************)
(* What the assistant remembers of a thread (services/conversation.py      *)
(* update_context, services/ai_chat.py maybe_summarize): the last entries  *)
(* of the talk and a summary of older ones, in one JSON column that must   *)
(* fit a few kilobytes.  A job reads the column with the conversation,     *)
(* waits for the row when another job holds it, and in the end writes the  *)
(* column wholesale.                                                       *)
(***************************************************************************)
EXTENDS Integers, SequencesExt

CONSTANTS
    Turns,          \* messages of the customer the assistant answers
    NoTurn,
    MaxRecent,      \* MAX_RECENT_MESSAGES
    SummaryTrigger, \* SUMMARY_TRIGGER_TURNS
    Room,           \* CONTEXT_MAX_BYTES, in entries of plain text of full length
    WideWeight,     \* the same text escaped, as Hindi is
    MaxTogether     \* bound: messages that are being answered at once

\* The program's 6, 10 and 4 KB leave room for the turns of one failed summary.
ASSUME MemoryAssumption ==
    /\ NoTurn \notin Turns
    /\ {MaxRecent, SummaryTrigger, Room, WideWeight, MaxTogether} \subseteq Nat \ {0}
    /\ SummaryTrigger > 2
    /\ SummaryTrigger + 3 <= MaxRecent /\ SummaryTrigger + 3 <= Room

VARIABLES
    memory,         \* conversation.context: [recent, folded]; folded stands for the
                    \* summary, by the entries it was made of; dry is history: summaries
                    \* that were due and failed, in a row, when it came about
    turn,           \* the job of each message: where it stands, the memory it has read
    rowHeld,        \* the job that holds the conversation's row
    wide,           \* messages not written in plain ASCII
    overwritten,    \* history: entries another job's write has wiped out
    driest          \* history: the longest row of failed summaries

memoryVars == << memory, turn, rowHeld, wide, overwritten, driest >>

Entry == [turn : Turns, by : {"user", "assistant"}]
EntriesOf(t) == << [turn |-> t, by |-> "user"], [turn |-> t, by |-> "assistant"] >>
Remembered(m) == Range(m.recent) \cup m.folded
Blank == [recent |-> << >>, folded |-> {}, dry |-> 0]
Memories == [recent : Seq(Entry), folded : SUBSET Entry, dry : Nat]

-----------------------------------------------------------------------------

\* An entry weighs one; json.dumps escapes every character that is not ASCII.
WeightOf(s) ==
    Len(s) + (WideWeight - 1) * Cardinality({i \in DOMAIN s : s[i].turn \in wide})

\* The last n entries of s.
Newest(s, n) == SubSeq(s, Len(s) - n + 1, Len(s))

\* _trim_context: the longest tail that fits.
Trimmed(s) ==
    Newest(s, CHOOSE n \in 0 .. Len(s) :
                /\ WeightOf(Newest(s, n)) <= Room
                /\ \A k \in n + 1 .. Len(s) : WeightOf(Newest(s, k)) > Room)

\* update_context.
Updated(m, t) ==
    LET all == m.recent \o EntriesOf(t) IN
    [m EXCEPT !.recent = Trimmed(IF Len(all) > MaxRecent THEN Newest(all, MaxRecent) ELSE all)]

\* Mutant of SummaryDue: the trigger counts pairs of entries.
SummaryDueByPairs(m) == Len(m.recent) >= 2 * SummaryTrigger

SummaryDue(m) == Len(m.recent) >= SummaryTrigger

\* maybe_summarize, when the model answers: the summary covers the one before it
\* and everything recent, of which the last pair stays.
Summarised(m) ==
    [recent |-> Trimmed(Newest(m.recent, 2)), folded |-> Remembered(m), dry |-> 0]

\* get_or_create_conversation loads the row.
ReadThread(t) ==
    /\ turn[t].pc = "sent"
    /\ turn' = [turn EXCEPT ![t] = [pc |-> "read", seen |-> memory]]
    /\ UNCHANGED << memory, rowHeld, wide, overwritten, driest >>

\* record_inbound writes last_message_at, and so takes the row, which is not
\* read again.
TakeRow(t) ==
    /\ turn[t].pc = "read"
    /\ rowHeld = NoTurn
    /\ rowHeld' = t
    /\ turn' = [turn EXCEPT ![t].pc = "answering"]
    /\ UNCHANGED << memory, wide, overwritten, driest >>

\* The end of _handle_message and the commit: the turn is added to the memory
\* that was read, and summed up when that is due and the model answers.
CommitTurn(t) ==
    LET longer == Updated(turn[t].seen, t) IN
    /\ turn[t].pc = "answering"
    /\ \/ SummaryDue(longer) /\ memory' = Summarised(longer)
       \/ SummaryDue(longer) /\ memory' = [longer EXCEPT !.dry = @ + 1]
       \/ ~ SummaryDue(longer) /\ memory' = longer
    /\ driest' = Max({driest, memory'.dry})
    /\ overwritten' = overwritten \cup (Remembered(memory) \ Remembered(turn[t].seen))
    /\ turn' = [turn EXCEPT ![t] = [pc |-> "done", seen |-> Blank]]
    /\ rowHeld' = NoTurn
    /\ UNCHANGED wide

\* The job fails; nothing of it is kept.
AbortTurn(t) ==
    /\ turn[t].pc \in {"read", "answering"}
    /\ turn' = [turn EXCEPT ![t] = [pc |-> "failed", seen |-> Blank]]
    /\ rowHeld' = IF rowHeld = t THEN NoTurn ELSE rowHeld
    /\ UNCHANGED << memory, wide, overwritten, driest >>

\* The customer writes; messages are named in the order in which they come.
SendTurn(t) ==
    /\ turn[t].pc = "unsent"
    /\ t = CHOOSE u \in Turns : turn[u].pc = "unsent"
    /\ Cardinality({u \in Turns : turn[u].pc \in {"sent", "read", "answering"}}) < MaxTogether
    /\ turn' = [turn EXCEPT ![t].pc = "sent"]
    /\ wide' \in {wide, wide \cup {t}}
    /\ UNCHANGED << memory, rowHeld, overwritten, driest >>

MemoryInit ==
    /\ memory = Blank
    /\ turn = [t \in Turns |-> [pc |-> "unsent", seen |-> Blank]]
    /\ rowHeld = NoTurn
    /\ wide = {}
    /\ overwritten = {}
    /\ driest = 0

MemoryNext ==
    \E t \in Turns :
        \/ SendTurn(t)
        \/ ReadThread(t)
        \/ TakeRow(t)
        \/ CommitTurn(t)
        \/ AbortTurn(t)

MemorySpec == MemoryInit /\ [][MemoryNext]_memoryVars

-----------------------------------------------------------------------------
(* Properties.                                                             *)

MemoryTypeOK ==
    /\ memory \in Memories /\ Len(memory.recent) <= MaxRecent
    /\ turn \in [Turns -> [pc : {"unsent", "sent", "read", "answering", "done", "failed"},
                           seen : Memories]]
    /\ rowHeld \in Turns \cup {NoTurn}
    /\ wide \subseteq Turns
    /\ overwritten \subseteq Entry
    /\ driest \in Nat

\* The memory always fits, and what the assistant has answered it remembers: an
\* entry is only lost to another job's wholesale write, to text that weighs more
\* once escaped, or when two summaries in a row have failed.
TurnsRemembered ==
    /\ WeightOf(memory.recent) <= Room
    /\ wide = {} /\ driest <= 1 =>
           \A t \in {u \in Turns : turn[u].pc = "done"} :
               Range(EntriesOf(t)) \subseteq Remembered(memory) \cup overwritten
=============================================================================
