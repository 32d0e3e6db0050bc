---------------------------- MODULE Support_proofs ----------------------------
(***************************************************************************)
(* Proofs about Support, for any customers, messages, jobs and agents.     *)
(***************************************************************************)
EXTENDS Support, FiniteSetTheorems, SequenceTheorems, TLAPS

Blank == NewRow(CHOOSE u \in Users : TRUE)
Held == {"read", "locked", "sent"}

SlotType == [pc : {"idle", "claimed"} \cup Held, msg : Inbound \cup {NoMessage}, thread : Nat,
             seen : Row \cup {Blank}, row : Row \cup {Blank}]
Requests == {"assign", "unassign", "reply", "reply and resolve", "resolve", "return"}
DeskType == [op : Requests \cup {"none"}, to : Agents \cup {NoAgent}, thread : Nat,
             seen : Row \cup {Blank}, position : Nat]

-----------------------------------------------------------------------------
(* Rows.                                                                   *)

LEMMA FlushFields ==
    ASSUME NEW cur \in Row, NEW seen, NEW new
    PROVE  Flush(cur, seen, new) =
        [user |-> IF new.user # seen.user THEN new.user ELSE cur.user,
         status |-> IF new.status # seen.status THEN new.status ELSE cur.status,
         agent |-> IF new.agent # seen.agent THEN new.agent ELSE cur.agent,
         position |-> IF new.position # seen.position THEN new.position ELSE cur.position,
         sla |-> IF new.sla # seen.sla THEN new.sla ELSE cur.sla,
         recent |-> IF new.recent # seen.recent THEN new.recent ELSE cur.recent]
<1>1. DOMAIN cur = {"user", "status", "agent", "position", "sla", "recent"}
  BY DEF Row
<1>. QED
  BY <1>1 DEF Flush

\* A flush of a row keeps it a row, and its customer unless the new one differs.
LEMMA FlushRow ==
    ASSUME NEW cur \in Row, NEW seen \in Row, NEW new \in Row, new.user = seen.user
    PROVE  Flush(cur, seen, new) \in Row /\ Flush(cur, seen, new).user = cur.user
  BY FlushFields DEF Row

\* So do the operations of services/conversation.py.
LEMMA Operations ==
    ASSUME NEW row \in Row, NEW p \in Nat, NEW a \in Agents
    PROVE  /\ Escalated(row, p) \in Row /\ Escalated(row, p).user = row.user
           /\ Assigned(row, a) \in Row /\ Assigned(row, a).user = row.user
           /\ Unassigned(row, p) \in Row /\ Unassigned(row, p).user = row.user
           /\ Resolved(row) \in Row /\ Resolved(row).user = row.user
           /\ ReturnedToAI(row) \in Row /\ ReturnedToAI(row).user = row.user
           /\ Reopened(row) \in Row /\ Reopened(row).user = row.user
  BY DEF Row, ConversationStatus, Escalated, Assigned, Unassigned, Resolved, ReturnedToAI, Reopened

LEMMA NewRowType == \A u \in Users : NewRow(u) \in Row /\ NewRow(u).user = u
  BY DEF NewRow, Row, ConversationStatus

LEMMA QueuePositive ==
    ASSUME threads \in Seq(Row)
    PROVE  NextQueuePosition \in Nat \ {0}
<1>. DEFINE queued == {t \in DOMAIN threads : threads[t].status = "queued"}
<1>1. DOMAIN threads = 1 .. Len(threads) /\ Len(threads) \in Nat
  OBVIOUS
<1>2. IsFiniteSet(1 .. Len(threads))
  BY <1>1, FS_Interval
<1>3. IsFiniteSet(queued)
  BY <1>1, <1>2, FS_Subset
<1>4. Cardinality(queued) \in Nat
  BY <1>3, FS_CardinalityType
<1>. QED
  BY <1>4 DEF NextQueuePosition

-----------------------------------------------------------------------------
(* The invariant.                                                          *)

\* What a job's session holds belongs to the sender of its message, and a reply
\* on its way is the first that anyone will log.
SlotOK(w) ==
    /\ slot[w].pc # "idle" => slot[w].msg \in Inbound
    /\ slot[w].pc = "read" => slot[w].thread # 0
    /\ slot[w].pc = "sent" => logged[slot[w].msg] = 0
    /\ slot[w].pc \in Held =>
         /\ slot[w].seen \in Row /\ slot[w].seen.user = Sender[slot[w].msg]
         /\ slot[w].row \in Row /\ slot[w].row.user = Sender[slot[w].msg]
         /\ slot[w].thread <= Len(threads)
         /\ slot[w].thread # 0 => threads[slot[w].thread].user = Sender[slot[w].msg]

\* One job at a time holds an event row.
OneHolder ==
    \A v, w \in Slots : slot[v].pc \in Held /\ slot[w].pc \in Held /\ v # w =>
        slot[v].msg # slot[w].msg

DeskOK(a) ==
    desk[a].op # "none" =>
        /\ desk[a].thread \in DOMAIN threads /\ desk[a].to \in Agents
        /\ desk[a].seen \in Row /\ desk[a].position # 0
        /\ desk[a].seen.user = threads[desk[a].thread].user

Sending(m) == \E w \in Slots : slot[w].pc = "sent" /\ slot[w].msg = m

\* Before a message is done with, every reply that went out and is not on its
\* way to being committed has cost a fault or an answer of WhatsApp.
RepliesPaidFor ==
    \A m \in Inbound :
        /\ sent[m] <= 1 + faults + unheard[m]
        /\ ledger[m] # "processed" /\ ~ Sending(m) => sent[m] <= faults + unheard[m]

Shapes ==
    /\ TypeOK
    /\ slot \in [Slots -> SlotType]
    /\ desk \in [Agents -> DeskType]
    /\ faults \in Nat

SupportInv ==
    /\ Shapes
    /\ \A w \in Slots : SlotOK(w)
    /\ \A a \in Agents : DeskOK(a)
    /\ OneHolder
    /\ LedgerMatchesLog
    /\ RepliesPaidFor

\* Threads are never lost, and never change their customer.
Kept ==
    /\ threads' \in Seq(Row)
    /\ Len(threads) <= Len(threads')
    /\ \A t \in DOMAIN threads : threads'[t].user = threads[t].user

RacedKept == raced' = raced \cup Overlapping'

LEMMA RacedType ==
    ASSUME Shapes, Kept, RacedKept
    PROVE  raced' \subseteq DOMAIN threads'
<1>1. DOMAIN threads = 1 .. Len(threads) /\ DOMAIN threads' = 1 .. Len(threads')
      /\ Len(threads) \in Nat /\ Len(threads') \in Nat
  BY DEF Shapes, TypeOK, Kept
<1>2. DOMAIN threads \subseteq DOMAIN threads'
  BY <1>1 DEF Kept
<1>3. Overlapping' \subseteq DOMAIN threads'
  BY DEF Overlapping
<1>. QED
  BY <1>2, <1>3 DEF Shapes, TypeOK, RacedKept

-----------------------------------------------------------------------------
(* Agents, the clock and the sweep touch the threads alone.                *)

LEMMA ThreadsOnly ==
    ASSUME SupportInv, Kept, RacedKept, UNCHANGED << slot, inboxVars, faults >>,
           desk' \in [Agents -> DeskType], \A a \in Agents : DeskOK(a)'
    PROVE  SupportInv'
<1>1. /\ slot' = slot /\ ledger' = ledger /\ queue' = queue /\ logged' = logged
      /\ outcome' = outcome /\ sent' = sent /\ unheard' = unheard /\ faults' = faults
  BY DEF inboxVars
<1>2. /\ DOMAIN threads = 1 .. Len(threads) /\ DOMAIN threads' = 1 .. Len(threads')
      /\ Len(threads) \in Nat /\ Len(threads') \in Nat
  BY DEF SupportInv, Shapes, TypeOK, Kept
<1>3. Shapes'
  BY <1>1, RacedType DEF SupportInv, Shapes, TypeOK, Kept
<1>4. \A w \in Slots : SlotOK(w)'
  <2>. TAKE w \in Slots
  <2>1. SlotOK(w) /\ slot[w].thread \in Nat
    BY DEF SupportInv, Shapes, SlotType
  <2>2. slot[w].thread # 0 /\ slot[w].thread <= Len(threads) => slot[w].thread \in DOMAIN threads
    BY <1>2, <2>1
  <2>. QED
    BY <1>1, <1>2, <2>1, <2>2 DEF SlotOK, Kept
<1>5. OneHolder' /\ RepliesPaidFor'
  BY <1>1 DEF SupportInv, OneHolder, RepliesPaidFor, Sending
<1>6. LedgerMatchesLog'
  BY <1>1, <1>2 DEF SupportInv, LedgerMatchesLog, Kept
<1>. QED
  BY <1>3, <1>4, <1>5, <1>6 DEF SupportInv
LEMMA RequestsKept ==
    ASSUME SupportInv, Kept, NEW a \in Agents, desk'[a] = desk[a]
    PROVE  DeskOK(a)'
<1>1. DeskOK(a)
  BY DEF SupportInv
<1>2. /\ DOMAIN threads = 1 .. Len(threads) /\ DOMAIN threads' = 1 .. Len(threads')
      /\ Len(threads) \in Nat /\ Len(threads') \in Nat
  BY DEF SupportInv, Shapes, TypeOK, Kept
<1>. QED
  BY <1>1, <1>2 DEF DeskOK, Kept

LEMMA BeginStep ==
    ASSUME SupportInv, RacedKept, NEW a \in Agents, NEW t \in DOMAIN threads,
           NEW op \in Requests, NEW to \in Agents, Begin(a, t, op, to)
    PROVE  SupportInv'
<1>0. threads \in Seq(Row) /\ desk \in [Agents -> DeskType]
  BY DEF SupportInv, Shapes, TypeOK
<1>1. UNCHANGED << slot, inboxVars, faults >> /\ threads' = threads
  BY DEF Begin
<1>2. Kept
  BY <1>0, <1>1 DEF Kept
<1>. DEFINE req == [op |-> op, to |-> to, thread |-> t, seen |-> threads[t],
                    position |-> NextQueuePosition]
<1>3. NextQueuePosition \in Nat \ {0} /\ threads[t] \in Row /\ t \in Nat
  BY <1>0, QueuePositive
<1>4. /\ req \in DeskType /\ req.thread = t /\ req.to = to /\ req.seen = threads[t]
      /\ req.position \in Nat \ {0}
  BY <1>3 DEF DeskType
<1>5. desk' = [desk EXCEPT ![a] = req]
  BY DEF Begin
<1>. HIDE DEF req
<1>6. desk' \in [Agents -> DeskType] /\ desk'[a] = req
  BY <1>0, <1>4, <1>5
<1>7. DeskOK(a)'
  BY <1>0, <1>1, <1>3, <1>4, <1>6 DEF DeskOK
<1>8. ASSUME NEW b \in Agents, b # a PROVE DeskOK(b)'
  <2>1. desk'[b] = desk[b]
    BY <1>0, <1>5, <1>8
  <2>. QED
    BY <1>2, <2>1, RequestsKept
<1>9. \A b \in Agents : DeskOK(b)'
  BY <1>7, <1>8
<1>. QED
  BY <1>1, <1>2, <1>6, <1>9, ThreadsOnly

\* A request of an agent leaves a row of the same customer.
LEMMA RequestRow ==
    ASSUME NEW cur \in Row, NEW d \in DeskType, d.seen \in Row, d.to \in Agents, NEW delivered
    PROVE  AfterRequest(cur, d, delivered) \in Row /\ AfterRequest(cur, d, delivered).user = cur.user
<1>. DEFINE seen == d.seen
            owned == IF seen.status = "human" /\ seen.agent = d.to THEN seen ELSE Assigned(seen, d.to)
<1>0. d.position \in Nat
  BY DEF DeskType
<1>1. owned \in Row /\ owned.user = seen.user
  BY Operations, <1>0
<1>2. /\ Flush(cur, seen, owned) \in Row /\ Flush(cur, seen, owned).user = cur.user
  BY <1>1, FlushRow
<1>3. /\ Resolved(owned) \in Row /\ Resolved(owned).user = owned.user
  BY <1>0, <1>1, Operations
<1>4. /\ Flush(Flush(cur, seen, owned), owned, Resolved(owned)) \in Row
      /\ Flush(Flush(cur, seen, owned), owned, Resolved(owned)).user = cur.user
  BY <1>1, <1>2, <1>3, FlushRow
<1>5. \A new \in {Assigned(seen, d.to), Unassigned(seen, d.position), Resolved(seen), ReturnedToAI(seen)} :
         Flush(cur, seen, new) \in Row /\ Flush(cur, seen, new).user = cur.user
  <2>. TAKE new \in {Assigned(seen, d.to), Unassigned(seen, d.position), Resolved(seen), ReturnedToAI(seen)}
  <2>1. new \in Row /\ new.user = seen.user
    BY <1>0, Operations
  <2>. QED
    BY <2>1, FlushRow
<1>6. AfterRequest(cur, d, delivered) \in
        {Flush(cur, seen, Assigned(seen, d.to)), Flush(cur, seen, Unassigned(seen, d.position)),
         Flush(cur, seen, Resolved(seen)), Flush(cur, seen, ReturnedToAI(seen)),
         Flush(cur, seen, owned), Flush(Flush(cur, seen, owned), owned, Resolved(owned))}
  BY DEF AfterRequest
<1>. QED
  BY <1>2, <1>4, <1>5, <1>6

LEMMA FinishStep ==
    ASSUME SupportInv, RacedKept, NEW a \in Agents, FinishRequest(a)
    PROVE  SupportInv'
<1>. DEFINE t == desk[a].thread
<1>0. /\ threads \in Seq(Row) /\ desk \in [Agents -> DeskType]
      /\ DeskOK(a) /\ desk[a].op # "none"
  BY DEF SupportInv, Shapes, TypeOK, FinishRequest
<1>1. PICK delivered \in BOOLEAN :
        threads' = [threads EXCEPT ![t] = AfterRequest(threads[t], desk[a], delivered)]
  BY DEF FinishRequest
<1>2. t \in DOMAIN threads /\ desk[a] \in DeskType /\ desk[a].seen \in Row /\ desk[a].to \in Agents
  BY <1>0 DEF DeskOK
<1>. DEFINE row == AfterRequest(threads[t], desk[a], delivered)
<1>3. row \in Row /\ row.user = threads[t].user
  <2>1. threads[t] \in Row
    BY <1>0, <1>2
  <2>. QED
    BY <1>2, <2>1, RequestRow
<1>. HIDE DEF row
<1>4. Kept
  <2>1. threads' = [threads EXCEPT ![t] = row]
    BY <1>1 DEF row
  <2>. QED
    BY <1>0, <1>2, <1>3, <2>1 DEF Kept
<1>5. UNCHANGED << slot, inboxVars, faults >> /\ desk' = [desk EXCEPT ![a] = NoRequest]
  BY DEF FinishRequest
<1>6. NoRequest \in DeskType /\ NoRequest.op = "none"
  <2>1. NoRequest = [op |-> "none", to |-> NoAgent, thread |-> 0, seen |-> Blank, position |-> 0]
    BY DEF NoRequest, Blank
  <2>. QED
    BY <2>1 DEF DeskType
<1>7. desk' \in [Agents -> DeskType] /\ DeskOK(a)'
  BY <1>0, <1>5, <1>6 DEF DeskOK
<1>8. ASSUME NEW b \in Agents, b # a PROVE DeskOK(b)'
  <2>1. desk'[b] = desk[b]
    BY <1>0, <1>5, <1>8
  <2>. QED
    BY <1>4, <2>1, RequestsKept
<1>9. \A b \in Agents : DeskOK(b)'
  BY <1>7, <1>8
<1>. QED
  BY <1>4, <1>5, <1>7, <1>9, ThreadsOnly

LEMMA ClockRow ==
    ASSUME NEW row \in Row
    PROVE  /\ [row EXCEPT !.sla = "past"] \in Row /\ [row EXCEPT !.sla = "past"].user = row.user
           /\ [row EXCEPT !.sla = "none"] \in Row /\ [row EXCEPT !.sla = "none"].user = row.user
           /\ [row EXCEPT !.recent = FALSE] \in Row /\ [row EXCEPT !.recent = FALSE].user = row.user
  BY DEF Row

LEMMA RowKept ==
    ASSUME threads \in Seq(Row), NEW t \in DOMAIN threads,
           NEW row \in Row, row.user = threads[t].user, threads' = [threads EXCEPT ![t] = row]
    PROVE  Kept
  BY DEF Kept

LEMMA ClockStep ==
    ASSUME SupportInv, RacedKept,
           (\E t \in DOMAIN threads : DeadlinePasses(t) \/ ReopenWindowCloses(t)) \/ SlaSweep
    PROVE  SupportInv'
<1>0. threads \in Seq(Row) /\ desk \in [Agents -> DeskType]
  BY DEF SupportInv, Shapes, TypeOK
<1>1. \A t \in DOMAIN threads : threads[t] \in Row
  BY <1>0
<1>2. UNCHANGED << slot, inboxVars, faults >> /\ desk' = desk
  BY DEF DeadlinePasses, ReopenWindowCloses, SlaSweep, deskVars
<1>3. Kept
  <2>1. ASSUME NEW t \in DOMAIN threads, DeadlinePasses(t) PROVE Kept
    <3>1. threads' = [threads EXCEPT ![t] = [threads[t] EXCEPT !.sla = "past"]]
      BY <1>0, <2>1 DEF DeadlinePasses
    <3>. QED
      BY <1>0, <1>1, <3>1, ClockRow, RowKept
  <2>2. ASSUME NEW t \in DOMAIN threads, ReopenWindowCloses(t) PROVE Kept
    <3>1. threads' = [threads EXCEPT ![t] = [threads[t] EXCEPT !.recent = FALSE]]
      BY <1>0, <2>2 DEF ReopenWindowCloses
    <3>. QED
      BY <1>0, <1>1, <3>1, ClockRow, RowKept
  <2>3. CASE SlaSweep
    <3>1. DOMAIN threads = 1 .. Len(threads) /\ Len(threads) \in Nat
      BY <1>0
    <3>2. \A t \in DOMAIN threads : threads'[t] \in Row /\ threads'[t].user = threads[t].user
      <4>. TAKE t \in DOMAIN threads
      <4>1. threads'[t] = threads[t] \/ threads'[t] = [threads[t] EXCEPT !.sla = "none"]
        BY <2>3 DEF SlaSweep
      <4>. QED
        BY <1>1, <4>1, ClockRow
    <3>3. threads' \in [1 .. Len(threads) -> Row]
      <4>1. threads' = [t \in DOMAIN threads |-> threads'[t]]
        BY <2>3 DEF SlaSweep
      <4>. QED
        BY <3>1, <3>2, <4>1
    <3>4. threads' \in Seq(Row) /\ DOMAIN threads' = 1 .. Len(threads)
      BY <3>1, <3>3, SeqDef, Zenon
    <3>5. Len(threads') = Len(threads)
      BY <3>1, <3>4
    <3>. QED
      BY <3>1, <3>2, <3>4, <3>5 DEF Kept
  <2>. QED
    BY <2>1, <2>2, <2>3
<1>4. \A b \in Agents : DeskOK(b)'
  BY <1>2, <1>3, RequestsKept
<1>. QED
  BY <1>0, <1>2, <1>3, <1>4, ThreadsOnly
-----------------------------------------------------------------------------
(* Jobs.                                                                   *)

Counters ==
    /\ ledger \in [Inbound -> {"none", "pending", "processed"}]
    /\ queue \in [Inbound -> Nat]
    /\ logged \in [Inbound -> Nat]
    /\ outcome \in [Inbound -> {"none", "answered", "handed"}]
    /\ sent \in [Inbound -> Nat]
    /\ unheard \in [Inbound -> Nat]
    /\ faults \in Nat

LEMMA JobFrame ==
    ASSUME SupportInv, RacedKept, Kept, desk' = desk, Counters', NEW w \in Slots,
           slot' = [slot EXCEPT ![w] = slot'[w]], slot'[w] \in SlotType, SlotOK(w)',
           \A m \in Inbound : m # slot[w].msg \/ slot[w].pc \notin Held => logged'[m] = logged[m],
           slot'[w].pc \in Held =>
               /\ slot'[w].msg = slot[w].msg
               /\ slot[w].pc \in Held \/ ~ EventHeld(slot[w].msg)
    PROVE  /\ Shapes' /\ (\A v \in Slots : SlotOK(v)') /\ (\A a \in Agents : DeskOK(a)')
           /\ OneHolder'
<1>0. /\ slot \in [Slots -> SlotType] /\ (\A v \in Slots : SlotOK(v)) /\ OneHolder
      /\ threads \in Seq(Row) /\ desk \in [Agents -> DeskType]
  BY DEF SupportInv, Shapes, TypeOK
<1>1. /\ DOMAIN threads = 1 .. Len(threads) /\ DOMAIN threads' = 1 .. Len(threads')
      /\ Len(threads) \in Nat /\ Len(threads') \in Nat
  BY <1>0 DEF Kept
<1>2. \A v \in Slots \ {w} : slot'[v] = slot[v]
  BY <1>0
<1>3. Shapes'
  <2>1. slot' \in [Slots -> SlotType]
    BY <1>0
  <2>. QED
    BY <1>0, <2>1, RacedType DEF Shapes, TypeOK, Kept, Counters, SupportInv
<1>4. ASSUME NEW v \in Slots, v # w PROVE SlotOK(v)'
  <2>1. SlotOK(v) /\ slot'[v] = slot[v] /\ slot[v].thread \in Nat
    BY <1>0, <1>2, <1>4 DEF SlotType
  <2>2. slot[v].pc = "sent" => logged'[slot[v].msg] = 0
    BY <1>0, <1>4, <2>1 DEF SlotOK, OneHolder, Held
  <2>3. slot[v].thread # 0 /\ slot[v].thread <= Len(threads) => slot[v].thread \in DOMAIN threads
    BY <1>1, <2>1
  <2>. QED
    BY <1>1, <2>1, <2>2, <2>3 DEF SlotOK, Kept
<1>5. \A v \in Slots : SlotOK(v)'
  BY <1>4
<1>6. \A a \in Agents : DeskOK(a)'
  BY RequestsKept
<1>7. OneHolder'
  <2>1. \A v \in Slots \ {w} :
          slot'[w].pc \in Held /\ slot'[v].pc \in Held => slot'[v].msg # slot'[w].msg
    BY <1>0, <1>2 DEF OneHolder, EventHeld, Held
  <2>. QED
    BY <1>0, <1>2, <2>1 DEF OneHolder
<1>. QED
  BY <1>3, <1>5, <1>6, <1>7

\* A step of a job that commits nothing and sends nothing.
LEMMA QuietStep ==
    ASSUME SupportInv, RacedKept, NEW w \in Slots,
           UNCHANGED << threads, ledger, logged, outcome, sent, unheard, desk, faults >>,
           queue' \in [Inbound -> Nat],
           slot' = [slot EXCEPT ![w] = slot'[w]], slot'[w] \in SlotType, SlotOK(w)',
           slot[w].pc # "sent", slot'[w].pc # "sent",
           slot'[w].pc \in Held =>
               /\ slot'[w].msg = slot[w].msg
               /\ slot[w].pc \in Held \/ ~ EventHeld(slot[w].msg)
    PROVE  SupportInv'
<1>0. slot \in [Slots -> SlotType] /\ threads \in Seq(Row) /\ Counters
  BY DEF SupportInv, Shapes, TypeOK, Counters
<1>1. Kept /\ Counters'
  BY <1>0 DEF Kept, Counters
<1>2. /\ Shapes' /\ (\A v \in Slots : SlotOK(v)') /\ (\A a \in Agents : DeskOK(a)') /\ OneHolder'
  BY <1>1, JobFrame
<1>3. LedgerMatchesLog'
  BY DEF SupportInv, LedgerMatchesLog
<1>4. \A m \in Inbound : Sending(m)' <=> Sending(m)
  BY <1>0 DEF Sending
<1>5. RepliesPaidFor'
  BY <1>4 DEF SupportInv, RepliesPaidFor
<1>. QED
  BY <1>2, <1>3, <1>5 DEF SupportInv

LEMMA InboxStep ==
    ASSUME SupportInv, RacedKept, NEW m \in Inbound, ReceiveMessage(m) \/ SweepMessage(m)
    PROVE  SupportInv'
<1>0. slot \in [Slots -> SlotType] /\ threads \in Seq(Row) /\ Counters /\ desk \in [Agents -> DeskType]
  BY DEF SupportInv, Shapes, TypeOK, Counters
<1>1. /\ UNCHANGED << threads, slot, logged, outcome, sent, unheard, desk, faults >>
      /\ queue' \in [Inbound -> Nat]
      /\ \/ ledger' = ledger
         \/ ledger[m] = "none" /\ ledger' = [ledger EXCEPT ![m] = "pending"]
  <2>1. CASE ReceiveMessage(m)
    BY <1>0, <2>1 DEF ReceiveMessage, deskVars, Counters
  <2>2. CASE SweepMessage(m)
    BY <1>0, <2>2 DEF SweepMessage, deskVars, Counters
  <2>. QED
    BY <2>1, <2>2
<1>2. /\ Kept /\ Counters'
      /\ \A i \in Inbound : ledger'[i] = "processed" <=> ledger[i] = "processed"
  <2>1. \A i \in Inbound : ledger'[i] = "processed" <=> ledger[i] = "processed"
    <3>1. CASE ledger' = ledger
      BY <3>1
    <3>2. CASE ledger[m] = "none" /\ ledger' = [ledger EXCEPT ![m] = "pending"]
      BY <1>0, <3>2 DEF Counters
    <3>. QED
      BY <1>1, <3>1, <3>2
  <2>2. ledger' \in [Inbound -> {"none", "pending", "processed"}]
    BY <1>0, <1>1 DEF Counters
  <2>. QED
    BY <1>0, <1>1, <2>1, <2>2 DEF Kept, Counters
<1>3. Shapes'
  BY <1>0, <1>1, <1>2, RacedType DEF SupportInv, Shapes, TypeOK, Counters
<1>4. (\A w \in Slots : SlotOK(w)') /\ (\A a \in Agents : DeskOK(a)') /\ OneHolder'
  BY <1>1 DEF SupportInv, SlotOK, DeskOK, OneHolder
<1>5. LedgerMatchesLog'
  BY <1>1, <1>2 DEF SupportInv, LedgerMatchesLog
<1>6. \A i \in Inbound : Sending(i)' <=> Sending(i)
  BY <1>1 DEF Sending
<1>7. RepliesPaidFor'
  BY <1>1, <1>2, <1>6 DEF SupportInv, RepliesPaidFor
<1>. QED
  BY <1>3, <1>4, <1>5, <1>7 DEF SupportInv

LEMMA ClaimStep ==
    ASSUME SupportInv, RacedKept, NEW w \in Slots, NEW m \in Inbound, ClaimMessage(w, m)
    PROVE  SupportInv'
<1>0. slot \in [Slots -> SlotType] /\ queue \in [Inbound -> Nat]
  BY DEF SupportInv, Shapes, TypeOK
<1>. DEFINE new == [Idle EXCEPT !.pc = "claimed", !.msg = m]
<1>1. Idle = [pc |-> "idle", msg |-> NoMessage, thread |-> 0, seen |-> Blank, row |-> Blank]
  BY DEF Idle, Blank
<1>2. new \in SlotType /\ new.pc = "claimed" /\ new.msg = m
  BY <1>1 DEF SlotType
<1>3. /\ slot' = [slot EXCEPT ![w] = new] /\ slot[w].pc = "idle"
      /\ UNCHANGED << threads, ledger, logged, outcome, sent, unheard, desk, faults >>
      /\ queue' = [queue EXCEPT ![m] = queue[m] - 1] /\ queue[m] > 0
  BY DEF ClaimMessage, deskVars
<1>. HIDE DEF new
<1>4. slot'[w] = new /\ queue' \in [Inbound -> Nat]
  BY <1>0, <1>3
<1>5. SlotOK(w)'
  BY <1>2, <1>4 DEF SlotOK, Held
<1>. QED
  BY <1>2, <1>3, <1>4, <1>5, QuietStep DEF Held

LEMMA SkipStep ==
    ASSUME SupportInv, RacedKept, NEW w \in Slots, NEW m \in Inbound, SkipMessage(w, m)
    PROVE  SupportInv'
<1>0. slot \in [Slots -> SlotType] /\ queue \in [Inbound -> Nat]
  BY DEF SupportInv, Shapes, TypeOK
<1>1. /\ slot' = slot /\ slot[w].pc = "idle" /\ logged' = logged /\ threads' = threads
      /\ UNCHANGED << threads, ledger, logged, outcome, sent, unheard, desk, faults >>
      /\ queue' = [queue EXCEPT ![m] = queue[m] - 1] /\ queue[m] > 0
  BY DEF SkipMessage, deskVars
<1>2. /\ slot' = [slot EXCEPT ![w] = slot'[w]] /\ slot'[w] \in SlotType
      /\ queue' \in [Inbound -> Nat] /\ slot'[w].pc = "idle"
  BY <1>0, <1>1
<1>3. SlotOK(w)'
  BY <1>1 DEF SupportInv, SlotOK
<1>. QED
  BY <1>1, <1>2, <1>3, QuietStep DEF Held
LEMMA OpenStep ==
    ASSUME SupportInv, RacedKept, NEW w \in Slots, OpenThread(w)
    PROVE  SupportInv'
<1>. DEFINE m == slot[w].msg
            At(pc, n, seen, row) == [slot[w] EXCEPT !.pc = pc, !.thread = n, !.seen = seen, !.row = row]
<1>0. slot \in [Slots -> SlotType] /\ threads \in Seq(Row) /\ queue \in [Inbound -> Nat]
  BY DEF SupportInv, Shapes, TypeOK
<1>1. /\ slot[w].pc = "claimed" /\ m \in Inbound /\ ~ EventHeld(m)
      /\ UNCHANGED << threads, ledger, queue, logged, outcome, sent, unheard, desk, faults >>
  BY DEF OpenThread, deskVars, inboxVars, SupportInv, SlotOK
<1>. DEFINE Opened(pc, n, seen, row) ==
        /\ slot' = [slot EXCEPT ![w] = At(pc, n, seen, row)]
        /\ seen.user = Sender[m] /\ row.user = Sender[m] /\ n <= Len(threads)
        /\ n # 0 => threads[n].user = Sender[m]
        /\ pc = "read" => n # 0
<1>2. \E pc \in {"read", "locked"}, n \in Nat, seen \in Row, row \in Row : Opened(pc, n, seen, row)
  <2>1. ASSUME NEW t \in Latest(Sender[m])
        PROVE  /\ t \in Nat \ {0} /\ t <= Len(threads) /\ threads[t] \in Row
               /\ threads[t].user = Sender[m]
               /\ Reopened(threads[t]) \in Row /\ Reopened(threads[t]).user = Sender[m]
    <3>1. t \in DOMAIN threads /\ threads[t].user = Sender[m]
      BY DEF Latest
    <3>2. t \in Nat \ {0} /\ t <= Len(threads) /\ threads[t] \in Row
      BY <1>0, <3>1
    <3>3. Reopened(threads[t]) \in Row /\ Reopened(threads[t]).user = threads[t].user
      BY <3>2 DEF Row, ConversationStatus, Reopened
    <3>. QED
      BY <3>1, <3>2, <3>3
  <2>2. ASSUME NEW t \in Latest(Sender[m]),
               slot' = [slot EXCEPT ![w] = At("read", t, threads[t], threads[t])]
        PROVE  Opened("read", t, threads[t], threads[t])
    BY <2>1, <2>2
  <2>3. ASSUME NEW t \in Latest(Sender[m]),
               slot' = [slot EXCEPT ![w] = At("locked", t, threads[t], Reopened(threads[t]))]
        PROVE  Opened("locked", t, threads[t], Reopened(threads[t]))
    BY <2>1, <2>3
  <2>4. ASSUME slot' = [slot EXCEPT ![w] = At("locked", 0, NewRow(Sender[m]), NewRow(Sender[m]))]
        PROVE  Opened("locked", 0, NewRow(Sender[m]), NewRow(Sender[m]))
    <3>1. NewRow(Sender[m]) \in Row /\ NewRow(Sender[m]).user = Sender[m] /\ 0 <= Len(threads)
      BY <1>0, <1>1, NewRowType, MessagesAssumption
    <3>. QED
      BY <2>4, <3>1
  <2>5. \A t \in Latest(Sender[m]) :
          t \in Nat /\ threads[t] \in Row /\ Reopened(threads[t]) \in Row
    BY <2>1
  <2>6. NewRow(Sender[m]) \in Row
    BY <1>1, NewRowType, MessagesAssumption
  <2>7. \/ \E t \in Latest(Sender[m]) :
             \/ slot' = [slot EXCEPT ![w] = At("read", t, threads[t], threads[t])]
             \/ slot' = [slot EXCEPT ![w] = At("locked", t, threads[t], Reopened(threads[t]))]
        \/ slot' = [slot EXCEPT ![w] = At("locked", 0, NewRow(Sender[m]), NewRow(Sender[m]))]
    BY DEF OpenThread
  <2>. HIDE DEF Opened, At
  <2>. QED
    BY <2>2, <2>3, <2>4, <2>5, <2>6, <2>7
<1>3. PICK pc \in {"read", "locked"}, n \in Nat, seen \in Row, row \in Row : Opened(pc, n, seen, row)
  BY <1>2
<1>. DEFINE new == At(pc, n, seen, row)
<1>4. /\ new \in SlotType /\ new.pc = pc /\ new.msg = m /\ new.thread = n /\ new.seen = seen
      /\ new.row = row
  <2>1. slot[w] \in SlotType
    BY <1>0
  <2>. QED
    BY <2>1 DEF SlotType, Held
<1>5. slot' = [slot EXCEPT ![w] = new]
  BY <1>3
<1>. HIDE DEF new
<1>6. slot'[w] = new
  BY <1>0, <1>5
<1>7. SlotOK(w)'
  BY <1>1, <1>3, <1>4, <1>6 DEF SlotOK, Held
<1>. QED
  BY <1>0, <1>1, <1>4, <1>5, <1>6, <1>7, QuietStep DEF Held

LEMMA LockStep ==
    ASSUME SupportInv, RacedKept, NEW w \in Slots, LockThread(w)
    PROVE  SupportInv'
<1>0. slot \in [Slots -> SlotType] /\ queue \in [Inbound -> Nat] /\ SlotOK(w)
  BY DEF SupportInv, Shapes, TypeOK
<1>. DEFINE new == [slot[w] EXCEPT !.pc = "locked"]
<1>1. /\ slot[w].pc = "read" /\ slot' = [slot EXCEPT ![w] = new]
      /\ UNCHANGED << threads, ledger, queue, logged, outcome, sent, unheard, desk, faults >>
  BY <1>0 DEF LockThread, deskVars, inboxVars
<1>2. /\ new \in SlotType /\ new.pc = "locked" /\ new.msg = slot[w].msg
      /\ new.thread = slot[w].thread /\ new.seen = slot[w].seen /\ new.row = slot[w].row
  <2>1. slot[w] \in SlotType
    BY <1>0
  <2>. QED
    BY <2>1 DEF SlotType, Held
<1>. HIDE DEF new
<1>3. slot'[w] = new
  BY <1>0, <1>1
<1>4. SlotOK(w)'
  BY <1>0, <1>1, <1>2, <1>3 DEF SlotOK, Held
<1>. QED
  BY <1>0, <1>1, <1>2, <1>3, <1>4, QuietStep DEF Held

LEMMA AbortStep ==
    ASSUME SupportInv, RacedKept, NEW w \in Slots, AbortJob(w)
    PROVE  SupportInv'
<1>0. /\ slot \in [Slots -> SlotType] /\ threads \in Seq(Row) /\ Counters
      /\ RepliesPaidFor /\ OneHolder
  BY DEF SupportInv, Shapes, TypeOK, Counters
<1>1. /\ slot' = [slot EXCEPT ![w] = Idle] /\ faults' = faults + 1
      /\ UNCHANGED << threads, ledger, queue, logged, outcome, sent, unheard, desk >>
  BY DEF AbortJob, deskVars, inboxVars
<1>2. Idle \in SlotType /\ Idle.pc = "idle"
  <2>1. Idle = [pc |-> "idle", msg |-> NoMessage, thread |-> 0, seen |-> Blank, row |-> Blank]
    BY DEF Idle, Blank
  <2>. QED
    BY <2>1 DEF SlotType
<1>3. slot'[w] = Idle
  BY <1>0, <1>1
<1>4. SlotOK(w)'
  BY <1>2, <1>3 DEF SlotOK, Held
<1>5. Kept /\ Counters'
  BY <1>0, <1>1 DEF Kept, Counters
<1>6. /\ Shapes' /\ (\A v \in Slots : SlotOK(v)') /\ (\A a \in Agents : DeskOK(a)') /\ OneHolder'
  BY <1>1, <1>2, <1>3, <1>4, <1>5, JobFrame DEF Held
<1>7. LedgerMatchesLog'
  BY <1>1 DEF SupportInv, LedgerMatchesLog
<1>8. RepliesPaidFor'
  BY <1>0, <1>1 DEF RepliesPaidFor, Counters
<1>. QED
  BY <1>6, <1>7, <1>8 DEF SupportInv

\* Replies are sent: each after the first has cost an answer of WhatsApp.
LEMMA SendStep ==
    ASSUME SupportInv, RacedKept, NEW w \in Slots, NEW replies \in {1, 2}, Send(w, replies),
           unheard' \in [Inbound -> Nat],
           \A i \in Inbound : i # slot[w].msg => unheard'[i] = unheard[i],
           unheard'[slot[w].msg] = unheard[slot[w].msg] + (replies - 1)
    PROVE  SupportInv'
<1>. DEFINE m == slot[w].msg
<1>0. /\ slot \in [Slots -> SlotType] /\ threads \in Seq(Row) /\ Counters
      /\ RepliesPaidFor /\ OneHolder /\ LedgerMatchesLog /\ SlotOK(w)
  BY DEF SupportInv, Shapes, TypeOK, Counters
<1>1. /\ slot[w].pc = "locked" /\ m \in Inbound /\ slot[w].row \in Row /\ slot[w] \in SlotType
      /\ logged[m] = 0 /\ logged[m] \in Nat /\ sent[m] \in Nat
      /\ sent' = [sent EXCEPT ![m] = sent[m] + replies]
      /\ UNCHANGED << threads, ledger, queue, logged, outcome, desk, faults >>
  BY <1>0 DEF Send, KnownMessage, deskVars, SlotOK, Held, Counters
<1>2. PICK row \in Row :
        /\ row.user = slot[w].row.user
        /\ slot' = [slot EXCEPT ![w] = [slot[w] EXCEPT !.pc = "sent", !.row = row]]
  <2>1. /\ Escalated(slot[w].row, NextQueuePosition) \in Row
        /\ Escalated(slot[w].row, NextQueuePosition).user = slot[w].row.user
    <3>1. NextQueuePosition \in Nat
      BY <1>0, QueuePositive
    <3>. QED
      BY <1>1, <3>1 DEF Row, ConversationStatus, Escalated
  <2>2. PICK escalate \in BOOLEAN :
          slot' = [slot EXCEPT ![w].pc = "sent",
                      ![w].row = IF escalate THEN Escalated(@, NextQueuePosition) ELSE @]
    BY DEF Send
  <2>. DEFINE r == IF escalate THEN Escalated(slot[w].row, NextQueuePosition) ELSE slot[w].row
  <2>3. r \in Row /\ r.user = slot[w].row.user
    BY <1>1, <2>1
  <2>4. slot' = [slot EXCEPT ![w] = [slot[w] EXCEPT !.pc = "sent", !.row = r]]
    BY <1>0, <1>1, <2>2 DEF SlotType
  <2>. QED
    BY <2>3, <2>4
<1>. DEFINE new == [slot[w] EXCEPT !.pc = "sent", !.row = row]
<1>3. /\ new \in SlotType /\ new.pc = "sent" /\ new.msg = m
      /\ new.thread = slot[w].thread /\ new.seen = slot[w].seen /\ new.row = row
  BY <1>1 DEF SlotType, Held
<1>4. slot' = [slot EXCEPT ![w] = new]
  BY <1>2
<1>. HIDE DEF new
<1>5. slot'[w] = new
  BY <1>0, <1>4
<1>6. SlotOK(w)'
  BY <1>0, <1>1, <1>2, <1>3, <1>5 DEF SlotOK, Held
<1>7. Kept /\ Counters'
  BY <1>0, <1>1 DEF Kept, Counters
<1>8. /\ Shapes' /\ (\A v \in Slots : SlotOK(v)') /\ (\A a \in Agents : DeskOK(a)') /\ OneHolder'
  BY <1>1, <1>3, <1>4, <1>5, <1>6, <1>7, JobFrame DEF Held
<1>9. LedgerMatchesLog'
  BY <1>1 DEF SupportInv, LedgerMatchesLog
<1>10. RepliesPaidFor'
  <2>1. ~ Sending(m) /\ ledger[m] # "processed"
    BY <1>0, <1>1 DEF Sending, OneHolder, Held, LedgerMatchesLog
  <2>2. sent[m] <= faults + unheard[m]
    BY <1>0, <1>1, <2>1 DEF RepliesPaidFor
  <2>3. \A i \in Inbound : i = m => Sending(i)'
    BY <1>3, <1>5 DEF Sending
  <2>4. ASSUME NEW i \in Inbound, i # m
        PROVE  sent'[i] = sent[i] /\ (Sending(i)' <=> Sending(i))
    BY <1>0, <1>1, <1>3, <1>4, <1>5, <2>4 DEF Sending, Counters
  <2>5. sent'[m] = sent[m] + replies /\ sent'[m] <= 1 + faults + unheard'[m]
    <3>1. unheard[m] \in Nat /\ faults \in Nat /\ replies \in Nat
      BY <1>0, <1>1 DEF Counters
    <3>. QED
      BY <1>0, <1>1, <2>2, <3>1 DEF Counters
  <2>6. ASSUME NEW i \in Inbound
        PROVE  /\ sent'[i] <= 1 + faults' + unheard'[i]
               /\ ledger'[i] # "processed" /\ ~ Sending(i)' => sent'[i] <= faults' + unheard'[i]
    <3>1. CASE i = m
      <4>1. Sending(i)' /\ sent'[i] <= 1 + faults + unheard'[i]
        BY <2>3, <2>5, <3>1
      <4>. QED
        BY <1>1, <4>1
    <3>2. CASE i # m
      <4>1. /\ sent[i] <= 1 + faults + unheard[i]
            /\ ledger[i] # "processed" /\ ~ Sending(i) => sent[i] <= faults + unheard[i]
        BY <1>0 DEF RepliesPaidFor
      <4>2. sent'[i] = sent[i] /\ (Sending(i)' <=> Sending(i)) /\ ledger' = ledger /\ faults' = faults
            /\ unheard'[i] = unheard[i]
        BY <1>1, <2>4, <3>2
      <4>. QED
        BY <4>1, <4>2
    <3>. QED
      BY <3>1, <3>2
  <2>. QED
    BY <2>6 DEF RepliesPaidFor
<1>. QED
  BY <1>8, <1>9, <1>10 DEF SupportInv

LEMMA ReplyStep ==
    ASSUME SupportInv, RacedKept, NEW w \in Slots, Reply(w) \/ ReplyAgain(w)
    PROVE  SupportInv'
<1>0. unheard \in [Inbound -> Nat] /\ SlotOK(w)
  BY DEF SupportInv, Shapes, TypeOK
<1>1. CASE Reply(w)
  <2>1. Send(w, 1) /\ unheard' = unheard /\ slot[w].msg \in Inbound
    BY <1>0, <1>1 DEF Reply, Send, SlotOK
  <2>. QED
    BY <1>0, <2>1, SendStep
<1>2. CASE ReplyAgain(w)
  <2>1. /\ Send(w, 2) /\ slot[w].msg \in Inbound
        /\ unheard' = [unheard EXCEPT ![slot[w].msg] = unheard[slot[w].msg] + 1]
    BY <1>0, <1>2 DEF ReplyAgain, Send, SlotOK
  <2>. QED
    BY <1>0, <2>1, SendStep
<1>. QED
  BY <1>1, <1>2

\* The commit of a job: what its session holds is a row of the sender.
LEMMA CommitKeeps ==
    ASSUME SupportInv, NEW w \in Slots, slot[w].pc \in Held, CommitThread(w)
    PROVE  /\ Kept
           /\ CommittedAs(w) \in DOMAIN threads' /\ CommittedAs(w) \in Nat \ {0}
           /\ threads'[CommittedAs(w)].user = Sender[slot[w].msg]
<1>0. /\ slot \in [Slots -> SlotType] /\ threads \in Seq(Row) /\ SlotOK(w)
      /\ slot[w].thread \in Nat /\ Len(threads) \in Nat
  BY DEF SupportInv, Shapes, TypeOK, SlotType
<1>1. slot[w].row \in Row /\ slot[w].seen \in Row /\ slot[w].row.user = slot[w].seen.user
      /\ slot[w].row.user = Sender[slot[w].msg]
  BY <1>0 DEF SlotOK
<1>2. CASE slot[w].thread = 0
  <2>1. threads' = Append(threads, slot[w].row) /\ CommittedAs(w) = Len(threads) + 1
    BY <1>2 DEF CommitThread, CommittedAs
  <2>. QED
    BY <1>0, <1>1, <2>1 DEF Kept
<1>3. CASE slot[w].thread # 0
  <2>. DEFINE t == slot[w].thread
              row == Flush(threads[t], slot[w].seen, slot[w].row)
  <2>1. t \in DOMAIN threads /\ t \in Nat \ {0} /\ threads[t] \in Row
        /\ threads[t].user = Sender[slot[w].msg]
    BY <1>0, <1>3 DEF SlotOK
  <2>2. row \in Row /\ row.user = threads[t].user
    BY <1>1, <2>1, FlushRow
  <2>3. threads' = [threads EXCEPT ![t] = row] /\ CommittedAs(w) = t
    BY <1>3 DEF CommitThread, CommittedAs
  <2>. HIDE DEF row, t
  <2>4. Kept
    BY <1>0, <2>1, <2>2, <2>3, RowKept
  <2>5. DOMAIN threads' = DOMAIN threads /\ threads'[t] = row
    BY <1>0, <2>1, <2>2, <2>3
  <2>. QED
    BY <2>1, <2>2, <2>3, <2>4, <2>5
<1>. QED
  BY <1>2, <1>3

\* A job ends: its message, logged already or logged now, is done with.
LEMMA EndStep ==
    ASSUME SupportInv, RacedKept, NEW w \in Slots, slot[w].pc \in {"locked", "sent"}, EndJob(w),
           UNCHANGED << queue, sent, unheard, desk, faults >>,
           \/ KnownMessage(slot[w].msg) /\ UNCHANGED << logged, outcome >> /\ slot[w].pc = "locked"
           \/ /\ logged' = [logged EXCEPT ![slot[w].msg] = CommittedAs(w)]
              /\ \E done \in {"answered", "handed"} : outcome' = [outcome EXCEPT ![slot[w].msg] = done]
    PROVE  SupportInv'
<1>. DEFINE m == slot[w].msg
<1>0. /\ slot \in [Slots -> SlotType] /\ threads \in Seq(Row) /\ Counters
      /\ RepliesPaidFor /\ OneHolder /\ LedgerMatchesLog /\ SlotOK(w) /\ m \in Inbound
      /\ slot[w].pc \in Held /\ slot[w].pc # "idle"
  BY DEF SupportInv, Shapes, TypeOK, Counters, SlotOK, Held
<1>1. /\ Kept /\ CommittedAs(w) \in DOMAIN threads' /\ CommittedAs(w) \in Nat \ {0}
      /\ threads'[CommittedAs(w)].user = Sender[m]
  BY <1>0, CommitKeeps DEF EndJob
<1>2. /\ ledger' = [ledger EXCEPT ![m] = "processed"] /\ slot' = [slot EXCEPT ![w] = Idle]
  BY DEF EndJob
<1>3. Idle \in SlotType /\ Idle.pc = "idle"
  <2>1. Idle = [pc |-> "idle", msg |-> NoMessage, thread |-> 0, seen |-> Blank, row |-> Blank]
    BY DEF Idle, Blank
  <2>. QED
    BY <2>1 DEF SlotType
<1>4. slot'[w] = Idle
  BY <1>0, <1>2
<1>5. SlotOK(w)'
  BY <1>3, <1>4 DEF SlotOK, Held
<1>6. Counters' /\ \A i \in Inbound \ {m} :
        logged'[i] = logged[i] /\ outcome'[i] = outcome[i] /\ ledger'[i] = ledger[i]
  BY <1>0, <1>1, <1>2 DEF Counters
<1>7. /\ Shapes' /\ (\A v \in Slots : SlotOK(v)') /\ (\A a \in Agents : DeskOK(a)') /\ OneHolder'
  BY <1>0, <1>1, <1>2, <1>3, <1>4, <1>5, <1>6, JobFrame DEF Held
<1>8. LedgerMatchesLog'
  <2>0. /\ DOMAIN threads = 1 .. Len(threads) /\ DOMAIN threads' = 1 .. Len(threads')
        /\ Len(threads) \in Nat /\ Len(threads') \in Nat
    BY <1>0, <1>1 DEF Kept
  <2>1. ASSUME NEW i \in Inbound, i # m
        PROVE  /\ ledger'[i] = "processed" <=> logged'[i] # 0
               /\ ledger'[i] = "processed" <=> outcome'[i] # "none"
               /\ logged'[i] # 0 =>
                    logged'[i] \in DOMAIN threads' /\ threads'[logged'[i]].user = Sender[i]
    BY <1>0, <1>1, <1>6, <2>0, <2>1 DEF LedgerMatchesLog, Kept
  <2>2. ledger'[m] = "processed"
    BY <1>0, <1>2 DEF Counters
  <2>3. /\ logged'[m] # 0 /\ outcome'[m] # "none"
        /\ logged'[m] \in DOMAIN threads' /\ threads'[logged'[m]].user = Sender[m]
    <3>1. CASE KnownMessage(m) /\ UNCHANGED << logged, outcome >>
      BY <1>0, <1>1, <2>0, <3>1 DEF LedgerMatchesLog, Kept, KnownMessage
    <3>2. CASE /\ logged' = [logged EXCEPT ![m] = CommittedAs(w)]
               /\ \E done \in {"answered", "handed"} : outcome' = [outcome EXCEPT ![m] = done]
      BY <1>0, <1>1, <3>2 DEF Counters
    <3>. QED
      BY <3>1, <3>2
  <2>. QED
    BY <2>1, <2>2, <2>3 DEF LedgerMatchesLog
<1>9. RepliesPaidFor'
  <2>1. ledger'[m] = "processed"
    BY <1>0, <1>2 DEF Counters
  <2>2. \A i \in Inbound \ {m} : Sending(i) => Sending(i)'
    BY <1>0, <1>2 DEF Sending
  <2>. QED
    BY <1>0, <1>6, <2>1, <2>2 DEF RepliesPaidFor
<1>. QED
  BY <1>7, <1>8, <1>9 DEF SupportInv

LEMMA SupportStep == SupportInv /\ [Next]_vars => SupportInv'
<1>. SUFFICES ASSUME SupportInv, [Next]_vars PROVE SupportInv'
  OBVIOUS
<1>0. CASE UNCHANGED vars
  BY <1>0 DEF vars, SupportInv, Shapes, TypeOK, SlotOK, DeskOK, OneHolder, LedgerMatchesLog,
      RepliesPaidFor, Sending
<1>. SUFFICES ASSUME Next PROVE SupportInv'
  BY <1>0
<1>1. RacedKept
  BY DEF Next, RacedKept
<1>2. ASSUME NEW m \in Inbound, ReceiveMessage(m) \/ SweepMessage(m) PROVE SupportInv'
  BY <1>1, <1>2, InboxStep
<1>3. ASSUME NEW w \in Slots, JobStep(w) PROVE SupportInv'
  <2>1. CASE DuplicateMessage(w)
    BY <1>1, <2>1, EndStep DEF DuplicateMessage, deskVars
  <2>2. CASE HandOver(w)
    BY <1>1, <2>2, EndStep DEF HandOver, deskVars
  <2>3. CASE CommitReply(w)
    BY <1>1, <2>3, EndStep DEF CommitReply, deskVars
  <2>. QED
    BY <1>1, <1>3, <2>1, <2>2, <2>3, ClaimStep, SkipStep, OpenStep, LockStep, ReplyStep DEF JobStep
<1>4. ASSUME NEW w \in Slots, AbortJob(w) PROVE SupportInv'
  BY <1>1, <1>4, AbortStep
<1>5. ASSUME NEW a \in Agents, AgentStep(a) PROVE SupportInv'
  <2>1. ASSUME NEW t \in DOMAIN threads,
               \/ BeginAssign(a, t) \/ BeginUnassign(a, t) \/ BeginReply(a, t)
               \/ BeginResolve(a, t) \/ BeginReturnToAI(a, t)
        PROVE  \E op \in Requests, to \in Agents : Begin(a, t, op, to)
    BY <2>1 DEF BeginAssign, BeginUnassign, BeginReply, BeginResolve, BeginReturnToAI, Requests
  <2>. QED
    BY <1>1, <1>5, <2>1, BeginStep, FinishStep DEF AgentStep
<1>6. CASE (\E t \in DOMAIN threads : DeadlinePasses(t) \/ ReopenWindowCloses(t)) \/ SlaSweep
  BY <1>1, <1>6, ClockStep
<1>. QED
  BY <1>2, <1>3, <1>4, <1>5, <1>6 DEF Next, Step
LEMMA SupportInit == Init => SupportInv
<1>. SUFFICES ASSUME Init PROVE SupportInv
  OBVIOUS
<1>1. \A u \in Users : Settled(u) \subseteq Row
  <2>. TAKE u \in Users
  <2>. DEFINE new == NewRow(u)
              done == {Resolved(new)} \cup {Resolved(Assigned(new, a)) : a \in Agents}
  <2>1. new \in Row
    BY NewRowType
  <2>2. \A r \in Row : Resolved(r) \in Row /\ [r EXCEPT !.recent = FALSE] \in Row
    BY DEF Row, Resolved, ConversationStatus
  <2>3. \A a \in Agents : Assigned(new, a) \in Row
    BY <2>1, Operations
  <2>4. Escalated(new, 1) \in Row
    BY <2>1 DEF Row, Escalated, ConversationStatus
  <2>5. done \subseteq Row
    BY <2>1, <2>2, <2>3
  <2>6. Settled(u) = {new, Escalated(new, 1)} \cup done \cup {[r EXCEPT !.recent = FALSE] : r \in done}
    BY DEF Settled
  <2>. HIDE DEF new, done
  <2>. QED
    BY <2>1, <2>2, <2>4, <2>5, <2>6
<1>2. threads \in Seq(Row)
  <2>1. << >> \in Seq(Row) /\ \A r \in Row : << r >> \in Seq(Row)
    OBVIOUS
  <2>2. threads = << >> \/ \E r \in Row : threads = << r >>
    BY <1>1 DEF Init
  <2>. QED
    BY <2>1, <2>2
<1>3. Idle \in SlotType /\ Idle.pc = "idle" /\ NoRequest \in DeskType /\ NoRequest.op = "none"
  <2>1. /\ Idle = [pc |-> "idle", msg |-> NoMessage, thread |-> 0, seen |-> Blank, row |-> Blank]
        /\ NoRequest = [op |-> "none", to |-> NoAgent, thread |-> 0, seen |-> Blank, position |-> 0]
    BY DEF Idle, NoRequest, Blank
  <2>. QED
    BY <2>1 DEF SlotType, DeskType
<1>4. Shapes
  BY <1>2, <1>3 DEF Init, Shapes, TypeOK
<1>5. (\A w \in Slots : SlotOK(w)) /\ OneHolder /\ \A a \in Agents : DeskOK(a)
  BY <1>3 DEF Init, SlotOK, OneHolder, DeskOK, Held
<1>6. LedgerMatchesLog /\ RepliesPaidFor
  BY DEF Init, LedgerMatchesLog, RepliesPaidFor
<1>. QED
  BY <1>4, <1>5, <1>6 DEF SupportInv

\* The invariant the next theorems rest on: shapes, the ledger and the replies' price.
THEOREM SupportInvariant == Spec => []SupportInv
  BY SupportInit, SupportStep, PTL DEF Spec

\* The rows of threads, the ledger and the queue of jobs are what their code takes
\* them for, for any number of customers, agents, jobs and threads.
THEOREM TypeCorrect == Spec => []TypeOK
<1>1. SupportInv => TypeOK
  BY DEF SupportInv, Shapes
<1>. QED
  BY <1>1, SupportInvariant, PTL

\* record_inbound and _mark_processed: whatever jobs, agents and the clock do at the
\* same time, a message is in its sender's thread exactly when its event is processed.
THEOREM MessagesDealtWith == Spec => []LedgerMatchesLog
<1>1. SupportInv => LedgerMatchesLog
  BY DEF SupportInv
<1>. QED
  BY <1>1, SupportInvariant, PTL

\* A customer gets no more replies to a message than one and the jobs that were cut
\* off, however often the message is delivered or swept.
THEOREM RepliedOnce == Spec => []AnsweredOnce
<1>1. SupportInv => AnsweredOnce
  BY DEF SupportInv, Shapes, RepliesPaidFor, AnsweredOnce
<1>. QED
  BY <1>1, SupportInvariant, PTL

-----------------------------------------------------------------------------
(* The columns of a thread.                                                *)

Agree(r) ==
    /\ r.status = "queued" <=> r.position # 0
    /\ r.status = "human" => r.agent # NoAgent
    /\ r.status = "resolved" => r.sla = "none"

\* now is what may have become of old while only time went by.
Fresh(now, old) ==
    /\ now.status = old.status /\ now.agent = old.agent /\ now.position = old.position
    /\ old.sla = "none" => now.sla = "none"

LEMMA FlushAgrees ==
    ASSUME NEW cur \in Row, NEW seen \in Row, NEW new \in Row, Fresh(cur, seen), Agree(new)
    PROVE  /\ Agree(Flush(cur, seen, new))
           /\ new.sla = seen.sla => Fresh(Flush(cur, seen, new), new)
  BY FlushFields DEF Fresh, Agree

LEMMA OperationsAgree ==
    ASSUME NEW row \in Row, NEW p \in Nat \ {0}, NEW a \in Agents
    PROVE  /\ Agree(Escalated(row, p))
           /\ Agree(Assigned(row, a)) /\ Assigned(row, a).sla = row.sla
           /\ Agree(Unassigned(row, p))
           /\ Agree(Resolved(row)) /\ Agree(ReturnedToAI(row))
           /\ Agree(row) /\ row.status = "resolved" => Agree(Reopened(row))
  BY PeopleAssumption
     DEF Row, Agree, Escalated, Assigned, Unassigned, Resolved, ReturnedToAI, Reopened

LEMMA RequestAgrees ==
    ASSUME NEW cur \in Row, NEW d \in DeskType, d.seen \in Row, d.to \in Agents, d.position # 0,
           NEW delivered, Agree(cur), Fresh(cur, d.seen)
    PROVE  Agree(AfterRequest(cur, d, delivered))
<1>. DEFINE seen == d.seen
            owned == IF seen.status = "human" /\ seen.agent = d.to THEN seen ELSE Assigned(seen, d.to)
<1>0. d.position \in Nat \ {0}
  BY DEF DeskType
<1>1. owned \in Row /\ owned.sla = seen.sla /\ owned.user = seen.user
  BY Operations, OperationsAgree, <1>0
<1>2. Agree(owned)
  <2>1. seen.status = "human" => Agree(seen)
    BY DEF Agree, Fresh
  <2>. QED
    BY <1>0, <2>1, OperationsAgree
<1>3. /\ Flush(cur, seen, owned) \in Row /\ Agree(Flush(cur, seen, owned))
      /\ Fresh(Flush(cur, seen, owned), owned)
  BY <1>1, <1>2, FlushRow, FlushAgrees
<1>4. Resolved(owned) \in Row /\ Agree(Resolved(owned))
  BY <1>0, <1>1, Operations, OperationsAgree
<1>5. Agree(Flush(Flush(cur, seen, owned), owned, Resolved(owned)))
  BY <1>1, <1>3, <1>4, FlushAgrees
<1>6. \A new \in {Assigned(seen, d.to), Unassigned(seen, d.position), Resolved(seen), ReturnedToAI(seen)} :
         Agree(Flush(cur, seen, new))
  <2>. TAKE new \in {Assigned(seen, d.to), Unassigned(seen, d.position), Resolved(seen), ReturnedToAI(seen)}
  <2>1. new \in Row /\ Agree(new)
    BY <1>0, Operations, OperationsAgree
  <2>. QED
    BY <2>1, FlushAgrees
<1>7. AfterRequest(cur, d, delivered) \in
        {Flush(cur, seen, Assigned(seen, d.to)), Flush(cur, seen, Unassigned(seen, d.position)),
         Flush(cur, seen, Resolved(seen)), Flush(cur, seen, ReturnedToAI(seen)),
         Flush(cur, seen, owned), Flush(Flush(cur, seen, owned), owned, Resolved(owned))}
  BY DEF AfterRequest
<1>. QED
  BY <1>3, <1>5, <1>6, <1>7
\* The strengthening: whoever works alone on a thread has seen it as it still
\* is, and what a job is about to write tells one story.
JobColumns(w) ==
    /\ slot[w].pc \notin Held => slot[w].thread = 0
    /\ slot[w].pc \in Held /\ slot[w].thread \notin raced =>
         /\ Agree(slot[w].row)
         /\ slot[w].thread # 0 => Fresh(threads[slot[w].thread], slot[w].seen)

RequestColumns(a) ==
    desk[a].op # "none" /\ desk[a].thread \notin raced =>
        Fresh(threads[desk[a].thread], desk[a].seen)

ColumnInv ==
    /\ SupportInv
    /\ \A t \in DOMAIN threads \ raced : Agree(threads[t]) /\ t \notin Overlapping
    /\ \A w \in Slots : JobColumns(w)
    /\ \A a \in Agents : RequestColumns(a)

\* Who else works on a thread that is not raced: nobody.
LEMMA AloneJob ==
    ASSUME ColumnInv, NEW w \in Slots, slot[w].pc # "idle",
           slot[w].thread \in DOMAIN threads \ raced
    PROVE  /\ \A v \in Slots : v # w /\ slot[v].pc # "idle" => slot[v].thread # slot[w].thread
           /\ \A a \in Agents : desk[a].op # "none" => desk[a].thread # slot[w].thread
  BY DEF ColumnInv, Overlapping, Working, Handling

LEMMA AloneRequest ==
    ASSUME ColumnInv, NEW a \in Agents, desk[a].op # "none",
           desk[a].thread \in DOMAIN threads \ raced
    PROVE  /\ \A w \in Slots : slot[w].pc # "idle" => slot[w].thread # desk[a].thread
           /\ \A b \in Agents : b # a /\ desk[b].op # "none" => desk[b].thread # desk[a].thread
  BY DEF ColumnInv, Overlapping, Working, Handling

LEMMA Monotone ==
    ASSUME ColumnInv, RacedKept
    PROVE  /\ raced \subseteq raced' /\ 0 \notin raced
           /\ \A t \in DOMAIN threads' \ raced' : t \notin Overlapping'
           /\ DOMAIN threads = 1 .. Len(threads) /\ Len(threads) \in Nat
           /\ slot \in [Slots -> SlotType] /\ desk \in [Agents -> DeskType] /\ threads \in Seq(Row)
  BY DEF ColumnInv, SupportInv, Shapes, TypeOK, RacedKept

\* Steps that change no thread: a job or a request may begin, go on or end.
LEMMA ThreadsStand ==
    ASSUME ColumnInv, SupportInv', RacedKept, threads' = threads,
           \A w \in Slots : slot'[w] = slot[w] \/ JobColumns(w)',
           \A a \in Agents : desk'[a] = desk[a] \/ RequestColumns(a)'
    PROVE  ColumnInv'
<1>1. \A t \in DOMAIN threads' \ raced' : Agree(threads'[t]) /\ t \notin Overlapping'
  BY Monotone DEF ColumnInv
<1>2. \A w \in Slots : JobColumns(w)'
  BY Monotone DEF ColumnInv, JobColumns
<1>3. \A a \in Agents : RequestColumns(a)'
  BY Monotone DEF ColumnInv, RequestColumns
<1>. QED
  BY <1>1, <1>2, <1>3 DEF ColumnInv

\* Time passes for the threads.
LEMMA TimeGoesBy ==
    ASSUME ColumnInv, SupportInv', RacedKept, slot' = slot, desk' = desk,
           DOMAIN threads' = DOMAIN threads,
           \A t \in DOMAIN threads \ raced : Fresh(threads'[t], threads[t])
    PROVE  ColumnInv'
<1>0. \A t \in DOMAIN threads \ raced' : t \notin raced /\ Fresh(threads'[t], threads[t])
  BY Monotone
<1>1. \A t \in DOMAIN threads' \ raced' : Agree(threads'[t]) /\ t \notin Overlapping'
  BY <1>0, Monotone DEF ColumnInv, Agree, Fresh
<1>2. \A w \in Slots : JobColumns(w)'
  <2>. TAKE w \in Slots
  <2>1. slot[w].pc \in Held /\ slot[w].thread # 0 => slot[w].thread \in DOMAIN threads
    <3>1. slot[w].thread \in Nat /\ SlotOK(w)
      BY Monotone DEF SlotType, ColumnInv, SupportInv
    <3>. QED
      BY <3>1, Monotone DEF SlotOK
  <2>2. JobColumns(w) /\ raced \subseteq raced'
    BY Monotone DEF ColumnInv
  <2>. QED
    BY <1>0, <2>1, <2>2 DEF JobColumns, Fresh
<1>3. \A a \in Agents : RequestColumns(a)'
  <2>. TAKE a \in Agents
  <2>1. RequestColumns(a) /\ DeskOK(a) /\ raced \subseteq raced'
    BY Monotone DEF ColumnInv, SupportInv
  <2>. QED
    BY <1>0, <2>1 DEF RequestColumns, DeskOK, Fresh
<1>. QED
  BY <1>1, <1>2, <1>3 DEF ColumnInv

\* Somebody who worked on thread t writes it and is done; nobody else changes.
LEMMA OneWrites ==
    ASSUME ColumnInv, SupportInv', RacedKept, NEW t \in Nat \ {0},
           DOMAIN threads' = DOMAIN threads \cup {t},
           \A s \in DOMAIN threads \ {t} : threads'[s] = threads[s],
           t \notin raced => Agree(threads'[t]),
           \A w \in Slots :
               \/ slot'[w].pc = "idle" /\ slot'[w].thread = 0
               \/ slot'[w] = slot[w] /\ (t \notin raced /\ slot[w].pc \in Held => slot[w].thread # t),
           \A a \in Agents :
               \/ desk'[a].op = "none"
               \/ desk'[a] = desk[a] /\ (t \notin raced /\ desk[a].op # "none" => desk[a].thread # t)
    PROVE  ColumnInv'
<1>1. \A s \in DOMAIN threads' \ raced' : Agree(threads'[s]) /\ s \notin Overlapping'
  BY Monotone DEF ColumnInv
<1>2. \A w \in Slots : JobColumns(w)'
  <2>. TAKE w \in Slots
  <2>1. slot[w].pc \in Held /\ slot[w].thread # 0 => slot[w].thread \in DOMAIN threads
    <3>1. slot[w].thread \in Nat /\ SlotOK(w)
      BY Monotone DEF SlotType, ColumnInv, SupportInv
    <3>. QED
      BY <3>1, Monotone DEF SlotOK
  <2>2. JobColumns(w) /\ raced \subseteq raced'
    BY Monotone DEF ColumnInv
  <2>3. CASE slot'[w].pc = "idle" /\ slot'[w].thread = 0
    BY <2>3 DEF JobColumns, Held
  <2>4. CASE slot'[w] = slot[w] /\ (t \notin raced /\ slot[w].pc \in Held => slot[w].thread # t)
    <3>1. slot[w].pc \in Held /\ slot[w].thread # 0 /\ slot[w].thread \notin raced' =>
            threads'[slot[w].thread] = threads[slot[w].thread]
      BY <2>1, <2>2, <2>4
    <3>. QED
      BY <2>2, <2>4, <3>1 DEF JobColumns
  <2>. QED
    BY <2>3, <2>4
<1>3. \A a \in Agents : RequestColumns(a)'
  <2>. TAKE a \in Agents
  <2>1. RequestColumns(a) /\ DeskOK(a) /\ raced \subseteq raced'
    BY Monotone DEF ColumnInv, SupportInv
  <2>. QED
    BY <2>1 DEF RequestColumns, DeskOK
<1>. QED
  BY <1>1, <1>2, <1>3 DEF ColumnInv
LEMMA IdleColumns == Idle.pc = "idle" /\ Idle.thread = 0 /\ NoRequest.op = "none"
<1>1. /\ Idle = [pc |-> "idle", msg |-> NoMessage, thread |-> 0, seen |-> Blank, row |-> Blank]
      /\ NoRequest = [op |-> "none", to |-> NoAgent, thread |-> 0, seen |-> Blank, position |-> 0]
  BY DEF Idle, NoRequest, Blank
<1>. QED
  BY <1>1

LEMMA OpenColumns ==
    ASSUME ColumnInv, SupportInv', RacedKept, NEW w \in Slots, OpenThread(w)
    PROVE  ColumnInv'
<1>. DEFINE m == slot[w].msg
            At(pc, n, seen, row) == [slot[w] EXCEPT !.pc = pc, !.thread = n, !.seen = seen, !.row = row]
<1>0. /\ slot[w] \in SlotType /\ threads' = threads /\ desk' = desk /\ m \in Inbound
      /\ slot[w].pc = "claimed" /\ raced \subseteq raced' /\ 0 \notin raced
  BY Monotone DEF OpenThread, deskVars, ColumnInv, SupportInv, SlotOK
<1>1. ASSUME NEW pc \in {"read", "locked"}, NEW n, NEW seen, NEW row,
             slot' = [slot EXCEPT ![w] = At(pc, n, seen, row)],
             n \notin raced => Agree(row) /\ (n # 0 => Fresh(threads[n], seen))
      PROVE  ColumnInv'
  <2>1. /\ slot'[w].pc = pc /\ slot'[w].thread = n /\ slot'[w].seen = seen /\ slot'[w].row = row
        /\ \A v \in Slots \ {w} : slot'[v] = slot[v]
    BY <1>0, <1>1, Monotone DEF SlotType
  <2>2. JobColumns(w)'
    BY <1>0, <1>1, <2>1 DEF JobColumns, Held
  <2>. QED
    BY <1>0, <2>1, <2>2, ThreadsStand
<1>2. ASSUME NEW t \in Latest(Sender[m]), t \notin raced
      PROVE  /\ Agree(threads[t]) /\ Fresh(threads[t], threads[t])
             /\ threads[t].status = "resolved" => Agree(Reopened(threads[t]))
  <2>1. t \in DOMAIN threads
    BY DEF Latest
  <2>2. threads[t] \in Row
    BY <2>1, Monotone
  <2>3. Agree(threads[t])
    BY <1>2, <2>1 DEF ColumnInv
  <2>. QED
    BY <2>2, <2>3 DEF Fresh, Agree, Reopened, Row
<1>3. Agree(NewRow(Sender[m]))
  BY DEF Agree, NewRow
<1>4. ASSUME NEW t \in Latest(Sender[m]),
             slot' = [slot EXCEPT ![w] = At("read", t, threads[t], threads[t])]
      PROVE  ColumnInv'
  BY <1>1, <1>2, <1>4
<1>5. ASSUME NEW t \in Latest(Sender[m]), threads[t].status = "resolved",
             slot' = [slot EXCEPT ![w] = At("locked", t, threads[t], Reopened(threads[t]))]
      PROVE  ColumnInv'
  BY <1>1, <1>2, <1>5
<1>6. ASSUME slot' = [slot EXCEPT ![w] = At("locked", 0, NewRow(Sender[m]), NewRow(Sender[m]))]
      PROVE  ColumnInv'
  BY <1>1, <1>3, <1>6
<1>7. \/ \E t \in Latest(Sender[m]) :
           \/ slot' = [slot EXCEPT ![w] = At("read", t, threads[t], threads[t])]
           \/ /\ threads[t].status = "resolved"
              /\ slot' = [slot EXCEPT ![w] = At("locked", t, threads[t], Reopened(threads[t]))]
      \/ slot' = [slot EXCEPT ![w] = At("locked", 0, NewRow(Sender[m]), NewRow(Sender[m]))]
  BY DEF OpenThread
<1>. HIDE DEF At
<1>. QED
  BY <1>4, <1>5, <1>6, <1>7

\* A job goes on, or is dropped, without a commit.
LEMMA JobGoesOn ==
    ASSUME ColumnInv, SupportInv', RacedKept, NEW w \in Slots,
           (\E m \in Inbound : ClaimMessage(w, m) \/ SkipMessage(w, m))
             \/ LockThread(w) \/ (\E replies \in {1, 2} : Send(w, replies)) \/ AbortJob(w)
    PROVE  ColumnInv'
<1>0. /\ slot[w] \in SlotType /\ threads' = threads /\ desk' = desk /\ threads \in Seq(Row)
      /\ raced \subseteq raced' /\ 0 \notin raced /\ JobColumns(w) /\ SlotOK(w)
      /\ \A v \in Slots \ {w} : slot'[v] = slot[v]
  BY Monotone DEF ClaimMessage, SkipMessage, LockThread, Send, AbortJob, deskVars, ColumnInv, SupportInv
<1>1. JobColumns(w)' \/ slot'[w] = slot[w]
  <2>1. ASSUME NEW m \in Inbound, ClaimMessage(w, m) PROVE JobColumns(w)'
    <3>1. slot'[w] = [Idle EXCEPT !.pc = "claimed", !.msg = m]
      BY <2>1, Monotone DEF ClaimMessage
    <3>2. slot'[w].pc = "claimed" /\ slot'[w].thread = 0
      BY <3>1 DEF Idle
    <3>. QED
      BY <3>2 DEF JobColumns, Held
  <2>2. ASSUME NEW m \in Inbound, SkipMessage(w, m) PROVE slot'[w] = slot[w]
    BY <2>2 DEF SkipMessage
  <2>3. CASE LockThread(w)
    <3>1. /\ slot'[w].pc = "locked" /\ slot'[w].thread = slot[w].thread /\ slot[w].pc = "read"
          /\ slot'[w].seen = slot[w].seen /\ slot'[w].row = slot[w].row
      BY <1>0, <2>3, Monotone DEF LockThread, SlotType
    <3>. QED
      BY <1>0, <3>1 DEF JobColumns, Held
  <2>4. ASSUME NEW replies \in {1, 2}, Send(w, replies) PROVE JobColumns(w)'
    <3>1. NextQueuePosition \in Nat \ {0} /\ slot[w].pc = "locked" /\ slot[w].row \in Row
      BY <1>0, <2>4, QueuePositive DEF Send, SlotOK, Held
    <3>2. /\ slot'[w].pc = "sent" /\ slot'[w].thread = slot[w].thread
          /\ slot'[w].seen = slot[w].seen
          /\ slot'[w].row = slot[w].row \/ slot'[w].row = Escalated(slot[w].row, NextQueuePosition)
      <4>1. PICK escalate \in BOOLEAN :
              slot' = [slot EXCEPT ![w].pc = "sent",
                          ![w].row = IF escalate THEN Escalated(@, NextQueuePosition) ELSE @]
        BY <2>4 DEF Send
      <4>2. CASE escalate
        BY <1>0, <4>1, <4>2, Monotone DEF SlotType
      <4>3. CASE ~ escalate
        BY <1>0, <4>1, <4>3, Monotone DEF SlotType
      <4>. QED
        BY <4>2, <4>3
    <3>3. Agree(Escalated(slot[w].row, NextQueuePosition))
      BY <3>1 DEF Agree, Escalated, Row
    <3>. QED
      BY <1>0, <3>1, <3>2, <3>3 DEF JobColumns, Held
  <2>5. CASE AbortJob(w)
    <3>1. slot'[w] = Idle
      BY <2>5, Monotone DEF AbortJob
    <3>. QED
      BY <3>1, IdleColumns DEF JobColumns, Held
  <2>. QED
    BY <2>1, <2>2, <2>3, <2>4, <2>5
<1>. QED
  BY <1>0, <1>1, ThreadsStand

LEMMA CommitColumns ==
    ASSUME ColumnInv, SupportInv', RacedKept, NEW w \in Slots, slot[w].pc \in {"locked", "sent"},
           EndJob(w), desk' = desk
    PROVE  ColumnInv'
<1>0. /\ slot[w] \in SlotType /\ threads \in Seq(Row) /\ SupportInv /\ slot[w].pc \in Held
      /\ slot[w].pc # "idle" /\ 0 \notin raced /\ JobColumns(w) /\ SlotOK(w)
      /\ CommitThread(w) /\ slot' = [slot EXCEPT ![w] = Idle]
      /\ slot[w].thread \in Nat /\ slot[w].row \in Row /\ slot[w].seen \in Row
  BY Monotone DEF EndJob, ColumnInv, SupportInv, Held, SlotType, SlotOK
<1>1. /\ slot'[w].pc = "idle" /\ slot'[w].thread = 0
      /\ \A v \in Slots \ {w} : slot'[v] = slot[v]
  BY <1>0, IdleColumns, Monotone
<1>2. CASE slot[w].thread = 0
  <2>. DEFINE t == Len(threads) + 1
  <2>1. threads' = Append(threads, slot[w].row)
    BY <1>0, <1>2 DEF CommitThread
  <2>2. /\ t \in Nat \ {0} /\ DOMAIN threads' = DOMAIN threads \cup {t}
        /\ \A s \in DOMAIN threads \ {t} : threads'[s] = threads[s]
        /\ threads'[t] = slot[w].row
    BY <1>0, <2>1
  <2>3. Agree(threads'[t])
    BY <1>0, <1>2, <2>2 DEF JobColumns
  <2>4. ASSUME NEW v \in Slots, slot[v].pc \in Held PROVE slot[v].thread # t
    <3>1. slot[v].thread <= Len(threads) /\ Len(threads) \in Nat /\ slot[v].thread \in Nat
      BY <1>0, <2>4, Monotone DEF SupportInv, SlotOK, SlotType
    <3>. QED
      BY <3>1
  <2>5. ASSUME NEW a \in Agents, desk[a].op # "none" PROVE desk[a].thread # t
    <3>1. desk[a].thread \in DOMAIN threads
      BY <1>0, <2>5 DEF SupportInv, DeskOK
    <3>. QED
      BY <3>1, Monotone
  <2>. HIDE DEF t
  <2>. QED
    BY <1>1, <2>2, <2>3, <2>4, <2>5, OneWrites
<1>3. CASE slot[w].thread # 0
  <2>. DEFINE t == slot[w].thread
              row == Flush(threads[t], slot[w].seen, slot[w].row)
  <2>1. t \in DOMAIN threads /\ t \in Nat \ {0} /\ threads[t] \in Row
    BY <1>0, <1>3 DEF SlotOK
  <2>2. threads' = [threads EXCEPT ![t] = row]
    BY <1>0, <1>3 DEF CommitThread
  <2>3. t \notin raced => Agree(row)
    BY <1>0, <1>3, <2>1, FlushAgrees DEF JobColumns
  <2>4. t \notin raced =>
          /\ \A v \in Slots : v # w /\ slot[v].pc \in Held => slot[v].thread # t
          /\ \A a \in Agents : desk[a].op # "none" => desk[a].thread # t
    BY <1>0, <2>1, AloneJob DEF Held
  <2>. HIDE DEF row, t
  <2>5. /\ DOMAIN threads' = DOMAIN threads \cup {t} /\ threads'[t] = row
        /\ \A s \in DOMAIN threads \ {t} : threads'[s] = threads[s]
    BY <1>0, <2>1, <2>2
  <2>. QED
    BY <1>1, <2>1, <2>3, <2>4, <2>5, OneWrites
<1>. QED
  BY <1>2, <1>3

LEMMA BeginColumns ==
    ASSUME ColumnInv, SupportInv', RacedKept, NEW a \in Agents, NEW t \in DOMAIN threads,
           NEW op, NEW to, Begin(a, t, op, to)
    PROVE  ColumnInv'
<1>1. /\ threads' = threads /\ slot' = slot
      /\ desk'[a].thread = t /\ desk'[a].seen = threads[t]
      /\ \A b \in Agents \ {a} : desk'[b] = desk[b]
  BY Monotone DEF Begin
<1>2. RequestColumns(a)'
  BY <1>1 DEF RequestColumns, Fresh
<1>. QED
  BY <1>1, <1>2, ThreadsStand

LEMMA FinishColumns ==
    ASSUME ColumnInv, SupportInv', RacedKept, NEW a \in Agents, FinishRequest(a)
    PROVE  ColumnInv'
<1>. DEFINE t == desk[a].thread
<1>0. /\ threads \in Seq(Row) /\ desk \in [Agents -> DeskType] /\ slot' = slot
      /\ desk' = [desk EXCEPT ![a] = NoRequest] /\ desk[a].op # "none"
      /\ DeskOK(a) /\ RequestColumns(a)
  BY Monotone DEF FinishRequest, ColumnInv, SupportInv
<1>1. PICK delivered \in BOOLEAN :
        threads' = [threads EXCEPT ![t] = AfterRequest(threads[t], desk[a], delivered)]
  BY DEF FinishRequest
<1>. DEFINE row == AfterRequest(threads[t], desk[a], delivered)
<1>2. /\ t \in DOMAIN threads /\ t \in Nat \ {0} /\ threads[t] \in Row
      /\ desk[a] \in DeskType /\ desk[a].seen \in Row /\ desk[a].to \in Agents /\ desk[a].position # 0
  BY <1>0 DEF DeskOK
<1>3. t \notin raced => Agree(row)
  <2>1. t \notin raced => Agree(threads[t]) /\ Fresh(threads[t], desk[a].seen)
    BY <1>0, <1>2 DEF ColumnInv, RequestColumns
  <2>. QED
    BY <1>2, <2>1, RequestAgrees
<1>4. t \notin raced =>
        /\ \A w \in Slots : slot[w].pc \in Held => slot[w].thread # t
        /\ \A b \in Agents : b # a /\ desk[b].op # "none" => desk[b].thread # t
  BY <1>0, <1>2, AloneRequest DEF Held
<1>5. threads' = [threads EXCEPT ![t] = row]
  BY <1>1
<1>6. desk'[a].op = "none" /\ \A b \in Agents \ {a} : desk'[b] = desk[b]
  BY <1>0, IdleColumns
<1>. HIDE DEF row, t
<1>7. /\ DOMAIN threads' = DOMAIN threads \cup {t} /\ threads'[t] = row
      /\ \A s \in DOMAIN threads \ {t} : threads'[s] = threads[s]
  BY <1>0, <1>2, <1>5
<1>. QED
  BY <1>0, <1>2, <1>3, <1>4, <1>6, <1>7, OneWrites

LEMMA ClockColumns ==
    ASSUME ColumnInv, SupportInv', RacedKept,
           (\E t \in DOMAIN threads : DeadlinePasses(t) \/ ReopenWindowCloses(t)) \/ SlaSweep
    PROVE  ColumnInv'
<1>0. threads \in Seq(Row) /\ \A t \in DOMAIN threads : threads[t] \in Row
  BY Monotone
<1>1. slot' = slot /\ desk' = desk
  BY DEF DeadlinePasses, ReopenWindowCloses, SlaSweep, deskVars
<1>. DEFINE Later == /\ DOMAIN threads' = DOMAIN threads
                     /\ \A t \in DOMAIN threads : Fresh(threads'[t], threads[t])
<1>2. Later
  <2>1. ASSUME NEW t \in DOMAIN threads, DeadlinePasses(t) PROVE Later
    BY <1>0, <2>1 DEF DeadlinePasses, Fresh, Row
  <2>2. ASSUME NEW t \in DOMAIN threads, ReopenWindowCloses(t) PROVE Later
    BY <1>0, <2>2 DEF ReopenWindowCloses, Fresh, Row
  <2>3. CASE SlaSweep
    BY <1>0, <2>3 DEF SlaSweep, Fresh, Row
  <2>. QED
    BY <2>1, <2>2, <2>3
<1>. QED
  BY <1>1, <1>2, TimeGoesBy

LEMMA ColumnStep == ColumnInv /\ [Next]_vars => ColumnInv'
<1>. SUFFICES ASSUME ColumnInv, [Next]_vars PROVE ColumnInv'
  OBVIOUS
<1>0. SupportInv'
  BY SupportStep DEF ColumnInv
<1>1. CASE UNCHANGED vars
  BY <1>0, <1>1 DEF vars, ColumnInv, Agree, Fresh, JobColumns, RequestColumns, Overlapping,
      Working, Handling
<1>. SUFFICES ASSUME Next PROVE ColumnInv'
  BY <1>1
<1>2. RacedKept
  BY DEF Next, RacedKept
<1>3. ASSUME NEW m \in Inbound, ReceiveMessage(m) \/ SweepMessage(m) PROVE ColumnInv'
  <2>1. threads' = threads /\ slot' = slot /\ desk' = desk
    BY <1>3 DEF ReceiveMessage, SweepMessage, deskVars
  <2>. QED
    BY <1>0, <1>2, <2>1, ThreadsStand
<1>4. ASSUME NEW w \in Slots, JobStep(w) \/ AbortJob(w) PROVE ColumnInv'
  <2>1. CASE DuplicateMessage(w) \/ HandOver(w) \/ CommitReply(w)
    <3>1. slot[w].pc \in {"locked", "sent"} /\ EndJob(w) /\ desk' = desk
      BY <2>1 DEF DuplicateMessage, HandOver, CommitReply, deskVars
    <3>. QED
      BY <1>0, <1>2, <3>1, CommitColumns
  <2>2. CASE OpenThread(w)
    BY <1>0, <1>2, <2>2, OpenColumns
  <2>. QED
    BY <1>0, <1>2, <1>4, <2>1, <2>2, JobGoesOn DEF JobStep, Reply, ReplyAgain
<1>5. ASSUME NEW a \in Agents, AgentStep(a) PROVE ColumnInv'
  <2>1. ASSUME NEW t \in DOMAIN threads,
               \/ BeginAssign(a, t) \/ BeginUnassign(a, t) \/ BeginReply(a, t)
               \/ BeginResolve(a, t) \/ BeginReturnToAI(a, t)
        PROVE  \E op \in Requests, to \in Agents : Begin(a, t, op, to)
    BY <2>1 DEF BeginAssign, BeginUnassign, BeginReply, BeginResolve, BeginReturnToAI, Requests
  <2>. QED
    BY <1>0, <1>2, <1>5, <2>1, BeginColumns, FinishColumns DEF AgentStep
<1>6. CASE (\E t \in DOMAIN threads : DeadlinePasses(t) \/ ReopenWindowCloses(t)) \/ SlaSweep
  BY <1>0, <1>2, <1>6, ClockColumns
<1>. QED
  BY <1>3, <1>4, <1>5, <1>6 DEF Next, Step

LEMMA ColumnInit == Init => ColumnInv
<1>. SUFFICES ASSUME Init PROVE ColumnInv
  OBVIOUS
<1>1. SupportInv
  BY SupportInit
<1>2. \A u \in Users : \A r \in Settled(u) : Agree(r)
  <2>. TAKE u \in Users
  <2>. DEFINE new == NewRow(u)
              done == {Resolved(new)} \cup {Resolved(Assigned(new, a)) : a \in Agents}
  <2>1. new \in Row /\ Agree(new)
    BY NewRowType DEF Agree, NewRow
  <2>2. \A r \in Row : /\ Agree(Resolved(r)) /\ Resolved(r) \in Row
                       /\ Agree(r) => Agree([r EXCEPT !.recent = FALSE])
    BY DEF Row, Resolved, Agree, ConversationStatus
  <2>3. Agree(Escalated(new, 1))
    BY <2>1 DEF Agree, Escalated, Row
  <2>4. \A a \in Agents : Assigned(new, a) \in Row
    BY <2>1, Operations
  <2>5. \A r \in done : r \in Row /\ Agree(r)
    <3>1. Resolved(new) \in Row /\ Agree(Resolved(new))
      BY <2>1, <2>2
    <3>2. ASSUME NEW a \in Agents
          PROVE  Resolved(Assigned(new, a)) \in Row /\ Agree(Resolved(Assigned(new, a)))
      BY <2>2, <2>4
    <3>. QED
      BY <3>1, <3>2, Zenon
  <2>6. Settled(u) = {new, Escalated(new, 1)} \cup done \cup {[r EXCEPT !.recent = FALSE] : r \in done}
    BY DEF Settled
  <2>. HIDE DEF new, done
  <2>7. \A r \in done : Agree([r EXCEPT !.recent = FALSE])
    BY <2>2, <2>5
  <2>. QED
    BY <2>1, <2>3, <2>5, <2>6, <2>7, Zenon
<1>3. \A t \in DOMAIN threads : Agree(threads[t])
  BY <1>2 DEF Init
<1>4. \A t \in DOMAIN threads : t \notin Overlapping
  BY IdleColumns DEF Init, Overlapping, Working, Handling
<1>5. (\A w \in Slots : JobColumns(w)) /\ \A a \in Agents : RequestColumns(a)
  BY IdleColumns DEF Init, JobColumns, RequestColumns, Held
<1>. QED
  BY <1>1, <1>3, <1>4, <1>5 DEF ColumnInv

\* As long as its transactions come one at a time, a thread's status, place,
\* agent and deadline fit each other, whoever writes them and however much time
\* goes by between a reading and the write that rests on it.
THEOREM ColumnsFit == Spec => []ColumnsAgree
<1>1. ColumnInv => ColumnsAgree
  BY DEF ColumnInv, ColumnsAgree, Agree
<1>. QED
  BY <1>1, ColumnInit, ColumnStep, PTL DEF Spec
=============================================================================
