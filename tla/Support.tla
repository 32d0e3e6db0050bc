------------------------------- MODULE Support -------------------------------
(***************************************************************************)
(* A customer's WhatsApp thread and those who answer in it: the worker job *)
(* process_whatsapp_message (workers/webhook_processor.py), which lets the *)
(* assistant answer or hands the thread over, the agents' handlers of      *)
(* routers/admin.py, and the service level sweep.  The status machine is   *)
(* services/conversation.py:                                               *)
(*                                                                         *)
(*     ai -> queued -> human -> resolved -> ai                             *)
(*                                                                         *)
(* Each of them is one transaction at READ COMMITTED that reads the row,   *)
(* decides on what it has read, and updates it by key.  SQLAlchemy writes  *)
(* the columns whose value differs from the one loaded and leaves the      *)
(* others to whatever has been committed meanwhile (Flush).                *)
(***************************************************************************)
EXTENDS Integers, Sequences, FiniteSets

CONSTANTS
    Users,
    Agents, Admins, \* all active agents, and those with the admin role
    NoAgent,
    Inbound,        \* WhatsApp messages, by wa_message_id
    Sender,         \* the user a message comes from
    Slots,          \* job slots of the worker processes
    NoMessage,
    MaxCopies,      \* bound: queued jobs of one event
    MaxOps,         \* bound: requests of agents
    MaxFaults,      \* bound: jobs cut off before their commit
    MaxUnheard      \* bound: answers of WhatsApp lost, per message

ASSUME PeopleAssumption == Admins \subseteq Agents /\ NoAgent \notin Agents
ASSUME MessagesAssumption == Sender \in [Inbound -> Users] /\ NoMessage \notin Inbound
ASSUME SupportLimits ==
    MaxCopies \in Nat \ {0} /\ MaxOps \in Nat /\ MaxFaults \in Nat /\ MaxUnheard \in Nat

VARIABLES
    threads,        \* committed Conversation rows, oldest first
    ledger,         \* WebhookEvent.status, per message
    queue,          \* jobs waiting in Redis, per message
    slot,           \* the job of each slot: its step, and what its session holds
    logged,         \* the thread the Message row of an inbound message is in; 0: none
    outcome,        \* what the committed job did about the message
    sent,           \* replies that reached the customer because of a message
    unheard,        \* history: those sent again, as WhatsApp's answer to the first was lost
    desk,           \* the request each agent has in flight
    ops, faults,
    raced           \* history: threads two transactions have worked on at once

vars == << threads, ledger, queue, slot, logged, outcome, sent, unheard, desk,
           ops, faults, raced >>

inboxVars == << ledger, queue, logged, outcome, sent, unheard >>
deskVars == << desk, ops >>

ConversationStatus == {"ai", "queued", "human", "resolved"}

\* The columns of Conversation.  position 0 is NULL; sla is the deadline
\* ("none" is NULL); recent: resolved_at lies within the reopen window.
Row == [user : Users, status : ConversationStatus, agent : Agents \cup {NoAgent},
        position : Nat, sla : {"none", "running", "past"}, recent : BOOLEAN]

NewRow(u) == [user |-> u, status |-> "ai", agent |-> NoAgent, position |-> 0,
              sla |-> "none", recent |-> FALSE]

-----------------------------------------------------------------------------
(* services/conversation.py: what each operation does to the row it has.   *)

\* An UPDATE names the columns that differ from the loaded ones.
Flush(cur, seen, new) ==
    [c \in DOMAIN cur |-> IF new[c] # seen[c] THEN new[c] ELSE cur[c]]

\* Mutant of NextQueuePosition: as if the thread were counted already and places
\* began at zero.
QueuePositionBefore ==
    Cardinality({t \in DOMAIN threads : threads[t].status = "queued"}) - 1

\* _next_queue_position counts what is committed.
NextQueuePosition ==
    Cardinality({t \in DOMAIN threads : threads[t].status = "queued"}) + 1

Escalated(row, p) == [row EXCEPT !.status = "queued", !.sla = "running", !.position = p]

\* Mutant of Assigned: the thread keeps its place in the queue.
AssignedInPlace(row, a) == [row EXCEPT !.agent = a, !.status = "human"]

Assigned(row, a) == [row EXCEPT !.agent = a, !.status = "human", !.position = 0]
MayAssign(row, a, takeOver) == row.agent \in {NoAgent, a} \/ takeOver
Unassigned(row, p) == [row EXCEPT !.agent = NoAgent, !.status = "queued", !.position = p]
Resolved(row) ==
    [row EXCEPT !.status = "resolved", !.recent = TRUE, !.position = 0, !.sla = "none"]
ReturnedToAI(row) ==
    [row EXCEPT !.status = "ai", !.agent = NoAgent, !.position = 0, !.sla = "none"]
Reopened(row) == [row EXCEPT !.status = "ai", !.recent = FALSE]

\* The AI must stay silent once a person owns the thread.
IsHumanHandled(row) == row.status \in {"queued", "human"}

\* The customer's newest thread, if there is one.
Latest(u) ==
    {t \in DOMAIN threads : threads[t].user = u /\
        \A s \in DOMAIN threads : threads[s].user = u => s <= t}

-----------------------------------------------------------------------------
(* Row locks: a flush holds the row until its transaction ends.            *)

EventHeld(m) == \E w \in Slots : slot[w].msg = m /\ slot[w].pc \in {"read", "locked", "sent"}
ThreadHeld(t) == \E w \in Slots : slot[w].thread = t /\ slot[w].pc \in {"locked", "sent"}

Idle == [pc |-> "idle", msg |-> NoMessage, thread |-> 0, seen |-> NewRow(CHOOSE u \in Users : TRUE),
         row |-> NewRow(CHOOSE u \in Users : TRUE)]
NoRequest == [op |-> "none", to |-> NoAgent, thread |-> 0,
              seen |-> NewRow(CHOOSE u \in Users : TRUE), position |-> 0]

\* Threads on which two transactions are under way.
Working(t) == {w \in Slots : slot[w].thread = t /\ slot[w].pc # "idle"}
Handling(t) == {a \in Agents : desk[a].op # "none" /\ desk[a].thread = t}
Overlapping ==
    {t \in DOMAIN threads :
        \/ \E v, w \in Working(t) : v # w
        \/ \E a, b \in Handling(t) : a # b
        \/ Working(t) # {} /\ Handling(t) # {}}

-----------------------------------------------------------------------------
(* routers/webhook.py and the event ledger.                                *)

\* meta_webhook: the event row is committed, then the job enqueued; Redis may
\* be unreachable.  A repeated delivery finds the row.
ReceiveMessage(m) ==
    /\ ledger[m] = "none"
    /\ ledger' = [ledger EXCEPT ![m] = "pending"]
    /\ \E copies \in {0, 1} : queue' = [queue EXCEPT ![m] = copies]
    /\ UNCHANGED << threads, slot, logged, outcome, sent, unheard, deskVars, faults >>

\* sweep_pending_events also adds a job when one is queued or running.
SweepMessage(m) ==
    /\ ledger[m] = "pending"
    /\ queue[m] < MaxCopies
    /\ queue' = [queue EXCEPT ![m] = @ + 1]
    /\ UNCHANGED << threads, ledger, slot, logged, outcome, sent, unheard, deskVars, faults >>

-----------------------------------------------------------------------------
(* process_whatsapp_message.                                               *)

\* _claim reads the event row.
ClaimMessage(w, m) ==
    /\ slot[w].pc = "idle"
    /\ queue[m] > 0
    /\ ledger[m] # "processed"
    /\ queue' = [queue EXCEPT ![m] = @ - 1]
    /\ slot' = [slot EXCEPT ![w] = [Idle EXCEPT !.pc = "claimed", !.msg = m]]
    /\ UNCHANGED << threads, ledger, logged, outcome, sent, unheard, deskVars, faults >>

\* The event is done already.
SkipMessage(w, m) ==
    /\ slot[w].pc = "idle"
    /\ queue[m] > 0
    /\ ledger[m] = "processed"
    /\ queue' = [queue EXCEPT ![m] = @ - 1]
    /\ UNCHANGED << threads, ledger, slot, logged, outcome, sent, unheard, deskVars, faults >>

\* _claim's flush of the attempt count waits for another job of the event.
\* Then get_or_create_conversation: an open thread is only read; a resolved one
\* is reopened, which locks its row; a new one is visible to this session only.
OpenThread(w) ==
    LET m == slot[w].msg
        At(pc, n, seen, row) ==
            slot' = [slot EXCEPT ![w] = [@ EXCEPT !.pc = pc, !.thread = n, !.seen = seen, !.row = row]]
    IN  /\ slot[w].pc = "claimed"
        /\ ~ EventHeld(m)
        /\ \/ \E t \in Latest(Sender[m]) :
                \/ /\ threads[t].status # "resolved"
                   /\ At("read", t, threads[t], threads[t])
                \/ /\ threads[t].status = "resolved"
                   /\ threads[t].recent
                   /\ ~ ThreadHeld(t)
                   /\ At("locked", t, threads[t], Reopened(threads[t]))
           \/ /\ \A t \in Latest(Sender[m]) : threads[t].status = "resolved" /\ ~ threads[t].recent
              /\ At("locked", 0, NewRow(Sender[m]), NewRow(Sender[m]))
        /\ UNCHANGED << threads, inboxVars, deskVars, faults >>

\* record_inbound stamps last_message_at, and the flush locks the thread's row.
LockThread(w) ==
    /\ slot[w].pc = "read"
    /\ ~ ThreadHeld(slot[w].thread)
    /\ slot' = [slot EXCEPT ![w].pc = "locked"]
    /\ UNCHANGED << threads, inboxVars, deskVars, faults >>

\* Mutant of KnownMessage: the select on wa_message_id is gone.
NeverKnown(m) == FALSE

\* record_inbound: the Message row of another job of this event is committed.
KnownMessage(m) == logged[m] # 0

\* What the session holds of the thread, committed; the thread's number.
CommitThread(w) ==
    LET s == slot[w] IN
    IF s.thread = 0
    THEN threads' = Append(threads, s.row)
    ELSE threads' = [threads EXCEPT ![s.thread] = Flush(@, s.seen, s.row)]
CommittedAs(w) == IF slot[w].thread = 0 THEN Len(threads) + 1 ELSE slot[w].thread

\* Mutant of EndJob: _mark_processed is not called.
EndJobUnmarked(w) ==
    /\ CommitThread(w)
    /\ slot' = [slot EXCEPT ![w] = Idle]
    /\ UNCHANGED ledger

\* The job ends: the event is processed in the transaction of its effects.
EndJob(w) ==
    /\ CommitThread(w)
    /\ ledger' = [ledger EXCEPT ![slot[w].msg] = "processed"]
    /\ slot' = [slot EXCEPT ![w] = Idle]

DuplicateMessage(w) ==
    /\ slot[w].pc = "locked"
    /\ KnownMessage(slot[w].msg)
    /\ EndJob(w)
    /\ UNCHANGED << queue, logged, outcome, sent, unheard, deskVars, faults >>

\* A person has the thread: _bump_agent alerts the agents unless it is queued.
HandOver(w) ==
    LET m == slot[w].msg IN
    /\ slot[w].pc = "locked"
    /\ ~ KnownMessage(m)
    /\ IsHumanHandled(slot[w].row)
    /\ EndJob(w)
    /\ logged' = [logged EXCEPT ![m] = CommittedAs(w)]
    /\ outcome' = [outcome EXCEPT ![m] = "handed"]
    /\ UNCHANGED << queue, sent, unheard, deskVars, faults >>

\* Replies reach the customer: a scripted one for a tap (_handle_scripted;
\* "Talk to human" escalates), else the assistant's, which may escalate.
Send(w, replies) ==
    LET m == slot[w].msg IN
    /\ slot[w].pc = "locked"
    /\ ~ KnownMessage(m)
    /\ ~ IsHumanHandled(slot[w].row)
    /\ sent' = [sent EXCEPT ![m] = @ + replies]
    /\ \E escalate \in BOOLEAN :
        slot' = [slot EXCEPT ![w].pc = "sent",
                             ![w].row = IF escalate THEN Escalated(@, NextQueuePosition) ELSE @]
    /\ UNCHANGED << threads, ledger, queue, logged, outcome, deskVars, faults >>

\* WhatsApp took what was sent: the reply itself or, once that was refused, the
\* plain text _deliver falls back to.
Reply(w) == Send(w, 1) /\ UNCHANGED unheard

\* Any exception makes _deliver fall back, also a timeout of whatsapp._post after
\* WhatsApp had taken the reply: the customer gets it twice.
ReplyAgain(w) ==
    LET m == slot[w].msg IN
    /\ Send(w, 2)
    /\ unheard[m] < MaxUnheard
    /\ unheard' = [unheard EXCEPT ![m] = @ + 1]

\* record_outbound, update_context and the commit.
CommitReply(w) ==
    LET m == slot[w].msg IN
    /\ slot[w].pc = "sent"
    /\ EndJob(w)
    /\ logged' = [logged EXCEPT ![m] = CommittedAs(w)]
    /\ outcome' = [outcome EXCEPT ![m] = "answered"]
    /\ UNCHANGED << queue, sent, unheard, deskVars, faults >>

\* Both sends fail (or, for a tap, the one there is), the job times out, or the
\* worker dies: nothing is committed.
AbortJob(w) ==
    /\ slot[w].pc # "idle"
    /\ faults < MaxFaults
    /\ faults' = faults + 1
    /\ slot' = [slot EXCEPT ![w] = Idle]
    /\ UNCHANGED << threads, inboxVars, deskVars >>

-----------------------------------------------------------------------------
(* routers/admin.py: the conversation endpoints.                           *)

\* Every handler starts with get_conversation; the checks are on that row.
Begin(a, t, op, to) ==
    /\ desk[a].op = "none"
    /\ ops < MaxOps
    /\ ops' = ops + 1
    /\ desk' = [desk EXCEPT ![a] = [op |-> op, to |-> to, thread |-> t, seen |-> threads[t],
                                    position |-> NextQueuePosition]]
    /\ UNCHANGED << threads, slot, inboxVars, faults >>

\* Taking work oneself is routine; routing it to a colleague is for admins.
BeginAssign(a, t) ==
    \E to \in Agents, takeOver \in BOOLEAN :
        /\ to = a \/ a \in Admins
        /\ MayAssign(threads[t], to, takeOver)
        /\ Begin(a, t, "assign", to)

\* Only an admin can unassign another agent's conversation.
BeginUnassign(a, t) ==
    /\ threads[t].agent \in {NoAgent, a} \/ a \in Admins
    /\ Begin(a, t, "unassign", a)

\* Replying implies ownership: assign refuses a thread that is someone else's.
BeginReply(a, t) ==
    /\ (threads[t].status = "human" /\ threads[t].agent = a) \/ MayAssign(threads[t], a, FALSE)
    /\ \E op \in {"reply", "reply and resolve"} : Begin(a, t, op, a)

BeginResolve(a, t) == Begin(a, t, "resolve", a)
BeginReturnToAI(a, t) == Begin(a, t, "return", a)

\* The row after the flushes of request d over the committed row cur.  A reply
\* that WhatsApp refuses is committed with the assignment, and resolves nothing.
AfterRequest(cur, d, delivered) ==
    LET seen == d.seen
        owned == IF seen.status = "human" /\ seen.agent = d.to THEN seen ELSE Assigned(seen, d.to)
    IN  CASE d.op = "assign" -> Flush(cur, seen, Assigned(seen, d.to))
          [] d.op = "unassign" -> Flush(cur, seen, Unassigned(seen, d.position))
          [] d.op = "resolve" -> Flush(cur, seen, Resolved(seen))
          [] d.op = "return" -> Flush(cur, seen, ReturnedToAI(seen))
          [] d.op = "reply" \/ ~ delivered -> Flush(cur, seen, owned)
          [] OTHER -> Flush(Flush(cur, seen, owned), owned, Resolved(owned))

\* The updates, which wait for a job that holds the row, and the commit.
FinishRequest(a) ==
    LET t == desk[a].thread IN
    /\ desk[a].op # "none"
    /\ ~ ThreadHeld(t)
    /\ \E delivered \in BOOLEAN :
        /\ ~ delivered => desk[a].op = "reply and resolve"
        /\ threads' = [threads EXCEPT ![t] = AfterRequest(@, desk[a], delivered)]
    /\ desk' = [desk EXCEPT ![a] = NoRequest]
    /\ UNCHANGED << slot, inboxVars, ops, faults >>

-----------------------------------------------------------------------------
(* Time, and check_sla_breaches.                                           *)

DeadlinePasses(t) ==
    /\ threads[t].sla = "running"
    /\ threads' = [threads EXCEPT ![t].sla = "past"]
    /\ UNCHANGED << slot, inboxVars, deskVars, faults >>

ReopenWindowCloses(t) ==
    /\ threads[t].status = "resolved"
    /\ threads[t].recent
    /\ threads' = [threads EXCEPT ![t].recent = FALSE]
    /\ UNCHANGED << slot, inboxVars, deskVars, faults >>

\* breached_sla
Breached == {t \in DOMAIN threads : threads[t].status = "queued" /\ threads[t].sla = "past"}

\* check_sla_breaches alerts the agents once and clears the deadline.
SlaSweep ==
    /\ Breached # {}
    /\ \A t \in Breached : ~ ThreadHeld(t)
    /\ threads' = [t \in DOMAIN threads |->
                    IF t \in Breached THEN [threads[t] EXCEPT !.sla = "none"] ELSE threads[t]]
    /\ UNCHANGED << slot, inboxVars, deskVars, faults >>

-----------------------------------------------------------------------------
\* What earlier messages and agents, one at a time, may have left of a thread.
Settled(u) ==
    LET new == NewRow(u)
        done == {Resolved(new)} \cup {Resolved(Assigned(new, a)) : a \in Agents}
    IN  {new, Escalated(new, 1)} \cup done \cup {[r EXCEPT !.recent = FALSE] : r \in done}

Init ==
    /\ threads \in {<< >>} \cup {<< r >> : r \in UNION {Settled(u) : u \in Users}}
    /\ ledger = [m \in Inbound |-> "none"]
    /\ queue = [m \in Inbound |-> 0]
    /\ slot = [w \in Slots |-> Idle]
    /\ logged = [m \in Inbound |-> 0]
    /\ outcome = [m \in Inbound |-> "none"]
    /\ sent = [m \in Inbound |-> 0]
    /\ unheard = [m \in Inbound |-> 0]
    /\ desk = [a \in Agents |-> NoRequest]
    /\ ops = 0
    /\ faults = 0
    /\ raced = {}

JobStep(w) ==
    \/ \E m \in Inbound : ClaimMessage(w, m)
    \/ \E m \in Inbound : SkipMessage(w, m)
    \/ OpenThread(w)
    \/ LockThread(w)
    \/ DuplicateMessage(w)
    \/ HandOver(w)
    \/ Reply(w)
    \/ ReplyAgain(w)
    \/ CommitReply(w)

AgentStep(a) ==
    \/ \E t \in DOMAIN threads :
        \/ BeginAssign(a, t)
        \/ BeginUnassign(a, t)
        \/ BeginReply(a, t)
        \/ BeginResolve(a, t)
        \/ BeginReturnToAI(a, t)
    \/ FinishRequest(a)

Step ==
    \/ \E m \in Inbound : ReceiveMessage(m) \/ SweepMessage(m)
    \/ \E w \in Slots : JobStep(w) \/ AbortJob(w)
    \/ \E a \in Agents : AgentStep(a)
    \/ \E t \in DOMAIN threads : DeadlinePasses(t) \/ ReopenWindowCloses(t)
    \/ SlaSweep

Next == Step /\ raced' = raced \cup Overlapping'

Spec == Init /\ [][Next]_vars

-----------------------------------------------------------------------------
(* Properties.                                                             *)

TypeOK ==
    /\ threads \in Seq(Row)
    /\ ledger \in [Inbound -> {"none", "pending", "processed"}]
    /\ queue \in [Inbound -> Nat]
    /\ logged \in [Inbound -> Nat]
    /\ outcome \in [Inbound -> {"none", "answered", "handed"}]
    /\ sent \in [Inbound -> Nat]
    /\ unheard \in [Inbound -> Nat]
    /\ raced \subseteq DOMAIN threads

\* record_inbound and _mark_processed share a transaction: however many jobs
\* an event gets and wherever they are cut off, its message is in the log, in a
\* thread of its sender, exactly when the event is processed, and then it has
\* been answered or handed over.
LedgerMatchesLog ==
    \A m \in Inbound :
        /\ ledger[m] = "processed" <=> logged[m] # 0
        /\ ledger[m] = "processed" <=> outcome[m] # "none"
        /\ logged[m] # 0 => logged[m] \in DOMAIN threads /\ threads[logged[m]].user = Sender[m]

\* The customer reads one answer to a message, and one more for each job of it
\* that was cut off after its reply went out and before its transaction
\* committed, and for each reply that _deliver sent again in plain text because
\* WhatsApp's answer to the first was lost.  Nothing else repeats it: not a second
\* delivery, nor the jobs the sweep adds to one that is only slow (conversation.py,
\* record_inbound).
AnsweredOnce == \A m \in Inbound : sent[m] <= 1 + faults + unheard[m]

\* Handled by one transaction at a time, the columns of a thread keep telling
\* one story: a place in the queue belongs to a queued thread, a person's
\* thread has that person, and a resolved thread has no deadline running.
ColumnsAgree ==
    \A t \in DOMAIN threads \ raced :
        /\ threads[t].status = "queued" <=> threads[t].position # 0
        /\ threads[t].status = "human" => threads[t].agent # NoAgent
        /\ threads[t].status = "resolved" => threads[t].sla = "none"
=============================================================================
