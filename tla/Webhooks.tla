------------------------------ MODULE Webhooks ------------------------------
(***************************************************************************)
(* Webhook ingestion: routes/webhooks.ts, with the operator routes of      *)
(* routes/ops.ts that replay an event and refresh the evidence of an       *)
(* issue, for one tenant and one process.                                  *)
(*                                                                         *)
(* A request is one delivery of an event whose signature is valid; the     *)
(* provider may deliver an event several times and in any order.  Its      *)
(* handler records and routes the event in one transaction, then drains a  *)
(* queue in memory that all requests share.  Of evidence this module keeps *)
(* only whether the context of an issue was stored; what provider events   *)
(* and deletions do to evidence is in Actions.                             *)
(***************************************************************************)
EXTENDS Integers, Sequences, FiniteSets

CONSTANTS
  Requests,     \* deliveries of events
  Events,       \* external_event_id
  Tickets,      \* zendesk_ticket_id
  OldTickets,   \* tickets that have an issue when the behaviour begins
  Kind,         \* what an event is about
  TicketOf,     \* the ticket it names
  MergedIds,    \* the tickets a merge lists, in the order of the payload
  Gate,         \* reopen_gate_count
  MaxFaults,    \* bound: failing statements and lost commit answers
  MaxCrashes,   \* bound: restarts of the process
  MaxReplays,   \* bound: replays by operators
  Hole,         \* what assigning a greater length to an array appends
  OldIssue,     \* the issue of an old ticket
  NoEvent       \* a request that has not been received

\* "other": comments, unknown types, tickets that are not about refunds, and
\* provider events.  "merged" is a ticket.merged, which lists the ticket it
\* names, or a ticket.updated with merged_ticket_ids, which names the ticket
\* that stays.  A ticket.updated that is also a reopen, and the age at which a
\* reopen no longer counts, are left out.
EventKind == {"created", "reopened", "deleted", "merged", "other"}

\* An issue is named by the request that creates it.
IssueId == Requests \cup {OldIssue}
Job == [ticket : Tickets, issue : Requests]

ASSUME WebhooksAssumption ==
  /\ OldTickets \subseteq Tickets
  /\ Kind \in [Events -> EventKind]
  /\ TicketOf \in [Events -> Tickets]
  /\ MergedIds \in [Events -> Seq(Tickets)]
  /\ \A e \in Events : Kind[e] = "merged" => MergedIds[e] # <<>>
  /\ IsFiniteSet(Events) /\ IsFiniteSet(Tickets)
  /\ Gate \in Nat \ {0}
  /\ MaxFaults \in Nat /\ MaxCrashes \in Nat /\ MaxReplays \in Nat
  /\ Hole \notin Job
  /\ OldIssue \notin Requests
  /\ NoEvent \notin Events

VARIABLES
  inbound,       \* inbound_events: the status of each event
  issueOf,       \* issue_tickets: the issue of each ticket that has a row
  secondary,     \* tickets whose row is not is_primary
  deleted,       \* tickets whose row is_deleted
  reopens,       \* reopen_events of the ticket's issue
  signals,       \* severities of its risk_signals
  context,       \* issues whose issue_context was stored
  queue,         \* pendingIngestion
  pc,            \* next statement of each request's handler
  event,         \* what it delivers
  queuedBefore,  \* queuedBeforeThisAttempt
  seen,          \* reopens it counts, if it has found the ticket's issue
  next,          \* place of the ticket it updates next
  wrote,         \* tickets whose row it has updated, and holds until it ends
  job,           \* the job it ingests
  routed,        \* requests that committed the routing of an event (history)
  faults,
  crashes,
  replays

issueVars == <<issueOf, secondary, deleted, reopens, signals>>
tableVars == <<inbound, issueVars, context, routed>>
localVars == <<event, queuedBefore, seen, next, wrote, job>>
bounds    == <<faults, crashes, replays>>
webhookVars == <<tableVars, queue, pc, localVars, bounds>>

\* RECEIVED is committed by a replay only.
InboundStatus == {"RECEIVED", "PROCESSED", "DUPLICATE"}
Severity == {"LOW", "MEDIUM", "HIGH"}

\* Inside the transaction, with the event's row inserted or updated; before the
\* transaction has it; and afterwards.
Routing == {"route", "link", "update", "commit"}
Holding == Routing \cup {"duplicate"}
PCs == Holding \cup {"idle", "insert", "discard", "drain", "ingest", "answered"}

\* The event and the ticket a request is about.
Created(r) == Kind[event[r]] = "created"
Ticket(r) == TicketOf[event[r]]

\* (mutant) A deletion marks all tickets, beginning with its own.
Ids_DeletesAll(e) ==
  IF Kind[e] = "deleted"
  THEN CHOOSE q \in [1 .. Cardinality(Tickets) -> Tickets] :
         q[1] = TicketOf[e] /\ \A i, k \in DOMAIN q : i # k => q[i] # q[k]
  ELSE MergedIds[e]

\* The tickets whose row an event marks, in the order in which it does.
Ids(e) == IF Kind[e] = "deleted" THEN <<TicketOf[e]>> ELSE MergedIds[e]

Marks(e) == Kind[e] \in {"deleted", "merged"}

TypeOK ==
  /\ inbound \in [Events -> InboundStatus \cup {"ABSENT"}]
  /\ issueOf \in [Tickets -> SUBSET IssueId]
  /\ secondary \in SUBSET Tickets /\ deleted \in SUBSET Tickets
  /\ reopens \in [Tickets -> Nat]
  /\ signals \in [Tickets -> SUBSET Severity]
  /\ context \in SUBSET IssueId
  /\ queue \in Seq(Job \cup {Hole})
  /\ pc \in [Requests -> PCs]
  /\ event \in [Requests -> Events \cup {NoEvent}]
  /\ \A r \in Requests :
       pc[r] \in Holding \cup {"insert", "discard"} => event[r] \in Events
  /\ queuedBefore \in [Requests -> Nat]
  /\ seen \in [Requests -> SUBSET Nat]
  /\ next \in [Requests -> Nat]
  /\ wrote \in [Requests -> SUBSET Tickets]
  /\ job \in [Requests -> SUBSET Job]
  /\ routed \in [Events -> SUBSET Requests]

Init ==
  /\ inbound = [e \in Events |-> "ABSENT"]
  /\ issueOf = [t \in Tickets |-> IF t \in OldTickets THEN {OldIssue} ELSE {}]
  /\ secondary = {} /\ deleted = {}
  /\ reopens = [t \in Tickets |-> 0]
  /\ signals = [t \in Tickets |-> {}]
  /\ context = {}
  /\ queue = <<>>
  /\ pc = [r \in Requests |-> "idle"]
  /\ event = [r \in Requests |-> NoEvent]
  /\ queuedBefore = [r \in Requests |-> 0]
  /\ seen = [r \in Requests |-> {}]
  /\ next = [r \in Requests |-> 1]
  /\ wrote = [r \in Requests |-> {}]
  /\ job = [r \in Requests |-> {}]
  /\ routed = [e \in Events |-> {}]
  /\ faults = 0 /\ crashes = 0 /\ replays = 0

-----------------------------------------------------------------------------
(***************************************************************************)
(* ingestEvent, up to the end of its transaction.                          *)
(***************************************************************************)
Goto(r, label) == pc' = [pc EXCEPT ![r] = label]

\* The transaction is over, and so is the scope of what it is about.
Leave(r, label) ==
  /\ Goto(r, label)
  /\ event' = [event EXCEPT ![r] = NoEvent]
  /\ queuedBefore' = [queuedBefore EXCEPT ![r] = 0]
  /\ seen' = [seen EXCEPT ![r] = {}]
  /\ next' = [next EXCEPT ![r] = 1]
  /\ wrote' = [wrote EXCEPT ![r] = {}]

\* The length of the queue is read before the transaction begins.
receive(r, e) ==
  /\ pc[r] = "idle"
  /\ Goto(r, "insert")
  /\ event' = [event EXCEPT ![r] = e]
  /\ queuedBefore' = [queuedBefore EXCEPT ![r] = Len(queue)]
  /\ UNCHANGED <<tableVars, queue, seen, next, wrote, job, bounds>>

\* (mutant) The row of a transaction that has not ended does not conflict.
Locked_Never(e) == FALSE

\* INSERT ... ON CONFLICT and UPDATE wait for the transaction that has the row.
Locked(e) == \E s \in Requests : pc[s] \in Holding /\ event[s] = e

insertEvent(r) ==
  /\ pc[r] = "insert" /\ ~Locked(event[r])
  /\ Goto(r, IF inbound[event[r]] = "ABSENT" THEN "route" ELSE "duplicate")
  /\ UNCHANGED <<tableVars, queue, localVars, bounds>>

\* The status becomes DUPLICATE, whatever it was, and nothing is routed.
commitDuplicate(r) ==
  /\ pc[r] = "duplicate"
  /\ inbound' = [inbound EXCEPT ![event[r]] = "DUPLICATE"]
  /\ Leave(r, "drain")
  /\ UNCHANGED <<issueVars, context, routed, queue, job, bounds>>

\* handleTicketCreated inserts the issue and queues its job before it links the
\* ticket; deletions and merges go on to update rows of issue_tickets; the
\* other handlers look for the issue of the ticket, and recordReopen counts its
\* own reopen with those that are committed.
routeEvent(r) ==
  /\ pc[r] = "route"
  /\ \/ /\ Created(r)
        /\ queue' = Append(queue, [ticket |-> Ticket(r), issue |-> r])
        /\ Goto(r, "link")
        /\ UNCHANGED seen
     \/ /\ Marks(event[r])
        /\ Goto(r, "update")
        /\ UNCHANGED <<queue, seen>>
     \/ /\ ~Created(r) /\ ~Marks(event[r])
        /\ seen' = [seen EXCEPT ![r] =
                      IF issueOf[Ticket(r)] = {} THEN {} ELSE {reopens[Ticket(r)] + 1}]
        /\ Goto(r, "commit")
        /\ UNCHANGED queue
  /\ UNCHANGED <<tableVars, event, queuedBefore, next, wrote, job, bounds>>

\* The row of t in issue_tickets has been updated by a transaction that has not
\* ended.
Holds(s, t) == pc[s] \in {"update", "commit"} /\ t \in wrote[s]

\* handleTicketDeleted, and handleTicketMerged for each id in turn: the UPDATE
\* waits for whoever holds the row; the tickets that have none are passed over.
updateTicket(r) ==
  LET ids == Ids(event[r])
      t == ids[next[r]]
  IN
  /\ pc[r] = "update"
  /\ \A s \in Requests \ {r} : ~Holds(s, t)
  /\ wrote' = IF issueOf[t] # {} THEN [wrote EXCEPT ![r] = @ \cup {t}] ELSE wrote
  /\ next' = [next EXCEPT ![r] = @ + 1]
  /\ Goto(r, IF next[r] = Len(ids) THEN "commit" ELSE "update")
  /\ UNCHANGED <<tableVars, queue, event, queuedBefore, seen, job, bounds>>

\* Another transaction has inserted a row for the ticket, or updated the one it
\* has, and not ended.
Linking(r) ==
  \E s \in Requests \ {r} :
    \/ pc[s] = "commit" /\ Created(s) /\ Ticket(s) = Ticket(r)
    \/ Holds(s, Ticket(r))

\* (mutant) UNIQUE (tenant_id, issue_id, zendesk_ticket_id): every issue is new.
TicketTaken_PerIssue(t) == FALSE

\* UNIQUE (tenant_id, zendesk_ticket_id) of issue_tickets.
TicketTaken(t) == issueOf[t] # {}

\* INSERT INTO issue_tickets, then the card: a ticket that has an issue
\* violates the constraint, and the transaction is rolled back.
linkTicket(r) ==
  /\ pc[r] = "link" /\ ~Linking(r)
  /\ Goto(r, IF TicketTaken(Ticket(r)) THEN "discard" ELSE "commit")
  /\ UNCHANGED <<tableVars, queue, localVars, bounds>>

\* (mutant) A gate of 3 makes the second reopen HIGH.
severityOf_OneEarly(n) ==
  IF n + 1 >= Gate THEN "HIGH" ELSE IF 2 * n >= Gate THEN "MEDIUM" ELSE "LOW"

\* recordReopen: HIGH from the gate on, MEDIUM from half of it, rounded up.
severityOf(n) ==
  IF n >= Gate THEN "HIGH" ELSE IF 2 * n >= Gate THEN "MEDIUM" ELSE "LOW"

\* What the handler of r has written.
Apply(r) ==
  LET t == Ticket(r)
      k == Kind[event[r]]
  IN
  /\ issueOf' = IF k = "created" THEN [issueOf EXCEPT ![t] = {r}] ELSE issueOf
  /\ deleted' = IF k = "deleted" THEN deleted \cup wrote[r] ELSE deleted
  /\ secondary' = IF k = "merged" THEN secondary \cup wrote[r] ELSE secondary
  /\ IF k = "reopened" /\ seen[r] # {}
     THEN /\ reopens' = [reopens EXCEPT ![t] = @ + 1]
          /\ signals' = [signals EXCEPT ![t] = @ \cup {severityOf(n) : n \in seen[r]}]
     ELSE UNCHANGED <<reopens, signals>>

\* COMMIT.  Its answer may be lost: the handler then takes it for a failure.
commit(r) ==
  /\ pc[r] = "commit"
  /\ Apply(r)
  /\ inbound' = [inbound EXCEPT ![event[r]] = "PROCESSED"]
  /\ routed' = [routed EXCEPT ![event[r]] = @ \cup {r}]
  /\ \/ Leave(r, "drain") /\ UNCHANGED faults
     \/ /\ faults < MaxFaults
        /\ faults' = faults + 1
        /\ Goto(r, "discard")
        /\ UNCHANGED <<event, queuedBefore, seen, next, wrote>>
  /\ UNCHANGED <<context, queue, job, crashes, replays>>

\* (mutant) handleTicketDeleted writes on a connection of its own.
statementFails_KeepsDeletion(r) ==
  /\ pc[r] \in Holding \cup {"insert"}
  /\ faults < MaxFaults
  /\ faults' = faults + 1
  /\ Goto(r, "discard")
  /\ deleted' = IF Kind[event[r]] = "deleted" THEN deleted \cup wrote[r] ELSE deleted
  /\ UNCHANGED <<inbound, issueOf, secondary, reopens, signals, context, routed,
                 queue, localVars, crashes, replays>>

\* A statement fails, and the transaction is rolled back.
statementFails(r) ==
  /\ pc[r] \in Holding \cup {"insert"}
  /\ faults < MaxFaults
  /\ faults' = faults + 1
  /\ Goto(r, "discard")
  /\ UNCHANGED <<tableVars, queue, localVars, crashes, replays>>

-----------------------------------------------------------------------------
(***************************************************************************)
(* Who waits for whom, and what ends it when the waits form a circle.      *)
(***************************************************************************)
\* r stands at a statement that waits for the end of the transaction of s.
WaitsFor(r, s) ==
  /\ s # r
  /\ \/ pc[r] = "insert" /\ pc[s] \in Holding /\ event[s] = event[r]
     \/ pc[r] = "link" /\ pc[s] = "commit" /\ Created(s) /\ Ticket(s) = Ticket(r)
     \/ pc[r] = "link" /\ Holds(s, Ticket(r))
     \/ pc[r] = "update" /\ Holds(s, Ids(event[r])[next[r]])

Circle(S) ==
  /\ S # {}
  /\ \A r \in S : (\E s \in S : WaitsFor(r, s)) /\ (\E s \in S : WaitsFor(s, r))

\* The database fails the statement of one of them, and its event is lost.
deadlockDetected(r) ==
  /\ \E S \in SUBSET Requests : r \in S /\ Circle(S)
  /\ Goto(r, "discard")
  /\ UNCHANGED <<tableVars, queue, localVars, bounds>>

-----------------------------------------------------------------------------
\* pendingIngestion.length = n: drops the jobs behind, or appends holes.
WithLength(q, n) == [i \in 1 .. n |-> IF i <= Len(q) THEN q[i] ELSE Hole]

\* The catch block; the provider is answered 200 all the same.
discardJobs(r) ==
  /\ pc[r] = "discard"
  /\ queue' = WithLength(queue, queuedBefore[r])
  /\ Leave(r, "answered")
  /\ UNCHANGED <<tableVars, job, bounds>>

-----------------------------------------------------------------------------
(***************************************************************************)
(* drainPendingIngestion.                                                  *)
(***************************************************************************)
\* (mutant) The job leaves the queue when it has been ingested.
takeJob_Peeks(r) ==
  /\ pc[r] = "drain" /\ queue # <<>>
  /\ IF Head(queue) = Hole
     THEN Goto(r, "answered") /\ queue' = Tail(queue) /\ UNCHANGED job
     ELSE /\ Goto(r, "ingest") /\ job' = [job EXCEPT ![r] = {Head(queue)}]
          /\ UNCHANGED queue
  /\ UNCHANGED <<tableVars, event, queuedBefore, seen, next, wrote, bounds>>

\* A hole ends the drain.
takeJob(r) ==
  /\ pc[r] = "drain" /\ queue # <<>>
  /\ queue' = Tail(queue)
  /\ IF Head(queue) = Hole
     THEN Goto(r, "answered") /\ UNCHANGED job
     ELSE Goto(r, "ingest") /\ job' = [job EXCEPT ![r] = {Head(queue)}]
  /\ UNCHANGED <<tableVars, event, queuedBefore, seen, next, wrote, bounds>>

endDrain(r) ==
  /\ pc[r] = "drain" /\ queue = <<>>
  /\ Goto(r, "answered")
  /\ UNCHANGED <<tableVars, queue, localVars, bounds>>

\* Issues with a committed row.
Issues == UNION {issueOf[t] : t \in Tickets}

\* ingestTicketContext: its first insert refers to the issue and fails when no
\* committed row has that id.  A failure is logged, and the job is gone.
ingest(r) ==
  /\ pc[r] = "ingest"
  /\ LET i == {j.issue : j \in job[r]}
     IN  \/ i \subseteq Issues /\ context' = context \cup i /\ UNCHANGED faults
         \/ ~(i \subseteq Issues) /\ UNCHANGED <<context, faults>>
         \/ /\ i \subseteq Issues /\ faults < MaxFaults
            /\ faults' = faults + 1
            /\ UNCHANGED context
  /\ job' = [job EXCEPT ![r] = {}]
  /\ Goto(r, "drain")
  /\ UNCHANGED <<inbound, issueVars, routed, queue, event, queuedBefore, seen, next,
                 wrote, crashes, replays>>

-----------------------------------------------------------------------------
(***************************************************************************)
(* Restarts and operators.                                                 *)
(***************************************************************************)
\* The queue and every request go with the process; open transactions roll back.
restart ==
  /\ crashes < MaxCrashes
  /\ crashes' = crashes + 1
  /\ queue' = <<>>
  /\ job' = [r \in Requests |-> {}]
  /\ pc' = [r \in Requests |-> IF pc[r] = "idle" THEN "idle" ELSE "answered"]
  /\ event' = [r \in Requests |-> NoEvent]
  /\ queuedBefore' = [r \in Requests |-> 0]
  /\ seen' = [r \in Requests |-> {}]
  /\ next' = [r \in Requests |-> 1]
  /\ wrote' = [r \in Requests |-> {}]
  /\ UNCHANGED <<tableVars, faults, replays>>

\* POST /ops/inbound-events/:event_id/replay: one UPDATE, and nothing reads it.
replayEvent(e) ==
  /\ replays < MaxReplays
  /\ inbound[e] # "ABSENT" /\ ~Locked(e)
  /\ replays' = replays + 1
  /\ inbound' = [inbound EXCEPT ![e] = "RECEIVED"]
  /\ UNCHANGED <<issueVars, context, routed, queue, pc, localVars, faults, crashes>>

\* POST /ops/issues/:issue_id/refresh-evidence needs a primary ticket.
refreshEvidence(t) ==
  /\ issueOf[t] # {} /\ t \notin secondary
  /\ context' = context \cup issueOf[t]
  /\ UNCHANGED <<inbound, issueVars, routed, queue, pc, localVars, bounds>>

-----------------------------------------------------------------------------
HandlerStep(r) ==
  \/ insertEvent(r)
  \/ commitDuplicate(r)
  \/ routeEvent(r)
  \/ updateTicket(r)
  \/ linkTicket(r)
  \/ commit(r)
  \/ discardJobs(r)
  \/ takeJob(r)
  \/ endDrain(r)
  \/ ingest(r)

Next ==
  \/ \E r \in Requests, e \in Events : receive(r, e)
  \/ \E r \in Requests : HandlerStep(r) \/ statementFails(r) \/ deadlockDetected(r)
  \/ restart
  \/ \E e \in Events : replayEvent(e)
  \/ \E t \in Tickets : refreshEvidence(t)

Spec == Init /\ [][Next]_webhookVars

-----------------------------------------------------------------------------
(***************************************************************************)
(* Properties.                                                             *)
(***************************************************************************)
\* Every event is applied by at most one of its deliveries, and has a row
\* exactly when one did: redeliveries, two deliveries at once, failures, lost
\* answers, restarts and replays by operators neither apply it again nor leave
\* a row for what was rolled back (ON CONFLICT of ingestEvent).
EventsApplyOnce ==
  \A e \in Events :
    /\ Cardinality(routed[e]) <= 1
    /\ inbound[e] = "ABSENT" <=> routed[e] = {}

\* A ticket has one issue, that of the one ticket.created that was applied,
\* although another event announces the ticket again and both are handled at
\* once: the one that comes second is rolled back with its issue and its row.
OneIssuePerTicket ==
  \A t \in Tickets :
    LET creators == UNION {routed[e] : e \in {e \in Events :
                             Kind[e] = "created" /\ TicketOf[e] = t}}
    IN  /\ issueOf[t] = IF t \in OldTickets THEN {OldIssue} ELSE creators
        /\ Cardinality(issueOf[t]) <= 1

\* No signal is more severe than the number of distinct reopens of the ticket
\* justifies: a redelivery, or a rolled back attempt, must not make a customer
\* look like one who keeps reopening (recordReopen; HIGH denies a refund).
SignalsAreEarned ==
  \A t \in Tickets :
    LET n == Cardinality({e \in Events : Kind[e] = "reopened" /\ TicketOf[e] = t
                                           /\ routed[e] # {}})
    IN  /\ "HIGH" \in signals[t] => n >= Gate
        /\ "MEDIUM" \in signals[t] => 2 * n >= Gate

\* No job is ingested by two drains, nor queued while one ingests it, although
\* all requests drain the one queue (shift of drainPendingIngestion).
JobsAreTakenOnce ==
  \A r \in Requests : job[r] # {} =>
    /\ \A s \in Requests \ {r} : job[s] \cap job[r] = {}
    /\ \A i \in DOMAIN queue : queue[i] \notin job[r]

\* Requests that wait for each other in a circle are merges, and such that no
\* order of the tickets is that of all their lists: events, deletions and
\* announcements of tickets never deadlock, with each other or with merges, and
\* merges that list tickets in one order do not either (the UPDATEs of one
\* transaction in the loop of handleTicketUpdated).
InOrder(e, rank) ==
  \A i, k \in DOMAIN Ids(e) : i < k => rank[Ids(e)[i]] < rank[Ids(e)[k]]

OnlyMergesDeadlock ==
  \A S \in SUBSET Requests : Circle(S) =>
    /\ \A r \in S : Kind[event[r]] = "merged"
    /\ \A rank \in [Tickets -> 1 .. Cardinality(Tickets)] :
         \E r \in S : ~InOrder(event[r], rank)
=============================================================================
