--------------------------- MODULE WebhooksProofs ---------------------------
(***************************************************************************)
(* The invariants of Webhooks, proved for any requests, events, tickets    *)
(* and bounds, under WebhooksAssumption.                                   *)
(***************************************************************************)
EXTENDS WebhooksContract, FiniteSetTheorems, WellFoundedInduction, TLAPS

(***************************************************************************)
(* The inductive invariant.                                                *)
(***************************************************************************)
\* Rows and routings: a row stands for one routing, and a transaction that
\* routes an event has it to itself.
RowsOK ==
  /\ \A e \in Events : inbound[e] = "ABSENT" <=> routed[e] = {}
  /\ \A e \in Events : \A q, r \in routed[e] : q = r
  /\ \A r \in Requests : pc[r] \in Routing => inbound[event[r]] = "ABSENT"
  /\ \A r \in Requests : pc[r] = "duplicate" => inbound[event[r]] # "ABSENT"
  /\ \A q, r \in Requests :
       pc[q] \in Holding /\ pc[r] \in Holding /\ event[q] = event[r] => q = r

Creators(t) ==
  UNION {routed[e] : e \in {e \in Events : Kind[e] = "created" /\ TicketOf[e] = t}}

Linked(r) == pc[r] = "commit" /\ Created(r)

\* Tickets: a row that is about to be committed is the only one of its ticket.
TicketsOK ==
  /\ \A t \in Tickets :
       issueOf[t] = IF t \in OldTickets THEN {OldIssue} ELSE Creators(t)
  /\ \A t \in Tickets : \A i, k \in issueOf[t] : i = k
  /\ \A r \in Requests : Linked(r) => issueOf[Ticket(r)] = {}
  /\ \A q, r \in Requests : Linked(q) /\ Linked(r) /\ Ticket(q) = Ticket(r) => q = r

Reopened(t) ==
  {e \in Events : Kind[e] = "reopened" /\ TicketOf[e] = t /\ routed[e] # {}}

\* Signals: a transaction counts no more reopens than there are, with its own,
\* and nothing before it has looked.
SignalsOK ==
  /\ \A t \in Tickets : reopens[t] <= Cardinality(Reopened(t))
  /\ \A r \in Requests :
       pc[r] \in {"idle", "insert", "route", "link", "update"} => seen[r] = {}
  /\ \A r \in Requests : pc[r] = "commit" =>
       \A n \in seen[r] : n <= Cardinality(Reopened(Ticket(r))) + 1
  /\ \A t \in Tickets :
       /\ "HIGH" \in signals[t] => Cardinality(Reopened(t)) >= Gate
       /\ "MEDIUM" \in signals[t] => 2 * Cardinality(Reopened(t)) >= Gate

\* Jobs: all in the queue differ, from each other and from those in hand, and
\* each was queued by the request whose issue it names.
Unqueued == {"idle", "insert", "route"}

JobsOK ==
  /\ \A i, k \in DOMAIN queue : queue[i] # Hole /\ queue[i] = queue[k] => i = k
  /\ \A i \in DOMAIN queue : queue[i] # Hole => pc[queue[i].issue] \notin Unqueued
  /\ \A r \in Requests : \A j \in job[r] : pc[j.issue] \notin Unqueued
  /\ JobsAreTakenOnce

\* Locks: a transaction that marks tickets has been through its list up to the
\* next one, and holds the rows of those that it found, among them all tickets
\* that were known from the beginning.
Past(r) == {Ids(event[r])[i] : i \in 1 .. next[r] - 1}

LockOK(r) ==
  /\ pc[r] \notin {"update", "commit", "discard"} => next[r] = 1 /\ wrote[r] = {}
  /\ pc[r] = "link" => Created(r)
  /\ pc[r] = "update" => Marks(event[r]) /\ next[r] \in 1 .. Len(Ids(event[r]))
  /\ pc[r] = "commit" =>
       IF Marks(event[r]) THEN next[r] = Len(Ids(event[r])) + 1 ELSE wrote[r] = {}
  /\ pc[r] \in {"update", "commit"} /\ Marks(event[r]) =>
       /\ wrote[r] \subseteq Past(r)
       /\ Past(r) \cap OldTickets \subseteq wrote[r]
       /\ \A t \in wrote[r] : issueOf[t] # {}

LocksOK == \A r \in Requests : LockOK(r)

WInv == TypeOK /\ RowsOK /\ TicketsOK /\ SignalsOK /\ JobsOK /\ LocksOK

-----------------------------------------------------------------------------
LEMMA InitInv == Init => WInv
<1> SUFFICES ASSUME Init PROVE WInv
  OBVIOUS
<1>1. TypeOK
  <2>1. issueOf \in [Tickets -> SUBSET IssueId]
    BY DEF Init, IssueId
  <2>2. queue \in Seq(Job \cup {Hole})
    BY DEF Init
  <2>3. reopens \in [Tickets -> Nat] /\ queuedBefore \in [Requests -> Nat]
    BY DEF Init
  <2>4. pc \in [Requests -> PCs] /\ \A r \in Requests : pc[r] = "idle"
    BY DEF Init, PCs
  <2> QED BY <2>1, <2>2, <2>3, <2>4 DEF Init, TypeOK, Holding, Routing
<1>2. RowsOK
  BY DEF Init, RowsOK, Routing, Holding
<1>3. TicketsOK
  <2>1. \A t \in Tickets : Creators(t) = {}
    BY DEF Init, Creators
  <2> QED BY <2>1 DEF Init, TicketsOK, Linked
<1>4. SignalsOK
  <2>1. \A t \in Tickets : Reopened(t) = {}
    BY DEF Init, Reopened
  <2>2. Cardinality({}) = 0
    BY FS_EmptySet
  <2>3. \A t \in Tickets : signals[t] = {}
    BY DEF Init
  <2>4. \A t \in Tickets : reopens[t] <= Cardinality(Reopened(t))
    <3>1. \A t \in Tickets : reopens[t] = 0
      BY DEF Init
    <3>2. \A t \in Tickets : Cardinality(Reopened(t)) = 0
      BY <2>1, <2>2
    <3> QED BY <3>1, <3>2
  <2> QED BY <2>3, <2>4 DEF Init, SignalsOK
<1>5. JobsOK
  BY DEF Init, JobsOK, JobsAreTakenOnce
<1>6. LocksOK
  BY DEF Init, LocksOK, LockOK
<1> QED BY <1>1, <1>2, <1>3, <1>4, <1>5, <1>6 DEF WInv

-----------------------------------------------------------------------------
(***************************************************************************)
(* Types.                                                                  *)
(***************************************************************************)
LEMMA WithLengthType ==
  ASSUME NEW S, Hole \in S, NEW q \in Seq(S), NEW n \in Nat
  PROVE  WithLength(q, n) \in Seq(S)
BY DEF WithLength

LEMMA ExceptType ==
  ASSUME NEW D, NEW R, NEW f \in [D -> R], NEW d, NEW v \in R
  PROVE  [f EXCEPT ![d] = v] \in [D -> R]
OBVIOUS

LEMMA AppendType ==
  ASSUME NEW S, NEW q \in Seq(S), NEW v \in S
  PROVE  Append(q, v) \in Seq(S)
OBVIOUS

\* What an event marks is a list of tickets that is not empty.
LEMMA IdsType ==
  ASSUME NEW e \in Events, Marks(e)
  PROVE  Ids(e) \in Seq(Tickets) /\ Len(Ids(e)) \in Nat \ {0}
<1>1. CASE Kind[e] = "deleted"
  BY <1>1, WebhooksAssumption DEF Ids
<1>2. CASE Kind[e] = "merged"
  <2>1. MergedIds[e] \in Seq(Tickets) /\ MergedIds[e] # <<>>
    BY <1>2, WebhooksAssumption
  <2> QED BY <1>2, <2>1 DEF Ids
<1> QED BY <1>1, <1>2 DEF Marks

LEMMA TypeStep ==
  ASSUME TypeOK, LocksOK, Next
  PROVE  TypeOK'
<1> USE WebhooksAssumption DEF TypeOK, PCs, Holding, Routing, localVars, bounds,
        tableVars, issueVars
<1>1. ASSUME NEW r \in Requests, NEW e \in Events, receive(r, e) PROVE TypeOK'
  BY <1>1 DEF receive, Goto
<1>2. ASSUME NEW r \in Requests, insertEvent(r) PROVE TypeOK'
  BY <1>2 DEF insertEvent, Goto
<1>3. ASSUME NEW r \in Requests, commitDuplicate(r) PROVE TypeOK'
  BY <1>3 DEF commitDuplicate, Leave, Goto, InboundStatus
<1>4. ASSUME NEW r \in Requests, routeEvent(r) PROVE TypeOK'
  <2>1. Ticket(r) \in Tickets
    BY <1>4 DEF routeEvent, Ticket
  <2>2. queue' \in Seq(Job \cup {Hole})
    <3>1. [ticket |-> Ticket(r), issue |-> r] \in Job
      BY <2>1 DEF Job
    <3>2. Append(queue, [ticket |-> Ticket(r), issue |-> r]) \in Seq(Job \cup {Hole})
      BY <3>1, AppendType
    <3> QED BY <1>4, <3>2 DEF routeEvent
  <2>3. seen' \in [Requests -> SUBSET Nat]
    <3> DEFINE found ==
          IF issueOf[Ticket(r)] = {} THEN {} ELSE {reopens[Ticket(r)] + 1}
    <3>1. found \in SUBSET Nat
      BY <2>1
    <3>2. [seen EXCEPT ![r] = found] \in [Requests -> SUBSET Nat]
      BY <3>1, ExceptType
    <3> QED BY <1>4, <3>2 DEF routeEvent
  <2>4. \E label \in {"link", "update", "commit"} : pc' = [pc EXCEPT ![r] = label]
    BY <1>4 DEF routeEvent, Goto
  <2> QED BY <1>4, <2>2, <2>3, <2>4 DEF routeEvent
<1>5. ASSUME NEW r \in Requests, linkTicket(r) PROVE TypeOK'
  BY <1>5 DEF linkTicket, Goto
<1>6. ASSUME NEW r \in Requests, commit(r) PROVE TypeOK'
  <2>1. Ticket(r) \in Tickets
    BY <1>6 DEF commit, Ticket
  <2>2. issueOf' \in [Tickets -> SUBSET IssueId]
    BY <1>6, <2>1 DEF commit, Apply, IssueId
  <2>3. secondary' \in SUBSET Tickets /\ deleted' \in SUBSET Tickets
    BY <1>6, <2>1 DEF commit, Apply
  <2>4. reopens' \in [Tickets -> Nat]
    <3>1. reopens' = reopens \/ reopens' = [reopens EXCEPT ![Ticket(r)] = @ + 1]
      BY <1>6 DEF commit, Apply
    <3>2. reopens[Ticket(r)] + 1 \in Nat
      BY <2>1
    <3>3. [reopens EXCEPT ![Ticket(r)] = @ + 1] \in [Tickets -> Nat]
      BY <3>2, ExceptType
    <3> QED BY <3>1, <3>3
  <2>5. signals' \in [Tickets -> SUBSET Severity]
    <3>1. \A n \in seen[r] : severityOf(n) \in Severity
      BY DEF severityOf, Severity
    <3>2. {severityOf(n) : n \in seen[r]} \in SUBSET Severity
      BY <3>1
    <3> DEFINE added == signals[Ticket(r)] \cup {severityOf(n) : n \in seen[r]}
    <3>3. added \in SUBSET Severity
      BY <2>1, <3>2
    <3>4. [signals EXCEPT ![Ticket(r)] = added] \in [Tickets -> SUBSET Severity]
      BY <3>3, ExceptType
    <3> QED BY <1>6, <3>4 DEF commit, Apply
  <2>6. inbound' \in [Events -> InboundStatus \cup {"ABSENT"}]
        /\ routed' \in [Events -> SUBSET Requests]
    BY <1>6 DEF commit, InboundStatus
  <2>7. pc' \in [Requests -> PCs] /\ event' \in [Requests -> Events \cup {NoEvent}]
        /\ \A q \in Requests :
             pc'[q] \in Holding \cup {"insert", "discard"} => event'[q] \in Events
    <3>1. CASE Leave(r, "drain")
      BY <1>6, <3>1 DEF Leave, Goto
    <3>2. CASE Goto(r, "discard") /\ UNCHANGED event
      <4>1. pc[r] \in Holding
        BY <1>6 DEF commit, Holding, Routing
      <4> QED BY <3>2, <4>1 DEF Goto
    <3> QED BY <1>6, <3>1, <3>2 DEF commit
  <2>8. /\ queuedBefore' \in [Requests -> Nat] /\ seen' \in [Requests -> SUBSET Nat]
        /\ next' \in [Requests -> Nat] /\ wrote' \in [Requests -> SUBSET Tickets]
    <3>1. [seen EXCEPT ![r] = {}] \in [Requests -> SUBSET Nat]
      BY ExceptType
    <3>2. [queuedBefore EXCEPT ![r] = 0] \in [Requests -> Nat]
      BY ExceptType
    <3>3. [next EXCEPT ![r] = 1] \in [Requests -> Nat]
      BY ExceptType
    <3>4. [wrote EXCEPT ![r] = {}] \in [Requests -> SUBSET Tickets]
      BY ExceptType
    <3> QED BY <1>6, <3>1, <3>2, <3>3, <3>4 DEF commit, Leave
  <2> QED BY <1>6, <2>2, <2>3, <2>4, <2>5, <2>6, <2>7, <2>8 DEF commit
<1>7. ASSUME NEW r \in Requests, discardJobs(r) PROVE TypeOK'
  <2>1. queue' \in Seq(Job \cup {Hole})
    BY <1>7, WithLengthType DEF discardJobs
  <2> QED BY <1>7, <2>1 DEF discardJobs, Leave, Goto
<1>8. ASSUME NEW r \in Requests, takeJob(r) PROVE TypeOK'
  <2>1. Head(queue) \in Job \cup {Hole} /\ Tail(queue) \in Seq(Job \cup {Hole})
    BY <1>8 DEF takeJob
  <2>2. job' \in [Requests -> SUBSET Job]
    <3>1. CASE Head(queue) = Hole
      BY <1>8, <3>1 DEF takeJob
    <3>2. CASE Head(queue) # Hole
      <4>1. {Head(queue)} \in SUBSET Job
        BY <2>1, <3>2
      <4>2. [job EXCEPT ![r] = {Head(queue)}] \in [Requests -> SUBSET Job]
        BY <4>1, ExceptType
      <4> QED BY <1>8, <3>2, <4>2 DEF takeJob
    <3> QED BY <3>1, <3>2
  <2> QED BY <1>8, <2>1, <2>2, ZenonT(60) DEF takeJob, Goto
<1>9. ASSUME NEW r \in Requests, endDrain(r) PROVE TypeOK'
  BY <1>9 DEF endDrain, Goto
<1>10. ASSUME NEW r \in Requests, ingest(r) PROVE TypeOK'
  <2>1. {j.issue : j \in job[r]} \subseteq IssueId
    BY DEF Job, IssueId
  <2>2. context' \in SUBSET IssueId
    BY <1>10, <2>1 DEF ingest
  <2> QED BY <1>10, <2>2 DEF ingest, Goto
<1>11. ASSUME NEW r \in Requests, statementFails(r) PROVE TypeOK'
  BY <1>11 DEF statementFails, Goto
<1>15. ASSUME NEW r \in Requests, updateTicket(r) PROVE TypeOK'
  <2>1. event[r] \in Events /\ Marks(event[r]) /\ next[r] \in 1 .. Len(Ids(event[r]))
    BY <1>15 DEF updateTicket, LocksOK, LockOK
  <2>2. Ids(event[r])[next[r]] \in Tickets
    BY <2>1, IdsType
  <2>3. next' \in [Requests -> Nat] /\ wrote' \in [Requests -> SUBSET Tickets]
    BY <1>15, <2>2 DEF updateTicket
  <2>4. \E label \in {"update", "commit"} : pc' = [pc EXCEPT ![r] = label]
    BY <1>15 DEF updateTicket, Goto
  <2>5. pc[r] = "update" /\ UNCHANGED <<tableVars, queue, event, queuedBefore, seen, job>>
    BY <1>15 DEF updateTicket
  <2> QED BY <2>3, <2>4, <2>5
<1>16. ASSUME NEW r \in Requests, deadlockDetected(r) PROVE TypeOK'
  <2>1. event[r] \in Events
    BY <1>16 DEF deadlockDetected, Circle, WaitsFor
  <2> QED BY <1>16, <2>1 DEF deadlockDetected, Goto
<1>12. CASE restart
  BY <1>12 DEF restart
<1>13. ASSUME NEW e \in Events, replayEvent(e) PROVE TypeOK'
  BY <1>13 DEF replayEvent, InboundStatus
<1>14. ASSUME NEW t \in Tickets, refreshEvidence(t) PROVE TypeOK'
  BY <1>14 DEF refreshEvidence
<1> QED BY <1>1, <1>2, <1>3, <1>4, <1>5, <1>6, <1>7, <1>8, <1>9, <1>10, <1>11,
           <1>12, <1>13, <1>14, <1>15, <1>16 DEF Next, HandlerStep

-----------------------------------------------------------------------------
(***************************************************************************)
(* Rows.                                                                   *)
(***************************************************************************)
LEMMA RowsStep ==
  ASSUME TypeOK, RowsOK, Next
  PROVE  RowsOK'
<1> USE WebhooksAssumption DEF TypeOK, RowsOK, PCs, Holding, Routing, localVars,
        bounds, tableVars, issueVars
<1>1. ASSUME NEW r \in Requests, NEW e \in Events, receive(r, e) PROVE RowsOK'
  BY <1>1 DEF receive, Goto
<1>2. ASSUME NEW r \in Requests, insertEvent(r) PROVE RowsOK'
  BY <1>2 DEF insertEvent, Goto, Locked
<1>3. ASSUME NEW r \in Requests, commitDuplicate(r) PROVE RowsOK'
  BY <1>3 DEF commitDuplicate, Leave, Goto
<1>4. ASSUME NEW r \in Requests, routeEvent(r) PROVE RowsOK'
  <2>1. pc[r] = "route" /\ UNCHANGED <<inbound, routed, event>>
    BY <1>4 DEF routeEvent
  <2>2. \E label \in {"link", "update", "commit"} : pc' = [pc EXCEPT ![r] = label]
    BY <1>4 DEF routeEvent, Goto
  <2> QED BY <2>1, <2>2
<1>5. ASSUME NEW r \in Requests, linkTicket(r) PROVE RowsOK'
  BY <1>5 DEF linkTicket, Goto
<1>6. ASSUME NEW r \in Requests, commit(r) PROVE RowsOK'
  <2> DEFINE e == event[r]
  <2>1. /\ e \in Events /\ routed[e] = {} /\ pc[r] = "commit"
        /\ inbound' = [inbound EXCEPT ![e] = "PROCESSED"]
        /\ routed' = [routed EXCEPT ![e] = {r}]
    BY <1>6 DEF commit
  <2>2. \E label \in {"drain", "discard"} : pc' = [pc EXCEPT ![r] = label]
    BY <1>6 DEF commit, Leave, Goto
  <2>3. \A q \in Requests \ {r} : event'[q] = event[q]
    BY <1>6 DEF commit, Leave
  <2> QED BY <2>1, <2>2, <2>3
<1>7. ASSUME NEW r \in Requests, discardJobs(r) PROVE RowsOK'
  BY <1>7 DEF discardJobs, Leave, Goto
<1>8. ASSUME NEW r \in Requests, takeJob(r) \/ endDrain(r) \/ ingest(r) PROVE RowsOK'
  <2>1. UNCHANGED <<inbound, routed, event>>
    BY <1>8 DEF takeJob, endDrain, ingest
  <2>2. \E label \in {"drain", "ingest", "answered"} : pc' = [pc EXCEPT ![r] = label]
    BY <1>8 DEF takeJob, endDrain, ingest, Goto
  <2> QED BY <2>1, <2>2
<1>9. ASSUME NEW r \in Requests, statementFails(r) \/ deadlockDetected(r) PROVE RowsOK'
  <2>1. /\ UNCHANGED <<inbound, routed, event>>
        /\ pc' = [pc EXCEPT ![r] = "discard"]
    BY <1>9 DEF statementFails, deadlockDetected, Goto
  <2> QED BY <2>1
<1>13. ASSUME NEW r \in Requests, updateTicket(r) PROVE RowsOK'
  <2>1. pc[r] = "update" /\ UNCHANGED <<inbound, routed, event>>
    BY <1>13 DEF updateTicket
  <2>2. \E label \in {"update", "commit"} : pc' = [pc EXCEPT ![r] = label]
    BY <1>13 DEF updateTicket, Goto
  <2> QED BY <2>1, <2>2
<1>10. CASE restart
  BY <1>10 DEF restart
<1>11. ASSUME NEW e \in Events, replayEvent(e) PROVE RowsOK'
  BY <1>11 DEF replayEvent, Locked
<1>12. ASSUME NEW t \in Tickets, refreshEvidence(t) PROVE RowsOK'
  BY <1>12 DEF refreshEvidence
<1> QED BY <1>1, <1>2, <1>3, <1>4, <1>5, <1>6, <1>7, <1>8, <1>9, <1>10, <1>11,
           <1>12, <1>13 DEF Next, HandlerStep

-----------------------------------------------------------------------------
(***************************************************************************)
(* Tickets.                                                                *)
(***************************************************************************)
\* Only commit and linkTicket matter to them.
LEMMA TicketsFrame ==
  ASSUME TicketsOK, UNCHANGED <<routed, issueOf>>,
         \A r \in Requests : pc'[r] = "commit" /\ Created(r)' => Linked(r) /\ event'[r] = event[r]
  PROVE  TicketsOK'
<1>1. \A t \in Tickets : Creators(t)' = Creators(t)
  BY DEF Creators
<1>2. \A r \in Requests : Linked(r)' => Linked(r) /\ Ticket(r)' = Ticket(r)
  BY DEF Linked, Ticket
<1>3. \A q, r \in Requests : Linked(q)' /\ Linked(r)' /\ Ticket(q)' = Ticket(r)' => q = r
  BY <1>2 DEF TicketsOK
<1>4. \A r \in Requests : Linked(r)' => issueOf'[Ticket(r)'] = {}
  BY <1>2 DEF TicketsOK
<1>5. (\A r \in Requests : Linked(r) => issueOf[Ticket(r)] = {})'
  BY <1>4 DEF Linked, Ticket
<1> QED BY <1>1, <1>3, <1>5 DEF TicketsOK

LEMMA TicketsStep ==
  ASSUME TypeOK, RowsOK, TicketsOK, LocksOK, Next
  PROVE  TicketsOK'
<1> USE WebhooksAssumption
<1>1. ASSUME NEW r \in Requests, NEW e \in Events, receive(r, e) PROVE TicketsOK'
  BY <1>1, TicketsFrame DEF TypeOK, receive, Goto, Linked, Created, tableVars, issueVars
<1>2. ASSUME NEW r \in Requests, insertEvent(r) PROVE TicketsOK'
  BY <1>2, TicketsFrame
     DEF TypeOK, insertEvent, Goto, Linked, Created, tableVars, issueVars, localVars
<1>3. ASSUME NEW r \in Requests, commitDuplicate(r) PROVE TicketsOK'
  BY <1>3, TicketsFrame DEF TypeOK, commitDuplicate, Leave, Goto, Linked, Created, issueVars
<1>4. ASSUME NEW r \in Requests, routeEvent(r) PROVE TicketsOK'
  <2>1. UNCHANGED <<routed, issueOf, event>>
    BY <1>4 DEF routeEvent, tableVars, issueVars
  <2>2. \A q \in Requests : pc'[q] = "commit" /\ Created(q)' => Linked(q)
    BY <1>4, <2>1 DEF TypeOK, routeEvent, Goto, Linked, Created
  <2> QED BY <2>1, <2>2, TicketsFrame
<1>5. ASSUME NEW r \in Requests, linkTicket(r) PROVE TicketsOK'
  <2>1. UNCHANGED <<routed, issueOf, event>>
    BY <1>5 DEF linkTicket, tableVars, issueVars, localVars
  <2>2. CASE issueOf[Ticket(r)] # {}
    <3>1. pc' = [pc EXCEPT ![r] = "discard"]
      BY <1>5, <2>2 DEF linkTicket, TicketTaken, Goto
    <3> QED BY <2>1, <3>1, TicketsFrame DEF TypeOK, Linked, Created
  <2>3. CASE issueOf[Ticket(r)] = {}
    <3>1. pc' = [pc EXCEPT ![r] = "commit"]
      BY <1>5, <2>3 DEF linkTicket, TicketTaken, Goto
    <3>2. \A q \in Requests \ {r} : Linked(q) => Ticket(q) # Ticket(r)
      BY <1>5 DEF linkTicket, Linking, Linked
    <3>3. \A q \in Requests \ {r} : Linked(q)' <=> Linked(q)
      BY <2>1, <3>1 DEF TypeOK, Linked, Created
    <3>4. \A q \in Requests : Ticket(q)' = Ticket(q)
      BY <2>1 DEF Ticket
    <3>5. \A t \in Tickets : Creators(t)' = Creators(t)
      BY <2>1 DEF Creators
    <3>6. \A q \in Requests : Linked(q)' => issueOf[Ticket(q)] = {}
      BY <2>3, <3>3 DEF TicketsOK
    <3>7. (\A q \in Requests : Linked(q) => issueOf[Ticket(q)] = {})'
      BY <2>1, <3>4, <3>6
    <3>8. (\A p, q \in Requests : Linked(p) /\ Linked(q) /\ Ticket(p) = Ticket(q) => p = q)'
      BY <3>2, <3>3, <3>4 DEF TicketsOK
    <3> QED BY <2>1, <3>5, <3>7, <3>8 DEF TicketsOK
  <2> QED BY <2>2, <2>3
<1>6. ASSUME NEW r \in Requests, commit(r) PROVE TicketsOK'
  <2> DEFINE e == event[r]
  <2>0. Ticket(r) \in Tickets
    BY <1>6 DEF commit, TypeOK, Holding, Routing, Ticket
  <2> PICK u \in Tickets : u = Ticket(r)
    BY <2>0
  <2>1. /\ e \in Events /\ routed[e] = {} /\ pc[r] = "commit"
        /\ routed' = [routed EXCEPT ![e] = {r}]
    BY <1>6 DEF commit, TypeOK, RowsOK, Routing, Holding
  <2>2. pc'[r] # "commit" /\ \A q \in Requests \ {r} : pc'[q] = pc[q] /\ event'[q] = event[q]
    BY <1>6 DEF commit, Leave, Goto, TypeOK
  <2>3. \A q \in Requests : Linked(q)' => q # r /\ Linked(q) /\ Ticket(q)' = Ticket(q)
    BY <2>2 DEF Linked, Created, Ticket
  <2>4. (\A p, q \in Requests : Linked(p) /\ Linked(q) /\ Ticket(p) = Ticket(q) => p = q)'
    BY <2>3 DEF TicketsOK
  <2>5. CASE Created(r)
    <3>1. issueOf' = [issueOf EXCEPT ![u] = {r}]
      BY <1>6, <2>5 DEF commit, Apply, Created
    <3>2. Linked(r) /\ issueOf[u] = {} /\ u \notin OldTickets /\ Creators(u) = {}
      BY <2>1, <2>5 DEF Linked, TicketsOK
    <3>3. Creators(u)' = {r}
      <4>1. \A f \in Events : Kind[f] = "created" /\ TicketOf[f] = u => routed[f] = {}
        BY <3>2 DEF Creators
      <4>2. Kind[e] = "created" /\ TicketOf[e] = u
        BY <2>5 DEF Created, Ticket
      <4>3. routed'[e] = {r} /\ \A f \in Events \ {e} : routed'[f] = routed[f]
        BY <2>1 DEF TypeOK
      <4>4. \A f \in Events : Kind[f] = "created" /\ TicketOf[f] = u =>
              routed'[f] \subseteq {r}
        BY <4>1, <4>3
      <4> QED BY <2>1, <4>2, <4>3, <4>4 DEF Creators
    <3>4. \A t \in Tickets \ {u} : Creators(t)' = Creators(t)
      <4>1. TicketOf[e] = u
        BY DEF Ticket
      <4> QED BY <2>1, <4>1 DEF Creators, TypeOK
    <3>5. (\A q \in Requests : Linked(q) => issueOf[Ticket(q)] = {})'
      <4>1. \A q \in Requests : Linked(q)' => Ticket(q) # u /\ issueOf[Ticket(q)] = {}
        BY <2>3, <3>2 DEF TicketsOK
      <4>2. \A q \in Requests : Linked(q)' => issueOf'[Ticket(q)] = {}
        BY <3>1, <4>1 DEF TypeOK
      <4> QED BY <2>3, <4>2
    <3>6. (\A t \in Tickets : issueOf[t] = IF t \in OldTickets THEN {OldIssue} ELSE Creators(t))'
      <4>1. issueOf'[u] = {r}
        BY <2>1, <3>1 DEF TypeOK
      <4>2. \A t \in Tickets \ {u} : issueOf'[t] = issueOf[t]
        BY <3>1 DEF TypeOK
      <4>3. \A t \in Tickets : t # u =>
              issueOf'[t] = IF t \in OldTickets THEN {OldIssue} ELSE Creators(t)'
        BY <3>4, <4>2 DEF TicketsOK
      <4>4. issueOf'[u] = IF u \in OldTickets THEN {OldIssue} ELSE Creators(u)'
        BY <3>2, <3>3, <4>1
      <4>5. \A t \in Tickets :
              issueOf'[t] = IF t \in OldTickets THEN {OldIssue} ELSE Creators(t)'
        BY <4>3, <4>4
      <4> QED BY <4>5
    <3>7. (\A t \in Tickets : \A i, k \in issueOf[t] : i = k)'
      BY <3>1 DEF TypeOK, TicketsOK
    <3> QED BY <2>4, <3>5, <3>6, <3>7 DEF TicketsOK
  <2>6. CASE ~Created(r)
    <3>1. issueOf' = issueOf
      BY <1>6, <2>6 DEF commit, Apply, Created
    <3>2. \A t \in Tickets : Creators(t)' = Creators(t)
      <4>1. Kind[e] # "created"
        BY <2>6 DEF Created
      <4> QED BY <2>1, <4>1 DEF Creators, TypeOK
    <3>3. (\A q \in Requests : Linked(q) => issueOf[Ticket(q)] = {})'
      <4>1. \A q \in Requests : Linked(q)' => issueOf[Ticket(q)'] = {}
        BY <2>3 DEF TicketsOK
      <4> QED BY <3>1, <4>1
    <3> QED BY <2>4, <3>1, <3>2, <3>3 DEF TicketsOK
  <2> QED BY <2>5, <2>6
<1>7. ASSUME NEW r \in Requests, discardJobs(r) PROVE TicketsOK'
  BY <1>7, TicketsFrame DEF TypeOK, discardJobs, Leave, Goto, Linked, Created, tableVars, issueVars
<1>8. ASSUME NEW r \in Requests, takeJob(r) \/ endDrain(r) \/ ingest(r) PROVE TicketsOK'
  <2>1. UNCHANGED <<routed, issueOf, event>>
    BY <1>8 DEF takeJob, endDrain, ingest, tableVars, issueVars, localVars
  <2>2. \E label \in {"drain", "ingest", "answered"} : pc' = [pc EXCEPT ![r] = label]
    BY <1>8 DEF takeJob, endDrain, ingest, Goto
  <2> QED BY <2>1, <2>2, TicketsFrame DEF TypeOK, Linked, Created
<1>9. ASSUME NEW r \in Requests, statementFails(r) \/ deadlockDetected(r)
      PROVE  TicketsOK'
  BY <1>9, TicketsFrame
     DEF TypeOK, statementFails, deadlockDetected, Goto, Linked, Created, tableVars,
         issueVars, localVars
<1>13. ASSUME NEW r \in Requests, updateTicket(r) PROVE TicketsOK'
  <2>1. UNCHANGED <<routed, issueOf, event>> /\ Marks(event[r])
    BY <1>13 DEF updateTicket, tableVars, issueVars, LocksOK, LockOK
  <2>2. \A q \in Requests : pc'[q] = "commit" /\ Created(q)' => Linked(q)
    BY <1>13, <2>1 DEF TypeOK, updateTicket, Goto, Linked, Created, Marks
  <2> QED BY <2>1, <2>2, TicketsFrame
<1>10. CASE restart
  BY <1>10, TicketsFrame DEF restart, tableVars, issueVars
<1>11. ASSUME NEW e \in Events, replayEvent(e) PROVE TicketsOK'
  BY <1>11, TicketsFrame DEF replayEvent, Linked, Created, issueVars, localVars
<1>12. ASSUME NEW t \in Tickets, refreshEvidence(t) PROVE TicketsOK'
  BY <1>12, TicketsFrame DEF refreshEvidence, Linked, Created, issueVars, localVars
<1> QED BY <1>1, <1>2, <1>3, <1>4, <1>5, <1>6, <1>7, <1>8, <1>9, <1>10, <1>11,
           <1>12, <1>13 DEF Next, HandlerStep

-----------------------------------------------------------------------------
(***************************************************************************)
(* Signals.                                                                *)
(***************************************************************************)
LEMMA ReopenedType ==
  ASSUME NEW t
  PROVE  IsFiniteSet(Reopened(t)) /\ Cardinality(Reopened(t)) \in Nat
<1>1. Reopened(t) \subseteq Events
  BY DEF Reopened
<1>2. IsFiniteSet(Reopened(t))
  BY <1>1, FS_Subset, WebhooksAssumption
<1> QED BY <1>2, FS_CardinalityType

\* A step that commits nothing, and counts no reopen, leaves them as they are.
LEMMA SignalsFrame ==
  ASSUME SignalsOK, UNCHANGED <<routed, reopens, signals>>,
         \A r \in Requests : pc'[r] \in {"idle", "insert", "route", "link", "update"} => seen'[r] = {},
         \A r \in Requests : pc'[r] = "commit" =>
           seen'[r] = {} \/ (pc[r] = "commit" /\ UNCHANGED <<seen[r], event[r]>>)
  PROVE  SignalsOK'
<1>1. \A t : Reopened(t)' = Reopened(t)
  BY DEF Reopened
<1>2. (\A r \in Requests : pc[r] = "commit" =>
         \A n \in seen[r] : n <= Cardinality(Reopened(Ticket(r))) + 1)'
  <2> SUFFICES ASSUME NEW r \in Requests, pc'[r] = "commit", NEW n \in seen'[r]
               PROVE  n <= Cardinality(Reopened(Ticket(r)))' + 1
    OBVIOUS
  <2>1. pc[r] = "commit" /\ seen'[r] = seen[r] /\ event'[r] = event[r]
    OBVIOUS
  <2>2. Reopened(Ticket(r))' = Reopened(Ticket(r))
    BY <2>1 DEF Reopened, Ticket
  <2> QED BY <2>1, <2>2 DEF SignalsOK
<1> QED BY <1>1, <1>2 DEF SignalsOK

LEMMA SignalsStep ==
  ASSUME TypeOK, RowsOK, SignalsOK, Next
  PROVE  SignalsOK'
<1> USE WebhooksAssumption
<1>1. ASSUME NEW r \in Requests, NEW e \in Events, receive(r, e) PROVE SignalsOK'
  BY <1>1, SignalsFrame DEF TypeOK, SignalsOK, receive, Goto, tableVars, issueVars
<1>2. ASSUME NEW r \in Requests, insertEvent(r) PROVE SignalsOK'
  BY <1>2, SignalsFrame
     DEF TypeOK, SignalsOK, insertEvent, Goto, tableVars, issueVars, localVars
<1>3. ASSUME NEW r \in Requests, commitDuplicate(r) PROVE SignalsOK'
  BY <1>3, SignalsFrame DEF TypeOK, SignalsOK, commitDuplicate, Leave, Goto, issueVars
<1>5. ASSUME NEW r \in Requests, linkTicket(r) PROVE SignalsOK'
  BY <1>5, SignalsFrame
     DEF TypeOK, SignalsOK, linkTicket, Goto, tableVars, issueVars, localVars
<1>7. ASSUME NEW r \in Requests, discardJobs(r) PROVE SignalsOK'
  BY <1>7, SignalsFrame DEF TypeOK, SignalsOK, discardJobs, Leave, Goto, tableVars, issueVars
<1>8. ASSUME NEW r \in Requests, takeJob(r) \/ endDrain(r) \/ ingest(r) PROVE SignalsOK'
  <2>1. UNCHANGED <<routed, reopens, signals, seen, event>>
    BY <1>8 DEF takeJob, endDrain, ingest, tableVars, issueVars, localVars
  <2>2. \E label \in {"drain", "ingest", "answered"} : pc' = [pc EXCEPT ![r] = label]
    BY <1>8 DEF takeJob, endDrain, ingest, Goto
  <2> QED BY <2>1, <2>2, SignalsFrame DEF TypeOK, SignalsOK
<1>9. ASSUME NEW r \in Requests, statementFails(r) \/ deadlockDetected(r)
      PROVE  SignalsOK'
  BY <1>9, SignalsFrame
     DEF TypeOK, SignalsOK, statementFails, deadlockDetected, Goto, tableVars, issueVars,
         localVars
<1>13. ASSUME NEW r \in Requests, updateTicket(r) PROVE SignalsOK'
  <2>1. pc[r] = "update" /\ UNCHANGED <<routed, reopens, signals, seen, event>>
    BY <1>13 DEF updateTicket, tableVars, issueVars
  <2>2. \E label \in {"update", "commit"} : pc' = [pc EXCEPT ![r] = label]
    BY <1>13 DEF updateTicket, Goto
  <2> QED BY <2>1, <2>2, SignalsFrame DEF TypeOK, SignalsOK
<1>10. CASE restart
  BY <1>10, SignalsFrame DEF restart, SignalsOK, tableVars, issueVars
<1>11. ASSUME NEW e \in Events, replayEvent(e) PROVE SignalsOK'
  BY <1>11, SignalsFrame DEF replayEvent, SignalsOK, issueVars, localVars
<1>12. ASSUME NEW t \in Tickets, refreshEvidence(t) PROVE SignalsOK'
  BY <1>12, SignalsFrame DEF refreshEvidence, SignalsOK, issueVars, localVars
\* The reopen that is being applied is counted with those committed before.
<1>4. ASSUME NEW r \in Requests, routeEvent(r) PROVE SignalsOK'
  <2>1. UNCHANGED <<routed, reopens, signals, event>>
    BY <1>4 DEF routeEvent, tableVars, issueVars
  <2>2. CASE Created(r) \/ Marks(event[r])
    <3>1. /\ seen' = seen /\ pc[r] = "route"
          /\ \E label \in {"link", "update"} : pc' = [pc EXCEPT ![r] = label]
      BY <1>4, <2>2 DEF routeEvent, Goto
    <3> QED BY <2>1, <3>1, SignalsFrame DEF TypeOK, SignalsOK
  <2>3. CASE ~(Created(r) \/ Marks(event[r]))
    <3> DEFINE found ==
          IF issueOf[Ticket(r)] = {} THEN {} ELSE {reopens[Ticket(r)] + 1}
    <3>1. pc' = [pc EXCEPT ![r] = "commit"] /\ seen' = [seen EXCEPT ![r] = found]
      BY <1>4, <2>3 DEF routeEvent, Goto
    <3>2. Ticket(r) \in Tickets
      BY <1>4 DEF routeEvent, TypeOK, Holding, Routing, Ticket
    <3>3. \A t : Reopened(t)' = Reopened(t)
      BY <2>1 DEF Reopened
    <3>4. \A q \in Requests \ {r} : pc'[q] = pc[q] /\ seen'[q] = seen[q]
      BY <3>1 DEF TypeOK
    <3>5. \A n \in found : n <= Cardinality(Reopened(Ticket(r))) + 1
      BY <3>2, ReopenedType DEF TypeOK, SignalsOK
    <3>6. pc'[r] = "commit" /\ seen'[r] = found
      BY <3>1 DEF TypeOK
    <3>7. \A q \in Requests : pc'[q] = "commit" =>
            \A n \in seen'[q] : n <= Cardinality(Reopened(Ticket(q))) + 1
      BY <3>4, <3>5, <3>6 DEF SignalsOK
    <3>8. \A q : Reopened(Ticket(q))' = Reopened(Ticket(q))
      BY <2>1 DEF Reopened, Ticket
    <3>9. (\A q \in Requests :
             pc[q] \in {"idle", "insert", "route", "link", "update"} => seen[q] = {})'
      BY <3>4, <3>6 DEF SignalsOK
    <3> QED BY <2>1, <3>3, <3>7, <3>8, <3>9 DEF SignalsOK
  <2> QED BY <2>2, <2>3
<1>6. ASSUME NEW r \in Requests, commit(r) PROVE SignalsOK'
  <2> DEFINE e == event[r]
  <2>0. e \in Events
    BY <1>6 DEF commit, TypeOK, Holding, Routing
  <2> PICK u \in Tickets : u = TicketOf[e]
    BY <2>0
  <2> PICK h \in SUBSET Nat : h = seen[r]
    BY DEF TypeOK
  <2>1. /\ routed[e] = {} /\ pc[r] = "commit" /\ Ticket(r) = u
        /\ routed' = [routed EXCEPT ![e] = {r}]
    BY <1>6 DEF commit, TypeOK, RowsOK, Routing, Holding, Ticket
  <2>2. /\ pc'[r] \in {"drain", "discard"}
        /\ \A q \in Requests \ {r} :
             pc'[q] = pc[q] /\ event'[q] = event[q] /\ seen'[q] = seen[q]
    BY <1>6 DEF commit, Leave, Goto, TypeOK
  <2>3. routed'[e] = {r} /\ \A f \in Events \ {e} : routed'[f] = routed[f]
    BY <2>0, <2>1 DEF TypeOK
  <2>4. \A t \in Tickets : Cardinality(Reopened(t)) <= Cardinality(Reopened(t)')
    <3> SUFFICES ASSUME NEW t \in Tickets
                 PROVE  Cardinality(Reopened(t)) <= Cardinality(Reopened(t)')
      OBVIOUS
    <3>1. Reopened(t) \subseteq Reopened(t)'
      BY <2>1, <2>3 DEF Reopened
    <3>2. Reopened(t)' \subseteq Events
      BY DEF Reopened
    <3> QED BY <3>1, <3>2, FS_Subset
  <2>5. Kind[e] = "reopened" => Cardinality(Reopened(u)') = Cardinality(Reopened(u)) + 1
    <3> SUFFICES ASSUME Kind[e] = "reopened"
                 PROVE  Cardinality(Reopened(u)') = Cardinality(Reopened(u)) + 1
      OBVIOUS
    <3>1. Reopened(u)' = Reopened(u) \cup {e}
      BY <2>0, <2>3 DEF Reopened
    <3>2. e \notin Reopened(u)
      BY <2>1 DEF Reopened
    <3> QED BY <3>1, <3>2, ReopenedType, FS_AddElement
  <2>6. \A t \in Tickets : Cardinality(Reopened(t)) \in Nat /\ Cardinality(Reopened(t)') \in Nat
    <3>1. \A t \in Tickets : Reopened(t)' \subseteq Events
      BY DEF Reopened
    <3>2. \A t \in Tickets : IsFiniteSet(Reopened(t)')
      BY <3>1, FS_Subset
    <3> QED BY <3>2, ReopenedType, FS_CardinalityType
  <2>7. (\A q \in Requests :
             pc[q] \in {"idle", "insert", "route", "link", "update"} => seen[q] = {})'
    BY <2>2 DEF SignalsOK
  <2>8. (\A q \in Requests : pc[q] = "commit" =>
           \A n \in seen[q] : n <= Cardinality(Reopened(Ticket(q))) + 1)'
    <3> SUFFICES ASSUME NEW q \in Requests, pc'[q] = "commit", NEW n \in seen'[q]
                 PROVE  n <= Cardinality(Reopened(Ticket(q))') + 1
      OBVIOUS
    <3>1. q # r /\ pc[q] = "commit" /\ n \in seen[q] /\ event'[q] = event[q]
      BY <2>2
    <3>2. n \in Nat /\ Ticket(q) \in Tickets
      BY <3>1 DEF TypeOK, Holding, Routing, Ticket
    <3>3. n <= Cardinality(Reopened(Ticket(q))) + 1
      BY <3>1 DEF SignalsOK
    <3> PICK t \in Tickets : t = Ticket(q)
      BY <3>2
    <3>4. Reopened(Ticket(q))' = Reopened(t)'
      BY <3>1 DEF Reopened, Ticket
    <3> QED BY <2>4, <2>6, <3>2, <3>3, <3>4
  <2>9. CASE Kind[e] = "reopened" /\ h # {}
    <3>1. /\ reopens' = [reopens EXCEPT ![u] = @ + 1]
          /\ signals' = [signals EXCEPT ![u] = @ \cup {severityOf(n) : n \in h}]
      BY <1>6, <2>1, <2>9 DEF commit, Apply
    <3>2. (\A t \in Tickets : reopens[t] <= Cardinality(Reopened(t)))'
      <4>1. reopens'[u] <= Cardinality(Reopened(u)')
        BY <2>5, <2>6, <2>9, <3>1 DEF TypeOK, SignalsOK
      <4>2. \A t \in Tickets \ {u} : reopens'[t] <= Cardinality(Reopened(t)')
        BY <2>4, <2>6, <3>1 DEF TypeOK, SignalsOK
      <4> QED BY <4>1, <4>2
    <3>3. \A n \in h : n \in Nat /\ n <= Cardinality(Reopened(u)')
      BY <2>1, <2>5, <2>6, <2>9 DEF TypeOK, SignalsOK
    <3>4. \A n \in h :
            /\ severityOf(n) = "HIGH" => Cardinality(Reopened(u)') >= Gate
            /\ severityOf(n) = "MEDIUM" => 2 * Cardinality(Reopened(u)') >= Gate
      BY <2>6, <3>3 DEF severityOf
    <3>5. signals'[u] = signals[u] \cup {severityOf(n) : n \in h}
      BY <3>1 DEF TypeOK
    <3>6. /\ "HIGH" \in signals'[u] => Cardinality(Reopened(u)') >= Gate
          /\ "MEDIUM" \in signals'[u] => 2 * Cardinality(Reopened(u)') >= Gate
      <4>1. /\ "HIGH" \in signals[u] => Cardinality(Reopened(u)') >= Gate
            /\ "MEDIUM" \in signals[u] => 2 * Cardinality(Reopened(u)') >= Gate
        BY <2>4, <2>6 DEF SignalsOK
      <4> QED BY <3>4, <3>5, <4>1
    <3>7. \A t \in Tickets \ {u} :
            /\ "HIGH" \in signals'[t] => Cardinality(Reopened(t)') >= Gate
            /\ "MEDIUM" \in signals'[t] => 2 * Cardinality(Reopened(t)') >= Gate
      <4>1. \A t \in Tickets \ {u} : signals'[t] = signals[t]
        BY <3>1 DEF TypeOK
      <4> QED BY <2>4, <2>6, <4>1 DEF SignalsOK
    <3>8. (\A t \in Tickets :
             /\ "HIGH" \in signals[t] => Cardinality(Reopened(t)) >= Gate
             /\ "MEDIUM" \in signals[t] => 2 * Cardinality(Reopened(t)) >= Gate)'
      BY <3>6, <3>7
    <3> QED BY <2>7, <2>8, <3>2, <3>8 DEF SignalsOK
  <2>10. CASE ~(Kind[e] = "reopened" /\ h # {})
    <3>1. UNCHANGED <<reopens, signals>>
      BY <1>6, <2>10 DEF commit, Apply
    <3>2. (\A t \in Tickets : reopens[t] <= Cardinality(Reopened(t)))'
      BY <2>4, <2>6, <3>1 DEF TypeOK, SignalsOK
    <3>3. (\A t \in Tickets :
             /\ "HIGH" \in signals[t] => Cardinality(Reopened(t)) >= Gate
             /\ "MEDIUM" \in signals[t] => 2 * Cardinality(Reopened(t)) >= Gate)'
      BY <2>4, <2>6, <3>1 DEF SignalsOK
    <3> QED BY <2>7, <2>8, <3>2, <3>3 DEF SignalsOK
  <2> QED BY <2>9, <2>10
<1> QED BY <1>1, <1>2, <1>3, <1>4, <1>5, <1>6, <1>7, <1>8, <1>9, <1>10, <1>11,
           <1>12, <1>13 DEF Next, HandlerStep

-----------------------------------------------------------------------------
(***************************************************************************)
(* Jobs.                                                                   *)
(***************************************************************************)
LEMMA TailIndex ==
  ASSUME NEW S, NEW q \in Seq(S), q # <<>>
  PROVE  \A i \in DOMAIN Tail(q) : i + 1 \in DOMAIN q /\ Tail(q)[i] = q[i + 1] /\ i >= 1
OBVIOUS

LEMMA AppendIndex ==
  ASSUME NEW S, NEW q \in Seq(S), NEW v \in S
  PROVE  \A i \in DOMAIN Append(q, v) :
           \/ i \in DOMAIN q /\ Append(q, v)[i] = q[i]
           \/ i = Len(q) + 1 /\ Append(q, v)[i] = v
OBVIOUS

\* A step that takes jobs away, and starts no request that has queued one.
LEMMA JobsShrink ==
  ASSUME JobsOK, TypeOK,
         \A i \in DOMAIN queue' : queue'[i] # Hole => i \in DOMAIN queue /\ queue'[i] = queue[i],
         \A r \in Requests : job'[r] \subseteq job[r],
         \A r \in Requests : pc'[r] \in Unqueued => pc[r] \in Unqueued
  PROVE  JobsOK'
<1>1. \A i \in DOMAIN queue : queue[i] # Hole => queue[i].issue \in Requests
  BY DEF TypeOK, Job
<1>2. \A r \in Requests : \A j \in job[r] : j.issue \in Requests
  BY DEF TypeOK, Job
<1>3. (\A i, k \in DOMAIN queue : queue[i] # Hole /\ queue[i] = queue[k] => i = k)'
  BY DEF JobsOK
<1>4. (\A i \in DOMAIN queue : queue[i] # Hole => pc[queue[i].issue] \notin Unqueued)'
  BY <1>1 DEF JobsOK
<1>5. (\A r \in Requests : \A j \in job[r] : pc[j.issue] \notin Unqueued)'
  BY <1>2 DEF JobsOK
<1>6. \A r \in Requests : \A j \in job[r] : j # Hole
  BY WebhooksAssumption DEF TypeOK
<1>7. JobsAreTakenOnce'
  <2> SUFFICES ASSUME NEW r \in Requests, job'[r] # {}
               PROVE  /\ \A s \in Requests \ {r} : job'[s] \cap job'[r] = {}
                      /\ \A i \in DOMAIN queue' : queue'[i] \notin job'[r]
    BY DEF JobsAreTakenOnce
  <2>1. job[r] # {}
    OBVIOUS
  <2>2. \A s \in Requests \ {r} : job[s] \cap job[r] = {}
    BY <2>1 DEF JobsOK, JobsAreTakenOnce
  <2>3. \A i \in DOMAIN queue : queue[i] \notin job[r]
    BY <2>1 DEF JobsOK, JobsAreTakenOnce
  <2> QED BY <1>6, <2>2, <2>3
<1> QED BY <1>3, <1>4, <1>5, <1>7 DEF JobsOK

LEMMA JobsStep ==
  ASSUME TypeOK, JobsOK, Next
  PROVE  JobsOK'
<1> USE WebhooksAssumption DEF Unqueued
<1>1. ASSUME NEW r \in Requests, NEW e \in Events, receive(r, e) PROVE JobsOK'
  BY <1>1, JobsShrink DEF TypeOK, receive, Goto
<1>2. ASSUME NEW r \in Requests, insertEvent(r) PROVE JobsOK'
  BY <1>2, JobsShrink DEF TypeOK, insertEvent, Goto, localVars
<1>3. ASSUME NEW r \in Requests, commitDuplicate(r) PROVE JobsOK'
  BY <1>3, JobsShrink DEF TypeOK, commitDuplicate, Leave, Goto
<1>5. ASSUME NEW r \in Requests, linkTicket(r) PROVE JobsOK'
  BY <1>5, JobsShrink DEF TypeOK, linkTicket, Goto, localVars
<1>6. ASSUME NEW r \in Requests, commit(r) PROVE JobsOK'
  BY <1>6, JobsShrink DEF TypeOK, commit, Leave, Goto
<1>7. ASSUME NEW r \in Requests, discardJobs(r) PROVE JobsOK'
  <2>1. \A i \in DOMAIN queue' :
          queue'[i] # Hole => i \in DOMAIN queue /\ queue'[i] = queue[i]
    BY <1>7 DEF TypeOK, discardJobs, WithLength
  <2> QED BY <1>7, <2>1, JobsShrink DEF TypeOK, discardJobs, Leave, Goto
<1>9. ASSUME NEW r \in Requests, endDrain(r) PROVE JobsOK'
  BY <1>9, JobsShrink DEF TypeOK, endDrain, Goto, localVars
<1>10. ASSUME NEW r \in Requests, ingest(r) PROVE JobsOK'
  BY <1>10, JobsShrink DEF TypeOK, ingest, Goto
<1>11. ASSUME NEW r \in Requests, statementFails(r) \/ deadlockDetected(r) PROVE JobsOK'
  BY <1>11, JobsShrink DEF TypeOK, statementFails, deadlockDetected, Goto, localVars
<1>15. ASSUME NEW r \in Requests, updateTicket(r) PROVE JobsOK'
  <2>1. UNCHANGED <<queue, job>>
    BY <1>15 DEF updateTicket
  <2>2. \E label \in {"update", "commit"} : pc' = [pc EXCEPT ![r] = label]
    BY <1>15 DEF updateTicket, Goto
  <2> QED BY <2>1, <2>2, JobsShrink DEF TypeOK
<1>12. CASE restart
  BY <1>12, JobsShrink DEF restart
<1>13. ASSUME NEW e \in Events, replayEvent(e) PROVE JobsOK'
  BY <1>13, JobsShrink DEF replayEvent, localVars
<1>14. ASSUME NEW t \in Tickets, refreshEvidence(t) PROVE JobsOK'
  BY <1>14, JobsShrink DEF refreshEvidence, localVars
\* A request queues the job of its own issue, which nobody can have before.
<1>4. ASSUME NEW r \in Requests, routeEvent(r) PROVE JobsOK'
  <2>1. pc[r] = "route" /\ job' = job
    BY <1>4 DEF routeEvent
  <2>2. \E label \in {"link", "update", "commit"} : pc' = [pc EXCEPT ![r] = label]
    BY <1>4 DEF routeEvent, Goto
  <2>3. \A q \in Requests : pc'[q] \in Unqueued => pc[q] \in Unqueued
    BY <2>1, <2>2 DEF TypeOK
  <2>4. CASE ~Created(r)
    <3>1. queue' = queue
      BY <1>4, <2>4 DEF routeEvent
    <3> QED BY <2>1, <2>3, <3>1, JobsShrink
  <2>5. CASE Created(r)
    <3> DEFINE new == [ticket |-> Ticket(r), issue |-> r]
    <3> PICK j : j = new
      OBVIOUS
    <3>1. j \in Job /\ j.issue = r
      BY <2>1 DEF Job, TypeOK, Ticket, Holding, Routing
    <3>2. queue' = Append(queue, j) /\ j # Hole
      BY <1>4, <2>5, <3>1 DEF routeEvent, Created, Marks
    <3>3. \A i \in DOMAIN queue' :
            \/ i \in DOMAIN queue /\ queue'[i] = queue[i]
            \/ i = Len(queue) + 1 /\ queue'[i] = j
      BY <3>1, <3>2, AppendIndex DEF TypeOK
    <3>4. \A i \in DOMAIN queue : queue[i] # j
      BY <2>1, <3>1, <3>2 DEF JobsOK
    <3>5. \A q \in Requests : j \notin job[q]
      BY <2>1, <3>1 DEF JobsOK
    <3>6. \A i \in DOMAIN queue : queue[i] # Hole => queue[i].issue \in Requests
      BY DEF TypeOK, Job
    <3>7. \A q \in Requests : \A k \in job[q] : k.issue \in Requests
      BY DEF TypeOK, Job
    <3>8. (\A i, k \in DOMAIN queue : queue[i] # Hole /\ queue[i] = queue[k] => i = k)'
      BY <3>3, <3>4 DEF JobsOK
    <3>9. (\A i \in DOMAIN queue : queue[i] # Hole => pc[queue[i].issue] \notin Unqueued)'
      <4>1. pc'[r] \notin Unqueued
        BY <2>1, <2>2 DEF TypeOK
      <4> QED BY <2>3, <3>1, <3>3, <3>6, <4>1 DEF JobsOK
    <3>10. (\A q \in Requests : \A k \in job[q] : pc[k.issue] \notin Unqueued)'
      BY <2>1, <2>3, <3>7 DEF JobsOK
    <3>11. JobsAreTakenOnce'
      BY <2>1, <3>3, <3>5 DEF JobsOK, JobsAreTakenOnce
    <3> QED BY <3>8, <3>9, <3>10, <3>11 DEF JobsOK
  <2> QED BY <2>4, <2>5
\* The job that is taken is no longer in the queue, where it was once.
<1>8. ASSUME NEW r \in Requests, takeJob(r) PROVE JobsOK'
  <2>1. pc[r] = "drain" /\ queue # <<>> /\ queue' = Tail(queue)
    BY <1>8 DEF takeJob
  <2>2. \E label \in {"answered", "ingest"} : pc' = [pc EXCEPT ![r] = label]
    BY <1>8 DEF takeJob, Goto
  <2>3. \A q \in Requests : pc'[q] \in Unqueued => pc[q] \in Unqueued
    BY <2>1, <2>2 DEF TypeOK
  <2>4. \A i \in DOMAIN queue' :
          /\ i \in Nat /\ i >= 1 /\ i + 1 \in DOMAIN queue
          /\ queue'[i] = queue[i + 1]
    BY <2>1, TailIndex DEF TypeOK
  <2>5. 1 \in DOMAIN queue /\ Head(queue) = queue[1]
    BY <2>1 DEF TypeOK
  <2>6. \A i \in DOMAIN queue : queue[i] # Hole => queue[i].issue \in Requests
    BY DEF TypeOK, Job
  <2>7. (\A i, k \in DOMAIN queue : queue[i] # Hole /\ queue[i] = queue[k] => i = k)'
    <3> SUFFICES ASSUME NEW i \in DOMAIN queue', NEW k \in DOMAIN queue',
                        queue'[i] # Hole, queue'[i] = queue'[k]
                 PROVE  i = k
      OBVIOUS
    <3>1. i + 1 = k + 1
      BY <2>4 DEF JobsOK
    <3> QED BY <2>4, <3>1
  <2>8. (\A i \in DOMAIN queue : queue[i] # Hole => pc[queue[i].issue] \notin Unqueued)'
    BY <2>3, <2>4, <2>6 DEF JobsOK
  <2>9. CASE Head(queue) = Hole
    <3>1. job' = job
      BY <1>8, <2>9 DEF takeJob
    <3>2. \A q \in Requests : \A k \in job[q] : k.issue \in Requests
      BY DEF TypeOK, Job
    <3>3. (\A q \in Requests : \A k \in job[q] : pc[k.issue] \notin Unqueued)'
      BY <2>3, <3>1, <3>2 DEF JobsOK
    <3>4. JobsAreTakenOnce'
      BY <2>4, <3>1 DEF JobsOK, JobsAreTakenOnce
    <3> QED BY <2>7, <2>8, <3>3, <3>4 DEF JobsOK
  <2>10. CASE Head(queue) # Hole
    <3> PICK j : j = Head(queue)
      OBVIOUS
    <3>1. job'[r] = {j} /\ \A q \in Requests \ {r} : job'[q] = job[q]
      BY <1>8, <2>10 DEF takeJob, TypeOK
    <3>2. j.issue \in Requests /\ pc[j.issue] \notin Unqueued
      BY <2>5, <2>6, <2>10 DEF JobsOK
    <3>3. \A q \in Requests : \A k \in job[q] : k.issue \in Requests
      BY DEF TypeOK, Job
    <3>4. (\A q \in Requests : \A k \in job[q] : pc[k.issue] \notin Unqueued)'
      BY <2>3, <3>1, <3>2, <3>3 DEF JobsOK
    <3>5. \A q \in Requests : j \notin job[q]
      BY <2>5 DEF JobsOK, JobsAreTakenOnce
    <3>6. \A i \in DOMAIN queue' : queue'[i] # j
      <4> SUFFICES ASSUME NEW i \in DOMAIN queue', queue'[i] = j
                   PROVE  FALSE
        OBVIOUS
      <4>1. i + 1 = 1
        BY <2>4, <2>5, <2>10 DEF JobsOK
      <4> QED BY <2>4, <4>1
    <3>7. JobsAreTakenOnce'
      <4> SUFFICES ASSUME NEW q \in Requests, job'[q] # {}
                   PROVE  /\ \A s \in Requests \ {q} : job'[s] \cap job'[q] = {}
                          /\ \A i \in DOMAIN queue' : queue'[i] \notin job'[q]
        BY DEF JobsAreTakenOnce
      <4>1. CASE q = r
        BY <3>1, <3>5, <3>6, <4>1
      <4>2. CASE q # r
        <5>1. job'[q] = job[q] /\ job[q] # {}
          BY <3>1, <4>2
        <5>2. /\ \A s \in Requests \ {q} : job[s] \cap job[q] = {}
              /\ \A i \in DOMAIN queue : queue[i] \notin job[q]
          BY <5>1 DEF JobsOK, JobsAreTakenOnce
        <5>3. \A s \in Requests \ {q} : job'[s] \cap job'[q] = {}
          BY <3>1, <3>5, <5>1, <5>2
        <5> QED BY <2>4, <5>1, <5>2, <5>3
      <4> QED BY <4>1, <4>2
    <3> QED BY <2>7, <2>8, <3>4, <3>7 DEF JobsOK
  <2> QED BY <2>9, <2>10
<1> QED BY <1>1, <1>2, <1>3, <1>4, <1>5, <1>6, <1>7, <1>8, <1>9, <1>10, <1>11,
           <1>12, <1>13, <1>14, <1>15 DEF Next, HandlerStep

-----------------------------------------------------------------------------
(***************************************************************************)
(* Locks.                                                                  *)
(***************************************************************************)
\* A request that leaves its transaction, or has none yet, is about no ticket.
Outside(r) ==
  /\ pc[r] \notin {"link", "update", "commit"}
  /\ pc[r] = "discard" \/ (next[r] = 1 /\ wrote[r] = {})

\* Issues stay, so what a transaction holds stays as it is.
LEMMA LocksFrame ==
  ASSUME LocksOK, TypeOK,
         \A t \in Tickets : issueOf[t] # {} => issueOf'[t] # {},
         \A r \in Requests :
           Outside(r)' \/ UNCHANGED <<pc[r], event[r], next[r], wrote[r]>>
  PROVE  LocksOK'
<1> SUFFICES ASSUME NEW r \in Requests PROVE LockOK(r)'
  BY DEF LocksOK
<1>1. CASE Outside(r)'
  BY <1>1 DEF LockOK, Outside
<1>2. CASE UNCHANGED <<pc[r], event[r], next[r], wrote[r]>>
  <2>1. Past(r)' = Past(r) /\ Created(r)' = Created(r) /\ wrote[r] \subseteq Tickets
    BY <1>2 DEF Past, Created, TypeOK
  <2> QED BY <1>2, <2>1 DEF LocksOK, LockOK
<1> QED BY <1>1, <1>2

LEMMA LocksStep ==
  ASSUME TypeOK, TicketsOK, LocksOK, Next
  PROVE  LocksOK'
<1>0. \A r \in Requests :
        pc[r] \notin {"update", "commit", "discard"} => next[r] = 1 /\ wrote[r] = {}
  BY DEF LocksOK, LockOK
<1>1. ASSUME NEW r \in Requests, NEW e \in Events, receive(r, e) PROVE LocksOK'
  BY <1>0, <1>1, LocksFrame DEF TypeOK, receive, Goto, Outside, tableVars, issueVars
<1>2. ASSUME NEW r \in Requests, insertEvent(r) PROVE LocksOK'
  BY <1>0, <1>2, LocksFrame
     DEF TypeOK, insertEvent, Goto, Outside, tableVars, issueVars, localVars
<1>3. ASSUME NEW r \in Requests, commitDuplicate(r) PROVE LocksOK'
  BY <1>3, LocksFrame DEF TypeOK, commitDuplicate, Leave, Goto, Outside, issueVars
\* A deletion or a merge begins with the first ticket of its list.
<1>4. ASSUME NEW r \in Requests, routeEvent(r) PROVE LocksOK'
  <2>1. /\ pc[r] = "route" /\ UNCHANGED <<issueOf, event, next, wrote>>
        /\ event[r] \in Events /\ next[r] = 1 /\ wrote[r] = {}
    BY <1>0, <1>4 DEF TypeOK, Holding, Routing, routeEvent, tableVars, issueVars
  <2>2. \A q \in Requests \ {r} : pc'[q] = pc[q]
    BY <1>4 DEF TypeOK, routeEvent, Goto
  <2>3. ASSUME NEW q \in Requests, q # r PROVE LockOK(q)'
    <3>1. Past(q)' = Past(q) /\ Created(q)' = Created(q)
      BY <2>1 DEF Past, Created
    <3> QED BY <2>1, <2>2, <2>3, <3>1 DEF LocksOK, LockOK
  <2>4. LockOK(r)'
    <3>1. \/ pc'[r] = "link" /\ Created(r)
          \/ pc'[r] = "update" /\ Marks(event[r])
          \/ pc'[r] = "commit" /\ ~Marks(event[r])
      BY <1>4 DEF TypeOK, routeEvent, Goto
    <3>2. Past(r)' = {} /\ Created(r)' = Created(r)
      BY <2>1 DEF Past, Created
    <3>3. Marks(event[r]) => 1 \in 1 .. Len(Ids(event[r]))
      BY <2>1, IdsType
    <3> QED BY <2>1, <3>1, <3>2, <3>3 DEF LockOK
  <2> QED BY <2>3, <2>4 DEF LocksOK
\* The ticket is passed, and held if it has a row.
<1>5. ASSUME NEW r \in Requests, updateTicket(r) PROVE LocksOK'
  <2> DEFINE t == Ids(event[r])[next[r]]
  <2>1. /\ pc[r] = "update" /\ UNCHANGED <<issueOf, event>>
        /\ \A q \in Requests \ {r} :
             pc'[q] = pc[q] /\ next'[q] = next[q] /\ wrote'[q] = wrote[q]
        /\ next'[r] = next[r] + 1
        /\ wrote'[r] = IF issueOf[t] # {} THEN wrote[r] \cup {t} ELSE wrote[r]
        /\ pc'[r] = IF next[r] = Len(Ids(event[r])) THEN "commit" ELSE "update"
    BY <1>5 DEF TypeOK, updateTicket, Goto, tableVars, issueVars
  <2>2. ASSUME NEW q \in Requests, q # r PROVE LockOK(q)'
    <3>1. Past(q)' = Past(q) /\ Created(q)' = Created(q)
      BY <2>1, <2>2 DEF Past, Created
    <3> QED BY <2>1, <2>2, <3>1 DEF LocksOK, LockOK
  <2>3. LockOK(r)'
    <3>1. /\ event[r] \in Events /\ Marks(event[r])
          /\ next[r] \in 1 .. Len(Ids(event[r])) /\ wrote[r] \subseteq Past(r)
          /\ Past(r) \cap OldTickets \subseteq wrote[r]
          /\ \A u \in wrote[r] : issueOf[u] # {}
      BY <2>1 DEF LocksOK, LockOK, TypeOK, Holding, Routing
    <3>2. Ids(event[r]) \in Seq(Tickets) /\ Len(Ids(event[r])) \in Nat
      BY <3>1, IdsType
    <3>3. Past(r)' = Past(r) \cup {t}
      <4>1. 1 .. next[r] = (1 .. next[r] - 1) \cup {next[r]}
        BY <3>1, <3>2
      <4> QED BY <2>1, <4>1 DEF Past, TypeOK
    <3>4. t \in OldTickets => issueOf[t] # {}
      BY WebhooksAssumption DEF TicketsOK
    <3>5. pc'[r] = "update" => next'[r] \in 1 .. Len(Ids(event[r]))
      BY <2>1, <3>1, <3>2
    <3>6. pc'[r] = "commit" => next'[r] = Len(Ids(event[r])) + 1
      BY <2>1, <3>1, <3>2
    <3> QED BY <2>1, <3>1, <3>3, <3>4, <3>5, <3>6 DEF LockOK
  <2> QED BY <2>2, <2>3 DEF LocksOK
\* The request that links its ticket marks none.
<1>6. ASSUME NEW r \in Requests, linkTicket(r) PROVE LocksOK'
  <2>1. /\ pc[r] = "link" /\ UNCHANGED <<issueOf, event, next, wrote>>
        /\ \A q \in Requests \ {r} : pc'[q] = pc[q]
        /\ pc'[r] \in {"discard", "commit"}
    BY <1>6 DEF TypeOK, linkTicket, Goto, tableVars, issueVars, localVars
  <2>2. \A q \in Requests : Past(q)' = Past(q) /\ Created(q)' = Created(q)
    BY <2>1 DEF Past, Created
  <2>3. wrote[r] = {} /\ ~Marks(event[r])
    BY <1>0, <2>1 DEF LocksOK, LockOK, Created, Marks
  <2>4. LockOK(r)'
    BY <2>1, <2>2, <2>3 DEF LockOK
  <2>5. \A q \in Requests \ {r} : LockOK(q)'
    BY <2>1, <2>2 DEF LocksOK, LockOK
  <2> QED BY <2>4, <2>5 DEF LocksOK
<1>7. ASSUME NEW r \in Requests, commit(r) PROVE LocksOK'
  <2>1. \A t \in Tickets : issueOf[t] # {} => issueOf'[t] # {}
    BY <1>7 DEF TypeOK, commit, Apply
  <2>2. \A q \in Requests :
          Outside(q)' \/ UNCHANGED <<pc[q], event[q], next[q], wrote[q]>>
    BY <1>7 DEF TypeOK, commit, Leave, Goto, Outside
  <2> QED BY <2>1, <2>2, LocksFrame
<1>8. ASSUME NEW r \in Requests, discardJobs(r) PROVE LocksOK'
  BY <1>8, LocksFrame DEF TypeOK, discardJobs, Leave, Goto, Outside, tableVars, issueVars
<1>9. ASSUME NEW r \in Requests, takeJob(r) \/ endDrain(r) \/ ingest(r) PROVE LocksOK'
  <2>1. /\ UNCHANGED <<issueOf, event, next, wrote>>
        /\ pc[r] \in {"drain", "ingest"}
    BY <1>9 DEF takeJob, endDrain, ingest, tableVars, issueVars, localVars
  <2>2. \E label \in {"drain", "ingest", "answered"} : pc' = [pc EXCEPT ![r] = label]
    BY <1>9 DEF takeJob, endDrain, ingest, Goto
  <2>3. \A q \in Requests :
          Outside(q)' \/ UNCHANGED <<pc[q], event[q], next[q], wrote[q]>>
    BY <1>0, <2>1, <2>2 DEF TypeOK, Outside
  <2> QED BY <2>1, <2>3, LocksFrame
<1>10. ASSUME NEW r \in Requests, statementFails(r) \/ deadlockDetected(r)
       PROVE  LocksOK'
  BY <1>10, LocksFrame DEF TypeOK, statementFails, deadlockDetected, Goto, Outside,
     tableVars, issueVars, localVars
<1>11. CASE restart
  BY <1>11, LocksFrame DEF restart, Outside, tableVars, issueVars
<1>12. ASSUME NEW e \in Events, replayEvent(e) PROVE LocksOK'
  BY <1>12, LocksFrame DEF replayEvent, issueVars, localVars
<1>13. ASSUME NEW t \in Tickets, refreshEvidence(t) PROVE LocksOK'
  BY <1>13, LocksFrame DEF refreshEvidence, issueVars, localVars
<1> QED BY <1>1, <1>2, <1>3, <1>4, <1>5, <1>6, <1>7, <1>8, <1>9, <1>10, <1>11, <1>12,
           <1>13 DEF Next, HandlerStep
-----------------------------------------------------------------------------
(***************************************************************************)
(* The theorems.                                                           *)
(***************************************************************************)
\* Every reachable state satisfies the inductive invariant.
THEOREM Invariance == Spec => []WInv
<1>1. WInv /\ [Next]_webhookVars => WInv'
  <2> SUFFICES ASSUME WInv, [Next]_webhookVars PROVE WInv'
    OBVIOUS
  <2>1. CASE Next
    BY <2>1, TypeStep, RowsStep, TicketsStep, SignalsStep, JobsStep, LocksStep
       DEF WInv
  <2>2. CASE UNCHANGED webhookVars
    <3> USE <2>2 DEF webhookVars, tableVars, issueVars, localVars, bounds
    <3>1. TypeOK'
      BY DEF WInv, TypeOK
    <3>2. RowsOK'
      BY DEF WInv, RowsOK
    <3>3. TicketsOK'
      BY TicketsFrame DEF WInv, Linked, Created
    <3>4. SignalsOK'
      BY SignalsFrame DEF WInv, SignalsOK
    <3>5. JobsOK'
      BY JobsShrink DEF WInv
    <3>6. LocksOK'
      BY LocksFrame DEF WInv
    <3> QED BY <3>1, <3>2, <3>3, <3>4, <3>5, <3>6 DEF WInv
  <2> QED BY <2>1, <2>2
<1> QED BY InitInv, <1>1, PTL DEF Spec

\* The state of the handlers, the tables and the queue is well formed.
THEOREM TypeCorrect == Spec => []TypeOK
<1>1. WInv => TypeOK
  BY DEF WInv
<1> QED BY Invariance, <1>1, PTL

LEMMA AtMostOne ==
  ASSUME NEW S, \A x, y \in S : x = y
  PROVE  Cardinality(S) <= 1
<1>1. CASE S = {}
  BY <1>1, FS_EmptySet
<1>2. CASE S # {}
  <2> PICK x \in S : TRUE
    BY <1>2
  <2>1. S = {x}
    OBVIOUS
  <2> QED BY <2>1, FS_Singleton
<1> QED BY <1>1, <1>2

\* Whatever the provider redelivers, whatever fails and whatever is replayed,
\* an event is applied once or leaves no row (ingestEvent).
THEOREM AppliedOnce == Spec => []EventsApplyOnce
<1>1. WInv => EventsApplyOnce
  BY AtMostOne DEF WInv, RowsOK, EventsApplyOnce
<1> QED BY Invariance, <1>1, PTL

\* A ticket has the issue of the one event that created it (handleTicketCreated).
THEOREM TicketsHaveOneIssue == Spec => []OneIssuePerTicket
<1>1. WInv => OneIssuePerTicket
  BY AtMostOne DEF WInv, TicketsOK, OneIssuePerTicket, Creators
<1> QED BY Invariance, <1>1, PTL

\* No signal is more severe than the reopens of its ticket (recordReopen).
THEOREM SeverityIsEarned == Spec => []SignalsAreEarned
<1>1. WInv => SignalsAreEarned
  BY DEF WInv, SignalsOK, SignalsAreEarned, Reopened
<1> QED BY Invariance, <1>1, PTL

\* No job is in two hands, or in one and in the queue (drainPendingIngestion).
THEOREM JobsTakenOnce == Spec => []JobsAreTakenOnce
<1>1. WInv => JobsAreTakenOnce
  BY DEF WInv, JobsOK
<1> QED BY Invariance, <1>1, PTL
-----------------------------------------------------------------------------
(***************************************************************************)
(* Webhooks implements EventContract.                                      *)
(***************************************************************************)
\* What a handler knows of its ticket when it commits may be old, but has not
\* become false: the issue it found is still there, and the reopens it counted
\* have not become fewer.
FoundOK ==
  \A r \in Requests :
    pc[r] = "commit" =>
      /\ \E n \in Nat : seen[r] \subseteq {n} /\ n <= reopens[Ticket(r)] + 1
      /\ seen[r] # {} => issueOf[Ticket(r)] # {}
      /\ Kind[event[r]] = "reopened" /\ Ticket(r) \in OldTickets => seen[r] # {}

\* What handlers know stays true as tables only grow.
LEMMA FoundFrame ==
  ASSUME FoundOK, TypeOK, TypeOK',
         \A t \in Tickets : reopens[t] <= reopens'[t],
         \A t \in Tickets : issueOf[t] # {} => issueOf'[t] # {},
         \A r \in Requests : pc'[r] = "commit" =>
           pc[r] = "commit" /\ event'[r] = event[r] /\ seen'[r] = seen[r]
  PROVE  FoundOK'
<1> SUFFICES ASSUME NEW r \in Requests, pc'[r] = "commit"
             PROVE  /\ \E n \in Nat :
                         seen'[r] \subseteq {n} /\ n <= reopens'[Ticket(r)'] + 1
                    /\ seen'[r] # {} => issueOf'[Ticket(r)'] # {}
                    /\ Kind[event'[r]] = "reopened" /\ Ticket(r)' \in OldTickets
                         => seen'[r] # {}
  BY DEF FoundOK
<1>1. /\ pc[r] = "commit" /\ event'[r] = event[r] /\ seen'[r] = seen[r]
      /\ Ticket(r)' = Ticket(r)
  BY DEF Ticket
<1>2. Ticket(r) \in Tickets
  BY <1>1, WebhooksAssumption DEF TypeOK, Ticket, Holding, Routing
<1>3. PICK n \in Nat : seen[r] \subseteq {n} /\ n <= reopens[Ticket(r)] + 1
  BY <1>1 DEF FoundOK
<1>4. reopens[Ticket(r)] <= reopens'[Ticket(r)]
      /\ reopens[Ticket(r)] \in Nat /\ reopens'[Ticket(r)] \in Nat
  BY <1>2 DEF TypeOK
<1>5. n <= reopens'[Ticket(r)] + 1
  BY <1>3, <1>4
<1>6. /\ seen[r] # {} => issueOf[Ticket(r)] # {}
      /\ Kind[event[r]] = "reopened" /\ Ticket(r) \in OldTickets => seen[r] # {}
  BY <1>1 DEF FoundOK
<1> QED BY <1>1, <1>2, <1>3, <1>5, <1>6

\* A commit adds to what handlers have found.
LEMMA CommitGrows ==
  ASSUME TypeOK, NEW r \in Requests, commit(r)
  PROVE  /\ \A t \in Tickets : reopens[t] <= reopens'[t]
         /\ \A t \in Tickets : issueOf[t] # {} => issueOf'[t] # {}
<1>1. Ticket(r) \in Tickets
  BY WebhooksAssumption DEF TypeOK, commit, Ticket, Holding, Routing
<1>2. reopens' = reopens \/ reopens' = [reopens EXCEPT ![Ticket(r)] = @ + 1]
  BY DEF commit, Apply
<1>3. issueOf' = issueOf \/ issueOf' = [issueOf EXCEPT ![Ticket(r)] = {r}]
  BY DEF commit, Apply
<1>4. ASSUME NEW t \in Tickets PROVE reopens[t] <= reopens'[t]
  <2>1. reopens[t] \in Nat /\ (reopens'[t] = reopens[t] \/ reopens'[t] = reopens[t] + 1)
    BY <1>2 DEF TypeOK
  <2> QED BY <2>1
<1>5. ASSUME NEW t \in Tickets, issueOf[t] # {} PROVE issueOf'[t] # {}
  BY <1>3, <1>5 DEF TypeOK
<1> QED BY <1>4, <1>5

LEMMA FoundStep ==
  ASSUME WInv, WInv', FoundOK, Next
  PROVE  FoundOK'
<1> USE DEF WInv
<1>0. \A t \in Tickets : reopens[t] <= reopens[t]
  BY DEF TypeOK
<1>1. ASSUME NEW r \in Requests, NEW e \in Events, receive(r, e) PROVE FoundOK'
  BY <1>0, <1>1, FoundFrame DEF TypeOK, receive, Goto, tableVars, issueVars
<1>2. ASSUME NEW r \in Requests, insertEvent(r) PROVE FoundOK'
  <2>1. UNCHANGED <<reopens, issueOf, event, seen>>
    BY <1>2 DEF insertEvent, tableVars, issueVars, localVars
  <2>2. \A q \in Requests : pc'[q] = "commit" => pc'[q] = pc[q]
    BY <1>2 DEF TypeOK, insertEvent, Goto
  <2> QED BY <1>0, <2>1, <2>2, FoundFrame
<1>3. ASSUME NEW r \in Requests, commitDuplicate(r) PROVE FoundOK'
  <2>1. UNCHANGED <<reopens, issueOf>>
    BY <1>3 DEF commitDuplicate, issueVars
  <2>2. \A q \in Requests : pc'[q] = "commit" =>
          pc'[q] = pc[q] /\ event'[q] = event[q] /\ seen'[q] = seen[q]
    BY <1>3 DEF TypeOK, commitDuplicate, Leave, Goto
  <2> QED BY <1>0, <2>1, <2>2, FoundFrame
\* The handler finds the issue and counts the reopens that are committed.
<1>4. ASSUME NEW r \in Requests, routeEvent(r) PROVE FoundOK'
  <2>1. /\ pc[r] = "route" /\ UNCHANGED <<reopens, issueOf, event>>
        /\ \A q \in Requests : Ticket(q)' = Ticket(q)
    BY <1>4 DEF routeEvent, tableVars, issueVars, Ticket
  <2>2. Ticket(r) \in Tickets
    BY <2>1, WebhooksAssumption DEF TypeOK, Ticket, Holding, Routing
  <2>3. \A q \in Requests \ {r} : pc'[q] = pc[q] /\ seen'[q] = seen[q]
    BY <1>4 DEF TypeOK, routeEvent, Goto
  <2>4. CASE Created(r) \/ Marks(event[r])
    <3>1. pc'[r] # "commit"
      BY <1>4, <2>4 DEF TypeOK, routeEvent, Goto
    <3> QED BY <2>1, <2>3, <3>1 DEF FoundOK
  <2>5. CASE ~(Created(r) \/ Marks(event[r]))
    <3>1. /\ issueOf[Ticket(r)] = {} => seen'[r] = {}
          /\ issueOf[Ticket(r)] # {} => seen'[r] = {reopens[Ticket(r)] + 1}
      BY <1>4, <2>5 DEF TypeOK, routeEvent, Goto
    <3>2. reopens[Ticket(r)] \in Nat
      BY <2>2 DEF TypeOK
    <3>3. \E n \in Nat : seen'[r] \subseteq {n} /\ n <= reopens[Ticket(r)] + 1
      <4>1. CASE issueOf[Ticket(r)] = {}
        <5>1. seen'[r] \subseteq {0} /\ 0 <= reopens[Ticket(r)] + 1
          BY <3>1, <3>2, <4>1
        <5> QED BY <5>1
      <4>2. CASE issueOf[Ticket(r)] # {}
        <5>1. /\ reopens[Ticket(r)] + 1 \in Nat
              /\ reopens[Ticket(r)] + 1 <= reopens[Ticket(r)] + 1
          BY <3>2
        <5> QED BY <3>1, <4>2, <5>1
      <4> QED BY <4>1, <4>2
    <3>4. Ticket(r) \in OldTickets => issueOf[Ticket(r)] # {}
      BY <2>2 DEF TicketsOK
    <3>5. /\ seen'[r] # {} => issueOf[Ticket(r)] # {}
          /\ Ticket(r) \in OldTickets => seen'[r] # {}
      BY <3>1, <3>4
    <3>6. ASSUME NEW q \in Requests, pc'[q] = "commit"
          PROVE  /\ \E n \in Nat : seen'[q] \subseteq {n} /\ n <= reopens[Ticket(q)] + 1
                 /\ seen'[q] # {} => issueOf[Ticket(q)] # {}
                 /\ Kind[event[q]] = "reopened" /\ Ticket(q) \in OldTickets
                      => seen'[q] # {}
      <4>1. CASE q = r
        BY <3>3, <3>5, <4>1
      <4>2. CASE q # r
        BY <2>3, <3>6, <4>2 DEF FoundOK
      <4> QED BY <4>1, <4>2
    <3> QED BY <2>1, <3>6 DEF FoundOK
  <2> QED BY <2>4, <2>5
\* The one that has linked its ticket, or marked its tickets, has counted nothing.
<1>5. ASSUME NEW r \in Requests, linkTicket(r) \/ updateTicket(r) PROVE FoundOK'
  <2>1. /\ pc[r] \in {"link", "update"} /\ UNCHANGED <<reopens, issueOf, event, seen>>
        /\ \A q \in Requests : Ticket(q)' = Ticket(q)
    BY <1>5 DEF linkTicket, updateTicket, tableVars, issueVars, localVars, Ticket
  <2>2. \A q \in Requests \ {r} : pc'[q] = pc[q]
    BY <1>5 DEF TypeOK, linkTicket, updateTicket, Goto
  <2>3. seen[r] = {} /\ Ticket(r) \in Tickets
    BY <2>1, WebhooksAssumption DEF SignalsOK, TypeOK, Ticket, Holding, Routing
  <2>4. Kind[event[r]] # "reopened"
    BY <2>1 DEF LocksOK, LockOK, Created, Marks
  <2>5. \E n \in Nat : seen[r] \subseteq {n} /\ n <= reopens[Ticket(r)] + 1
    <3>1. seen[r] \subseteq {0} /\ 0 <= reopens[Ticket(r)] + 1
      BY <2>3 DEF TypeOK
    <3> QED BY <3>1
  <2>6. ASSUME NEW q \in Requests, pc'[q] = "commit"
        PROVE  /\ \E n \in Nat : seen[q] \subseteq {n} /\ n <= reopens[Ticket(q)] + 1
               /\ seen[q] # {} => issueOf[Ticket(q)] # {}
               /\ Kind[event[q]] = "reopened" /\ Ticket(q) \in OldTickets => seen[q] # {}
    <3>1. CASE q = r
      BY <2>3, <2>4, <2>5, <3>1
    <3>2. CASE q # r
      BY <2>2, <2>6, <3>2 DEF FoundOK
    <3> QED BY <3>1, <3>2
  <2> QED BY <2>1, <2>6 DEF FoundOK
<1>6. ASSUME NEW r \in Requests, commit(r) PROVE FoundOK'
  <2>1. \A q \in Requests : pc'[q] = "commit" =>
          pc'[q] = pc[q] /\ event'[q] = event[q] /\ seen'[q] = seen[q]
    BY <1>6 DEF TypeOK, commit, Leave, Goto
  <2> QED BY <1>6, <2>1, CommitGrows, FoundFrame
<1>7. ASSUME NEW r \in Requests, discardJobs(r) PROVE FoundOK'
  <2>1. UNCHANGED <<reopens, issueOf>>
    BY <1>7 DEF discardJobs, tableVars, issueVars
  <2>2. \A q \in Requests : pc'[q] = "commit" =>
          pc'[q] = pc[q] /\ event'[q] = event[q] /\ seen'[q] = seen[q]
    BY <1>7 DEF TypeOK, discardJobs, Leave, Goto
  <2> QED BY <1>0, <2>1, <2>2, FoundFrame
<1>8. ASSUME NEW r \in Requests,
             \/ takeJob(r) \/ endDrain(r) \/ ingest(r)
             \/ statementFails(r) \/ deadlockDetected(r)
      PROVE  FoundOK'
  <2>1. UNCHANGED <<reopens, issueOf, event, seen>>
    BY <1>8 DEF takeJob, endDrain, ingest, statementFails, deadlockDetected, tableVars,
       issueVars, localVars
  <2>2. \E label \in {"drain", "ingest", "answered", "discard"} :
          pc' = [pc EXCEPT ![r] = label]
    BY <1>8 DEF takeJob, endDrain, ingest, statementFails, deadlockDetected, Goto
  <2>3. \A q \in Requests : pc'[q] = "commit" => pc'[q] = pc[q]
    BY <2>2 DEF TypeOK
  <2> QED BY <1>0, <2>1, <2>3, FoundFrame
<1>9. CASE restart
  BY <1>0, <1>9, FoundFrame DEF restart, tableVars, issueVars
<1>10. ASSUME NEW e \in Events, replayEvent(e) PROVE FoundOK'
  BY <1>0, <1>10, FoundFrame DEF replayEvent, issueVars, localVars
<1>11. ASSUME NEW t \in Tickets, refreshEvidence(t) PROVE FoundOK'
  BY <1>0, <1>11, FoundFrame DEF refreshEvidence, issueVars, localVars
<1> QED BY <1>1, <1>2, <1>3, <1>4, <1>5, <1>6, <1>7, <1>8, <1>9, <1>10, <1>11
        DEF Next, HandlerStep

\* Every reachable state satisfies both.
LEMMA FoundInvariance == Spec => [](WInv /\ FoundOK)
<1>1. Init => FoundOK
  BY DEF Init, FoundOK
<1>2. WInv /\ WInv' /\ FoundOK /\ [Next]_webhookVars => FoundOK'
  <2> SUFFICES ASSUME WInv, WInv', FoundOK, [Next]_webhookVars PROVE FoundOK'
    OBVIOUS
  <2>1. CASE Next
    BY <2>1, FoundStep
  <2>2. CASE UNCHANGED webhookVars
    BY <2>2 DEF webhookVars, tableVars, issueVars, localVars, FoundOK, Created, Ticket
  <2> QED BY <2>1, <2>2
<1> QED BY <1>1, <1>2, Invariance, PTL DEF Spec

\* Where no event's tables change, the contract sees nothing.
LEMMA ContractStutters ==
  ASSUME UNCHANGED <<issueVars, routed>>
  PROVE  UNCHANGED Contract!contractVars
BY DEF issueVars, Contract!contractVars

\* Only a commit touches them.
LEMMA OnlyCommits ==
  ASSUME Next
  PROVE  (\E r \in Requests : commit(r)) \/ UNCHANGED <<issueVars, routed>>
BY DEF Next, HandlerStep, receive, insertEvent, commitDuplicate, routeEvent, linkTicket,
       updateTicket, discardJobs, takeJob, endDrain, ingest, statementFails,
       deadlockDetected, restart, replayEvent, refreshEvidence, tableVars

\* A commit is the effect of its event, which had none before.
LEMMA CommitTakes ==
  ASSUME WInv, FoundOK, NEW r \in Requests, commit(r),
         NEW e \in Events, e = event[r]
  PROVE  Contract!Take(e)
<1> DEFINE t == TicketOf[e]
           linked == {u \in Tickets : issueOf[u] # {}}
<1>1. /\ pc[r] = "commit" /\ t = Ticket(r) /\ t \in Tickets
      /\ Kind[e] = Kind[event[r]] /\ Kind[e] \in EventKind
  BY WebhooksAssumption DEF WInv, TypeOK, commit, Ticket, Holding, Routing
<1>2. /\ routed[e] = {} /\ routed' = [routed EXCEPT ![e] = @ \cup {r}]
      /\ routed \in [Events -> SUBSET Requests]
  BY <1>1 DEF WInv, TypeOK, RowsOK, commit, Routing
<1>3. /\ e \notin {x \in Events : routed[x] # {}}
      /\ {x \in Events : routed'[x] # {}} = {x \in Events : routed[x] # {}} \cup {e}
  BY <1>1, <1>2
<1>4. /\ issueOf \in [Tickets -> SUBSET IssueId]
      /\ reopens \in [Tickets -> Nat]
      /\ signals \in [Tickets -> SUBSET Severity]
      /\ Gate \in Nat \ {0}
  BY WebhooksAssumption DEF WInv, TypeOK
<1>5. seen[r] # {} => t \in linked
  BY <1>1 DEF FoundOK
<1>6. CASE Kind[e] = "created"
  <2>1. issueOf[t] = {} /\ issueOf' = [issueOf EXCEPT ![t] = {r}]
    BY <1>1, <1>6 DEF WInv, TicketsOK, Linked, Created, commit, Apply
  <2>2. UNCHANGED <<secondary, deleted, reopens, signals>>
    BY <1>6 DEF commit, Apply
  <2>3. t \notin linked /\ linked' = linked \cup {t}
    BY <1>1, <1>4, <2>1
  <2> QED BY <1>1, <1>3, <1>6, <2>2, <2>3
          DEF Contract!Take, Contract!Effect, Contract!Create
<1>7. CASE Kind[e] # "created"
  <2>1. linked' = linked
    BY <1>7 DEF commit, Apply
  <2>2. t \notin OldTickets /\ UNCHANGED <<secondary, deleted, reopens, signals>>
          => Contract!Miss(t)
    BY <2>1 DEF Contract!Miss
  <2>3. Marks(e) =>
          /\ Past(r) = {Ids(e)[i] : i \in DOMAIN Ids(e)}
          /\ wrote[r] \subseteq Past(r) \cap linked
          /\ Past(r) \cap OldTickets \subseteq wrote[r]
    <3> SUFFICES ASSUME Marks(e)
                 PROVE  /\ Past(r) = {Ids(e)[i] : i \in DOMAIN Ids(e)}
                        /\ wrote[r] \subseteq Past(r) \cap linked
                        /\ Past(r) \cap OldTickets \subseteq wrote[r]
      OBVIOUS
    <3>1. Ids(e) \in Seq(Tickets) /\ Len(Ids(e)) \in Nat \ {0}
      BY IdsType
    <3>2. next[r] - 1 = Len(Ids(e)) /\ DOMAIN Ids(e) = 1 .. Len(Ids(e))
      BY <1>1, <3>1 DEF WInv, LocksOK, LockOK
    <3>3. Past(r) = {Ids(e)[i] : i \in DOMAIN Ids(e)}
      BY <3>2 DEF Past
    <3> QED BY <1>1, <3>3 DEF WInv, TypeOK, LocksOK, LockOK
  <2>5. CASE Kind[e] = "deleted"
    <3>1. Past(r) = {t}
      <4>1. Marks(e) /\ Ids(e) = <<t>>
        BY <2>5 DEF Marks, Ids
      <4>2. {Ids(e)[i] : i \in DOMAIN Ids(e)} = {t}
        BY <4>1
      <4> QED BY <2>3, <4>1, <4>2
    <3>2. deleted' = deleted \cup wrote[r] /\ UNCHANGED <<secondary, reopens, signals>>
      BY <2>5 DEF commit, Apply
    <3>3. CASE t \in wrote[r]
      <4>1. wrote[r] = {t} /\ t \in linked
        BY <2>3, <2>5, <3>1, <3>3 DEF Marks
      <4>2. Contract!Delete(t)
        BY <2>1, <3>2, <4>1 DEF Contract!Delete
      <4> QED BY <1>1, <1>3, <2>5, <4>2 DEF Contract!Take, Contract!Effect
    <3>4. CASE t \notin wrote[r]
      <4>1. wrote[r] = {} /\ t \notin OldTickets
        BY <2>3, <2>5, <3>1, <3>4 DEF Marks
      <4>2. Contract!Miss(t)
        BY <2>2, <3>2, <4>1
      <4> QED BY <1>1, <1>3, <2>5, <4>2 DEF Contract!Take, Contract!Effect
    <3> QED BY <3>3, <3>4
  <2>6. CASE Kind[e] = "merged"
    <3> DEFINE ids == {MergedIds[e][i] : i \in DOMAIN MergedIds[e]}
    <3>1. Marks(e) /\ Ids(e) = MergedIds[e]
      BY <2>6 DEF Marks, Ids
    <3>2. wrote[r] \in SUBSET (ids \cap linked) /\ ids \cap OldTickets \subseteq wrote[r]
      BY <2>3, <3>1
    <3>3. secondary' = secondary \cup wrote[r] /\ UNCHANGED <<deleted, reopens, signals>>
      BY <2>6 DEF commit, Apply
    <3>4. Contract!Merge(ids)
      BY <2>1, <3>2, <3>3 DEF Contract!Merge
    <3> QED BY <1>1, <1>3, <2>6, <3>4 DEF Contract!Take, Contract!Effect
  <2>7. CASE Kind[e] = "reopened"
    <3>1. ASSUME seen[r] # {} PROVE Contract!Reopen(t)
      <4>1. /\ reopens' = [reopens EXCEPT ![t] = @ + 1]
            /\ signals' = [signals EXCEPT ![t] = @ \cup {severityOf(n) : n \in seen[r]}]
            /\ UNCHANGED <<secondary, deleted>>
        BY <1>1, <2>7, <3>1 DEF commit, Apply
      <4>2. PICK n \in Nat : seen[r] \subseteq {n} /\ n <= reopens[t] + 1
        BY <1>1 DEF FoundOK
      <4>3. {severityOf(m) : m \in seen[r]} = {severityOf(n)}
        BY <3>1, <4>2
      <4>4. severityOf(n) \in Contract!Earned(reopens[t] + 1)
        <5>1. reopens[t] \in Nat /\ n <= reopens[t] + 1
          BY <1>1, <1>4, <4>2
        <5> QED BY <1>4, <5>1 DEF severityOf, Contract!Earned
      <4>5. \E s \in Contract!Earned(reopens[t] + 1) :
              signals' = [signals EXCEPT ![t] = @ \cup {s}]
        BY <4>1, <4>3, <4>4
      <4> QED BY <1>5, <2>1, <3>1, <4>1, <4>5 DEF Contract!Reopen
    <3>2. ASSUME seen[r] = {} PROVE Contract!Miss(t)
      <4>1. UNCHANGED <<secondary, deleted, reopens, signals>>
        BY <2>7, <3>2 DEF commit, Apply
      <4>2. t \notin OldTickets
        BY <1>1, <2>7, <3>2 DEF FoundOK
      <4> QED BY <2>2, <4>1, <4>2
    <3> QED BY <1>1, <1>3, <2>7, <3>1, <3>2 DEF Contract!Take, Contract!Effect
  <2>8. CASE Kind[e] = "other"
    <3>1. UNCHANGED <<secondary, deleted, reopens, signals>>
      BY <2>8 DEF commit, Apply
    <3> QED BY <1>1, <1>3, <2>1, <2>8, <3>1 DEF Contract!Take, Contract!Effect
  <2> QED BY <1>1, <1>7, <2>5, <2>6, <2>7, <2>8 DEF EventKind
<1> QED BY <1>6, <1>7

\* Ingestion implements EventContract: whatever is delivered twice, at once or
\* out of order, whatever fails and restarts, each event takes effect in one
\* step, at most once, and no reopen is lost or overstated (ingestEvent).
THEOREM IngestionImplementsContract == Spec => ImplementsEventContract
<1>1. Init => Contract!ContractInit
  <2> SUFFICES ASSUME Init PROVE Contract!ContractInit
    OBVIOUS
  <2>1. {e \in Events : routed[e] # {}} = {}
    BY DEF Init
  <2>2. {t \in Tickets : issueOf[t] # {}} = OldTickets
    BY WebhooksAssumption DEF Init
  <2> QED BY <2>1, <2>2 DEF Init, Contract!ContractInit
<1>2. WInv /\ FoundOK /\ [Next]_webhookVars
        => [\E e \in Events : Contract!Take(e)]_(Contract!contractVars)
  <2> SUFFICES ASSUME WInv, FoundOK, [Next]_webhookVars
               PROVE  (\E e \in Events : Contract!Take(e)) \/ UNCHANGED Contract!contractVars
    OBVIOUS
  <2>1. ASSUME NEW r \in Requests, commit(r) PROVE \E e \in Events : Contract!Take(e)
    <3> PICK e \in Events : e = event[r]
      BY <2>1 DEF WInv, TypeOK, commit, Holding, Routing
    <3> QED BY <2>1, CommitTakes
  <2>2. CASE UNCHANGED webhookVars
    BY <2>2, ContractStutters DEF webhookVars, tableVars
  <2> QED BY <2>1, <2>2, OnlyCommits, ContractStutters
<1> QED BY <1>1, <1>2, FoundInvariance, PTL DEF Spec, ImplementsEventContract, Contract!ContractSpec
-----------------------------------------------------------------------------
(***************************************************************************)
(* Who waits for whom.                                                     *)
(***************************************************************************)
\* The guards that can hold a handler back say just that it waits for someone.
LEMMA BlockedMeansWaits ==
  ASSUME NEW r \in Requests
  PROVE  /\ pc[r] = "insert" => (Locked(event[r]) <=> \E s \in Requests : WaitsFor(r, s))
         /\ pc[r] = "link" => (Linking(r) <=> \E s \in Requests : WaitsFor(r, s))
         /\ pc[r] = "update" =>
              ((\E s \in Requests \ {r} : Holds(s, Ids(event[r])[next[r]]))
                 <=> \E s \in Requests : WaitsFor(r, s))
BY DEF Locked, Linking, WaitsFor, Holding, Routing

\* Those that wait in a circle are all about to update a row, and hold another.
LEMMA CirclesUpdate ==
  ASSUME WInv, NEW S \in SUBSET Requests, Circle(S), NEW r \in S
  PROVE  /\ pc[r] = "update" /\ Kind[event[r]] = "merged"
         /\ \E p \in S : pc[p] = "update" /\ Ids(event[p])[next[p]] \in wrote[r]
<1>1. \A q \in S : pc[q] \in {"insert", "link", "update"}
  BY DEF Circle, WaitsFor
<1>2. \A q \in S : pc[q] # "insert"
  BY DEF Circle, WaitsFor, Holds, Holding, Routing
<1>3. \A q \in S : pc[q] # "link"
  <2> SUFFICES ASSUME NEW q \in S, pc[q] = "link" PROVE FALSE
    OBVIOUS
  <2>1. PICK p \in S : WaitsFor(p, q)
    BY DEF Circle
  <2> QED BY <1>2, <2>1 DEF WaitsFor, Holds
<1>4. \A q \in S : pc[q] = "update"
  BY <1>1, <1>2, <1>3
<1>5. PICK p \in S : WaitsFor(p, r)
  BY DEF Circle
<1>6. Ids(event[p])[next[p]] \in wrote[r]
  BY <1>4, <1>5 DEF WaitsFor, Holds
<1>7. Marks(event[r]) /\ next[r] \in 1 .. Len(Ids(event[r])) /\ wrote[r] \subseteq Past(r)
  BY <1>4 DEF WInv, LocksOK, LockOK
<1>8. Kind[event[r]] # "deleted"
  <2> SUFFICES ASSUME Kind[event[r]] = "deleted" PROVE FALSE
    OBVIOUS
  <2>1. Len(Ids(event[r])) = 1
    BY DEF Ids
  <2>2. Past(r) = {}
    BY <1>7, <2>1 DEF Past
  <2> QED BY <1>6, <1>7, <2>2
<1> QED BY <1>4, <1>6, <1>7, <1>8 DEF Marks

\* Where a set has numbers, one of its members has the smallest.
LEMMA Descent ==
  ASSUME NEW S, NEW f \in [S -> Nat], S # {}
  PROVE  \E r \in S : \A p \in S : f[r] <= f[p]
<1> DEFINE R == {f[r] : r \in S}
           Below == {b \in Nat \X Nat : b[1] < b[2]}
<1>1. R \subseteq Nat /\ R # {}
  OBVIOUS
<1>2. IsWellFoundedOn(Below, Nat)
  BY NatLessThanWellFounded DEF OpToRel
<1> HIDE DEF R, Below
<1>3. PICK n \in R : \A m \in R : <<m, n>> \notin Below
  BY <1>1, <1>2, WFMin
<1>4. ASSUME NEW m \in R PROVE n <= m
  <2>1. m \in Nat /\ n \in Nat
    BY <1>1
  <2>2. m < n => <<m, n>> \in Below
    BY <2>1 DEF Below
  <2> QED BY <1>3, <2>1, <2>2
<1> QED BY <1>3, <1>4 DEF R

\* Requests that wait in a circle are merges that do not all list their tickets
\* in one order: the ticket for which each waits would have to come before the
\* one for which the request that holds it waits (ingestEvent's row, the INSERT
\* of handleTicketCreated and the UPDATEs of handleTicketUpdated, Deleted and
\* Merged).
THEOREM DeadlocksAreMerges == Spec => []OnlyMergesDeadlock
<1>1. WInv => OnlyMergesDeadlock
  <2> SUFFICES ASSUME WInv, NEW S \in SUBSET Requests, Circle(S)
               PROVE  /\ \A r \in S : Kind[event[r]] = "merged"
                      /\ \A rank \in [Tickets -> 1 .. Cardinality(Tickets)] :
                           \E r \in S : ~InOrder(event[r], rank)
    BY DEF OnlyMergesDeadlock
  <2>1. \A r \in S : Kind[event[r]] = "merged"
    BY CirclesUpdate
  <2>2. ASSUME NEW rank \in [Tickets -> 1 .. Cardinality(Tickets)],
               \A r \in S : InOrder(event[r], rank)
        PROVE  FALSE
    <3> DEFINE head(r) == Ids(event[r])[next[r]]
               f == [r \in S |-> rank[head(r)]]
    <3>1. \A t \in Tickets : rank[t] \in Nat
      <4>1. Cardinality(Tickets) \in Nat
        BY WebhooksAssumption, FS_CardinalityType
      <4> QED BY <4>1
    <3>2. ASSUME NEW r \in S
          PROVE  /\ Ids(event[r]) \in Seq(Tickets) /\ wrote[r] \subseteq Past(r)
                 /\ next[r] \in 1 .. Len(Ids(event[r]))
      BY CirclesUpdate, IdsType DEF WInv, TypeOK, Holding, Routing, LocksOK, LockOK
    <3>3. \A r \in S : head(r) \in Tickets
      BY <3>2
    <3>4. f \in [S -> Nat]
      BY <3>1, <3>3
    <3>5. PICK r \in S : \A p \in S : f[r] <= f[p]
      BY <3>4, Descent DEF Circle
    <3>6. PICK p \in S : head(p) \in wrote[r]
      BY CirclesUpdate
    <3>7. PICK i \in 1 .. next[r] - 1 : head(p) = Ids(event[r])[i]
      BY <3>2, <3>6 DEF Past
    <3>8. i \in DOMAIN Ids(event[r]) /\ next[r] \in DOMAIN Ids(event[r]) /\ i < next[r]
      BY <3>2
    <3>9. rank[head(p)] < rank[head(r)]
      BY <2>2, <3>7, <3>8 DEF InOrder
    <3>10. rank[head(p)] \in Nat /\ rank[head(r)] \in Nat
      BY <3>1, <3>3
    <3> QED BY <3>5, <3>9, <3>10
  <2> QED BY <2>1, <2>2
<1> QED BY Invariance, <1>1, PTL
=============================================================================
