------------------------------ MODULE Sidebar ------------------------------
(***************************************************************************)
(* The sidebar an agent works in: App.tsx and zaf.ts (which ticket is      *)
(* shown), ResolutionCard.tsx and hooks/useCardData.ts (its card, polled), *)
(* ActionPanel.tsx and lib/idempotency.ts (its buttons and the keys they   *)
(* send).  The API is what answers it: a card is the state of a ticket at  *)
(* the moment it is read, and an action is executed once per key, as in    *)
(* module Actions.                                                         *)
(*                                                                         *)
(* A React component that is unmounted loses its state; what its requests  *)
(* still bring is ignored.  The card has no pending action or approval:    *)
(* nothing in the API writes those columns, and no availableCtas are sent. *)
(* The standalone demo, whose picker mounts a controller at once, is left  *)
(* out.                                                                    *)
(***************************************************************************)
EXTENDS Effects, Integers

CONSTANTS
  None,
  Tickets,
  Lookups,     \* bound: getContext calls under way
  MaxLoads,    \* bound: requests for a card under way
  Buttons,     \* bound: the actions the agent clicks
  MaxClicks    \* bound: clicks of the agent on an action

Record == [version : Nat, state : IssueState]
Card == [ticket : Tickets, version : Nat, state : IssueState]

ASSUME SidebarAssumption ==
  /\ MaxClicks \in Nat /\ MaxLoads \in Nat \ {0}
  /\ None \notin Tickets \cup Lookups \cup Nat /\ None \notin Card
  /\ Tickets # {} /\ Buttons \subseteq ActionType

Loads == 1..MaxLoads
ClickId == 1..MaxClicks

VARIABLES
  open,        \* the ticket the agent has open
  lookup,      \* getContext calls: the ticket each brings
  view,        \* LoadState of App
  ticket,      \* the ticket of the mounted CardController
  card,        \* its card, or none yet
  loading,
  error,       \* whether it shows an error in place of the card
  current,     \* the newest request: the one requestVersion names
  load,        \* requests for cards
  keys,        \* the key store of the mounted ActionPanel
  submitting,  \* the click it waits for
  panel,       \* the first click of this ActionPanel (history)
  unsure,      \* the intent left "may have gone through", per action (history)
  click,       \* the agent's clicks and their requests
  record,      \* the API: what a card of each ticket shows
  executions   \* the API: action_executions

appVars    == <<open, lookup, view>>
cardVars   == <<ticket, card, loading, error>>
loadVars   == <<current, load>>
panelVars  == <<keys, submitting, panel>>
agentVars  == <<unsure, click>>
apiVars    == <<record, executions>>
sidebarVars == <<appVars, cardVars, loadVars, panelVars, agentVars, apiVars>>

NoKeys == [a \in ActionType |-> None]
NoLoad == [phase |-> "idle", of |-> None, card |-> None]
Unused ==
  [phase |-> "unused", ticket |-> None, action |-> "none", key |-> None,
   intent |-> None, panel |-> None, served |-> FALSE]

\* The ActionPanel is rendered with a card and instead of an error.
PanelMounted == ticket # None /\ card # None /\ ~error

Init ==
  /\ open \in Tickets
  /\ record = [t \in Tickets |-> [version |-> 0, state |-> "OPEN"]]
  /\ \E l \in Lookups :
       lookup = [[m \in Lookups |-> None] EXCEPT ![l] = open]
  /\ view = "loading"
  /\ ticket = None /\ card = None /\ loading = FALSE /\ error = FALSE
  /\ current = None /\ load = [l \in Loads |-> NoLoad]
  /\ keys = NoKeys /\ submitting = None /\ panel = None
  /\ unsure = [t \in Tickets |-> NoKeys]
  /\ click = [n \in ClickId |-> Unused]
  /\ executions = {}

-----------------------------------------------------------------------------
(***************************************************************************)
(* useCardData: every request supersedes the one before it, and only the   *)
(* newest of a mounted component is heard.                                 *)
(***************************************************************************)
request(l, t) ==
  /\ load[l].phase = "idle" /\ \A m \in 1..l-1 : load[m].phase # "idle"
  /\ load' = [load EXCEPT ![l] = [phase |-> "asked", of |-> t, card |-> None]]
  /\ current' = l

\* The ActionPanel is gone, and its key store with it.
DropPanel == keys' = NoKeys /\ submitting' = None /\ panel' = None

\* (mutant) The controller is not keyed by the ticket and keeps its card.
mount_KeepsCard(t) ==
  /\ ticket' = t /\ UNCHANGED card /\ loading' = TRUE /\ error' = FALSE
  /\ \E l \in Loads : request(l, t)
  /\ DropPanel

\* A new CardController: its effect clears everything and asks for the card.
mount(t) ==
  /\ ticket' = t /\ card' = None /\ loading' = TRUE /\ error' = FALSE
  /\ \E l \in Loads : request(l, t)
  /\ DropPanel

unmount ==
  /\ ticket' = None /\ card' = None /\ loading' = FALSE /\ error' = FALSE
  /\ current' = None /\ UNCHANGED load
  /\ DropPanel

\* The poll every three seconds, the buttons, and the timers after an action.
refetch ==
  /\ ticket # None
  /\ \E l \in Loads : request(l, ticket)
  /\ UNCHANGED <<appVars, cardVars, panelVars, agentVars, apiVars>>

\* The API reads the card.
CardServed(l) ==
  LET t == load[l].of
  IN /\ load[l].phase = "asked"
     /\ load' = [load EXCEPT ![l].phase = "served", ![l].card =
          [ticket |-> t, version |-> record[t].version, state |-> record[t].state]]
     /\ UNCHANGED <<appVars, cardVars, current, panelVars, agentVars, apiVars>>

\* (mutant) Every answer for the ticket is heard, and not only the newest.
heard_AnyVersion(l) == load[l].of = ticket

\* active.current && version === requestVersion.current
heard(l) == l = current

\* The card, or the error that takes its place: 404, 5xx or no answer at all.
showCard(l) ==
  /\ loading' = FALSE
  /\ \/ error' = TRUE /\ UNCHANGED card /\ DropPanel
     \/ error' = FALSE /\ card' = load[l].card /\ UNCHANGED panelVars

CardArrives(l) ==
  /\ load[l].phase = "served"
  /\ load' = [load EXCEPT ![l] = NoLoad]
  /\ IF heard(l)
       THEN current' = None /\ UNCHANGED ticket /\ showCard(l)
       ELSE UNCHANGED <<current, cardVars, panelVars>>
  /\ UNCHANGED <<appVars, agentVars, apiVars>>

-----------------------------------------------------------------------------
(***************************************************************************)
(* App: which ticket is shown.                                             *)
(***************************************************************************)
\* The agent opens another ticket: app.activated calls load again.
switchTicket(t) ==
  /\ t # open /\ open' = t
  /\ \E l \in Lookups : lookup[l] = None /\ lookup' = [lookup EXCEPT ![l] = t]
  /\ UNCHANGED <<view, cardVars, loadVars, panelVars, agentVars, apiVars>>

\* The context names the ticket that was open when it was asked for.
ContextArrives(l) ==
  /\ lookup[l] # None
  /\ lookup' = [lookup EXCEPT ![l] = None]
  /\ view' = "embedded"
  /\ IF lookup[l] = ticket
       THEN UNCHANGED <<cardVars, loadVars, panelVars>>
       ELSE mount(lookup[l])
  /\ UNCHANGED <<open, agentVars, apiVars>>

\* (mutant) A call that is not answered is waited for.
ContextTimedOut_Never(l) == FALSE /\ UNCHANGED sidebarVars

\* withTimeout, a rejection, or a context without a ticket: an answer that comes
\* later is ignored.
ContextTimedOut(l) ==
  /\ lookup[l] # None
  /\ lookup' = [lookup EXCEPT ![l] = None]
  /\ view' = "error" /\ unmount
  /\ UNCHANGED <<open, agentVars, apiVars>>

-----------------------------------------------------------------------------
(***************************************************************************)
(* ActionPanel: a key per action, kept while the outcome is unknown.       *)
(***************************************************************************)
\* buildDefaultCtas: the API sends none, and nothing is ever pending.
buildDefaultCtas(state) ==
  IF state = "RESOLVED" THEN {"reopen_issue", "refresh_evidence"}
  ELSE {"close_confirmed", "escalate_missing", "refresh_evidence"}

\* (mutant) Every click mints a key.
keyFor_Fresh(a, n) == n

\* The key that is retried, or a new one, named by its click.
keyFor(a, n) == IF keys[a] # None THEN keys[a] ELSE n

\* An agent who was told to try again means the same by the next click.
Intent(t, a, n) == IF unsure[t][a] # None THEN unsure[t][a] ELSE n

handleAction(n, a) ==
  /\ click[n].phase = "unused" /\ \A m \in 1..n-1 : click[m].phase # "unused"
  /\ PanelMounted /\ submitting = None /\ a \in Buttons \cap buildDefaultCtas(card.state)
  /\ submitting' = n
  /\ keys' = [keys EXCEPT ![a] = keyFor(a, n)]
  /\ panel' = IF panel = None THEN n ELSE panel
  /\ click' = [click EXCEPT ![n] =
       [phase |-> "sent", ticket |-> card.ticket, action |-> a, key |-> keyFor(a, n),
        intent |-> Intent(card.ticket, a, n), panel |-> panel', served |-> FALSE]]
  /\ UNCHANGED <<appVars, cardVars, loadVars, unsure, apiVars>>

Execution(n) == [key |-> click[n].key, by |-> n, done |-> FALSE]

\* POST /api/v1/actions, also when the sidebar no longer waits for it: a replay
\* of a known key, or an execution, or a refusal.
ActionServed(n) ==
  /\ click[n].phase \in {"sent", "lost"} /\ ~click[n].served
  /\ click' = [click EXCEPT ![n].served = TRUE]
  /\ IF \E e \in executions : e.key = click[n].key
       THEN UNCHANGED executions
       ELSE executions' \in {executions, executions \cup {Execution(n)}}
  /\ UNCHANGED <<appVars, cardVars, loadVars, panelVars, unsure, record>>

\* (mutant) The key is kept whatever the answer.
release_Never(n) == keys

release(n) == [keys EXCEPT ![click[n].action] = None]

\* Any answer settles the intent, if the panel is still there to see it.
ActionAnswered(n) ==
  /\ click[n].phase = "sent" /\ click[n].served
  /\ click' = [click EXCEPT ![n].phase = "answered"]
  /\ IF submitting = n
       THEN /\ keys' = release(n) /\ submitting' = None
            /\ unsure' = [unsure EXCEPT ![click[n].ticket][click[n].action] = None]
       ELSE UNCHANGED <<keys, submitting, unsure>>
  /\ UNCHANGED <<appVars, cardVars, loadVars, panel, apiVars>>

\* Status 0: the key is kept, and the agent is told that a retry is safe.
ActionLost(n) ==
  /\ click[n].phase = "sent"
  /\ click' = [click EXCEPT ![n].phase = "lost"]
  /\ IF submitting = n
       THEN /\ submitting' = None
            /\ unsure' = [unsure EXCEPT ![click[n].ticket][click[n].action] = click[n].intent]
       ELSE UNCHANGED <<submitting, unsure>>
  /\ UNCHANGED <<appVars, cardVars, loadVars, keys, panel, apiVars>>

-----------------------------------------------------------------------------
\* The outbox worker completes an action that has effects, and the card changes.
\* What ingestion, events and other agents change looks the same from here.
ExecutionCompletes(e) ==
  LET t == click[e.by].ticket
      a == click[e.by].action
  IN /\ ~e.done /\ buildEffectsForAction(a, FALSE) # <<>>
     /\ executions' = (executions \ {e}) \cup {[e EXCEPT !.done = TRUE]}
     /\ record' = [record EXCEPT ![t] =
          [version |-> @.version + 1, state |-> deriveTargetState(a)]]
     /\ UNCHANGED <<appVars, cardVars, loadVars, panelVars, agentVars>>

Next ==
  \/ \E t \in Tickets : switchTicket(t)
  \/ \E l \in Lookups : ContextArrives(l) \/ ContextTimedOut(l)
  \/ refetch
  \/ \E l \in Loads : CardServed(l) \/ CardArrives(l)
  \/ \E n \in ClickId :
       \/ \E a \in ActionType : handleAction(n, a)
       \/ ActionServed(n) \/ ActionAnswered(n) \/ ActionLost(n)
  \/ \E e \in executions : ExecutionCompletes(e)

Spec == Init /\ [][Next]_sidebarVars

(***************************************************************************)
(* A lookup that is not answered times out.  The answer of the newest      *)
(* request for a card is not for ever overtaken by the next poll: strong   *)
(* fairness, an assumption about the API (it answers or fails within three *)
(* seconds now and then), not about the sidebar.                           *)
(***************************************************************************)
Newest(A(_)) == \E l \in Loads : l = current /\ A(l)

FairSpec ==
  /\ Spec
  /\ WF_sidebarVars(\E l \in Lookups : ContextTimedOut(l))
  /\ SF_sidebarVars(Newest(CardServed)) /\ SF_sidebarVars(Newest(CardArrives))

-----------------------------------------------------------------------------
(***************************************************************************)
(* Properties.                                                             *)
(***************************************************************************)
\* (type) Every variable keeps its type, and only a mounted panel has keys and waits.
TypeOK ==
  /\ open \in Tickets /\ ticket \in Tickets \cup {None}
  /\ lookup \in [Lookups -> Tickets \cup {None}]
  /\ view \in {"loading", "embedded", "error"}
  /\ ticket # None <=> view = "embedded"
  /\ card \in Card \cup {None} /\ (card # None => card.ticket = ticket)
  /\ loading \in BOOLEAN /\ error \in BOOLEAN
  /\ current \in Loads \cup {None}
  /\ load \in [Loads -> [phase : {"idle", "asked", "served"},
                         of : Tickets \cup {None}, card : Card \cup {None}]]
  /\ keys \in [ActionType -> ClickId \cup {None}]
  /\ submitting \in ClickId \cup {None} /\ panel \in ClickId \cup {None}
  /\ ~PanelMounted => keys = NoKeys /\ submitting = None /\ panel = None
  /\ unsure \in [Tickets -> [ActionType -> ClickId \cup {None}]]
  /\ record \in [Tickets -> Record]
  /\ \A e \in executions : e.key \in ClickId /\ e.by \in ClickId

\* While a ticket stays on screen its card never goes back to an older state of
\* the ticket, however the answers to the polls overtake one another.
CardNeverGoesBack ==
  [][card # None /\ card' # None /\ ticket' = ticket => card'.version >= card.version]_sidebarVars

\* "It won't act twice", as far as the panel that said so is still there: the
\* clicks of one intent on one panel are executed once, although the requests
\* that were given up may still reach the API.
RetriesActOnce ==
  \A e, f \in executions :
    click[e.by].intent = click[f.by].intent /\ click[e.by].panel = click[f.by].panel => e = f

\* A key that is still held never swallows an action the agent means anew: the
\* API would answer such a click with the execution of an earlier one.
NewIntentsAct ==
  \A m, n \in ClickId :
    click[m].key # None /\ click[m].key = click[n].key => click[m].intent = click[n].intent

\* The sidebar never stays blank: neither the app's wait for Zendesk nor the
\* card's spinner lasts for ever, whichever tickets are opened meanwhile.
ScreensSettle ==
  (view = "loading" \/ loading) ~> (view # "loading" /\ ~loading)

\* (violated) "Trying again is safe, it won't act twice": one intent, one
\* execution.  The keys do not survive a card that fails to load, because the
\* error takes the place of the panel that holds them.
OneExecutionPerIntent ==
  \A e, f \in executions : click[e.by].intent = click[f.by].intent => e = f
=============================================================================
