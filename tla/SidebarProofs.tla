--------------------------- MODULE SidebarProofs ---------------------------
(***************************************************************************)
(* The invariants of Sidebar, proved for any tickets, lookups, buttons and *)
(* bounds, under SidebarAssumption.                                        *)
(***************************************************************************)
EXTENDS Sidebar, TLAPS

(***************************************************************************)
(* The inductive invariant.  A key and an intent are named by the click    *)
(* that minted them, so what is true of all the clicks that share one is   *)
(* said by comparing each with that click.                                 *)
(***************************************************************************)
Sent(n) == click[n].phase # "unused"

ClickRecord ==
  [phase : {"unused", "sent", "lost", "answered"}, ticket : Tickets \cup {None},
   action : ActionType \cup {"none"}, key : ClickId \cup {None},
   intent : ClickId \cup {None}, panel : ClickId \cup {None}, served : BOOLEAN]

\* What the default buttons send: an action with effects has a state to reach.
Default == {"reopen_issue", "refresh_evidence", "close_confirmed", "escalate_missing"}

ClicksOK ==
  /\ click \in [ClickId -> ClickRecord]
  /\ \A n \in ClickId :
       IF Sent(n)
         THEN /\ click[n].ticket \in Tickets /\ click[n].action \in Default
              /\ click[n].key \in ClickId /\ click[n].intent \in ClickId
              /\ click[n].panel \in ClickId
         ELSE click[n] = Unused

\* The click k mints its own key, and every click that sends it is a retry of k:
\* the same action on the same ticket, from the same panel, meant as one.
KeyOf(n, k) ==
  /\ k \in ClickId /\ Sent(k) /\ click[k].key = k
  /\ click[n].ticket = click[k].ticket /\ click[n].action = click[k].action
  /\ click[n].intent = click[k].intent /\ click[n].panel = click[k].panel

\* The click i began the intent; the other clicks of it are the same action.
IntentOf(n, i) ==
  /\ i \in ClickId /\ Sent(i) /\ click[i].intent = i
  /\ click[n].ticket = click[i].ticket /\ click[n].action = click[i].action

FamiliesOK ==
  \A n \in ClickId : Sent(n) =>
    /\ KeyOf(n, click[n].key) /\ IntentOf(n, click[n].intent)
    /\ Sent(click[n].panel)

\* One intent has one key as long as its panel lives.
OneKey ==
  \A m, n \in ClickId :
    /\ Sent(m) /\ Sent(n)
    /\ click[m].intent = click[n].intent /\ click[m].panel = click[n].panel
    => click[m].key = click[n].key

\* An action left "may have gone through" belongs to the intent that began it.
UnsureOK ==
  \A t \in Tickets, a \in ActionType : unsure[t][a] # None =>
    /\ Sent(unsure[t][a]) /\ click[unsure[t][a]].intent = unsure[t][a]
    /\ click[unsure[t][a]].ticket = t /\ click[unsure[t][a]].action = a

\* A key is held while its click is waited for or its outcome is unknown.
HeldOK ==
  \A a \in ActionType : keys[a] # None =>
    LET k == keys[a]
    IN /\ Sent(k) /\ click[k].key = k
       /\ click[k].ticket = ticket /\ click[k].action = a /\ click[k].panel = panel
       /\ \/ submitting # None /\ click[submitting].key = k
          \/ unsure[ticket][a] = click[k].intent

\* The panel holds the key of every intent of its own that is still unknown.
UnknownHeld ==
  \A m \in ClickId :
    /\ Sent(m) /\ click[m].panel = panel
    /\ unsure[ticket][click[m].action] = click[m].intent
    => keys[click[m].action] = click[m].key

WaitingOK ==
  /\ panel # None => Sent(panel)
  /\ submitting # None =>
       LET c == click[submitting]
       IN c.phase = "sent" /\ c.ticket = ticket /\ c.panel = panel
            /\ keys[c.action] = c.key

ExecutionsOK ==
  /\ executions \subseteq [key : ClickId, by : ClickId, done : BOOLEAN]
  /\ \A e \in executions : Sent(e.by) /\ click[e.by].key = e.key
  /\ \A e, f \in executions : e.key = f.key => e = f

\* A card on its way shows its ticket, no newer than it is.
LoadsOK ==
  \A l \in Loads :
    /\ load[l].phase # "idle" => load[l].of \in Tickets
    /\ load[l].phase = "served" =>
         /\ load[l].card \in Card /\ load[l].card.ticket = load[l].of
         /\ load[l].card.version <= record[load[l].of].version

\* The card on screen is no newer than its ticket, nor than the answer awaited.
ShownOK ==
  /\ card # None => card.version <= record[ticket].version
  /\ current # None =>
       /\ ticket # None /\ load[current].phase # "idle" /\ load[current].of = ticket
       /\ card # None /\ load[current].phase = "served"
            => card.version <= load[current].card.version

SInv ==
  /\ TypeOK /\ ClicksOK /\ FamiliesOK /\ OneKey /\ UnsureOK /\ HeldOK
  /\ UnknownHeld /\ WaitingOK /\ ExecutionsOK /\ LoadsOK /\ ShownOK

-----------------------------------------------------------------------------
(***************************************************************************)
(* Facts about the data, and what steps elsewhere leave alone.             *)
(***************************************************************************)
LEMMA NoneIsNoId ==
  /\ None \notin ClickId /\ None \notin Loads /\ None \notin Tickets
  /\ None \notin Card /\ ClickId \subseteq Nat /\ Loads \subseteq Nat
BY SidebarAssumption DEF ClickId, Loads

\* The agent's side, which a step that sends and answers nothing leaves alone.
AgentOK == ClicksOK /\ FamiliesOK /\ OneKey /\ UnsureOK /\ ExecutionsOK

PanelOK == HeldOK /\ UnknownHeld /\ WaitingOK

LEMMA AgentKept ==
  ASSUME AgentOK, UNCHANGED agentVars, UNCHANGED executions
  PROVE  AgentOK'
BY DEF AgentOK, agentVars, ClicksOK, FamiliesOK, OneKey, UnsureOK, ExecutionsOK,
       Sent, KeyOf, IntentOf

LEMMA PanelKept ==
  ASSUME PanelOK, UNCHANGED <<agentVars, panelVars, ticket>>
  PROVE  PanelOK'
BY DEF PanelOK, agentVars, panelVars, HeldOK, UnknownHeld, WaitingOK, Sent

\* A panel that is gone holds nothing, and no click was made on it.
LEMMA PanelDropped ==
  ASSUME ClicksOK, UNCHANGED agentVars, DropPanel
  PROVE  PanelOK'
<1> USE NoneIsNoId DEF DropPanel, NoKeys
<1>1. HeldOK'
  BY DEF HeldOK
<1>2. UnknownHeld'
  BY DEF UnknownHeld, ClicksOK, Sent, agentVars
<1>3. WaitingOK'
  BY DEF WaitingOK
<1> QED BY <1>1, <1>2, <1>3 DEF PanelOK

LEMMA InvInit == Init => SInv
<1> SUFFICES ASSUME Init PROVE SInv
  OBVIOUS
<1> USE SidebarAssumption, NoneIsNoId DEF Init
<1>1. TypeOK
  <2>1. lookup \in [Lookups -> Tickets \cup {None}]
    OBVIOUS
  <2>2. load \in [Loads -> [phase : {"idle", "asked", "served"},
                           of : Tickets \cup {None}, card : Card \cup {None}]]
    BY DEF NoLoad
  <2>3. record \in [Tickets -> Record]
    BY DEF Record, IssueState
  <2>4. ~PanelMounted
    BY DEF PanelMounted
  <2> QED BY <2>1, <2>2, <2>3, <2>4 DEF TypeOK, NoKeys
<1>2. ClicksOK
  BY DEF ClicksOK, Sent, Unused, ClickRecord
<1>3. \A n \in ClickId : ~Sent(n)
  BY DEF Sent, Unused
<1>4. FamiliesOK /\ OneKey /\ UnknownHeld
  BY <1>3 DEF FamiliesOK, OneKey, UnknownHeld
<1>5. UnsureOK /\ HeldOK /\ WaitingOK
  BY DEF UnsureOK, HeldOK, WaitingOK, NoKeys
<1>6. ExecutionsOK
  BY DEF ExecutionsOK
<1>7. LoadsOK /\ ShownOK
  BY DEF LoadsOK, ShownOK, NoLoad
<1> QED BY <1>1, <1>2, <1>4, <1>5, <1>6, <1>7 DEF SInv

-----------------------------------------------------------------------------
(***************************************************************************)
(* The app and the loads: what the agent looks at.                         *)
(***************************************************************************)
LoadRecord ==
  [phase : {"idle", "asked", "served"}, of : Tickets \cup {None}, card : Card \cup {None}]

LEMMA RequestSent ==
  ASSUME NEW l \in Loads, NEW t \in Tickets, request(l, t), LoadsOK,
         load \in [Loads -> LoadRecord], UNCHANGED record
  PROVE  /\ load' \in [Loads -> LoadRecord] /\ LoadsOK'
         /\ current' \in Loads /\ load'[current'].phase = "asked"
         /\ load'[current'].of = t
BY DEF request, LoadsOK, LoadRecord

LEMMA SwitchTicketSafe ==
  ASSUME SInv, NEW t \in Tickets, switchTicket(t)
  PROVE  SInv'
<1> USE DEF SInv, switchTicket, cardVars, loadVars, apiVars
<1>1. TypeOK'
  BY DEF TypeOK, PanelMounted, panelVars, agentVars
<1>2. AgentOK' /\ PanelOK'
  BY AgentKept, PanelKept DEF AgentOK, PanelOK
<1>3. LoadsOK' /\ ShownOK'
  BY DEF LoadsOK, ShownOK
<1> QED BY <1>1, <1>2, <1>3 DEF AgentOK, PanelOK

LEMMA RefetchSafe ==
  ASSUME SInv, refetch
  PROVE  SInv'
<1> USE DEF SInv, refetch, appVars, cardVars, apiVars
<1>1. PICK l \in Loads : request(l, ticket)
  OBVIOUS
<1>2. /\ load' \in [Loads -> LoadRecord] /\ LoadsOK' /\ current' \in Loads
      /\ load'[current'].phase = "asked" /\ load'[current'].of = ticket
  BY <1>1, RequestSent DEF TypeOK, LoadRecord
<1>3. TypeOK'
  BY <1>2 DEF TypeOK, LoadRecord, PanelMounted, panelVars, agentVars
<1>4. AgentOK' /\ PanelOK'
  BY AgentKept, PanelKept DEF AgentOK, PanelOK
<1>5. ShownOK'
  BY <1>2 DEF ShownOK
<1> QED BY <1>2, <1>3, <1>4, <1>5 DEF AgentOK, PanelOK

LEMMA CardServedSafe ==
  ASSUME SInv, NEW l \in Loads, CardServed(l)
  PROVE  SInv'
<1> USE DEF SInv, CardServed, appVars, cardVars, apiVars
<1> DEFINE t == load[l].of
           c == [ticket |-> t, version |-> record[t].version, state |-> record[t].state]
<1>1. /\ t \in Tickets /\ c \in Card /\ c.ticket = t /\ c.version <= record[t].version
      /\ c.version = record[t].version
  BY DEF TypeOK, LoadsOK, Record, Card
<1>2. load' = [load EXCEPT ![l].phase = "served", ![l].card = c]
  OBVIOUS
<1> HIDE DEF c
<1>3. load' \in [Loads -> LoadRecord]
  BY <1>1, <1>2, ZenonT(60) DEF TypeOK, LoadRecord
<1>4. LoadsOK'
  BY <1>1, <1>2 DEF TypeOK, LoadsOK
<1>5. TypeOK'
  BY <1>3 DEF TypeOK, LoadRecord, PanelMounted, panelVars, agentVars
<1>6. AgentOK' /\ PanelOK'
  BY AgentKept, PanelKept DEF AgentOK, PanelOK
<1>7. ShownOK'
  BY <1>1, <1>2, NoneIsNoId DEF ShownOK, TypeOK, Card, Record
<1> QED BY <1>4, <1>5, <1>6, <1>7 DEF AgentOK, PanelOK

LEMMA CardArrivesSafe ==
  ASSUME SInv, NEW l \in Loads, CardArrives(l)
  PROVE  SInv'
<1> USE DEF SInv, CardArrives, appVars, apiVars
<1>1. load' \in [Loads -> LoadRecord] /\ load' = [load EXCEPT ![l] = NoLoad]
  BY DEF TypeOK, LoadRecord, NoLoad
<1>2. LoadsOK'
  BY <1>1 DEF TypeOK, LoadsOK, NoLoad
<1>3. AgentOK'
  BY AgentKept DEF AgentOK
<1>4. CASE ~heard(l)
  <2>1. UNCHANGED <<current, cardVars, panelVars>>
    BY <1>4
  <2>2. TypeOK'
    BY <1>1, <2>1 DEF TypeOK, LoadRecord, PanelMounted, panelVars, agentVars, cardVars
  <2>3. PanelOK'
    BY <2>1, PanelKept DEF PanelOK, cardVars
  <2>4. ShownOK'
    BY <1>1, <1>4, <2>1, NoneIsNoId DEF ShownOK, TypeOK, cardVars, heard
  <2> QED BY <1>2, <1>3, <2>2, <2>3, <2>4 DEF AgentOK, PanelOK
<1>5. CASE heard(l)
  <2>1. /\ current = l /\ current' = None /\ ticket' = ticket /\ loading' = FALSE
        /\ current # None
    BY <1>5, NoneIsNoId DEF heard, showCard
  <2>2. /\ ticket # None /\ load[l].of = ticket /\ load[l].card \in Card
        /\ load[l].card.ticket = ticket
        /\ load[l].card.version <= record[ticket].version
    BY <2>1 DEF ShownOK, LoadsOK
  <2>3. CASE error' = TRUE /\ UNCHANGED card /\ DropPanel
    <3>1. TypeOK'
      BY <1>1, <2>1, <2>3
         DEF TypeOK, LoadRecord, PanelMounted, agentVars, DropPanel, NoKeys
    <3>2. PanelOK'
      BY <2>3, PanelDropped
    <3>3. ShownOK'
      BY <2>1, <2>3 DEF ShownOK
    <3> QED BY <1>2, <1>3, <3>1, <3>2, <3>3 DEF AgentOK, PanelOK
  <2>4. CASE error' = FALSE /\ card' = load[l].card /\ UNCHANGED panelVars
    <3>1. TypeOK'
      BY <1>1, <2>1, <2>2, <2>4, NoneIsNoId
         DEF TypeOK, LoadRecord, PanelMounted, agentVars, panelVars
    <3>2. PanelOK'
      BY <2>1, <2>4, PanelKept DEF PanelOK
    <3>3. ShownOK'
      BY <2>1, <2>2, <2>4 DEF ShownOK
    <3> QED BY <1>2, <1>3, <3>1, <3>2, <3>3 DEF AgentOK, PanelOK
  <2> QED BY <1>5, <2>3, <2>4 DEF showCard
<1> QED BY <1>4, <1>5

LEMMA ContextArrivesSafe ==
  ASSUME SInv, NEW l \in Lookups, ContextArrives(l)
  PROVE  SInv'
<1> USE DEF SInv, ContextArrives, apiVars
<1>1. AgentOK'
  BY AgentKept DEF AgentOK
<1>2. lookup[l] \in Tickets /\ lookup' \in [Lookups -> Tickets \cup {None}]
  BY DEF TypeOK
<1>3. CASE lookup[l] = ticket
  <2>1. UNCHANGED <<cardVars, loadVars, panelVars>>
    BY <1>3
  <2>2. TypeOK'
    BY <1>2, <1>3, <2>1 DEF TypeOK, PanelMounted, cardVars, loadVars, panelVars, agentVars
  <2>3. PanelOK'
    BY <2>1, PanelKept DEF PanelOK, cardVars
  <2>4. LoadsOK' /\ ShownOK'
    BY <2>1 DEF LoadsOK, ShownOK, cardVars, loadVars
  <2> QED BY <1>1, <2>2, <2>3, <2>4 DEF AgentOK, PanelOK
<1>4. CASE lookup[l] # ticket
  <2>1. mount(lookup[l])
    BY <1>4
  <2>2. PICK m \in Loads : request(m, lookup[l])
    BY <2>1 DEF mount
  <2>3. /\ load' \in [Loads -> LoadRecord] /\ LoadsOK' /\ current' \in Loads
        /\ load'[current'].phase = "asked" /\ load'[current'].of = lookup[l]
    BY <1>2, <2>2, RequestSent DEF TypeOK, LoadRecord
  <2>4. TypeOK'
    BY <1>2, <2>1, <2>3, NoneIsNoId
       DEF TypeOK, LoadRecord, PanelMounted, agentVars, mount, DropPanel, NoKeys
  <2>5. PanelOK'
    BY <2>1, PanelDropped DEF mount
  <2>6. ShownOK'
    BY <1>2, <2>1, <2>3, NoneIsNoId DEF ShownOK, mount
  <2> QED BY <1>1, <2>3, <2>4, <2>5, <2>6 DEF AgentOK, PanelOK
<1> QED BY <1>3, <1>4

LEMMA ContextTimedOutSafe ==
  ASSUME SInv, NEW l \in Lookups, ContextTimedOut(l)
  PROVE  SInv'
<1> USE DEF SInv, ContextTimedOut, apiVars, unmount
<1>1. AgentOK'
  BY AgentKept DEF AgentOK
<1>2. TypeOK'
  BY DEF TypeOK, PanelMounted, agentVars, DropPanel, NoKeys
<1>3. PanelOK'
  BY PanelDropped
<1>4. LoadsOK' /\ ShownOK'
  BY DEF LoadsOK, ShownOK
<1> QED BY <1>1, <1>2, <1>3, <1>4 DEF AgentOK, PanelOK

-----------------------------------------------------------------------------
(***************************************************************************)
(* The panel: clicks and their answers.                                    *)
(***************************************************************************)
\* What a click says is what it said when it was made; only how far its request
\* has come changes.
SameClicks ==
  \A n \in ClickId :
    /\ Sent(n)' <=> Sent(n)
    /\ click'[n].ticket = click[n].ticket /\ click'[n].action = click[n].action
    /\ click'[n].key = click[n].key /\ click'[n].intent = click[n].intent
    /\ click'[n].panel = click[n].panel

LEMMA FamiliesKept ==
  ASSUME ClicksOK, FamiliesOK, OneKey, SameClicks
  PROVE  FamiliesOK' /\ OneKey'
<1>1. FamiliesOK'
  BY DEF ClicksOK, FamiliesOK, SameClicks, KeyOf, IntentOf, Sent
<1>2. OneKey'
  BY DEF OneKey, SameClicks
<1> QED BY <1>1, <1>2

\* A request moves on.
LEMMA ClickMoves ==
  ASSUME ClicksOK, NEW n \in ClickId, Sent(n),
         NEW p \in {"sent", "lost", "answered"}, NEW s \in BOOLEAN,
         click' = [click EXCEPT ![n].phase = p, ![n].served = s]
  PROVE  ClicksOK' /\ SameClicks
<1> DEFINE r == [click[n] EXCEPT !.phase = p, !.served = s]
<1>0. click' = [click EXCEPT ![n] = r] /\ r \in ClickRecord
  <2>1. click' = [click EXCEPT ![n] = r]
    BY DEF ClicksOK, ClickRecord
  <2>2. click[n] \in ClickRecord
    BY DEF ClicksOK
  <2>3. r \in ClickRecord
    BY <2>2 DEF ClickRecord
  <2> QED BY <2>1, <2>3
<1>1. /\ click'[n] = r /\ click' \in [ClickId -> ClickRecord]
      /\ \A m \in ClickId \ {n} : click'[m] = click[m]
  BY <1>0 DEF ClicksOK
<1>2. /\ click'[n].phase = p /\ click'[n].ticket = click[n].ticket
      /\ click'[n].action = click[n].action /\ click'[n].key = click[n].key
      /\ click'[n].intent = click[n].intent /\ click'[n].panel = click[n].panel
  BY <1>1 DEF ClicksOK, ClickRecord
<1>3. SameClicks
  BY <1>1, <1>2 DEF SameClicks, Sent
<1>4. ClicksOK'
  BY <1>1, <1>2 DEF ClicksOK, Sent
<1> QED BY <1>3, <1>4

\* What the type invariant says of the panel, where only its variables change.
LEMMA ScreenKept ==
  ASSUME TypeOK, UNCHANGED <<appVars, cardVars, loadVars, record>>,
         keys' \in [ActionType -> ClickId \cup {None}],
         submitting' \in ClickId \cup {None}, panel' \in ClickId \cup {None},
         unsure' \in [Tickets -> [ActionType -> ClickId \cup {None}]],
         ~PanelMounted => UNCHANGED panelVars,
         \A e \in executions' : e.key \in ClickId /\ e.by \in ClickId
  PROVE  TypeOK'
BY DEF TypeOK, PanelMounted, appVars, cardVars, loadVars, panelVars

LEMMA UnsureKept ==
  ASSUME TypeOK, UnsureOK, SameClicks, UNCHANGED unsure
  PROVE  UnsureOK'
<1> SUFFICES ASSUME NEW t \in Tickets, NEW a \in ActionType, unsure[t][a] # None
             PROVE  LET i == unsure[t][a]
                    IN /\ click'[i].phase # "unused" /\ click'[i].intent = i
                       /\ click'[i].ticket = t /\ click'[i].action = a
  BY DEF UnsureOK, Sent
<1>1. unsure[t][a] \in ClickId
  BY DEF TypeOK
<1> QED BY <1>1 DEF UnsureOK, SameClicks, Sent

LEMMA HeldKept ==
  ASSUME TypeOK, ClicksOK, HeldOK, UnknownHeld, SameClicks,
         UNCHANGED <<keys, submitting, panel, ticket, unsure>>
  PROVE  HeldOK' /\ UnknownHeld'
<1>1. HeldOK'
  <2> SUFFICES ASSUME NEW a \in ActionType, keys[a] # None
               PROVE  LET k == keys[a]
                      IN /\ click'[k].phase # "unused" /\ click'[k].key = k
                         /\ click'[k].ticket = ticket /\ click'[k].action = a
                         /\ click'[k].panel = panel
                         /\ \/ submitting # None /\ click'[submitting].key = k
                            \/ unsure[ticket][a] = click'[k].intent
    BY DEF HeldOK, Sent
  <2>1. keys[a] \in ClickId /\ (submitting # None => submitting \in ClickId)
    BY DEF TypeOK
  <2> QED BY <2>1 DEF HeldOK, SameClicks, Sent
<1>2. UnknownHeld'
  BY DEF UnknownHeld, SameClicks
<1> QED BY <1>1, <1>2

LEMMA LoadsKept ==
  ASSUME LoadsOK, ShownOK, UNCHANGED <<cardVars, loadVars, record>>
  PROVE  LoadsOK' /\ ShownOK'
BY DEF LoadsOK, ShownOK, cardVars, loadVars

LEMMA ActionServedSafe ==
  ASSUME SInv, NEW n \in ClickId, ActionServed(n)
  PROVE  SInv'
<1> USE DEF SInv
<1>1. Sent(n) /\ click[n].phase \in {"sent", "lost", "answered"}
  BY DEF ActionServed, Sent
<1>2. click' = [click EXCEPT ![n].phase = click[n].phase, ![n].served = TRUE]
  BY DEF ActionServed, ClicksOK, ClickRecord
<1>3. ClicksOK' /\ SameClicks
  BY <1>1, <1>2, ClickMoves
<1>4. FamiliesOK' /\ OneKey'
  BY <1>3, FamiliesKept
<1>5. UnsureOK'
  BY <1>3, UnsureKept DEF ActionServed
<1>6. /\ UNCHANGED <<keys, submitting, panel, ticket, unsure>>
      /\ \A m \in ClickId : click'[m].phase = click[m].phase
  BY DEF ActionServed, panelVars, cardVars, ClicksOK, ClickRecord
<1>7. HeldOK' /\ UnknownHeld'
  BY <1>3, <1>6, HeldKept
<1>9. WaitingOK'
  BY <1>3, <1>6, NoneIsNoId DEF WaitingOK, SameClicks, TypeOK
<1>10. ExecutionsOK'
  <2>1. CASE executions' = executions
    BY <1>3, <2>1 DEF ExecutionsOK, SameClicks
  <2>2. CASE /\ executions' = executions \cup {Execution(n)}
             /\ ~\E e \in executions : e.key = click[n].key
    <3>1. /\ Execution(n) \in [key : ClickId, by : ClickId, done : BOOLEAN]
          /\ Execution(n).by = n /\ Execution(n).key = click[n].key
      BY <1>1 DEF Execution, ClicksOK
    <3> QED BY <1>1, <1>3, <2>2, <3>1 DEF ExecutionsOK, SameClicks
  <2> QED BY <2>1, <2>2 DEF ActionServed
<1>11. TypeOK'
  BY <1>10, ScreenKept DEF ActionServed, ExecutionsOK, TypeOK, panelVars
<1>12. LoadsOK' /\ ShownOK'
  BY LoadsKept DEF ActionServed
<1> QED BY <1>3, <1>4, <1>5, <1>7, <1>9, <1>10, <1>11, <1>12

LEMMA ExecutionsKept ==
  ASSUME ExecutionsOK, SameClicks, UNCHANGED executions
  PROVE  ExecutionsOK'
BY DEF ExecutionsOK, SameClicks

\* What a click waited for says: its panel is mounted, and it holds the key.
LEMMA WaitedFor ==
  ASSUME SInv, NEW n \in ClickId, submitting = n
  PROVE  /\ PanelMounted /\ click[n].phase = "sent" /\ click[n].ticket = ticket
         /\ click[n].panel = panel /\ click[n].action \in ActionType
         /\ keys[click[n].action] = click[n].key /\ ticket \in Tickets
         /\ click[n].key # None
BY NoneIsNoId DEF SInv, WaitingOK, TypeOK, ClicksOK, Sent, Default, ActionType

LEMMA ActionAnsweredSafe ==
  ASSUME SInv, NEW n \in ClickId, ActionAnswered(n)
  PROVE  SInv'
<1> USE DEF SInv
<1>1. Sent(n) /\ click[n].phase = "sent"
  BY DEF ActionAnswered, Sent
<1>2. click' = [click EXCEPT ![n].phase = "answered", ![n].served = click[n].served]
  BY DEF ActionAnswered, ClicksOK, ClickRecord
<1>3. click[n].served \in BOOLEAN
  BY DEF ClicksOK, ClickRecord
<1>4. ClicksOK' /\ SameClicks
  BY <1>1, <1>2, <1>3, ClickMoves
<1>5. FamiliesOK' /\ OneKey'
  BY <1>4, FamiliesKept
<1>6. /\ ExecutionsOK' /\ UNCHANGED <<panel, ticket, executions>>
      /\ \A m \in ClickId \ {n} : click'[m].phase = click[m].phase
  BY <1>4, ExecutionsKept DEF ActionAnswered, apiVars, cardVars, ClicksOK, ClickRecord
<1>7. LoadsOK' /\ ShownOK'
  BY LoadsKept DEF ActionAnswered, apiVars
<1>8. CASE submitting = n
  <2> DEFINE t == click[n].ticket
             a == click[n].action
  <2>1. /\ keys' = [keys EXCEPT ![a] = None] /\ submitting' = None
        /\ unsure' = [unsure EXCEPT ![t][a] = None]
    BY <1>8 DEF ActionAnswered, release
  <2>2. PanelMounted /\ t = ticket /\ t \in Tickets /\ a \in ActionType
    BY <1>8, WaitedFor
  <2>3. TypeOK'
    BY <1>6, <2>1, <2>2, ScreenKept DEF ActionAnswered, TypeOK, apiVars
  <2>4. \A u \in Tickets, b \in ActionType :
          unsure'[u][b] = IF u = t /\ b = a THEN None ELSE unsure[u][b]
    BY <2>1, <2>2 DEF TypeOK
  <2>5. UnsureOK'
    <3> SUFFICES ASSUME NEW u \in Tickets, NEW b \in ActionType, unsure'[u][b] # None
                 PROVE  LET i == unsure'[u][b]
                        IN /\ click'[i].phase # "unused" /\ click'[i].intent = i
                           /\ click'[i].ticket = u /\ click'[i].action = b
      BY DEF UnsureOK, Sent
    <3>1. unsure'[u][b] = unsure[u][b] /\ unsure[u][b] \in ClickId
      BY <2>4 DEF TypeOK
    <3> QED BY <1>4, <3>1 DEF UnsureOK, SameClicks, Sent
  <2>6. HeldOK'
    <3> SUFFICES ASSUME NEW b \in ActionType, keys'[b] # None
                 PROVE  LET k == keys'[b]
                        IN /\ click'[k].phase # "unused" /\ click'[k].key = k
                           /\ click'[k].ticket = ticket /\ click'[k].action = b
                           /\ click'[k].panel = panel
                           /\ unsure'[ticket][b] = click'[k].intent
      BY <1>6 DEF HeldOK, Sent
    <3>1. b # a /\ keys'[b] = keys[b] /\ keys[b] \in ClickId
      BY <2>1 DEF TypeOK
    <3>2. unsure'[ticket][b] = unsure[ticket][b]
      BY <2>2, <2>4, <3>1
    <3>3. click[keys[b]].action = b /\ Sent(keys[b]) /\ click[keys[b]].key = keys[b]
      BY <3>1, NoneIsNoId DEF HeldOK
    <3>4. KeyOf(n, click[n].key)
      BY <1>1 DEF FamiliesOK
    <3>5. click[n].key # keys[b]
      BY <3>1, <3>3, <3>4 DEF KeyOf
    <3> QED BY <1>4, <1>8, <3>1, <3>2, <3>5, NoneIsNoId, ZenonT(60)
            DEF HeldOK, SameClicks, Sent
  <2>7. UnknownHeld'
    BY <1>4, <1>6, <2>1, <2>2, <2>4, NoneIsNoId
       DEF UnknownHeld, SameClicks, TypeOK, ClicksOK, Default, ActionType
  <2>8. WaitingOK'
    BY <1>4, <1>6, <2>1, NoneIsNoId DEF WaitingOK, SameClicks, TypeOK
  <2> QED BY <1>4, <1>5, <1>6, <1>7, <2>3, <2>5, <2>6, <2>7, <2>8
<1>9. CASE submitting # n
  <2>1. UNCHANGED <<keys, submitting, unsure>>
    BY <1>9 DEF ActionAnswered
  <2>2. TypeOK'
    BY <1>6, <2>1, ScreenKept DEF ActionAnswered, TypeOK, apiVars, panelVars
  <2>3. UnsureOK'
    BY <1>4, <2>1, UnsureKept
  <2>4. HeldOK' /\ UnknownHeld'
    BY <1>4, <1>6, <2>1, HeldKept
  <2>5. WaitingOK'
    BY <1>4, <1>6, <1>9, <2>1, NoneIsNoId DEF WaitingOK, SameClicks, TypeOK
  <2> QED BY <1>4, <1>5, <1>6, <1>7, <2>2, <2>3, <2>4, <2>5
<1> QED BY <1>8, <1>9

LEMMA ActionLostSafe ==
  ASSUME SInv, NEW n \in ClickId, ActionLost(n)
  PROVE  SInv'
<1> USE DEF SInv
<1>1. Sent(n) /\ click[n].phase = "sent"
  BY DEF ActionLost, Sent
<1>2. click' = [click EXCEPT ![n].phase = "lost", ![n].served = click[n].served]
  BY DEF ActionLost, ClicksOK, ClickRecord
<1>3. click[n].served \in BOOLEAN
  BY DEF ClicksOK, ClickRecord
<1>4. ClicksOK' /\ SameClicks
  BY <1>1, <1>2, <1>3, ClickMoves
<1>5. FamiliesOK' /\ OneKey'
  BY <1>4, FamiliesKept
<1>6. /\ ExecutionsOK' /\ UNCHANGED <<panel, ticket, executions, keys>>
      /\ \A m \in ClickId \ {n} : click'[m].phase = click[m].phase
  BY <1>4, ExecutionsKept DEF ActionLost, apiVars, cardVars, ClicksOK, ClickRecord
<1>7. LoadsOK' /\ ShownOK'
  BY LoadsKept DEF ActionLost, apiVars
<1>8. CASE submitting = n
  <2> DEFINE t == click[n].ticket
             a == click[n].action
             i == click[n].intent
  <2>1. submitting' = None /\ unsure' = [unsure EXCEPT ![t][a] = i]
    BY <1>8 DEF ActionLost
  <2>2. /\ PanelMounted /\ t = ticket /\ t \in Tickets /\ a \in ActionType
        /\ i \in ClickId /\ click[n].panel = panel /\ keys[a] = click[n].key
    BY <1>1, <1>8, WaitedFor DEF ClicksOK
  <2>3. TypeOK'
    BY <1>6, <2>1, <2>2, ScreenKept DEF ActionLost, TypeOK, apiVars
  <2>4. \A u \in Tickets, b \in ActionType :
          unsure'[u][b] = IF u = t /\ b = a THEN i ELSE unsure[u][b]
    BY <2>1, <2>2 DEF TypeOK
  <2>5. UnsureOK'
    <3> SUFFICES ASSUME NEW u \in Tickets, NEW b \in ActionType, unsure'[u][b] # None
                 PROVE  LET j == unsure'[u][b]
                        IN /\ click'[j].phase # "unused" /\ click'[j].intent = j
                           /\ click'[j].ticket = u /\ click'[j].action = b
      BY DEF UnsureOK, Sent
    <3>1. CASE u = t /\ b = a
      <4>1. IntentOf(n, i)
        BY <1>1 DEF FamiliesOK
      <4>2. /\ click'[i].phase # "unused" /\ click'[i].intent = i
            /\ click'[i].ticket = t /\ click'[i].action = a
        BY <1>4, <4>1 DEF IntentOf, SameClicks, Sent
      <4>3. unsure'[u][b] = i
        BY <2>4, <3>1
      <4> QED BY <3>1, <4>2, <4>3
    <3>2. CASE ~(u = t /\ b = a)
      <4>1. unsure'[u][b] = unsure[u][b] /\ unsure[u][b] \in ClickId
        BY <2>4, <3>2 DEF TypeOK
      <4> QED BY <1>4, <4>1 DEF UnsureOK, SameClicks, Sent
    <3> QED BY <3>1, <3>2
  <2>6. HeldOK'
    <3>1. KeyOf(n, click[n].key)
      BY <1>1 DEF FamiliesOK
    <3> SUFFICES ASSUME NEW b \in ActionType, keys[b] # None
                 PROVE  LET k == keys[b]
                        IN /\ Sent(k)' /\ click'[k].key = k
                           /\ click'[k].ticket = ticket /\ click'[k].action = b
                           /\ click'[k].panel = panel
                           /\ unsure'[ticket][b] = click'[k].intent
      BY <1>6 DEF HeldOK
    <3> DEFINE k == keys[b]
    <3>2. /\ Sent(k) /\ click[k].key = k
          /\ click[k].ticket = ticket /\ click[k].action = b /\ click[k].panel = panel
          /\ \/ click[n].key = k
             \/ unsure[ticket][b] = click[k].intent
      BY <1>8 DEF HeldOK
    <3>3. k \in ClickId
      <4>1. keys[b] \in ClickId \cup {None} /\ keys[b] # None
        BY DEF TypeOK
      <4> QED BY <4>1
    <3>4. /\ Sent(k)' /\ click'[k].key = k /\ click'[k].intent = click[k].intent
          /\ click'[k].ticket = ticket /\ click'[k].action = b /\ click'[k].panel = panel
      BY <1>4, <1>6, <3>2, <3>3 DEF SameClicks, Sent
    <3>5. unsure'[ticket][b] = click[k].intent
      <4>1. CASE b = a
        <5>1. click[k].intent = i
          BY <2>2, <3>1, <4>1 DEF KeyOf
        <5> QED BY <2>2, <2>4, <4>1, <5>1
      <4>2. CASE b # a
        <5>1. click[n].key # k
          BY <2>2, <3>1, <3>2, <4>2 DEF KeyOf
        <5> QED BY <2>2, <2>4, <3>2, <4>2, <5>1
      <4> QED BY <4>1, <4>2
    <3> QED BY <3>4, <3>5
  <2>7. UnknownHeld'
    BY <1>1, <1>4, <1>6, <2>1, <2>2, <2>4, NoneIsNoId
       DEF UnknownHeld, SameClicks, TypeOK, ClicksOK, OneKey, Default, ActionType
  <2>8. WaitingOK'
    BY <1>4, <1>6, <2>1, NoneIsNoId DEF WaitingOK, SameClicks, TypeOK
  <2> QED BY <1>4, <1>5, <1>6, <1>7, <2>3, <2>5, <2>6, <2>7, <2>8
<1>9. CASE submitting # n
  <2>1. UNCHANGED <<submitting, unsure>>
    BY <1>9 DEF ActionLost
  <2>2. TypeOK'
    BY <1>6, <2>1, ScreenKept DEF ActionLost, TypeOK, apiVars, panelVars
  <2>3. UnsureOK'
    BY <1>4, <2>1, UnsureKept
  <2>4. HeldOK' /\ UnknownHeld'
    BY <1>4, <1>6, <2>1, HeldKept
  <2>5. WaitingOK'
    BY <1>4, <1>6, <1>9, <2>1, NoneIsNoId DEF WaitingOK, SameClicks, TypeOK
  <2> QED BY <1>4, <1>5, <1>6, <1>7, <2>2, <2>3, <2>4, <2>5
<1> QED BY <1>8, <1>9

\* A click mints a key, an intent and a panel, or joins those that are held.
LEMMA HandleActionSafe ==
  ASSUME SInv, NEW n \in ClickId, NEW a \in ActionType, handleAction(n, a)
  PROVE  SInv'
<1> USE DEF SInv
<1>1. /\ ~Sent(n) /\ PanelMounted /\ submitting = None /\ a \in Default
      /\ card.ticket = ticket /\ ticket \in Tickets
  BY NoneIsNoId DEF handleAction, Sent, PanelMounted, TypeOK, buildDefaultCtas, Default
<1>a. PICK k \in ClickId : k = keyFor(a, n)
  BY DEF keyFor, TypeOK
<1>b. PICK i \in ClickId : i = Intent(ticket, a, n)
  BY <1>1 DEF Intent, TypeOK
<1>c. PICK p \in ClickId : p = IF panel = None THEN n ELSE panel
  BY DEF TypeOK
<1>2. /\ submitting' = n /\ keys' = [keys EXCEPT ![a] = k] /\ panel' = p
      /\ UNCHANGED <<appVars, cardVars, loadVars, unsure, record, executions>>
  BY <1>a, <1>c DEF handleAction, apiVars
<1>3. UNCHANGED ticket
  BY <1>2 DEF cardVars
<1> DEFINE c == [phase |-> "sent", ticket |-> ticket, action |-> a, key |-> k,
                 intent |-> i, panel |-> p, served |-> FALSE]
<1>5. click' = [click EXCEPT ![n] = c]
  BY <1>1, <1>2, <1>a, <1>b DEF handleAction
<1>6. c \in ClickRecord
  BY <1>1 DEF ClickRecord
<1>7. /\ click' \in [ClickId -> ClickRecord] /\ click'[n] = c
      /\ \A m \in ClickId \ {n} : click'[m] = click[m]
  BY <1>5, <1>6 DEF ClicksOK
<1>8. /\ Sent(n)' /\ \A m \in ClickId \ {n} : Sent(m)' <=> Sent(m)
      /\ \A m \in ClickId : Sent(m) => m # n /\ click'[m] = click[m] /\ Sent(m)'
      /\ click'[n].ticket = ticket /\ click'[n].action = a /\ click'[n].key = k
      /\ click'[n].intent = i /\ click'[n].panel = p /\ click'[n].phase = "sent"
  BY <1>1, <1>7 DEF Sent
<1> HIDE DEF c
<1>9. ClicksOK'
  BY <1>1, <1>7, <1>8 DEF ClicksOK, Sent
\* The key, the intent and the panel joined are those of an earlier click, or n.
<1>10. /\ k # n => k = keys[a] /\ keys[a] # None
       /\ i # n => i = unsure[ticket][a] /\ unsure[ticket][a] # None
       /\ keys[a] # None => k = keys[a]
       /\ unsure[ticket][a] # None => i = unsure[ticket][a]
       /\ keys[a] = None => k = n
       /\ unsure[ticket][a] = None => i = n
  BY <1>a, <1>b DEF keyFor, Intent
<1>11. keys[a] # None =>
         /\ Sent(keys[a]) /\ click[keys[a]].key = keys[a] /\ click[keys[a]].panel = panel
         /\ click[keys[a]].ticket = ticket /\ click[keys[a]].action = a
         /\ unsure[ticket][a] = click[keys[a]].intent
         /\ panel # None /\ unsure[ticket][a] # None /\ keys[a] \in ClickId
  <2> SUFFICES ASSUME keys[a] # None
               PROVE  LET h == keys[a]
                      IN /\ h \in ClickId /\ Sent(h) /\ click[h].key = h
                         /\ click[h].panel = panel /\ click[h].panel # None
                         /\ click[h].ticket = ticket /\ click[h].action = a
                         /\ unsure[ticket][a] = click[h].intent /\ click[h].intent # None
    OBVIOUS
  <2>1. keys[a] \in ClickId
    BY DEF TypeOK
  <2>2. /\ Sent(keys[a]) /\ click[keys[a]].key = keys[a] /\ click[keys[a]].panel = panel
        /\ click[keys[a]].ticket = ticket /\ click[keys[a]].action = a
        /\ unsure[ticket][a] = click[keys[a]].intent
    BY <1>1 DEF HeldOK
  <2> QED BY <2>1, <2>2, NoneIsNoId DEF ClicksOK
<1>12. unsure[ticket][a] # None =>
         LET j == unsure[ticket][a]
         IN /\ j \in ClickId /\ Sent(j) /\ click[j].intent = j
            /\ click[j].ticket = ticket /\ click[j].action = a
  BY <1>1 DEF UnsureOK, TypeOK
<1>13. KeyOf(n, k)'
  <2>1. CASE keys[a] = None
    BY <1>8, <1>10, <2>1 DEF KeyOf, Sent
  <2>2. CASE keys[a] # None
    BY <1>c, <1>8, <1>10, <1>11, <2>2 DEF KeyOf, Sent
  <2> QED BY <2>1, <2>2
<1>14. IntentOf(n, i)'
  <2>1. CASE unsure[ticket][a] = None
    BY <1>8, <1>10, <2>1 DEF IntentOf, Sent
  <2>2. CASE unsure[ticket][a] # None
    BY <1>8, <1>10, <1>12, <2>2 DEF IntentOf, Sent
  <2> QED BY <2>1, <2>2
<1>15. FamiliesOK'
  <2> SUFFICES ASSUME NEW m \in ClickId, Sent(m)'
               PROVE  /\ KeyOf(m, click[m].key)' /\ IntentOf(m, click[m].intent)'
                      /\ Sent(click[m].panel)'
    BY DEF FamiliesOK
  <2>1. CASE m = n
    <3>1. click'[p].phase # "unused"
      BY <1>c, <1>8 DEF WaitingOK, Sent
    <3> QED BY <1>8, <1>13, <1>14, <2>1, <3>1 DEF KeyOf, IntentOf, Sent
  <2>2. CASE m # n
    <3>1. /\ Sent(m) /\ click'[m] = click[m] /\ KeyOf(m, click[m].key)
          /\ IntentOf(m, click[m].intent) /\ Sent(click[m].panel)
          /\ click[m].panel \in ClickId
      BY <1>8, <2>2 DEF FamiliesOK, ClicksOK
    <3> QED BY <1>8, <3>1 DEF KeyOf, IntentOf, Sent
  <2> QED BY <2>1, <2>2
\* An earlier click of this intent on this panel: its key is the one held.
<1>16. \A m \in ClickId :
         Sent(m) /\ click[m].intent = i /\ click[m].panel = p => click[m].key = k
  <2> SUFFICES ASSUME NEW m \in ClickId, Sent(m), click[m].intent = i, click[m].panel = p
               PROVE  click[m].key = k
    OBVIOUS
  <2>1. /\ IntentOf(m, i) /\ Sent(click[m].panel) /\ click[m].panel \in ClickId
        /\ click[m].key \in ClickId
    BY DEF FamiliesOK, ClicksOK
  <2>2. i # n /\ panel # None /\ p = panel
    BY <1>1, <1>c, <2>1 DEF IntentOf
  <2>3. i = unsure[ticket][a] /\ unsure[ticket][a] # None
    BY <1>10, <2>2
  <2>4. click[m].action = a
    BY <1>12, <2>1, <2>3 DEF IntentOf
  <2>5. keys[a] = click[m].key
    BY <2>2, <2>3, <2>4 DEF UnknownHeld
  <2> QED BY <1>10, <2>1, <2>5, NoneIsNoId
<1>17. OneKey'
  <2> SUFFICES ASSUME NEW m \in ClickId, NEW q \in ClickId, Sent(m)', Sent(q)',
                      click'[m].intent = click'[q].intent,
                      click'[m].panel = click'[q].panel
               PROVE  click'[m].key = click'[q].key
    BY DEF OneKey
  <2>1. CASE m # n /\ q # n
    BY <1>8, <2>1 DEF OneKey
  <2>2. CASE m = n \/ q = n
    BY <1>8, <1>16, <2>2
  <2> QED BY <2>1, <2>2
<1>18. UnsureOK'
  <2> SUFFICES ASSUME NEW t \in Tickets, NEW b \in ActionType, unsure[t][b] # None
               PROVE  LET j == unsure[t][b]
                      IN /\ click'[j].phase # "unused" /\ click'[j].intent = j
                         /\ click'[j].ticket = t /\ click'[j].action = b
    BY <1>2 DEF UnsureOK, Sent
  <2>1. unsure[t][b] \in ClickId
    BY DEF TypeOK
  <2> QED BY <1>8, <2>1 DEF UnsureOK, Sent
<1>19. HeldOK'
  <2> SUFFICES ASSUME NEW b \in ActionType, keys'[b] # None
               PROVE  LET h == keys'[b]
                      IN /\ click'[h].phase # "unused" /\ click'[h].key = h
                         /\ click'[h].ticket = ticket /\ click'[h].action = b
                         /\ click'[h].panel = p
                         /\ \/ n # None /\ click'[n].key = h
                            \/ unsure[ticket][b] = click'[h].intent
    BY <1>2, <1>3 DEF HeldOK, Sent
  <2>1. CASE b = a
    <3>1. keys'[b] = k
      BY <1>2, <2>1 DEF TypeOK
    <3> QED BY <1>8, <1>13, <2>1, <3>1, NoneIsNoId DEF KeyOf, Sent
  <2>2. CASE b # a
    <3>1. keys'[b] = keys[b] /\ keys[b] \in ClickId
      BY <1>2, <2>2 DEF TypeOK
    <3>2. /\ Sent(keys[b]) /\ click[keys[b]].key = keys[b] /\ click[keys[b]].panel = panel
          /\ click[keys[b]].ticket = ticket /\ click[keys[b]].action = b
          /\ unsure[ticket][b] = click[keys[b]].intent
      BY <1>1, <3>1, NoneIsNoId DEF HeldOK
    <3>3. p = panel
      BY <1>c, <3>1, <3>2, NoneIsNoId DEF ClicksOK
    <3> QED BY <1>8, <3>1, <3>2, <3>3 DEF Sent
  <2> QED BY <2>1, <2>2
<1>20. UnknownHeld'
  <2> SUFFICES ASSUME NEW m \in ClickId, Sent(m)', click'[m].panel = p,
                      unsure[ticket][click'[m].action] = click'[m].intent
               PROVE  keys'[click'[m].action] = click'[m].key
    BY <1>2, <1>3 DEF UnknownHeld
  <2>1. CASE m = n
    BY <1>2, <1>8, <2>1 DEF TypeOK
  <2>2. CASE m # n
    <3>1. /\ Sent(m) /\ click'[m] = click[m] /\ click[m].action \in ActionType
          /\ click[m].panel \in ClickId /\ Sent(click[m].panel) /\ click[m].key \in ClickId
      BY <1>8, <2>2 DEF ClicksOK, FamiliesOK, Default, ActionType
    <3>2. p = panel
      BY <1>1, <1>c, <3>1
    <3>3. keys[click[m].action] = click[m].key
      BY <3>1, <3>2 DEF UnknownHeld
    <3> QED BY <1>2, <1>10, <3>1, <3>3, NoneIsNoId DEF TypeOK
  <2> QED BY <2>1, <2>2
<1>21. WaitingOK'
  <2>1. click'[p].phase # "unused"
    BY <1>c, <1>8 DEF WaitingOK, Sent
  <2>2. keys'[a] = k
    BY <1>2 DEF TypeOK
  <2> QED BY <1>2, <1>3, <1>8, <2>1, <2>2 DEF WaitingOK, Sent
<1>22. ExecutionsOK'
  BY <1>2, <1>8 DEF ExecutionsOK
<1>23. TypeOK'
  <2>1. keys' \in [ActionType -> ClickId \cup {None}]
    BY <1>2 DEF TypeOK
  <2> QED BY <1>1, <1>2, <2>1, ScreenKept DEF TypeOK
<1>24. LoadsOK' /\ ShownOK'
  BY <1>2, LoadsKept
<1> QED BY <1>9, <1>15, <1>17, <1>18, <1>19, <1>20, <1>21, <1>22, <1>23, <1>24

-----------------------------------------------------------------------------
(***************************************************************************)
(* The API completes an execution, and the ticket moves on.                *)
(***************************************************************************)
LEMMA ExecutionCompletesSafe ==
  ASSUME SInv, NEW e \in executions, ExecutionCompletes(e)
  PROVE  SInv'
<1> USE DEF SInv
<1> DEFINE t == click[e.by].ticket
           a == click[e.by].action
           f == [e EXCEPT !.done = TRUE]
<1>1. e \in [key : ClickId, by : ClickId, done : BOOLEAN] /\ Sent(e.by)
  BY DEF ExecutionsOK
<1>2. t \in Tickets /\ a \in Default
  BY <1>1 DEF ClicksOK
<1>3. deriveTargetState(a) \in IssueState
  BY <1>2 DEF ExecutionCompletes, buildEffectsForAction, deriveTargetState, Default, IssueState
<1>4. record' = [record EXCEPT ![t] =
        [version |-> record[t].version + 1, state |-> deriveTargetState(a)]]
  BY DEF ExecutionCompletes
<1>5. /\ record' \in [Tickets -> Record]
      /\ \A u \in Tickets : record[u].version \in Nat /\ record[u].version <= record'[u].version
  BY <1>2, <1>3, <1>4 DEF TypeOK, Record
<1>6. UNCHANGED <<appVars, cardVars, loadVars, panelVars, agentVars>>
  BY DEF ExecutionCompletes
<1>7. ExecutionsOK'
  <2>1. executions' = (executions \ {e}) \cup {f}
    BY DEF ExecutionCompletes
  <2>2. /\ f \in [key : ClickId, by : ClickId, done : BOOLEAN]
        /\ f.key = e.key /\ f.by = e.by
    BY <1>1
  <2> HIDE DEF f
  <2> QED BY <1>6, <2>1, <2>2 DEF ExecutionsOK, agentVars, Sent
<1>8. ClicksOK' /\ FamiliesOK' /\ OneKey' /\ UnsureOK'
  BY <1>6 DEF agentVars, ClicksOK, FamiliesOK, OneKey, UnsureOK, Sent, KeyOf, IntentOf
<1>9. PanelOK'
  BY <1>6, PanelKept DEF PanelOK, cardVars
<1>10. TypeOK'
  BY <1>5, <1>6, <1>7 DEF TypeOK, ExecutionsOK, PanelMounted, appVars, cardVars,
                          loadVars, panelVars, agentVars
<1>11. LoadsOK'
  <2> SUFFICES ASSUME NEW l \in Loads, load[l].phase = "served"
               PROVE  load[l].card.version <= record'[load[l].of].version
    BY <1>6 DEF LoadsOK, loadVars
  <2>1. /\ load[l].card.version <= record[load[l].of].version
        /\ load[l].of \in Tickets /\ load[l].card.version \in Nat
    BY DEF LoadsOK, Card
  <2>2. record'[load[l].of].version \in Nat
    BY <1>5, <2>1 DEF Record
  <2> QED BY <1>5, <2>1, <2>2
<1>12. ShownOK'
  <2>1. card # None => card.version <= record'[ticket].version
    <3> SUFFICES ASSUME card # None PROVE card.version <= record'[ticket].version
      OBVIOUS
    <3>1. /\ ticket \in Tickets /\ card.version \in Nat
          /\ card.version <= record[ticket].version
      BY NoneIsNoId DEF TypeOK, Card, ShownOK
    <3>2. record'[ticket].version \in Nat
      BY <1>5, <3>1 DEF Record
    <3> QED BY <1>5, <3>1, <3>2
  <2> QED BY <1>6, <2>1 DEF ShownOK, loadVars, cardVars
<1> QED BY <1>7, <1>8, <1>9, <1>10, <1>11, <1>12 DEF PanelOK

LEMMA InvStep == SInv /\ [Next]_sidebarVars => SInv'
<1> SUFFICES ASSUME SInv, [Next]_sidebarVars PROVE SInv'
  OBVIOUS
<1>1. CASE \E t \in Tickets : switchTicket(t)
  BY <1>1, SwitchTicketSafe
<1>2. CASE \E l \in Lookups : ContextArrives(l) \/ ContextTimedOut(l)
  BY <1>2, ContextArrivesSafe, ContextTimedOutSafe
<1>3. CASE refetch
  BY <1>3, RefetchSafe
<1>4. CASE \E l \in Loads : CardServed(l) \/ CardArrives(l)
  BY <1>4, CardServedSafe, CardArrivesSafe
<1>5. CASE \E n \in ClickId : \E a \in ActionType : handleAction(n, a)
  BY <1>5, HandleActionSafe
<1>6. CASE \E n \in ClickId : ActionServed(n) \/ ActionAnswered(n) \/ ActionLost(n)
  BY <1>6, ActionServedSafe, ActionAnsweredSafe, ActionLostSafe
<1>7. CASE \E e \in executions : ExecutionCompletes(e)
  BY <1>7, ExecutionCompletesSafe
<1>8. CASE UNCHANGED sidebarVars
  <2> USE <1>8 DEF SInv, sidebarVars
  <2>1. TypeOK'
    BY DEF TypeOK, PanelMounted, appVars, cardVars, loadVars, panelVars, agentVars, apiVars
  <2>2. AgentOK' /\ PanelOK'
    BY AgentKept, PanelKept DEF AgentOK, PanelOK, apiVars, cardVars
  <2>3. LoadsOK' /\ ShownOK'
    BY LoadsKept DEF apiVars
  <2> QED BY <2>1, <2>2, <2>3 DEF AgentOK, PanelOK
<1> QED BY <1>1, <1>2, <1>3, <1>4, <1>5, <1>6, <1>7, <1>8 DEF Next

-----------------------------------------------------------------------------
(***************************************************************************)
(* The theorems.                                                           *)
(***************************************************************************)
\* The invariant holds however many clicks, requests and lookups are under way.
THEOREM Invariant == Spec => []SInv
<1> QED BY InvInit, InvStep, PTL DEF Spec

\* (type) Every variable keeps its type, and a panel that is not mounted holds
\* no key and waits for nothing.
THEOREM TypeCorrect == Spec => []TypeOK
<1>1. SInv => TypeOK
  BY DEF SInv
<1> QED BY Invariant, <1>1, PTL

\* A click on "retry" is executed once per panel, for any number of clicks, lost
\* answers and requests that still reach the API: the key outlives them.
THEOREM RetriesAreSafe == Spec => []RetriesActOnce
<1>1. SInv => RetriesActOnce
  BY DEF SInv, RetriesActOnce, ExecutionsOK, OneKey
<1> QED BY Invariant, <1>1, PTL

\* No key the panel holds is sent for something else than it was minted for.
THEOREM NewIntentsAreHeard == Spec => []NewIntentsAct
<1>1. SInv => NewIntentsAct
  <2> SUFFICES ASSUME SInv, NEW m \in ClickId, NEW n \in ClickId,
                      click[m].key # None, click[m].key = click[n].key
               PROVE  click[m].intent = click[n].intent
    BY DEF NewIntentsAct
  <2>1. Sent(m) /\ Sent(n)
    BY DEF SInv, ClicksOK, Unused
  <2> QED BY <2>1 DEF SInv, FamiliesOK, KeyOf
<1> QED BY Invariant, <1>1, PTL

\* However the answers to the polls overtake one another, the card of a ticket
\* on screen is never replaced by an older one.
THEOREM CardsNeverGoBack == Spec => CardNeverGoesBack
<1>1. SInv /\ [Next]_sidebarVars =>
        [card # None /\ card' # None /\ ticket' = ticket
           => card'.version >= card.version]_sidebarVars
  <2> SUFFICES ASSUME SInv, Next, card # None, card' # None, ticket' = ticket
               PROVE  card'.version >= card.version
    OBVIOUS
  <2>0. card.version \in Nat
    BY NoneIsNoId DEF SInv, TypeOK, Card
  <2>1. CASE UNCHANGED card
    BY <2>0, <2>1
  <2>2. ASSUME NEW l \in Loads, CardArrives(l), card' # card
        PROVE  card'.version >= card.version
    <3>1. l = current /\ current # None /\ card' = load[l].card /\ load[l].phase = "served"
      BY <2>2, NoneIsNoId DEF CardArrives, heard, showCard, cardVars
    <3>2. card.version <= load[l].card.version /\ load[l].card.version \in Nat
      BY <3>1 DEF SInv, ShownOK, LoadsOK, Card
    <3> QED BY <2>0, <3>1, <3>2
  <2>3. ASSUME NEW l \in Lookups, ContextArrives(l)
        PROVE  UNCHANGED card
    BY <2>3 DEF ContextArrives, mount, cardVars
  <2>4. ASSUME NEW l \in Lookups, ContextTimedOut(l)
        PROVE  UNCHANGED card
    BY <2>4 DEF ContextTimedOut, unmount
  <2>5. CASE \E t \in Tickets : switchTicket(t)
    BY <2>1, <2>5 DEF switchTicket, cardVars
  <2>6. CASE refetch \/ \E l \in Loads : CardServed(l)
    BY <2>1, <2>6 DEF refetch, CardServed, cardVars
  <2>7. CASE \E n \in ClickId : \/ \E a \in ActionType : handleAction(n, a)
                               \/ ActionServed(n) \/ ActionAnswered(n) \/ ActionLost(n)
    BY <2>1, <2>7 DEF handleAction, ActionServed, ActionAnswered, ActionLost, cardVars
  <2>8. CASE \E e \in executions : ExecutionCompletes(e)
    BY <2>1, <2>8 DEF ExecutionCompletes, cardVars
  <2> QED BY <2>1, <2>2, <2>3, <2>4, <2>5, <2>6, <2>7, <2>8 DEF Next
<1> QED BY Invariant, <1>1, PTL DEF Spec, CardNeverGoesBack
=============================================================================
