---------------------------- MODULE EventContract ----------------------------
(***************************************************************************)
(* What ingestion promises about the events of a provider, with no         *)
(* requests, transactions, queue or faults: an event takes effect in one   *)
(* step, once or never.  Deliveries, duplicates, failures, lost answers,   *)
(* restarts and replays cannot be told from nothing happening.             *)
(***************************************************************************)
EXTENDS Naturals, Sequences

CONSTANTS
  Events, Tickets,
  OldTickets,   \* tickets that have an issue from the beginning
  Kind,         \* what an event is about
  TicketOf,     \* the ticket it names
  MergedIds,    \* the tickets a merge lists
  Gate          \* reopens that make a ticket's customer a HIGH risk

VARIABLES
  applied,      \* events that took effect
  linked,       \* tickets that have an issue
  secondary,    \* tickets merged into another
  deleted,      \* tickets deleted
  reopens,      \* reopens of a ticket
  signals       \* severities recorded for a ticket

contractVars == <<applied, linked, secondary, deleted, reopens, signals>>

ContractInit ==
  /\ applied = {}
  /\ linked = OldTickets
  /\ secondary = {} /\ deleted = {}
  /\ reopens = [t \in Tickets |-> 0]
  /\ signals = [t \in Tickets |-> {}]

\* The severities that n reopens justify.
Earned(n) ==
  {"LOW"} \cup (IF 2 * n >= Gate THEN {"MEDIUM"} ELSE {})
          \cup (IF n >= Gate THEN {"HIGH"} ELSE {})

\* A ticket is announced with effect once.
Create(t) ==
  /\ t \notin linked
  /\ linked' = linked \cup {t}
  /\ UNCHANGED <<secondary, deleted, reopens, signals>>

Delete(t) ==
  /\ t \in linked
  /\ deleted' = deleted \cup {t}
  /\ UNCHANGED <<linked, secondary, reopens, signals>>

\* All tickets it lists are merged in one step, but for some that were not known
\* all along: the event may overtake those that announce them.
Merge(ids) ==
  \E M \in SUBSET (ids \cap linked) :
    /\ ids \cap OldTickets \subseteq M
    /\ secondary' = secondary \cup M
    /\ UNCHANGED <<linked, deleted, reopens, signals>>

\* No reopen is lost from the count, and each records one signal.
Reopen(t) ==
  /\ t \in linked
  /\ reopens' = [reopens EXCEPT ![t] = @ + 1]
  /\ \E s \in Earned(reopens[t] + 1) : signals' = [signals EXCEPT ![t] = @ \cup {s}]
  /\ UNCHANGED <<linked, secondary, deleted>>

\* An event may overtake the one that announces its ticket, and is then spent
\* for nothing; not so when the ticket was known all along.
Miss(t) ==
  /\ t \notin OldTickets
  /\ UNCHANGED <<linked, secondary, deleted, reopens, signals>>

Effect(e) ==
  LET t == TicketOf[e]
  IN  CASE Kind[e] = "created"  -> Create(t)
        [] Kind[e] = "deleted"  -> Delete(t) \/ Miss(t)
        [] Kind[e] = "merged"   -> Merge({MergedIds[e][i] : i \in DOMAIN MergedIds[e]})
        [] Kind[e] = "reopened" -> Reopen(t) \/ Miss(t)
        [] OTHER -> UNCHANGED <<linked, secondary, deleted, reopens, signals>>

Take(e) ==
  /\ e \notin applied
  /\ applied' = applied \cup {e}
  /\ Effect(e)

ContractSpec == ContractInit /\ [][\E e \in Events : Take(e)]_contractVars
=============================================================================
