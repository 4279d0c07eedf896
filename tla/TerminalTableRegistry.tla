------------------------ MODULE TerminalTableRegistry ------------------------
(* The terminal table, store by store, as a registry: an entry appears with *)
(* the store of the terminal number and changes with the store of the       *)
(* state, whatever the order of the stores and whoever is killed between.   *)
EXTENDS TerminalTable

HasRow(t) == \E i \in Slots : rows[i].term_no = t

IsConnected(t) ==
  \E i \in Slots : rows[i].term_no = t /\ rows[i].state = TERM_STATE_CONNECTED

Entry(t) ==
  IF HasRow(t) THEN IF IsConnected(t) THEN "connected" ELSE "disconnected" ELSE "unused"

Entries == [t \in Terms |-> Entry(t)]

Joined == {t \in Terms : joined[t]}

R == INSTANCE Registry WITH reg <- Entries, serving <- Joined

(* Stores in any order, torn by kills, with registrations racing for rows:  *)
(* what users of the table can see is still one entry per terminal that     *)
(* changes in one step, by its own termd (shm_table.h:84-108).              *)
ImplementsRegistry == R!Spec
=============================================================================
