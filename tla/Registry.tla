------------------------------- MODULE Registry -------------------------------
(***************************************************************************)
(* What the terminal table promises its users: for each terminal one entry *)
(* that says whether the terminal is registered and connected, changed in  *)
(* one step and only by the termd that serves the terminal.  An entry      *)
(* outlives its termd and is never given up or passed on.                  *)
(***************************************************************************)
CONSTANT Terms

VARIABLES
  reg,    \* reg[t]: "unused" while t has no row, else its state
  serving \* the termds that have registered and are alive

vars == <<reg, serving>>

States == {"disconnected", "connected"}

Init ==
  /\ reg \in [Terms -> {"unused"} \cup States]
  /\ serving \subseteq {t \in Terms : reg[t] # "unused"}

Enter(t) == reg' = [reg EXCEPT ![t] = IF @ = "unused" THEN "disconnected" ELSE @]

(* A registration takes effect before register_terminal() returns, and may  *)
(* be all that a killed termd leaves.                                       *)
Claim(t) ==
  /\ t \notin serving
  /\ reg[t] = "unused"
  /\ Enter(t)
  /\ UNCHANGED serving

(* register_terminal() returns true: t has an entry.                        *)
Join(t) ==
  /\ t \notin serving
  /\ Enter(t)
  /\ serving' = serving \cup {t}

(* set_state(), by t's own termd.                                           *)
Report(t) ==
  /\ t \in serving
  /\ \E s \in States : reg' = [reg EXCEPT ![t] = s]
  /\ UNCHANGED serving

(* The termd dies; the entry stays as it is.                                *)
Leave(t) ==
  /\ serving' = serving \ {t}
  /\ UNCHANGED reg

Next == \E t \in Terms : Claim(t) \/ Join(t) \/ Report(t) \/ Leave(t)

Spec == Init /\ [][Next]_vars
=============================================================================
