--------------------------- MODULE OrderedDelivery ---------------------------
(***************************************************************************)
(* What the path of lock commands promises, and all it promises: each      *)
(* terminal is served by a line that may lose commands anywhere but never  *)
(* reorders, repeats, invents or misdirects one.                           *)
(*                                                                         *)
(* Commands are numbered as they are sent, so a line is a set of numbers:  *)
(* the oldest command on it is the smallest.                               *)
(***************************************************************************)
EXTENDS Integers, Sequences

CONSTANTS Terms, Strangers

VARIABLES
  asked,  \* asked[n]: the terminal number the n-th command carries
  line,   \* line[t]: the commands on their way to terminal t
  shown   \* shown[t]: the commands terminal t has displayed

vars == <<asked, line, shown>>

Init ==
  /\ asked = <<>>
  /\ line = [t \in Terms |-> {}]
  /\ shown = [t \in Terms |-> <<>>]

(* A new command joins its terminal's line, or is lost at once.             *)
Send(to) ==
  /\ asked' = Append(asked, to)
  /\ line' \in {line, [t \in Terms |-> IF t = to THEN line[t] \cup {Len(asked) + 1}
                                                 ELSE line[t]]}
  /\ UNCHANGED shown

(* The terminal displays the oldest command on its line.                    *)
Show(t) ==
  \E n \in line[t] :
    /\ \A m \in line[t] : n <= m
    /\ line' = [line EXCEPT ![t] = @ \ {n}]
    /\ shown' = [shown EXCEPT ![t] = Append(@, n)]
    /\ UNCHANGED asked

Lose ==
  /\ \A t \in Terms : line'[t] \subseteq line[t]
  /\ UNCHANGED <<asked, shown>>

Next == \/ \E to \in Terms \cup Strangers : Send(to)
        \/ \E t \in Terms : Show(t)
        \/ Lose

Spec == Init /\ [][Next]_vars
=============================================================================
