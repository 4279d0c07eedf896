------------------------- MODULE CommandPathRegistry -------------------------
(* CommandPath uses the terminal table as a registry: its table is the one  *)
(* that TerminalTable implements store by store.                            *)
EXTENDS CommandPath

Registered == {t \in Terms : pc[t] \notin {"down", "init"}}

R == INSTANCE Registry WITH reg <- table, serving <- Registered

(* Whatever is killed, disconnected or restarted, a terminal's entry        *)
(* changes only by its own registered termd, and a termd that starts again  *)
(* takes its entry as it was left (termd/main.cpp:48-81).                   *)
ImplementsRegistry == R!Spec
=============================================================================
