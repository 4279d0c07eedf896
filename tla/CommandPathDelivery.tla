------------------------- MODULE CommandPathDelivery -------------------------
(* CommandPath implements OrderedDelivery.                                  *)
EXTENDS CommandPath

(* What the sockets, queues and processes on the way hold, each definition  *)
(* adding what lies one stage further from the terminals.                   *)
Held(s)       == {s[i] : i \in DOMAIN s}
Unread(socks) == UNION {Held(socks[i].up) : i \in DOMAIN socks}

(* Commands that read as the number 0 go round the locator's own queue and  *)
(* never leave it: past the locator's door they are on nobody's way.        *)
Stray   == {n \in DOMAIN log : log[n] \in Zeros}
Queued  == Held(queue[LOC]) \ Stray
Routing == Held(hand[LOC]) \ Stray

InSockets  == Unread(client[GW]) \cup Unread(pend[GW])
Forwarding == IF pc[GW] = "forward" THEN Held(hand[GW]) ELSE {}
AtGateway  == Forwarding \cup InSockets
ToLocator  == Queued \cup AtGateway
Upstream   == Routing \cup ToLocator
ToTermd(t) == Held(queue[t]) \cup Upstream

Delivering(t) == IF pc[t] = "handle" THEN Held(hand[t]) ELSE {}
AtTermd(t)    == Delivering(t) \cup ToTermd(t)
Coming(t)     == Held(down[t]) \cup AtTermd(t)

(* The commands on their way to terminal t.                                 *)
Line(t) == {n \in Coming(t) : log[n] = t}

Delivery == INSTANCE OrderedDelivery
              WITH asked <- log, line <- [t \in Terms |-> Line(t)]

(* Every step of gateway, locator, termds and sockets, kills and restarts   *)
(* included, is a step of lossy but ordered lines: nothing on the path      *)
(* reorders, repeats, invents or misdirects a command.                      *)
ImplementsOrderedDelivery == Delivery!Spec
=============================================================================
