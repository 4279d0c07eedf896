---------------------------- MODULE GuiLinkProofs ----------------------------
(***************************************************************************)
(* Proofs about GuiLink, for any number of GUIs, any backlog and any       *)
(* number of faults.                                                       *)
(***************************************************************************)
EXTENDS GuiLink, SequenceTheorems, TLAPS

-----------------------------------------------------------------------------
(* The inductive invariant.  Of the connections the server holds, those a   *)
(* GUI still has open belong to connected GUIs, and none has a later one of *)
(* the same GUI behind it.                                                  *)
OpenIsUp ==
  \A i \in DOMAIN slots : slots[i].open => sock[slots[i].gui] = "connected"

OpenIsNewest ==
  \A i, j \in DOMAIN slots : i < j /\ slots[i].open => slots[i].gui # slots[j].gui

RefusedIsDown ==
  \A g \in Guis : refused[g] => sock[g] \in {"none", "unconnected"}

IInv ==
  /\ TypeOK /\ LabelCatchesUp /\ OneRetryAtATime
  /\ OpenIsUp /\ OpenIsNewest /\ RefusedIsDown

-----------------------------------------------------------------------------
(* Sequences.                                                               *)

LEMMA PushType ==
  ASSUME NEW S, NEW s \in Seq(S), NEW e \in S
  PROVE  /\ Append(s, e) \in Seq(S) /\ Append(s, e) # <<>>
         /\ Last(Append(s, e)) = e
         /\ DOMAIN Append(s, e) = 1..(Len(s) + 1)
         /\ Append(s, e)[Len(s) + 1] = e
         /\ \A i \in 1..Len(s) : Append(s, e)[i] = s[i]
BY DEF Last

LEMMA PopType ==
  ASSUME NEW S, NEW s \in Seq(S), s # <<>>
  PROVE  /\ Head(s) \in S /\ Tail(s) \in Seq(S)
         /\ DOMAIN Tail(s) = 1..(Len(s) - 1)
         /\ \A i \in 1..(Len(s) - 1) : Tail(s)[i] = s[i + 1]
         /\ Tail(s) = <<>> => Last(s) = Head(s)
         /\ Tail(s) # <<>> => Last(s) = Last(Tail(s))
BY DEF Last

LEMMA ConnType ==
  ASSUME TypeOK, NEW i \in DOMAIN slots
  PROVE  slots[i] \in Conn /\ slots[i].gui \in Guis /\ slots[i].open \in BOOLEAN
<1>1. slots \in Seq(Conn) /\ i \in 1..Len(slots)
  BY DEF TypeOK
<1>2. slots[i] \in Conn
  BY <1>1, ElementOfSeq
<1> QED BY <1>2 DEF Conn

(* Severing keeps the connections' number, order and owners.                *)
LEMMA SeveredType ==
  ASSUME TypeOK, NEW g \in Guis
  PROVE  /\ Severed(g) \in Seq(Conn)
         /\ DOMAIN Severed(g) = DOMAIN slots
         /\ (Severed(g) = <<>>) <=> (slots = <<>>)
         /\ \A i \in DOMAIN slots : /\ Severed(g)[i].gui = slots[i].gui
                                    /\ Severed(g)[i].open => slots[i].open /\ slots[i].gui # g
<1>1. slots \in Seq(Conn) /\ DOMAIN slots = 1..Len(slots) /\ Len(slots) \in Nat
  BY DEF TypeOK
<1>2. Severed(g) \in [1..Len(slots) -> Conn]
  <2>1. ASSUME NEW i \in DOMAIN slots
        PROVE  [gui |-> slots[i].gui, open |-> slots[i].open /\ slots[i].gui # g] \in Conn
    BY ConnType DEF Conn
  <2> QED BY <1>1, <2>1 DEF Severed
<1>3. Severed(g) \in Seq(Conn)
  BY <1>1, <1>2, SeqDef
<1>4. DOMAIN Severed(g) = DOMAIN slots
  BY DEF Severed
<1>5. (Severed(g) = <<>>) <=> (slots = <<>>)
  BY <1>1, <1>3, <1>4
<1>6. \A i \in DOMAIN slots : /\ Severed(g)[i].gui = slots[i].gui
                              /\ Severed(g)[i].open => slots[i].open /\ slots[i].gui # g
  BY DEF Severed
<1> QED BY <1>3, <1>4, <1>5, <1>6

-----------------------------------------------------------------------------
(* Steps by what they do to the server's connections.                       *)

LEMMA SlotsKept ==
  ASSUME IInv, UNCHANGED slots,
         \A g \in Guis : sock[g] = "connected" => sock'[g] = "connected"
  PROVE  OpenIsUp' /\ OpenIsNewest'
<1>1. \A i \in DOMAIN slots : slots[i].gui \in Guis
  BY ConnType DEF IInv
<1> QED BY <1>1 DEF IInv, OpenIsUp, OpenIsNewest

LEMMA SlotsSevered ==
  ASSUME IInv, NEW g \in Guis, slots' = Severed(g),
         \A h \in Guis \ {g} : sock'[h] = sock[h]
  PROVE  OpenIsUp' /\ OpenIsNewest'
<1>1. /\ DOMAIN slots' = DOMAIN slots
      /\ \A i \in DOMAIN slots : /\ slots'[i].gui = slots[i].gui
                                 /\ slots'[i].open => slots[i].open /\ slots[i].gui # g
  BY SeveredType DEF IInv
<1>2. \A i \in DOMAIN slots : slots[i].gui \in Guis
  BY ConnType DEF IInv
<1> QED BY <1>1, <1>2 DEF IInv, OpenIsUp, OpenIsNewest

LEMMA SlotsTail ==
  ASSUME IInv, slots # <<>>, slots' = Tail(slots), UNCHANGED sock
  PROVE  OpenIsUp' /\ OpenIsNewest'
<1>1. /\ DOMAIN slots' = 1..(Len(slots) - 1)
      /\ \A i \in 1..(Len(slots) - 1) : slots'[i] = slots[i + 1]
  BY PopType DEF IInv, TypeOK
<1>2. DOMAIN slots = 1..Len(slots) /\ Len(slots) \in Nat
  BY DEF IInv, TypeOK
<1>3. \A i \in DOMAIN slots' : i + 1 \in DOMAIN slots /\ i \in Nat
  BY <1>1, <1>2
<1>4. OpenIsUp'
  BY <1>1, <1>3 DEF IInv, OpenIsUp
<1>5. ASSUME NEW i \in DOMAIN slots', NEW j \in DOMAIN slots', i < j, slots'[i].open
      PROVE  slots'[i].gui # slots'[j].gui
  <2>1. i + 1 < j + 1 /\ i + 1 \in DOMAIN slots /\ j + 1 \in DOMAIN slots
    BY <1>3, <1>5
  <2>2. slots'[i] = slots[i + 1] /\ slots'[j] = slots[j + 1]
    BY <1>1
  <2> QED BY <1>5, <2>1, <2>2 DEF IInv, OpenIsNewest
<1> QED BY <1>4, <1>5 DEF OpenIsNewest

LEMMA SlotsPushed ==
  ASSUME IInv, NEW g \in Guis, sock[g] # "connected",
         slots' = Append(slots, [gui |-> g, open |-> TRUE]),
         sock' = [sock EXCEPT ![g] = "connected"]
  PROVE  OpenIsUp' /\ OpenIsNewest'
<1> DEFINE n == Len(slots)
<1>1. slots \in Seq(Conn) /\ DOMAIN slots = 1..n /\ n \in Nat
  BY DEF IInv, TypeOK
<1>2. [gui |-> g, open |-> TRUE] \in Conn
  BY DEF Conn
<1>3. /\ DOMAIN slots' = 1..(n + 1)
      /\ slots'[n + 1] = [gui |-> g, open |-> TRUE]
      /\ \A i \in 1..n : slots'[i] = slots[i]
  BY <1>1, <1>2, PushType
<1>4. \A i \in 1..n : slots[i].gui \in Guis /\ (slots[i].open => slots[i].gui # g)
  BY <1>1, ConnType DEF IInv, OpenIsUp
<1> HIDE DEF n
<1>5. \A i \in DOMAIN slots' : i \in 1..n \/ i = n + 1
  BY <1>1, <1>3
<1>6. sock'[g] = "connected" /\ \A h \in Guis \ {g} : sock'[h] = sock[h]
  BY DEF IInv, TypeOK
<1>7. OpenIsUp'
  BY <1>1, <1>3, <1>4, <1>5, <1>6 DEF IInv, OpenIsUp
<1>8. ASSUME NEW i \in DOMAIN slots', NEW j \in DOMAIN slots', i < j, slots'[i].open
      PROVE  slots'[i].gui # slots'[j].gui
  <2>1. i \in 1..n
    BY <1>1, <1>3, <1>8
  <2>2. CASE j \in 1..n
    BY <1>1, <1>3, <1>8, <2>1, <2>2 DEF IInv, OpenIsNewest
  <2>3. CASE j = n + 1
    BY <1>3, <1>4, <1>8, <2>1, <2>3
  <2> QED BY <1>5, <2>2, <2>3
<1> QED BY <1>7, <1>8 DEF OpenIsNewest

LEMMA SlotsNone ==
  ASSUME slots' = <<>> PROVE OpenIsUp' /\ OpenIsNewest'
BY DEF OpenIsUp, OpenIsNewest

-----------------------------------------------------------------------------
(* Steps by what they do to one GUI.                                        *)
States == {"none", "unconnected", "connecting", "connected"}

GuiTypeOK ==
  /\ sock \in [Guis -> States]
  /\ timers \in [Guis -> Nat]
  /\ toGui \in [Guis -> Seq(BOOLEAN)]
  /\ label \in [Guis -> BOOLEAN]
  /\ refused \in [Guis -> BOOLEAN]

GuiOK == GuiTypeOK /\ LabelCatchesUp /\ OneRetryAtATime /\ RefusedIsDown

LEMMA GuiPart == IInv => GuiOK
BY DEF IInv, GuiOK, TypeOK, GuiTypeOK, States

(* What GuiOK says of one GUI.                                              *)
LEMMA GuiFields ==
  ASSUME GuiOK, NEW g \in Guis
  PROVE  /\ sock[g] \in States /\ timers[g] \in Nat /\ toGui[g] \in Seq(BOOLEAN)
         /\ label[g] \in BOOLEAN /\ refused[g] \in BOOLEAN
         /\ (IF toGui[g] = <<>> THEN label[g] ELSE Last(toGui[g])) <=> sock[g] = "connected"
         /\ timers[g] > 0 => timers[g] = 1 /\ sock[g] = "unconnected" /\ ~refused[g]
         /\ refused[g] => sock[g] \in {"none", "unconnected"}
<1>1. /\ sock[g] \in States /\ timers[g] \in Nat /\ toGui[g] \in Seq(BOOLEAN)
      /\ label[g] \in BOOLEAN /\ refused[g] \in BOOLEAN
  BY DEF GuiOK, GuiTypeOK
<1>2. /\ (IF toGui[g] = <<>> THEN label[g] ELSE Last(toGui[g])) <=> sock[g] = "connected"
      /\ timers[g] > 0 => timers[g] = 1 /\ sock[g] = "unconnected" /\ ~refused[g]
      /\ refused[g] => sock[g] \in {"none", "unconnected"}
  BY DEF GuiOK, LabelCatchesUp, OneRetryAtATime, RefusedIsDown
<1> QED BY <1>1, <1>2

OthersKept(g) ==
  \A h \in Guis \ {g} :
    /\ sock'[h] = sock[h] /\ timers'[h] = timers[h] /\ toGui'[h] = toGui[h]
    /\ label'[h] = label[h] /\ refused'[h] = refused[h]

LEMMA GuiSet ==
  ASSUME GuiOK, NEW g \in Guis, GuiTypeOK', OthersKept(g),
         (IF toGui'[g] = <<>> THEN label'[g] ELSE Last(toGui'[g])) <=> sock'[g] = "connected",
         timers'[g] > 0 => timers'[g] = 1 /\ sock'[g] = "unconnected" /\ ~refused'[g],
         refused'[g] => sock'[g] \in {"none", "unconnected"}
  PROVE  GuiOK'
<1>1. ASSUME NEW h \in Guis
      PROVE  (IF toGui'[h] = <<>> THEN label'[h] ELSE Last(toGui'[h])) <=> sock'[h] = "connected"
  <2>1. CASE h = g
    BY <2>1
  <2>2. CASE h # g
    BY <2>2 DEF OthersKept, GuiOK, LabelCatchesUp
  <2> QED BY <2>1, <2>2
<1>2. LabelCatchesUp'
  BY <1>1 DEF LabelCatchesUp
<1>3. OneRetryAtATime' /\ RefusedIsDown'
  BY DEF OthersKept, GuiOK, OneRetryAtATime, RefusedIsDown
<1> QED BY <1>2, <1>3 DEF GuiOK

(* A signal is queued for the window.                                       *)
LEMMA SignalPushed ==
  ASSUME GuiOK, NEW g \in Guis, NEW up \in BOOLEAN, Signal(g, up)
  PROVE  /\ toGui' \in [Guis -> Seq(BOOLEAN)]
         /\ toGui'[g] # <<>> /\ Last(toGui'[g]) = up
         /\ \A h \in Guis \ {g} : toGui'[h] = toGui[h]
         /\ label' = label
<1> DEFINE q == Append(toGui[g], up)
<1>1. toGui' = [toGui EXCEPT ![g] = q] /\ label' = label
  BY DEF Signal
<1>2. q \in Seq(BOOLEAN) /\ q # <<>> /\ Last(q) = up
  BY GuiFields, PushType
<1>3. toGui \in [Guis -> Seq(BOOLEAN)]
  BY DEF GuiOK, GuiTypeOK
<1> HIDE DEF q
<1> QED BY <1>1, <1>2, <1>3

LEMMA StartGui == \A g \in Guis : GuiOK /\ Start(g) => GuiOK'
<1> SUFFICES ASSUME GuiOK, NEW g \in Guis, Start(g) PROVE GuiOK'
  OBVIOUS
<1>1. GuiTypeOK' /\ OthersKept(g) /\ sock'[g] = "connecting" /\ refused'[g] = FALSE
  BY DEF Start, GuiOK, GuiTypeOK, States, OthersKept
<1>2. timers' = timers /\ toGui' = toGui /\ label' = label /\ sock[g] = "none"
  BY DEF Start
<1> QED BY <1>1, <1>2, GuiFields, GuiSet

LEMMA TryReconnectGui == \A g \in Guis : GuiOK /\ TryReconnect(g) => GuiOK'
<1> SUFFICES ASSUME GuiOK, NEW g \in Guis, TryReconnect(g) PROVE GuiOK'
  OBVIOUS
<1>1. timers[g] = 1 /\ sock[g] = "unconnected"
  BY GuiFields DEF TryReconnect
<1>2. /\ sock' = [sock EXCEPT ![g] = "connecting"] /\ refused' = [refused EXCEPT ![g] = FALSE]
      /\ timers' = [timers EXCEPT ![g] = 0] /\ toGui' = toGui /\ label' = label
  BY <1>1 DEF TryReconnect
<1>3. GuiTypeOK' /\ OthersKept(g) /\ sock'[g] = "connecting" /\ refused'[g] = FALSE
      /\ timers'[g] = 0
  BY <1>2 DEF GuiOK, GuiTypeOK, States, OthersKept
<1> QED BY <1>1, <1>2, <1>3, GuiFields, GuiSet

LEMMA ConnectedGui == \A g \in Guis : GuiOK /\ Connected(g) => GuiOK'
<1> SUFFICES ASSUME GuiOK, NEW g \in Guis, Connected(g) PROVE GuiOK'
  OBVIOUS
<1>1. /\ sock' = [sock EXCEPT ![g] = "connected"] /\ refused' = refused /\ timers' = timers
      /\ Signal(g, TRUE) /\ sock[g] = "connecting"
  BY DEF Connected
<1>2. /\ toGui' \in [Guis -> Seq(BOOLEAN)] /\ toGui'[g] # <<>> /\ Last(toGui'[g]) = TRUE
      /\ (\A h \in Guis \ {g} : toGui'[h] = toGui[h]) /\ label' = label
  BY <1>1, SignalPushed
<1>3. GuiTypeOK' /\ OthersKept(g) /\ sock'[g] = "connected"
  BY <1>1, <1>2 DEF GuiOK, GuiTypeOK, States, OthersKept
<1> QED BY <1>1, <1>2, <1>3, GuiFields, GuiSet

LEMMA ConnectFailsGui == \A g \in Guis : GuiOK /\ ConnectFails(g) => GuiOK'
<1> SUFFICES ASSUME GuiOK, NEW g \in Guis, ConnectFails(g) PROVE GuiOK'
  OBVIOUS
<1>1. /\ sock' = [sock EXCEPT ![g] = "unconnected"] /\ refused' = [refused EXCEPT ![g] = TRUE]
      /\ timers' = timers /\ toGui' = toGui /\ label' = label /\ sock[g] = "connecting"
  BY DEF ConnectFails
<1>2. GuiTypeOK' /\ OthersKept(g) /\ sock'[g] = "unconnected"
  BY <1>1 DEF GuiOK, GuiTypeOK, States, OthersKept
<1> QED BY <1>1, <1>2, GuiFields, GuiSet

LEMMA OnDisconnectedGui ==
  \A g \in Guis : GuiOK /\ sock[g] = "connected" /\ OnDisconnected(g) => GuiOK'
<1> SUFFICES ASSUME GuiOK, NEW g \in Guis, sock[g] = "connected", OnDisconnected(g)
             PROVE  GuiOK'
  OBVIOUS
<1>1. timers[g] = 0 /\ ~refused[g]
  BY GuiFields
<1>2. /\ sock' = [sock EXCEPT ![g] = "unconnected"] /\ refused' = refused
      /\ timers' = [timers EXCEPT ![g] = timers[g] + 1] /\ Signal(g, FALSE)
  BY DEF OnDisconnected
<1>3. /\ toGui' \in [Guis -> Seq(BOOLEAN)] /\ toGui'[g] # <<>> /\ Last(toGui'[g]) = FALSE
      /\ (\A h \in Guis \ {g} : toGui'[h] = toGui[h]) /\ label' = label
  BY <1>2, SignalPushed
<1>4. GuiTypeOK' /\ OthersKept(g) /\ sock'[g] = "unconnected" /\ timers'[g] = 1
  <2>1. timers' = [timers EXCEPT ![g] = 1]
    BY <1>1, <1>2
  <2>2. timers' \in [Guis -> Nat] /\ timers'[g] = 1
        /\ \A h \in Guis \ {g} : timers'[h] = timers[h]
    BY <2>1 DEF GuiOK, GuiTypeOK
  <2>3. sock' \in [Guis -> States] /\ sock'[g] = "unconnected"
        /\ \A h \in Guis \ {g} : sock'[h] = sock[h]
    BY <1>2 DEF GuiOK, GuiTypeOK, States
  <2> QED BY <1>2, <1>3, <2>2, <2>3 DEF GuiOK, GuiTypeOK, OthersKept
<1> QED BY <1>1, <1>2, <1>3, <1>4, GuiSet

LEMMA QuitGui == \A g \in Guis : GuiOK /\ Quit(g) => GuiOK'
<1> SUFFICES ASSUME GuiOK, NEW g \in Guis, Quit(g) PROVE GuiOK'
  OBVIOUS
<1>1. /\ sock' = [sock EXCEPT ![g] = "none"] /\ timers' = [timers EXCEPT ![g] = 0]
      /\ toGui' = [toGui EXCEPT ![g] = <<>>] /\ label' = [label EXCEPT ![g] = FALSE]
      /\ refused' = refused
  BY DEF Quit
<1>2. /\ GuiTypeOK' /\ OthersKept(g) /\ sock'[g] = "none" /\ timers'[g] = 0
      /\ toGui'[g] = <<>> /\ label'[g] = FALSE
  BY <1>1 DEF GuiOK, GuiTypeOK, States, OthersKept
<1> QED BY <1>2, GuiSet

LEMMA ShownGui == \A g \in Guis : GuiOK /\ OnLinkStateChanged(g) => GuiOK'
<1> SUFFICES ASSUME GuiOK, NEW g \in Guis, OnLinkStateChanged(g) PROVE GuiOK'
  OBVIOUS
<1> DEFINE q == Tail(toGui[g])
           b == Head(toGui[g])
<1>1. /\ toGui[g] # <<>>
      /\ label' = [label EXCEPT ![g] = b]
      /\ toGui' = [toGui EXCEPT ![g] = q]
      /\ sock' = sock /\ timers' = timers /\ refused' = refused
  BY DEF OnLinkStateChanged
<1>2. /\ b \in BOOLEAN /\ q \in Seq(BOOLEAN)
      /\ q = <<>> => Last(toGui[g]) = b
      /\ q # <<>> => Last(toGui[g]) = Last(q)
  BY <1>1, GuiFields, PopType
<1> HIDE DEF q, b
<1>3. GuiTypeOK' /\ OthersKept(g) /\ toGui'[g] = q /\ label'[g] = b
  BY <1>1, <1>2 DEF GuiOK, GuiTypeOK, States, OthersKept
<1>4. (IF q = <<>> THEN b ELSE Last(q)) <=> sock[g] = "connected"
  BY <1>1, <1>2, GuiFields
<1> QED BY <1>1, <1>3, <1>4, GuiFields, GuiSet

-----------------------------------------------------------------------------
(* The rest of TypeOK.                                                      *)
ServerTypeOK ==
  /\ listening \in BOOLEAN
  /\ slots \in Seq(Conn)
  /\ accepted \in BOOLEAN
  /\ accepted => slots # <<>>
  /\ slots # <<>> => listening
  /\ faults \in 0..MaxFaults

LEMMA Assembled == GuiOK /\ ServerTypeOK /\ OpenIsUp /\ OpenIsNewest => IInv
BY DEF GuiOK, GuiTypeOK, States, ServerTypeOK, IInv, TypeOK

LEMMA ServerPart == IInv => ServerTypeOK
BY DEF IInv, TypeOK, ServerTypeOK

LEMMA FaultType == ServerTypeOK /\ Fault => faults' \in 0..MaxFaults
BY LinkAssumption DEF ServerTypeOK, Fault

LEMMA InitInv == Init => IInv
<1> SUFFICES ASSUME Init PROVE IInv
  OBVIOUS
<1>1. TypeOK
  <2>1. <<>> \in Seq(BOOLEAN) /\ slots \in Seq(Conn)
    BY DEF Init
  <2>2. toGui \in [Guis -> Seq(BOOLEAN)]
    BY <2>1 DEF Init
  <2>3. 0 \in 0..MaxFaults
    BY LinkAssumption
  <2> QED BY <2>1, <2>2, <2>3 DEF Init, TypeOK
<1>2. LabelCatchesUp /\ OneRetryAtATime /\ RefusedIsDown
  BY DEF Init, LabelCatchesUp, OneRetryAtATime, RefusedIsDown
<1>3. OpenIsUp /\ OpenIsNewest
  BY DEF Init, OpenIsUp, OpenIsNewest
<1> QED BY <1>1, <1>2, <1>3 DEF IInv

(* A step of GUI g that leaves the server alone.                            *)
LEMMA GuiOnly ==
  ASSUME IInv, GuiOK', UNCHANGED server, faults' \in 0..MaxFaults,
         \A g \in Guis : sock[g] = "connected" => sock'[g] = "connected"
  PROVE  IInv'
<1>1. UNCHANGED slots /\ UNCHANGED listening /\ UNCHANGED accepted
  BY DEF server
<1>2. ServerTypeOK'
  BY <1>1, ServerPart DEF ServerTypeOK
<1>3. OpenIsUp' /\ OpenIsNewest'
  BY <1>1, SlotsKept
<1> QED BY <1>2, <1>3, Assembled, PTL

(* GUI g closes its end.                                                    *)
LEMMA GuiCloses ==
  ASSUME IInv, NEW g \in Guis, GuiOK', slots' = Severed(g),
         UNCHANGED <<listening, accepted>>, faults' \in 0..MaxFaults,
         \A h \in Guis \ {g} : sock'[h] = sock[h]
  PROVE  IInv'
<1>1. ServerTypeOK'
  BY SeveredType, ServerPart DEF IInv, ServerTypeOK
<1>2. OpenIsUp' /\ OpenIsNewest'
  BY SlotsSevered
<1> QED BY <1>1, <1>2, Assembled, PTL

LEMMA Disconnects ==
  \A g \in Guis : IInv /\ sock[g] = "connected" /\ OnDisconnected(g)
                  /\ faults' \in 0..MaxFaults => IInv'
<1> SUFFICES ASSUME IInv, NEW g \in Guis, sock[g] = "connected", OnDisconnected(g),
                    faults' \in 0..MaxFaults
             PROVE  IInv'
  OBVIOUS
<1>1. GuiOK'
  BY GuiPart, OnDisconnectedGui
<1>2. slots' = Severed(g) /\ UNCHANGED <<listening, accepted>>
      /\ sock' = [sock EXCEPT ![g] = "unconnected"]
  BY DEF OnDisconnected
<1>3. \A h \in Guis \ {g} : sock'[h] = sock[h]
  BY <1>2 DEF IInv, TypeOK
<1> QED BY <1>1, <1>2, <1>3, GuiCloses

(* A step of the server that leaves the GUIs alone.                         *)
LEMMA ServerOnly ==
  ASSUME IInv, UNCHANGED <<sock, timers, toGui, label, refused>>, ServerTypeOK',
         OpenIsUp', OpenIsNewest'
  PROVE  IInv'
<1>1. GuiOK'
  BY GuiPart DEF GuiOK, GuiTypeOK, LabelCatchesUp, OneRetryAtATime, RefusedIsDown
<1> QED BY <1>1, Assembled, PTL

LEMMA Drops ==
  ASSUME IInv, accepted, DropClient, faults' \in 0..MaxFaults
  PROVE  IInv'
<1>1. slots \in Seq(Conn) /\ slots # <<>> /\ listening
  BY DEF IInv, TypeOK
<1>2. slots' = Tail(slots) /\ accepted' = FALSE
      /\ UNCHANGED <<sock, timers, toGui, label, refused, listening>>
  BY DEF DropClient
<1>3. ServerTypeOK'
  BY <1>1, <1>2, PopType, ServerPart DEF ServerTypeOK
<1> QED BY <1>1, <1>2, <1>3, SlotsTail, ServerOnly

LEMMA NextInv == IInv /\ [Next]_vars => IInv'
<1> SUFFICES ASSUME IInv, [Next]_vars PROVE IInv'
  OBVIOUS
<1>1. GuiOK /\ ServerTypeOK /\ faults \in 0..MaxFaults
  BY GuiPart, ServerPart DEF IInv, TypeOK
<1>2. ASSUME NEW g \in Guis, Start(g) PROVE IInv'
  <2>1. UNCHANGED server /\ faults' = faults /\ sock[g] = "none"
        /\ sock' = [sock EXCEPT ![g] = "connecting"]
    BY <1>2 DEF Start
  <2>2. \A h \in Guis : sock[h] = "connected" => sock'[h] = "connected"
    BY <2>1 DEF IInv, TypeOK
  <2> QED BY <1>1, <1>2, <2>1, <2>2, StartGui, GuiOnly
<1>3. ASSUME NEW g \in Guis, TryReconnect(g) PROVE IInv'
  <2>1. UNCHANGED server /\ faults' = faults
        /\ (sock' = sock \/ (sock[g] = "unconnected" /\ sock' = [sock EXCEPT ![g] = "connecting"]))
    BY <1>3 DEF TryReconnect
  <2>2. \A h \in Guis : sock[h] = "connected" => sock'[h] = "connected"
    BY <2>1 DEF IInv, TypeOK
  <2> QED BY <1>1, <1>3, <2>1, <2>2, TryReconnectGui, GuiOnly
<1>4. ASSUME NEW g \in Guis, Connected(g) PROVE IInv'
  <2>1. /\ slots' = Append(slots, [gui |-> g, open |-> TRUE])
        /\ sock[g] = "connecting" /\ listening
        /\ sock' = [sock EXCEPT ![g] = "connected"]
        /\ UNCHANGED <<listening, accepted, faults>>
    BY <1>4 DEF Connected
  <2>2. GuiOK'
    BY <1>1, <1>4, ConnectedGui
  <2>3. [gui |-> g, open |-> TRUE] \in Conn
    BY DEF Conn
  <2>4. slots' \in Seq(Conn) /\ slots' # <<>>
    <3>1. slots \in Seq(Conn)
      BY DEF IInv, TypeOK
    <3> QED BY <2>1, <2>3, <3>1, PushType
  <2>5. ServerTypeOK'
    BY <1>1, <2>1, <2>4 DEF ServerTypeOK
  <2>6. OpenIsUp' /\ OpenIsNewest'
    BY <2>1, SlotsPushed
  <2> QED BY <2>2, <2>5, <2>6, Assembled, PTL
<1>5. ASSUME NEW g \in Guis, ConnectFails(g) PROVE IInv'
  <2>1. UNCHANGED server /\ faults' = faults /\ sock[g] = "connecting"
        /\ sock' = [sock EXCEPT ![g] = "unconnected"]
    BY <1>5 DEF ConnectFails
  <2>2. \A h \in Guis : sock[h] = "connected" => sock'[h] = "connected"
    BY <2>1 DEF IInv, TypeOK
  <2> QED BY <1>1, <1>5, <2>1, <2>2, ConnectFailsGui, GuiOnly
<1>6. ASSUME NEW g \in Guis, Closed(g) PROVE IInv'
  BY <1>1, <1>6, Disconnects DEF Closed
<1>7. ASSUME NEW g \in Guis, Broken(g) PROVE IInv'
  BY <1>1, <1>7, FaultType, Disconnects DEF Broken
<1>8. ASSUME NEW g \in Guis, OnLinkStateChanged(g) PROVE IInv'
  <2>1. UNCHANGED server /\ faults' = faults /\ sock' = sock
    BY <1>8 DEF OnLinkStateChanged
  <2> QED BY <1>1, <1>8, <2>1, ShownGui, GuiOnly
<1>9. ASSUME NEW g \in Guis, Quit(g) PROVE IInv'
  <2>1. slots' = Severed(g) /\ UNCHANGED <<listening, accepted>>
        /\ sock' = [sock EXCEPT ![g] = "none"] /\ Fault
    BY <1>9 DEF Quit
  <2>2. \A h \in Guis \ {g} : sock'[h] = sock[h]
    BY <2>1 DEF IInv, TypeOK
  <2> QED BY <1>1, <1>9, <2>1, <2>2, FaultType, QuitGui, GuiCloses
<1>10. CASE Up
  <2>1. ServerTypeOK' /\ UNCHANGED slots /\ UNCHANGED <<sock, timers, toGui, label, refused>>
    BY <1>1, <1>10 DEF Up, ServerTypeOK
  <2> QED BY <2>1, SlotsKept, ServerOnly
<1>11. CASE Accept
  <2>1. slots \in Seq(Conn) /\ slots # <<>> /\ listening
    BY <1>11 DEF Accept, Waiting, IInv, TypeOK
  <2>2. CASE accepted
    <3>1. slots' = Tail(slots) /\ slots' # <<>> /\ accepted' = TRUE
          /\ UNCHANGED <<sock, timers, toGui, label, refused, listening, faults>>
      BY <1>11, <2>2 DEF Accept, Waiting
    <3>2. ServerTypeOK'
      BY <1>1, <2>1, <3>1, PopType DEF ServerTypeOK
    <3> QED BY <2>1, <3>1, <3>2, SlotsTail, ServerOnly
  <2>3. CASE ~accepted
    <3>1. slots' = slots /\ accepted' = TRUE
          /\ UNCHANGED <<sock, timers, toGui, label, refused, listening, faults>>
      BY <1>11, <2>3 DEF Accept, Waiting
    <3>2. ServerTypeOK'
      BY <1>1, <2>1, <3>1 DEF ServerTypeOK
    <3> QED BY <3>1, <3>2, SlotsKept, ServerOnly
  <2> QED BY <2>2, <2>3
<1>12. CASE PeerGone
  BY <1>1, <1>12, Drops DEF PeerGone
<1>13. CASE Drop
  BY <1>1, <1>13, FaultType, Drops DEF Drop
<1>14. CASE Dies
  <2>1. slots' = <<>> /\ listening' = FALSE /\ accepted' = FALSE /\ Fault
        /\ UNCHANGED <<sock, timers, toGui, label, refused>>
    BY <1>14 DEF Dies
  <2>2. ServerTypeOK'
    <3>1. slots' \in Seq(Conn) /\ faults' \in 0..MaxFaults
      BY <1>1, <2>1, FaultType
    <3> QED BY <2>1, <3>1 DEF ServerTypeOK
  <2> QED BY <2>1, <2>2, SlotsNone, ServerOnly
<1>15. CASE UNCHANGED vars
  <2>1. /\ UNCHANGED slots /\ UNCHANGED <<sock, timers, toGui, label, refused>>
        /\ UNCHANGED <<listening, accepted, faults>>
    BY <1>15 DEF vars
  <2>2. ServerTypeOK'
    BY <1>1, <2>1 DEF ServerTypeOK
  <2> QED BY <2>1, <2>2, SlotsKept, ServerOnly
<1> QED
  BY <1>2, <1>3, <1>4, <1>5, <1>6, <1>7, <1>8, <1>9, <1>10, <1>11, <1>12, <1>13, <1>14, <1>15
  DEF Next, Worker

-----------------------------------------------------------------------------
(* Always.                                                                  *)

LEMMA Invariance == Spec => []IInv
BY InitInv, NextInv, PTL DEF Spec

(* Every variable keeps its type; the server has a client only while it     *)
(* runs.                                                                    *)
THEOREM LinkTypes == Spec => []TypeOK
<1>1. IInv => TypeOK
  BY DEF IInv
<1> QED BY <1>1, Invariance, PTL

(* The window of each GUI comes to say what its worker's socket is.         *)
THEOREM LabelsCatchUp == Spec => []LabelCatchesUp
<1>1. IInv => LabelCatchesUp
  BY DEF IInv
<1> QED BY <1>1, Invariance, PTL

(* Retry timers never pile up.                                              *)
THEOREM OneTimer == Spec => []OneRetryAtATime
<1>1. IInv => OneRetryAtATime
  BY DEF IInv
<1> QED BY <1>1, Invariance, PTL

(* A GUI never takes the client slot from its own living connection.        *)
THEOREM ReplacesStale == Spec => ReplacedIsStale
<1>1. IInv /\ IInv' =>
        (accepted /\ slots' = Tail(slots) /\ accepted' =>
           ~slots[1].open \/ slots[1].gui # slots'[1].gui)
  <2> SUFFICES ASSUME IInv, IInv', accepted, slots' = Tail(slots), accepted', slots[1].open
               PROVE  slots[1].gui # slots'[1].gui
    OBVIOUS
  <2>1. slots \in Seq(Conn) /\ slots # <<>> /\ Tail(slots) # <<>>
    BY DEF IInv, TypeOK
  <2>2. 1 \in DOMAIN slots /\ 2 \in DOMAIN slots /\ slots'[1] = slots[2]
    BY <2>1
  <2> QED BY <2>2 DEF IInv, OpenIsNewest
<1>2. IInv /\ IInv' /\ [Next]_vars =>
        [accepted /\ slots' = Tail(slots) /\ accepted' =>
           ~slots[1].open \/ slots[1].gui # slots'[1].gui]_vars
  BY <1>1
<1> QED BY <1>2, Invariance, PTL DEF Spec, ReplacedIsStale
=============================================================================
