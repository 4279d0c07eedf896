--------------------- MODULE TerminalTableRegistryProofs ---------------------
(***************************************************************************)
(* TerminalTable implements Registry, for every set of termds and readers  *)
(* and every table size.                                                   *)
(***************************************************************************)
EXTENDS TerminalTableRegistry, TerminalTableProofs

(* A termd registers once in its life and calls the other accessors after;  *)
(* a row nobody has, or that is just being claimed, is not connected.       *)
MapInv ==
  /\ \A p \in Procs : op[p] \in {"set_state", "touch"} => joined[p]
  /\ \A p \in Procs : op[p] = "register" => ~joined[p]
  /\ \A i \in Slots : rows[i].term_no = 0 => rows[i].state # TERM_STATE_CONNECTED
  /\ \A p \in Procs : pc[p] = "store" /\ op[p] = "register" =>
                        rows[slot[p]].state # TERM_STATE_CONNECTED

LEMMA MapInit == Init => MapInv
BY DEF Init, MapInv, ZeroRow, TERM_STATE_UNUSED, TERM_STATE_CONNECTED

(* The store that p is about to do, with what it may change.                *)
LEMMA StoreKinds ==
  ASSUME TableInv, NEW p \in Procs, Store(p)
  PROVE  /\ p \in Terms /\ p # 0 /\ slot[p] \in Slots /\ op[p] \in Writes
         /\ \A q \in Procs : q # p => pc[q] # "store"
         /\ \E f \in todo[p] :
              /\ \A i \in Slots : i # slot[p] => rows'[i] = rows[i]
              /\ f # "term_no" => rows'[slot[p]].term_no = rows[slot[p]].term_no
              /\ f # "state" => rows'[slot[p]].state = rows[slot[p]].state
              /\ f = "term_no" => /\ op[p] = "register"
                                  /\ rows'[slot[p]].term_no = p
                                  /\ rows[slot[p]].term_no = 0
                                  /\ \A i \in Slots : rows[i].term_no # p
              /\ f = "state" =>
                   \/ /\ op[p] = "register"
                      /\ rows'[slot[p]].state = TERM_STATE_DISCONNECTED
                   \/ /\ op[p] = "set_state"
                      /\ rows[slot[p]].term_no = p
                      /\ rows'[slot[p]].state \in {TERM_STATE_DISCONNECTED, TERM_STATE_CONNECTED}
<1>1. /\ slot[p] \in Slots /\ op[p] \in Writes /\ p \in Terms /\ p # 0
      /\ arg[p].term_no = p /\ todo[p] \subseteq Stores[op[p]]
  BY TableAssumption DEF TableInv, IInv, SlotInv, Store
<1>2. \A q \in Procs : q # p => pc[q] # "store"
  BY DEF TableInv, IInv, LockInv, MutualExclusion, Store, Inside
<1>3. PICK f \in todo[p] :
        /\ \A i \in Slots : i # slot[p] => rows'[i] = rows[i]
        /\ rows'[slot[p]][f] = arg[p][f]
        /\ \A g \in Fields : g # f => rows'[slot[p]][g] = rows[slot[p]][g]
  BY StoreEffect DEF TableInv
<1>4. f # "term_no" => rows'[slot[p]].term_no = rows[slot[p]].term_no
  BY <1>3 DEF Fields
<1>5. f # "state" => rows'[slot[p]].state = rows[slot[p]].state
  BY <1>3 DEF Fields
<1>6. f = "term_no" => /\ op[p] = "register"
                       /\ rows'[slot[p]].term_no = p
                       /\ rows[slot[p]].term_no = 0
                       /\ \A i \in Slots : rows[i].term_no # p
  BY <1>1, <1>3 DEF TableInv, RowInv, Store, Stores, Writes
<1>7. ASSUME f = "state"
      PROVE  \/ /\ op[p] = "register"
                /\ rows'[slot[p]].state = TERM_STATE_DISCONNECTED
             \/ /\ op[p] = "set_state"
                /\ rows[slot[p]].term_no = p
                /\ rows'[slot[p]].state \in {TERM_STATE_DISCONNECTED, TERM_STATE_CONNECTED}
  <2>1. op[p] \in {"register", "set_state"}
    BY <1>1, <1>7 DEF Stores, Writes
  <2>2. rows'[slot[p]].state = arg[p].state
    BY <1>3, <1>7
  <2>3. CASE op[p] = "register"
    <3>1. arg[p] = NewRow(p)
      BY <2>3 DEF TableInv, DamageInv
    <3>2. arg[p].state = TERM_STATE_DISCONNECTED
      BY <3>1 DEF NewRow
    <3> QED BY <2>2, <2>3, <3>2
  <2>4. CASE op[p] = "set_state"
    <3>1. "term_no" \notin todo[p]
      BY <1>1, <2>4 DEF Stores
    <3>2. rows[slot[p]].term_no = p
      BY <3>1 DEF TableInv, RowInv, Store
    <3>3. \/ arg[p] = StateRow(p, TERM_STATE_CONNECTED, CAP_LOCK)
          \/ arg[p] = StateRow(p, TERM_STATE_DISCONNECTED, 0)
      BY <2>4 DEF TableInv, DamageInv
    <3>4. arg[p].state \in {TERM_STATE_DISCONNECTED, TERM_STATE_CONNECTED}
      BY <3>3 DEF StateRow
    <3> QED BY <2>2, <2>4, <3>2, <3>4
  <2> QED BY <2>1, <2>3, <2>4
<1> QED BY <1>1, <1>2, <1>3, <1>4, <1>5, <1>6, <1>7

LEMMA MapStep ==
  ASSUME TableInv, MapInv, [Next]_vars
  PROVE  MapInv'
<1> USE DEF TableInv, IInv, TypeOK, MapInv, Goto
<1>1. ASSUME NEW p \in Procs, Open(p) \/ Lock(p) PROVE MapInv'
  BY <1>1 DEF Open, Start, CreateSem, FindSem, InitSem, SeeInit, MissInit, Lock, local
<1>2. ASSUME NEW p \in Procs, Access(p) PROVE MapInv'
  BY <1>2 DEF Access, Register, SetState, Touch, Find, Call
<1>3. ASSUME NEW p \in Procs, ScanHit(p) \/ ScanMiss(p) PROVE MapInv'
  BY <1>3 DEF ScanHit, ScanMiss, FirstRow, NewRow
<1>4. ASSUME NEW p \in Procs, Store(p) PROVE MapInv'
  <2>1. PICK f \in todo[p] :
          /\ \A i \in Slots : i # slot[p] => rows'[i] = rows[i]
          /\ f # "term_no" => rows'[slot[p]].term_no = rows[slot[p]].term_no
          /\ f # "state" => rows'[slot[p]].state = rows[slot[p]].state
          /\ f = "term_no" => op[p] = "register" /\ rows'[slot[p]].term_no = p
          /\ f = "state" =>
               \/ /\ op[p] = "register"
                  /\ rows'[slot[p]].state = TERM_STATE_DISCONNECTED
               \/ /\ op[p] = "set_state"
                  /\ rows[slot[p]].term_no = p
    BY <1>4, StoreKinds
  <2>2. p # 0 /\ slot[p] \in Slots /\ \A q \in Procs : q # p => pc[q] # "store"
    BY <1>4, StoreKinds
  <2>3. /\ op' = op /\ slot' = slot /\ joined' = joined
        /\ \A q \in Procs : q # p => pc'[q] = pc[q]
    BY <1>4 DEF Store
  <2>4. pc[p] = "store" /\ TERM_STATE_DISCONNECTED # TERM_STATE_CONNECTED
    BY <1>4 DEF Store, TERM_STATE_DISCONNECTED, TERM_STATE_CONNECTED
  <2>5. ASSUME NEW i \in Slots, rows'[i].term_no = 0
        PROVE  rows'[i].state # TERM_STATE_CONNECTED
    <3>1. CASE i # slot[p]
      BY <2>1, <2>5, <3>1
    <3>2. CASE i = slot[p]
      BY <2>1, <2>2, <2>4, <2>5, <3>2
    <3> QED BY <3>1, <3>2
  <2>6. op[p] = "register" => rows'[slot[p]].state # TERM_STATE_CONNECTED
    BY <2>1, <2>4
  <2> QED BY <2>2, <2>3, <2>5, <2>6
<1>5. ASSUME NEW p \in Procs, Copy(p) PROVE MapInv'
  BY <1>5 DEF Copy
<1>6. ASSUME NEW p \in Procs, Unlock(p) \/ Kill(p) PROVE MapInv'
  <2>1. \A q \in Procs : op[q] \in Writes => q \in Terms
    BY DEF SlotInv
  <2>2. /\ rows' = rows /\ op'[p] = "none" /\ pc'[p] # "store"
        /\ \A q \in Procs : q # p => op'[q] = op[q] /\ pc'[q] = pc[q] /\ slot'[q] = slot[q]
    BY <1>6 DEF Unlock, Kill, ClearLocals
  <2>3. \A t \in Terms : t # p => joined'[t] = joined[t]
    BY <1>6 DEF Unlock, Kill
  <2> QED BY <2>1, <2>2, <2>3 DEF Writes
<1>7. CASE UNCHANGED vars
  BY <1>7 DEF vars, local
<1> QED
  BY <1>1, <1>2, <1>3, <1>4, <1>5, <1>6, <1>7 DEF Next, Critical

-----------------------------------------------------------------------------
(* What a step that leaves the rows' numbers and states alone leaves alone. *)
LEMMA SameEntries ==
  ASSUME \A i \in Slots : /\ rows'[i].term_no = rows[i].term_no
                          /\ rows'[i].state = rows[i].state
  PROVE  Entries' = Entries
<1>1. \A t \in Terms : HasRow(t)' <=> HasRow(t)
  BY DEF HasRow
<1>2. \A t \in Terms : IsConnected(t)' <=> IsConnected(t)
  BY DEF IsConnected
<1>3. \A t \in Terms : Entry(t)' = Entry(t)
  BY <1>1, <1>2 DEF Entry
<1> QED BY <1>3 DEF Entries

(* One row, of terminal t or becoming t's, changes: the other entries stay. *)
LEMMA OthersEntries ==
  ASSUME NEW s \in Slots, NEW t \in Terms,
         \A i \in Slots : i # s => rows'[i] = rows[i],
         rows[s].term_no \in {0, t}, rows'[s].term_no \in {0, t}
  PROVE  Entries' = [Entries EXCEPT ![t] = Entry(t)']
<1>1. \A u \in Terms : u # 0
  BY TableAssumption
<1>2. \A u \in Terms : u # t => (HasRow(u)' <=> HasRow(u))
  BY <1>1 DEF HasRow
<1>3. \A u \in Terms : u # t => (IsConnected(u)' <=> IsConnected(u))
  BY <1>1 DEF IsConnected
<1>4. \A u \in Terms : u # t => Entry(u)' = Entry(u)
  BY <1>2, <1>3 DEF Entry
<1> QED BY <1>4 DEF Entries

LEMMA StoreRefines ==
  ASSUME TableInv, MapInv, NEW p \in Procs, Store(p)
  PROVE  [R!Next]_(R!vars)
<1> DEFINE s == slot[p]
<1>1. p \in Terms /\ p # 0 /\ s \in Slots
  BY StoreKinds
<1>2. Joined' = Joined
  BY DEF Store, Joined
<1>3. PICK f \in todo[p] :
        /\ \A i \in Slots : i # s => rows'[i] = rows[i]
        /\ f # "term_no" => rows'[s].term_no = rows[s].term_no
        /\ f # "state" => rows'[s].state = rows[s].state
        /\ f = "term_no" => /\ op[p] = "register"
                            /\ rows'[s].term_no = p
                            /\ rows[s].term_no = 0
                            /\ \A i \in Slots : rows[i].term_no # p
        /\ f = "state" =>
             \/ /\ op[p] = "register"
                /\ rows'[s].state = TERM_STATE_DISCONNECTED
             \/ /\ op[p] = "set_state"
                /\ rows[s].term_no = p
                /\ rows'[s].state \in {TERM_STATE_DISCONNECTED, TERM_STATE_CONNECTED}
  BY StoreKinds
<1> HIDE DEF s
<1>4. TERM_STATE_DISCONNECTED # TERM_STATE_CONNECTED
  BY DEF TERM_STATE_DISCONNECTED, TERM_STATE_CONNECTED
<1>5. CASE f \notin {"term_no", "state"}
  <2>1. \A i \in Slots : /\ rows'[i].term_no = rows[i].term_no
                         /\ rows'[i].state = rows[i].state
    BY <1>3, <1>5
  <2> QED BY <1>2, <2>1, SameEntries DEF R!vars
<1>6. CASE f = "term_no"
  <2>1. rows[s].state # TERM_STATE_CONNECTED
    BY <1>1, <1>3, <1>6 DEF MapInv
  <2>2. rows'[s].state # TERM_STATE_CONNECTED
    BY <1>3, <1>6, <2>1
  <2>3. Entries' = [Entries EXCEPT ![p] = Entry(p)']
    BY <1>1, <1>3, <1>6, OthersEntries
  <2>4. ~HasRow(p)
    BY <1>3, <1>6 DEF HasRow
  <2>5. HasRow(p)'
    BY <1>1, <1>3, <1>6 DEF HasRow
  <2>6. ~IsConnected(p)'
    BY <1>3, <1>6, <2>2 DEF IsConnected
  <2>7. Entries[p] = "unused" /\ Entry(p)' = "disconnected"
    BY <1>1, <2>4, <2>5, <2>6 DEF Entries, Entry
  <2>8. p \notin Joined
    BY <1>3, <1>6 DEF MapInv, Joined
  <2>9. R!Claim(p)
    BY <1>2, <2>3, <2>7, <2>8 DEF R!Claim, R!Enter
  <2> QED BY <1>1, <2>9 DEF R!Next
<1>7. CASE f = "state" /\ op[p] = "register"
  <2>1. rows[s].state # TERM_STATE_CONNECTED
    BY <1>7 DEF MapInv, Store, s
  <2>2. rows'[s].state # TERM_STATE_CONNECTED
    BY <1>3, <1>4, <1>7
  <2>3. \A i \in Slots : /\ rows'[i].term_no = rows[i].term_no
                         /\ rows'[i].state = TERM_STATE_CONNECTED
                              <=> rows[i].state = TERM_STATE_CONNECTED
    BY <1>3, <1>7, <2>1, <2>2
  <2>4. \A t \in Terms : HasRow(t)' <=> HasRow(t)
    BY <2>3 DEF HasRow
  <2>5. \A t \in Terms : IsConnected(t)' <=> IsConnected(t)
    BY <2>3 DEF IsConnected
  <2>6. \A t \in Terms : Entry(t)' = Entry(t)
    BY <2>4, <2>5 DEF Entry
  <2>7. Entries' = Entries
    BY <2>6 DEF Entries
  <2> QED BY <1>2, <2>7 DEF R!vars
<1>8. CASE f = "state" /\ op[p] = "set_state"
  <2>1. rows[s].term_no = p /\ rows'[s].term_no = p
    BY <1>3, <1>8
  <2>2. Entries' = [Entries EXCEPT ![p] = Entry(p)']
    BY <1>1, <1>3, <2>1, OthersEntries
  <2>3. Entry(p)' \in R!States
    BY <1>1, <2>1 DEF Entry, HasRow, R!States
  <2>4. p \in Joined
    BY <1>1, <1>8 DEF MapInv, Joined
  <2>5. R!Report(p)
    BY <1>2, <2>2, <2>3, <2>4 DEF R!Report
  <2> QED BY <1>1, <2>5 DEF R!Next
<1> QED BY <1>3, <1>5, <1>6, <1>7, <1>8

LEMMA UnlockRefines ==
  ASSUME TableInv, MapInv, NEW p \in Procs, Unlock(p)
  PROVE  [R!Next]_(R!vars)
<1>1. Entries' = Entries
  BY SameEntries DEF Unlock
<1>2. CASE op[p] = "register" /\ slot[p] # 0
  <2>1. p \in Terms /\ rows[slot[p]].term_no = p /\ slot[p] \in Slots
    BY <1>2, TableAssumption
       DEF Unlock, TableInv, IInv, TypeOK, SlotInv, RowInv, Writes, Slots
  <2>2. p \notin Joined
    BY <1>2 DEF MapInv, Joined
  <2>3. Joined' = Joined \cup {p}
    BY <1>2, <2>1 DEF Unlock, Joined, TableInv, IInv, TypeOK
  <2>4. Entries[p] # "unused"
    BY <2>1 DEF Entries, Entry, HasRow
  <2>5. R!Enter(p)
    BY <1>1, <2>1, <2>4 DEF R!Enter, Entries
  <2>6. R!Join(p)
    BY <2>2, <2>3, <2>5 DEF R!Join
  <2> QED BY <2>1, <2>6 DEF R!Next
<1>3. CASE ~(op[p] = "register" /\ slot[p] # 0)
  <2>1. \A t \in Terms : joined'[t] <=> joined[t]
    BY <1>3 DEF Unlock, MapInv, TableInv, IInv, TypeOK
  <2>2. Joined' = Joined
    BY <2>1 DEF Joined
  <2> QED BY <1>1, <2>2 DEF R!vars
<1> QED BY <1>2, <1>3

LEMMA RefineStep == TableInv /\ MapInv /\ [Next]_vars => [R!Next]_(R!vars)
<1> SUFFICES ASSUME TableInv, MapInv, [Next]_vars PROVE [R!Next]_(R!vars)
  OBVIOUS
<1>1. ASSUME UNCHANGED <<rows, joined>> PROVE [R!Next]_(R!vars)
  BY <1>1, SameEntries DEF R!vars, Joined
<1>2. ASSUME NEW p \in Procs, Kill(p) PROVE [R!Next]_(R!vars)
  <2>1. Entries' = Entries
    BY <1>2, SameEntries DEF Kill
  <2>2. Joined' = Joined \ {p}
    BY <1>2 DEF Kill, Joined
  <2>3. CASE p \in Terms
    BY <2>1, <2>2, <2>3 DEF R!Leave, R!Next
  <2>4. CASE p \notin Terms
    BY <2>1, <2>2, <2>4 DEF R!vars, Joined
  <2> QED BY <2>3, <2>4
<1> QED
  BY <1>1, <1>2, StoreRefines, UnlockRefines
     DEF Next, Open, Access, Critical, Start, CreateSem, FindSem, InitSem, SeeInit, MissInit,
         Register, SetState, Touch, Find, Call, Lock, ScanHit, ScanMiss, Copy, vars

(* The table implements the registry (ImplementsRegistry): whatever the     *)
(* order of the stores and whoever is killed between two of them, users see *)
(* one entry per terminal, changed in one step by its own termd.            *)
THEOREM TableImplementsRegistry == Spec => ImplementsRegistry
<1>1. Init => R!Init
  <2> SUFFICES ASSUME Init PROVE R!Init
    OBVIOUS
  <2>1. \A t \in Terms : ~HasRow(t)
    BY TableAssumption DEF Init, HasRow, ZeroRow
  <2>2. Entries = [t \in Terms |-> "unused"]
    BY <2>1 DEF Entries, Entry
  <2>3. Joined = {}
    BY DEF Init, Joined
  <2> QED BY <2>2, <2>3 DEF R!Init
<1>2. Init => MapInv
  BY MapInit
<1>3. TableInv /\ MapInv /\ [Next]_vars => MapInv'
  BY MapStep
<1> QED BY <1>1, <1>2, <1>3, RefineStep, TableInvariant, PTL DEF Spec, ImplementsRegistry, R!Spec
=============================================================================
