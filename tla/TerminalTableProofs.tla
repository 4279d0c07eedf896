------------------------- MODULE TerminalTableProofs -------------------------
(***************************************************************************)
(* What TLAPS proves of TerminalTable, for every set of termds and readers, *)
(* every table size and every number of IPC_STAT polls.                     *)
(***************************************************************************)
EXTENDS TerminalTable, TLAPS

(* Who may be where, as a function of how far the semaphore is.             *)
LockInv ==
  /\ ~exists => /\ ~otime
                /\ \A p \in Procs : pc[p] \in {"down", "semget"}
  /\ \A p, q \in Procs : pc[p] = "init" /\ pc[q] = "init" => p = q
  /\ \A p \in Procs : pc[p] = "init" => ~otime
  /\ OpenMeansInitialised
  /\ \A p \in Procs : undo[p] = IF pc[p] \in Inside THEN 1 ELSE 0
  /\ MutualExclusion
  /\ SemaphoreBalance

Writes == {"register", "set_state", "touch"}

(* The locals of the process inside agree with the rows.                    *)
SlotInv ==
  \A p \in Procs :
    /\ op[p] \in Writes => p \in Terms /\ arg[p].term_no = p
    /\ pc[p] \notin {"store", "copy", "unlock"} => slot[p] = 0
    /\ pc[p] \in {"store", "copy"} => slot[p] \in Slots
    /\ pc[p] = "store" => op[p] \in Writes /\ todo[p] \subseteq Stores[op[p]]
    /\ pc[p] = "copy" => op[p] = "find"

IInv == TypeOK /\ LockInv /\ SlotInv

(* What the process inside has learnt from its scan stays true, since it    *)
(* alone can change a row.                                                  *)
RowInv ==
  /\ OneRowPerTerminal
  /\ RegisteredHasRow
  /\ FindIsASnapshot
  /\ \A p \in Procs :
       /\ pc[p] = "copy" =>
            \A f \in Fields \ todo[p] : out[p][f] = rows[slot[p]][f]
       /\ pc[p] = "store" =>
            IF "term_no" \in todo[p]
              THEN /\ rows[slot[p]].term_no = 0
                   /\ \A i \in Slots : rows[i].term_no # p
              ELSE rows[slot[p]].term_no = p
       /\ pc[p] = "unlock" /\ op[p] = "register" /\ slot[p] # 0 =>
            rows[slot[p]].term_no = p

(* A row being written holds, field by field, either what the writer is to  *)
(* store or what it found; before the first store it found the row whole or *)
(* already damaged.                                                         *)
DamageInv ==
  /\ DamageIsConfined
  /\ \A p \in Procs :
       /\ op[p] = "register" => arg[p] = NewRow(p)
       /\ op[p] = "set_state" =>
            \/ arg[p] = StateRow(p, TERM_STATE_CONNECTED, CAP_LOCK)
            \/ arg[p] = StateRow(p, TERM_STATE_DISCONNECTED, 0)
       /\ pc[p] = "store" =>
            /\ \A f \in Stores[op[p]] \ todo[p] : rows[slot[p]][f] = arg[p][f]
            /\ \/ todo[p] # Stores[op[p]]
               \/ Whole(rows[slot[p]])
               \/ slot[p] \in damaged

TableInv == IInv /\ RowInv /\ DamageInv

-----------------------------------------------------------------------------
LEMMA ZeroRowType == ZeroRow \in TermEntry
BY DEF ZeroRow, TermEntry, TERM_STATE_UNUSED

LEMMA NewRowType ==
  ASSUME NEW p \in Terms
  PROVE  NewRow(p) \in TermEntry /\ NewRow(p).term_no = p
BY TableAssumption DEF NewRow, TermEntry, TERM_STATE_DISCONNECTED

LEMMA StateRowType ==
  ASSUME NEW p \in Terms, NEW s \in 0..2, NEW c \in 0..1
  PROVE  StateRow(p, s, c) \in TermEntry /\ StateRow(p, s, c).term_no = p
BY TableAssumption DEF StateRow, TermEntry

LEMMA FieldStore ==
  ASSUME NEW r \in TermEntry, NEW a \in TermEntry, NEW f \in Fields
  PROVE  [r EXCEPT ![f] = a[f]] \in TermEntry
<1>1. CASE f = "term_no"
  BY <1>1 DEF TermEntry
<1>2. CASE f = "state"
  BY <1>2 DEF TermEntry
<1>3. CASE f = "capabilities"
  BY <1>3 DEF TermEntry
<1> QED
  BY <1>1, <1>2, <1>3 DEF Fields

LEMMA StoresType == \A o \in Ops : Stores[o] \subseteq Fields
BY DEF Ops, Stores, Fields

LEMMA InitOK == Init => IInv
<1> SUFFICES ASSUME Init PROVE IInv
  OBVIOUS
<1>1. TypeOK
  <2>1. /\ exists \in BOOLEAN /\ otime \in BOOLEAN /\ joined \in [Terms -> BOOLEAN]
        /\ todo \in [Procs -> SUBSET Fields]
        /\ damaged \subseteq Slots
    BY Zenon DEF Init
  <2>2. /\ semval \in Nat /\ undo \in [Procs -> 0..1]
        /\ tries \in [Procs -> 0..InitRetries] /\ slot \in [Procs -> 0..MaxRows]
    BY TableAssumption DEF Init
  <2>3. pc \in [Procs -> Locs] /\ op \in [Procs -> Ops]
    BY DEF Init, Locs, Ops
  <2>4. /\ rows \in [Slots -> TermEntry] /\ arg \in [Procs -> TermEntry]
        /\ out \in [Procs -> TermEntry]
    BY ZeroRowType DEF Init
  <2> QED
    BY <2>1, <2>2, <2>3, <2>4 DEF TypeOK
<1>2. LockInv
  BY DEF Init, LockInv, OpenMeansInitialised, MutualExclusion,
         SemaphoreBalance, Opening, Inside
<1>3. SlotInv
  BY DEF Init, SlotInv, Writes
<1> QED
  BY <1>1, <1>2, <1>3 DEF IInv

LEMMA TypeStep ==
  ASSUME IInv, [Next]_vars
  PROVE  TypeOK'
<1> USE TableAssumption, ZeroRowType DEF IInv, TypeOK, Goto, Locs, Opening, Inside
<1>1. ASSUME NEW p \in Procs, Start(p) PROVE TypeOK'
  BY <1>1 DEF Start, sem, local
<1>2. ASSUME NEW p \in Procs, CreateSem(p) PROVE TypeOK'
  BY <1>2 DEF CreateSem, local
<1>3. ASSUME NEW p \in Procs, FindSem(p) PROVE TypeOK'
  BY <1>3 DEF FindSem, sem, local
<1>4. ASSUME NEW p \in Procs, InitSem(p) PROVE TypeOK'
  BY <1>4 DEF InitSem, local
<1>5. ASSUME NEW p \in Procs, SeeInit(p) PROVE TypeOK'
  BY <1>5 DEF SeeInit, sem, local
<1>6. ASSUME NEW p \in Procs, MissInit(p) PROVE TypeOK'
  BY <1>6 DEF MissInit, sem, local
<1>7. ASSUME NEW p \in Procs, NEW o \in Ops, NEW a \in TermEntry, Call(p, o, a)
      PROVE TypeOK'
  BY <1>7 DEF Call, sem
<1>8. ASSUME NEW p \in Procs, Lock(p) PROVE TypeOK'
  BY <1>8 DEF Lock, local, LockInv
<1>9. ASSUME NEW p \in Procs, ScanHit(p) PROVE TypeOK'
  <2>1. todo' \in [Procs -> SUBSET Fields]
    BY <1>9, StoresType DEF ScanHit
  <2>2. slot' \in [Procs -> 0..MaxRows]
    BY <1>9 DEF ScanHit, Slots
  <2>3. pc' \in [Procs -> Locs]
    BY <1>9 DEF ScanHit
  <2> QED
    BY <1>9, <2>1, <2>2, <2>3 DEF ScanHit, sem
<1>10. ASSUME NEW p \in Procs, ScanMiss(p) PROVE TypeOK'
  <2>1. todo' \in [Procs -> SUBSET Fields]
    BY <1>10, StoresType DEF ScanMiss, Ops
  <2>2. slot' \in [Procs -> 0..MaxRows]
    <3>1. \A i \in Slots : i \in 0..MaxRows
      BY DEF Slots
    <3>2. \/ \E i \in Slots : slot' = [slot EXCEPT ![p] = i]
          \/ slot' = slot
      BY <1>10, Zenon DEF ScanMiss
    <3> QED
      BY <3>1, <3>2
  <2>3. pc' \in [Procs -> Locs]
    BY <1>10 DEF ScanMiss
  <2> QED
    BY <1>10, <2>1, <2>2, <2>3 DEF ScanMiss, sem
<1>11. ASSUME NEW p \in Procs, Store(p) PROVE TypeOK'
  <2>1. slot[p] \in Slots
    BY <1>11 DEF Store, SlotInv
  <2>2. PICK f \in todo[p] :
          rows' = [rows EXCEPT ![slot[p]] = [@ EXCEPT ![f] = arg[p][f]]]
    BY <1>11 DEF Store
  <2>3. [rows[slot[p]] EXCEPT ![f] = arg[p][f]] \in TermEntry
    BY <2>1, FieldStore
  <2>4. rows' \in [Slots -> TermEntry]
    BY <2>1, <2>2, <2>3
  <2> QED
    BY <1>11, <2>1, <2>4 DEF Store, sem
<1>12. ASSUME NEW p \in Procs, Copy(p) PROVE TypeOK'
  <2>1. slot[p] \in Slots
    BY <1>12 DEF Copy, SlotInv
  <2>2. PICK f \in todo[p] :
          out' = [out EXCEPT ![p] = [@ EXCEPT ![f] = rows[slot[p]][f]]]
    BY <1>12 DEF Copy
  <2>3. [out[p] EXCEPT ![f] = rows[slot[p]][f]] \in TermEntry
    BY <2>1, FieldStore
  <2>4. out' \in [Procs -> TermEntry]
    BY <2>2, <2>3
  <2> QED
    BY <1>12, <2>4 DEF Copy, sem
<1>13. ASSUME NEW p \in Procs, Unlock(p) PROVE TypeOK'
  <2>1. joined' \in [Terms -> BOOLEAN]
    BY <1>13 DEF Unlock
  <2>2. /\ semval' \in Nat /\ undo' \in [Procs -> 0..1]
        /\ exists' \in BOOLEAN /\ otime' \in BOOLEAN
    BY <1>13 DEF Unlock, LockInv
  <2>3. pc' \in [Procs -> Locs]
    BY <1>13 DEF Unlock
  <2>4. /\ op' \in [Procs -> Ops] /\ arg' \in [Procs -> TermEntry]
        /\ slot' \in [Procs -> 0..MaxRows] /\ todo' \in [Procs -> SUBSET Fields]
        /\ out' \in [Procs -> TermEntry]
    BY <1>13 DEF Unlock, ClearLocals, Ops
  <2> QED
    BY <1>13, <2>1, <2>2, <2>3, <2>4 DEF Unlock
<1>14. ASSUME NEW p \in Procs, Kill(p) PROVE TypeOK'
  BY <1>14 DEF Kill, ClearLocals, LockInv, SlotInv, Ops
<1>15. CASE UNCHANGED vars
  BY <1>15 DEF vars, sem, local
<1>16. ASSUME NEW p \in Procs, Access(p) PROVE TypeOK'
  <2>1. CASE Register(p)
    BY <1>7, <2>1, NewRowType DEF Register, Ops
  <2>2. CASE SetState(p)
    BY <1>7, <2>2, StateRowType
       DEF SetState, Ops, TERM_STATE_CONNECTED, TERM_STATE_DISCONNECTED, CAP_LOCK
  <2>3. CASE Touch(p)
    BY <1>7, <2>3, StateRowType DEF Touch, Ops, TERM_STATE_DISCONNECTED
  <2>4. CASE Find(p)
    <3>1. PICK n \in Wanted : Call(p, "find", [ZeroRow EXCEPT !.term_no = n])
      BY <2>4 DEF Find
    <3>2. [ZeroRow EXCEPT !.term_no = n] \in TermEntry
      BY DEF ZeroRow, TermEntry, TERM_STATE_UNUSED
    <3> QED
      BY <1>7, <3>1, <3>2 DEF Ops
  <2> QED
    BY <1>16, <2>1, <2>2, <2>3, <2>4 DEF Access
<1> QED
  BY <1>1, <1>2, <1>3, <1>4, <1>5, <1>6, <1>8, <1>9, <1>10, <1>11,
     <1>12, <1>13, <1>14, <1>15, <1>16
     DEF Next, Open, Critical

LEMMA LockStep ==
  ASSUME IInv, [Next]_vars
  PROVE  LockInv'
<1> USE DEF IInv, LockInv, TypeOK, OpenMeansInitialised, MutualExclusion,
            SemaphoreBalance, Opening, Inside, Locs
<1>1. ASSUME NEW p \in Procs, Start(p) PROVE LockInv'
  BY <1>1 DEF Start, Goto, sem
<1>2. ASSUME NEW p \in Procs, CreateSem(p) PROVE LockInv'
  BY <1>2 DEF CreateSem, Goto
<1>3. ASSUME NEW p \in Procs, FindSem(p) PROVE LockInv'
  BY <1>3 DEF FindSem, Goto, sem
<1>4. ASSUME NEW p \in Procs, InitSem(p) PROVE LockInv'
  BY <1>4 DEF InitSem, Goto
<1>5. ASSUME NEW p \in Procs, SeeInit(p) PROVE LockInv'
  BY <1>5 DEF SeeInit, Goto, sem
<1>6. ASSUME NEW p \in Procs, MissInit(p) PROVE LockInv'
  BY <1>6 DEF MissInit, Goto, sem
<1>7. ASSUME NEW p \in Procs, NEW o, NEW a, Call(p, o, a) PROVE LockInv'
  BY <1>7 DEF Call, Goto, sem
<1>8. ASSUME NEW p \in Procs, Lock(p) PROVE LockInv'
  BY <1>8 DEF Lock, Goto
<1>9. ASSUME NEW p \in Procs, ScanHit(p) PROVE LockInv'
  BY <1>9 DEF ScanHit, Goto, sem
<1>10. ASSUME NEW p \in Procs, ScanMiss(p) PROVE LockInv'
  BY <1>10 DEF ScanMiss, Goto, sem
<1>11. ASSUME NEW p \in Procs, Store(p) PROVE LockInv'
  BY <1>11 DEF Store, Goto, sem
<1>12. ASSUME NEW p \in Procs, Copy(p) PROVE LockInv'
  BY <1>12 DEF Copy, Goto, sem
<1>13. ASSUME NEW p \in Procs, Unlock(p) PROVE LockInv'
  BY <1>13 DEF Unlock, Goto
<1>14. ASSUME NEW p \in Procs, Kill(p) PROVE LockInv'
  BY <1>14 DEF Kill, Goto
<1>15. CASE UNCHANGED vars
  BY <1>15 DEF vars, sem
<1> QED
  BY <1>1, <1>2, <1>3, <1>4, <1>5, <1>6, <1>7, <1>8, <1>9, <1>10, <1>11,
     <1>12, <1>13, <1>14, <1>15
     DEF Next, Open, Access, Critical, Register, SetState, Touch, Find

LEMMA SlotStep ==
  ASSUME IInv, [Next]_vars
  PROVE  SlotInv'
<1> USE DEF IInv, SlotInv, TypeOK, Goto, Writes
<1>1. ASSUME NEW p \in Procs, Open(p) PROVE SlotInv'
  BY <1>1 DEF Open, Start, CreateSem, FindSem, InitSem, SeeInit, MissInit, local, LockInv
<1>2. ASSUME NEW p \in Procs, Access(p) PROVE SlotInv'
  <2>1. ASSUME NEW o \in Ops, NEW a \in TermEntry, Call(p, o, a),
               o \in Writes => p \in Terms /\ a.term_no = p
        PROVE  SlotInv'
    BY <2>1 DEF Call
  <2>2. CASE Register(p)
    BY <2>1, <2>2, NewRowType DEF Register, Ops
  <2>3. CASE SetState(p)
    BY <2>1, <2>3, StateRowType
       DEF SetState, Ops, TERM_STATE_CONNECTED, TERM_STATE_DISCONNECTED, CAP_LOCK
  <2>4. CASE Touch(p)
    BY <2>1, <2>4, StateRowType DEF Touch, Ops, TERM_STATE_DISCONNECTED
  <2>5. CASE Find(p)
    <3>1. PICK n \in Wanted : Call(p, "find", [ZeroRow EXCEPT !.term_no = n])
      BY <2>5 DEF Find
    <3>2. [ZeroRow EXCEPT !.term_no = n] \in TermEntry
      BY TableAssumption DEF ZeroRow, TermEntry, TERM_STATE_UNUSED
    <3> QED
      BY <2>1, <3>1, <3>2 DEF Ops
  <2> QED
    BY <1>2, <2>2, <2>3, <2>4, <2>5 DEF Access
<1>3. ASSUME NEW p \in Procs, Lock(p) PROVE SlotInv'
  BY <1>3 DEF Lock, local
<1>4. ASSUME NEW p \in Procs, ScanHit(p) PROVE SlotInv'
  BY <1>4 DEF ScanHit
<1>5. ASSUME NEW p \in Procs, ScanMiss(p) PROVE SlotInv'
  BY <1>5 DEF ScanMiss
<1>6. ASSUME NEW p \in Procs, Store(p) PROVE SlotInv'
  BY <1>6 DEF Store
<1>7. ASSUME NEW p \in Procs, Copy(p) PROVE SlotInv'
  BY <1>7 DEF Copy
<1>8. ASSUME NEW p \in Procs, Unlock(p) PROVE SlotInv'
  BY <1>8 DEF Unlock, ClearLocals
<1>9. ASSUME NEW p \in Procs, Kill(p) PROVE SlotInv'
  BY <1>9 DEF Kill, ClearLocals
<1>10. CASE UNCHANGED vars
  BY <1>10 DEF vars, local
<1> QED
  BY <1>1, <1>2, <1>3, <1>4, <1>5, <1>6, <1>7, <1>8, <1>9, <1>10
     DEF Next, Critical

(* What one store does to the rows: one field of one row changes.           *)
LEMMA StoreEffect ==
  ASSUME IInv, NEW p \in Procs, Store(p)
  PROVE  \E f \in todo[p] :
           /\ f \in Fields
           /\ slot[p] \in Slots
           /\ todo' = [todo EXCEPT ![p] = @ \ {f}]
           /\ \A i \in Slots : i # slot[p] => rows'[i] = rows[i]
           /\ rows'[slot[p]][f] = arg[p][f]
           /\ \A g \in Fields : g # f => rows'[slot[p]][g] = rows[slot[p]][g]
<1>1. slot[p] \in Slots /\ todo[p] \subseteq Fields
  BY DEF IInv, SlotInv, TypeOK, Store
<1>2. PICK f \in todo[p] :
        /\ rows' = [rows EXCEPT ![slot[p]] = [@ EXCEPT ![f] = arg[p][f]]]
        /\ todo' = [todo EXCEPT ![p] = @ \ {f}]
  BY DEF Store
<1>3. rows \in [Slots -> TermEntry]
  BY DEF IInv, TypeOK
<1>4. rows'[slot[p]] = [rows[slot[p]] EXCEPT ![f] = arg[p][f]]
  BY <1>1, <1>2, <1>3
<1>5. DOMAIN rows[slot[p]] = Fields
  BY <1>1, <1>3 DEF TermEntry, Fields
<1>6. rows'[slot[p]][f] = arg[p][f]
  BY <1>1, <1>4, <1>5
<1>7. \A g \in Fields : g # f => rows'[slot[p]][g] = rows[slot[p]][g]
  BY <1>1, <1>4, <1>5
<1>8. \A i \in Slots : i # slot[p] => rows'[i] = rows[i]
  BY <1>2, <1>3
<1> QED
  BY <1>1, <1>2, <1>6, <1>7, <1>8

(* A row's number is only ever written over 0, so it never changes again.   *)
LEMMA RowsKept ==
  ASSUME IInv, RowInv, [Next]_vars, NEW i \in Slots, rows[i].term_no # 0
  PROVE  rows'[i].term_no = rows[i].term_no
<1>1. CASE rows' = rows
  BY <1>1
<1>2. ASSUME NEW p \in Procs, Store(p)
      PROVE  rows'[i].term_no = rows[i].term_no
  <2>1. PICK f \in todo[p] :
          /\ \A j \in Slots : j # slot[p] => rows'[j] = rows[j]
          /\ \A g \in Fields : g # f => rows'[slot[p]][g] = rows[slot[p]][g]
    BY <1>2, StoreEffect
  <2>2. CASE i # slot[p]
    BY <2>1, <2>2
  <2>3. CASE i = slot[p]
    <3>1. "term_no" \notin todo[p]
      BY <1>2, <2>3 DEF RowInv, Store
    <3> QED
      BY <2>1, <2>3, <3>1 DEF Fields
  <2> QED
    BY <2>2, <2>3
<1>3. CASE UNCHANGED vars
  BY <1>3 DEF vars
<1> QED
  BY <1>1, <1>2, <1>3
     DEF Next, Open, Access, Critical, Start, CreateSem, FindSem, InitSem,
         SeeInit, MissInit, Register, SetState, Touch, Find, Call, Lock,
         ScanHit, ScanMiss, Copy, Unlock, Kill

(* RowInv is kept by the steps that change no row and finish no scan.       *)
LEMMA RowStepQuiet ==
  ASSUME IInv, RowInv, NEW p \in Procs,
         Open(p) \/ Access(p) \/ Lock(p) \/ Kill(p)
  PROVE  RowInv'
<1> USE DEF IInv, RowInv, TypeOK, OneRowPerTerminal, RegisteredHasRow,
            FindIsASnapshot, Goto
<1>1. CASE Open(p)
  BY <1>1 DEF Open, Start, CreateSem, FindSem, InitSem, SeeInit, MissInit, local
<1>2. ASSUME NEW o, NEW a, Call(p, o, a) PROVE RowInv'
  BY <1>2 DEF Call
<1>3. CASE Access(p)
  BY <1>2, <1>3 DEF Access, Register, SetState, Touch, Find
<1>4. CASE Lock(p)
  BY <1>4 DEF Lock, local
<1>5. CASE Kill(p)
  BY <1>5 DEF Kill, ClearLocals
<1> QED
  BY <1>1, <1>3, <1>4, <1>5

LEMMA RowStepScan ==
  ASSUME IInv, RowInv, NEW p \in Procs, ScanHit(p) \/ ScanMiss(p)
  PROVE  RowInv'
<1> USE DEF IInv, RowInv, TypeOK, OneRowPerTerminal, RegisteredHasRow,
            FindIsASnapshot, Goto, LockInv, SlotInv
<1>1. \A q \in Procs : q # p => pc[q] \notin Inside
  BY DEF MutualExclusion, ScanHit, ScanMiss, Inside
<1>2. CASE ScanHit(p)
  BY <1>1, <1>2 DEF ScanHit, FirstRow, Writes, Stores, Inside
<1>3. CASE ScanMiss(p)
  BY <1>1, <1>3 DEF ScanMiss, FirstRow, Writes, Stores, Fields, Inside
<1> QED
  BY <1>2, <1>3

LEMMA RowStepUnlock ==
  ASSUME IInv, RowInv, NEW p \in Procs, Unlock(p)
  PROVE  RowInv'
<1> USE DEF IInv, RowInv, TypeOK, Goto
<1>1. rows' = rows /\ pc' = [pc EXCEPT ![p] = pc'[p]] /\ pc'[p] \in {"down", "idle"}
  BY DEF Unlock
<1>2. \A q \in Procs : q # p => /\ op'[q] = op[q] /\ slot'[q] = slot[q]
                                /\ todo'[q] = todo[q] /\ out'[q] = out[q]
  BY DEF Unlock, ClearLocals
<1>3. OneRowPerTerminal'
  BY <1>1 DEF OneRowPerTerminal
<1>4. RegisteredHasRow'
  <2> SUFFICES ASSUME NEW t \in Terms, joined'[t]
               PROVE  \E i \in Slots : rows[i].term_no = t
    BY <1>1 DEF RegisteredHasRow
  <2>1. CASE joined[t]
    BY <2>1 DEF RegisteredHasRow
  <2>2. CASE ~joined[t]
    <3>1. t = p /\ op[p] = "register" /\ slot[p] # 0
      BY <2>2 DEF Unlock
    <3>2. rows[slot[p]].term_no = p /\ slot[p] \in Slots
      BY <3>1, TableAssumption DEF Unlock, Slots
    <3> QED
      BY <3>1, <3>2
  <2> QED
    BY <2>1, <2>2
<1>5. FindIsASnapshot'
  BY <1>1, <1>2 DEF FindIsASnapshot
<1> QED
  BY <1>1, <1>2, <1>3, <1>4, <1>5

(* A store: nobody else is inside, so only p's own facts need care.         *)
LEMMA RowStepStore ==
  ASSUME IInv, RowInv, NEW p \in Procs, Store(p)
  PROVE  RowInv'
<1> DEFINE s == slot[p]
<1>1. \A q \in Procs : q # p => pc'[q] = pc[q] /\ pc[q] \notin Inside
  BY DEF IInv, LockInv, TypeOK, MutualExclusion, Store, Inside, Goto
<1>2. /\ s \in Slots /\ op[p] \in Writes /\ p \in Terms
      /\ arg[p].term_no = p /\ todo[p] \subseteq Stores[op[p]]
  BY DEF IInv, SlotInv, Store
<1>3. PICK f \in todo[p] :
        /\ f \in Fields
        /\ todo' = [todo EXCEPT ![p] = @ \ {f}]
        /\ \A i \in Slots : i # s => rows'[i] = rows[i]
        /\ rows'[s][f] = arg[p][f]
        /\ \A g \in Fields : g # f => rows'[s][g] = rows[s][g]
  BY StoreEffect
<1>4. /\ op' = op /\ arg' = arg /\ slot' = slot /\ out' = out /\ joined' = joined
      /\ pc'[p] \in {"store", "unlock"}
      /\ todo[p] \in SUBSET Fields /\ p \in Nat \ {0}
      /\ todo'[p] = todo[p] \ {f}
  BY <1>2, <1>3, TableAssumption DEF Store, Goto, IInv, TypeOK
<1>5. pc'[p] = "unlock" => todo[p] \subseteq {f}
  BY DEF Store, Goto, IInv, TypeOK
<1>6. CASE f = "term_no"
  <2>1. op[p] = "register" /\ rows[s].term_no = 0 /\ \A i \in Slots : rows[i].term_no # p
    BY <1>2, <1>3, <1>6 DEF RowInv, Store, Stores, Writes
  <2>2. rows'[s].term_no = p /\ \A i \in Slots : i # s => rows'[i].term_no = rows[i].term_no
    BY <1>2, <1>3, <1>6
  <2>3. OneRowPerTerminal'
    BY <2>1, <2>2 DEF OneRowPerTerminal, RowInv
  <2>4. RegisteredHasRow'
    <3> SUFFICES ASSUME NEW t \in Terms, joined[t]
                 PROVE  \E i \in Slots : rows'[i].term_no = t
      BY <1>4 DEF RegisteredHasRow
    <3>1. PICK i \in Slots : rows[i].term_no = t
      BY DEF RowInv, RegisteredHasRow
    <3>2. i # s
      BY <2>1, <3>1, TableAssumption
    <3> QED
      BY <2>2, <3>1, <3>2
  <2>5. FindIsASnapshot'
    BY <1>1, <1>4, <2>1 DEF FindIsASnapshot, Inside
  <2> QED
    BY <1>1, <1>2, <1>3, <1>4, <1>6, <2>1, <2>2, <2>3, <2>4, <2>5 DEF RowInv, Inside
<1>7. CASE f # "term_no"
  <2>1. \A i \in Slots : rows'[i].term_no = rows[i].term_no
    BY <1>2, <1>3, <1>7 DEF Fields
  <2>2. OneRowPerTerminal'
    BY <2>1 DEF OneRowPerTerminal, RowInv
  <2>3. RegisteredHasRow'
    BY <1>4, <2>1 DEF RegisteredHasRow, RowInv
  <2>4. FindIsASnapshot'
    BY <1>1, <1>2, <1>4 DEF FindIsASnapshot, Inside, Writes
  <2>5. pc'[p] = "unlock" => rows[s].term_no = p
    BY <1>2, <1>5, <1>7 DEF RowInv, Store
  <2>6. ASSUME pc'[p] = "store"
        PROVE  IF "term_no" \in todo'[p]
                 THEN /\ rows'[s].term_no = 0
                      /\ \A i \in Slots : rows'[i].term_no # p
                 ELSE rows'[s].term_no = p
    BY <1>2, <1>4, <1>7, <2>1 DEF RowInv, Store
  <2>7. \A q \in Procs : pc'[q] # "copy"
    BY <1>1, <1>4 DEF Inside
  <2>8. \A q \in Procs : pc'[q] \in {"store", "unlock"} => q = p
    BY <1>1 DEF Inside
  <2>9. pc'[p] = "unlock" => rows'[s].term_no = p
    BY <1>2, <2>1, <2>5
  <2> QED
    <3>1. ASSUME NEW q \in Procs
          PROVE  /\ pc'[q] # "copy"
                 /\ pc'[q] = "store" =>
                      IF "term_no" \in todo'[q]
                        THEN /\ rows'[slot'[q]].term_no = 0
                             /\ \A i \in Slots : rows'[i].term_no # q
                        ELSE rows'[slot'[q]].term_no = q
                 /\ pc'[q] = "unlock" => rows'[slot'[q]].term_no = q
      <4>1. CASE q = p
        BY <1>4, <2>6, <2>7, <2>9, <4>1
      <4>2. CASE q # p
        BY <2>7, <2>8, <4>2
      <4> QED BY <4>1, <4>2
    <3> QED
      BY <2>2, <2>3, <2>4, <3>1 DEF RowInv
<1> QED
  BY <1>6, <1>7

LEMMA RowStepCopy ==
  ASSUME IInv, RowInv, NEW p \in Procs, Copy(p)
  PROVE  RowInv'
<1>1. \A q \in Procs : q # p => pc'[q] = pc[q] /\ pc[q] \notin Inside
  BY DEF IInv, LockInv, TypeOK, MutualExclusion, Copy, Inside, Goto
<1>2. /\ slot[p] \in Slots /\ op[p] = "find" /\ todo[p] \in SUBSET Fields
      /\ rows \in [Slots -> TermEntry] /\ out \in [Procs -> TermEntry]
  BY DEF IInv, SlotInv, TypeOK, Copy
<1>3. PICK f \in todo[p] :
        /\ out' = [out EXCEPT ![p] = [@ EXCEPT ![f] = rows[slot[p]][f]]]
        /\ todo' = [todo EXCEPT ![p] = @ \ {f}]
        /\ IF todo[p] = {f} THEN Goto(p, "unlock") ELSE UNCHANGED pc
  BY DEF Copy
<1>4. rows' = rows /\ op' = op /\ slot' = slot /\ joined' = joined
  BY DEF Copy
<1>5. pc'[p] \in {"copy", "unlock"} /\ (pc'[p] = "unlock" => todo[p] = {f})
  BY <1>3 DEF Copy, Goto, IInv, TypeOK
<1>6. todo'[p] = todo[p] \ {f}
  BY <1>3 DEF IInv, TypeOK
<1>7. out'[p] \in TermEntry /\ \A g \in Fields \ todo'[p] : out'[p][g] = rows[slot[p]][g]
  <2>1. out'[p] = [out[p] EXCEPT ![f] = rows[slot[p]][f]]
    BY <1>2, <1>3
  <2>2. out[p] \in TermEntry /\ rows[slot[p]] \in TermEntry /\ f \in Fields
    BY <1>2
  <2>3. DOMAIN out[p] = Fields
    BY <2>2 DEF TermEntry, Fields
  <2>4. \A g \in Fields \ todo[p] : out[p][g] = rows[slot[p]][g]
    BY DEF RowInv, Copy
  <2>5. out'[p][f] = rows[slot[p]][f]
    BY <2>1, <2>2, <2>3
  <2>6. \A g \in Fields \ {f} : out'[p][g] = out[p][g]
    BY <2>1, <2>2, <2>3
  <2> QED
    BY <1>6, <2>1, <2>2, <2>4, <2>5, <2>6, FieldStore
<1>8. pc'[p] = "unlock" => out'[p] = rows[slot[p]]
  <2> SUFFICES ASSUME pc'[p] = "unlock" PROVE out'[p] = rows[slot[p]]
    OBVIOUS
  <2>1. \A g \in Fields : out'[p][g] = rows[slot[p]][g]
    BY <1>5, <1>6, <1>7
  <2>2. rows[slot[p]] \in TermEntry
    BY <1>2
  <2> QED
    BY <1>7, <2>1, <2>2 DEF TermEntry, Fields
<1> QED
  BY <1>1, <1>2, <1>4, <1>5, <1>7, <1>8
     DEF RowInv, OneRowPerTerminal, RegisteredHasRow, FindIsASnapshot, Inside

LEMMA RowStep ==
  ASSUME IInv, RowInv, [Next]_vars
  PROVE  RowInv'
<1>1. CASE UNCHANGED vars
  BY <1>1 DEF vars, sem, local, RowInv, OneRowPerTerminal, RegisteredHasRow,
              FindIsASnapshot
<1> QED
  BY <1>1, RowStepQuiet, RowStepScan, RowStepStore, RowStepCopy, RowStepUnlock
     DEF Next, Critical

-----------------------------------------------------------------------------
LEMMA DamageInit == Init => RowInv /\ DamageInv
<1> SUFFICES ASSUME Init PROVE RowInv /\ DamageInv
  OBVIOUS
<1>1. RowInv
  BY DEF Init, RowInv, OneRowPerTerminal, RegisteredHasRow, FindIsASnapshot, ZeroRow
<1>2. DamageInv
  BY DEF Init, DamageInv, DamageIsConfined, Whole
<1> QED
  BY <1>1, <1>2

LEMMA DamageStepQuiet ==
  ASSUME IInv, DamageInv, NEW p \in Procs, Open(p) \/ Access(p) \/ Lock(p)
  PROVE  DamageInv'
<1> USE DEF IInv, DamageInv, DamageIsConfined, TypeOK, Goto
<1>1. CASE Open(p)
  BY <1>1 DEF Open, Start, CreateSem, FindSem, InitSem, SeeInit, MissInit, local
<1>2. ASSUME NEW o \in Ops, NEW a, Call(p, o, a),
             o = "register" => a = NewRow(p),
             o = "set_state" => \/ a = StateRow(p, TERM_STATE_CONNECTED, CAP_LOCK)
                                \/ a = StateRow(p, TERM_STATE_DISCONNECTED, 0)
      PROVE  DamageInv'
  BY <1>2 DEF Call
<1>3. CASE Access(p)
  BY <1>2, <1>3 DEF Access, Register, SetState, Touch, Find, Ops
<1>4. CASE Lock(p)
  BY <1>4 DEF Lock, local
<1> QED
  BY <1>1, <1>3, <1>4

LEMMA DamageStepScan ==
  ASSUME IInv, DamageInv, NEW p \in Procs, ScanHit(p) \/ ScanMiss(p)
  PROVE  DamageInv'
<1>1. \A q \in Procs : q # p => pc[q] \notin Inside
  BY DEF IInv, LockInv, MutualExclusion, ScanHit, ScanMiss, Inside
<1>2. \A i \in Slots : Whole(rows[i]) \/ i \in damaged
  BY <1>1 DEF DamageInv, DamageIsConfined, ScanHit, ScanMiss, Inside
<1>3. /\ rows' = rows /\ damaged' = damaged /\ op' = op /\ arg' = arg
      /\ \A q \in Procs : q # p => pc'[q] # "store"
  BY <1>1 DEF ScanHit, ScanMiss, Goto, Inside, IInv, TypeOK
<1>4. pc'[p] = "store" => slot'[p] \in Slots /\ todo'[p] = Stores[op[p]]
  BY DEF ScanHit, ScanMiss, Goto, IInv, TypeOK
<1> QED
  BY <1>2, <1>3, <1>4 DEF DamageInv, DamageIsConfined

LEMMA DamageStepLeave ==
  ASSUME IInv, DamageInv, NEW p \in Procs, Copy(p) \/ Unlock(p) \/ Kill(p)
  PROVE  DamageInv'
<1> USE DEF IInv, DamageInv, DamageIsConfined, TypeOK, Goto
<1>1. CASE Copy(p)
  BY <1>1 DEF Copy
<1>2. CASE Unlock(p)
  BY <1>2 DEF Unlock, ClearLocals
<1>3. CASE Kill(p)
  BY <1>3 DEF Kill, ClearLocals
<1> QED
  BY <1>1, <1>2, <1>3

(* The last store of a row makes it whole again.                            *)
LEMMA DamageStepStore ==
  ASSUME IInv, RowInv, DamageInv, NEW p \in Procs, Store(p)
  PROVE  DamageInv'
<1> DEFINE s == slot[p]
<1>1. \A q \in Procs : q # p => pc'[q] = pc[q] /\ pc[q] \notin Inside
  BY DEF IInv, LockInv, TypeOK, MutualExclusion, Store, Inside, Goto
<1>2. /\ s \in Slots /\ op[p] \in Writes /\ p \in Terms /\ arg[p].term_no = p
      /\ todo[p] \subseteq Stores[op[p]] /\ p \in Nat \ {0}
  BY TableAssumption DEF IInv, SlotInv, Store
<1>3. PICK f \in todo[p] :
        /\ f \in Fields
        /\ todo' = [todo EXCEPT ![p] = @ \ {f}]
        /\ \A i \in Slots : i # s => rows'[i] = rows[i]
        /\ rows'[s][f] = arg[p][f]
        /\ \A g \in Fields : g # f => rows'[s][g] = rows[s][g]
  BY StoreEffect
<1>4. /\ op' = op /\ arg' = arg /\ slot' = slot
      /\ pc'[p] \in {"store", "unlock"}
      /\ todo'[p] = todo[p] \ {f}
  BY <1>3 DEF Store, Goto, IInv, TypeOK
<1>5. Stores[op[p]] \subseteq Fields
  BY <1>2, StoresType DEF Writes, Ops
<1>6. \A g \in Stores[op[p]] \ todo'[p] : rows'[s][g] = arg[p][g]
  BY <1>2, <1>3, <1>4, <1>5 DEF DamageInv, Store
<1>7. \A i \in Slots : i # s => Whole(rows[i]) \/ i \in damaged
  BY <1>1 DEF DamageInv, DamageIsConfined, Inside
<1>8. CASE pc'[p] = "store"
  <2>1. damaged' = damaged /\ todo'[p] # Stores[op[p]]
    BY <1>2, <1>3, <1>4, <1>8 DEF Store, Goto, IInv, TypeOK
  <2> QED
    BY <1>1, <1>2, <1>3, <1>4, <1>6, <1>7, <1>8, <2>1
       DEF DamageInv, DamageIsConfined, Inside
<1>9. CASE pc'[p] = "unlock"
  <2>1. /\ todo[p] \subseteq {f}
        /\ damaged' = damaged \ {s}
    BY <1>9 DEF Store, Goto, IInv, TypeOK
  <2>2. todo'[p] = {}
    BY <1>4, <2>1
  <2>3. Whole(rows'[s]) \/ s \in damaged'
    <3>1. CASE op[p] = "register"
      <4>1. /\ rows'[s].term_no = arg[p].term_no /\ rows'[s].state = arg[p].state
            /\ rows'[s].capabilities = arg[p].capabilities
        BY <1>6, <2>2, <3>1 DEF Stores, Fields
      <4>2. arg[p].state = TERM_STATE_DISCONNECTED /\ arg[p].capabilities = 0
        <5>1. arg[p] = NewRow(p)
          BY <3>1 DEF DamageInv
        <5> QED
          BY <5>1 DEF NewRow
      <4> QED
        BY <1>2, <4>1, <4>2 DEF Whole
    <3>2. CASE op[p] = "set_state"
      <4>1. rows[s].term_no = p /\ f # "term_no"
        BY <1>2, <3>2 DEF RowInv, Store, Stores
      <4>2. rows'[s].term_no = p
        BY <1>3, <4>1 DEF Fields
      <4>3. rows'[s].state = arg[p].state /\ rows'[s].capabilities = arg[p].capabilities
        BY <1>6, <2>2, <3>2 DEF Stores
      <4>4. \/ arg[p].state = TERM_STATE_CONNECTED /\ arg[p].capabilities = CAP_LOCK
            \/ arg[p].state = TERM_STATE_DISCONNECTED /\ arg[p].capabilities = 0
        <5>1. \/ arg[p] = StateRow(p, TERM_STATE_CONNECTED, CAP_LOCK)
              \/ arg[p] = StateRow(p, TERM_STATE_DISCONNECTED, 0)
          BY <3>2 DEF DamageInv
        <5> QED
          BY <5>1 DEF StateRow
      <4> QED
        BY <1>2, <4>2, <4>3, <4>4 DEF Whole
    <3>3. CASE op[p] = "touch"
      BY <1>2, <3>3 DEF Stores
    <3> QED
      BY <1>2, <3>1, <3>2, <3>3 DEF Writes
  <2>4. \A q \in Procs : pc'[q] # "store"
    BY <1>1, <1>9 DEF Inside
  <2>5. \A i \in Slots : i # s => Whole(rows'[i]) \/ i \in damaged'
    BY <1>3, <1>7, <2>1
  <2> QED
    BY <1>4, <2>3, <2>4, <2>5 DEF DamageInv, DamageIsConfined
<1> QED
  BY <1>4, <1>8, <1>9

LEMMA DamageStep ==
  ASSUME IInv, RowInv, DamageInv, [Next]_vars
  PROVE  DamageInv'
<1>1. CASE UNCHANGED vars
  BY <1>1 DEF vars, sem, local, DamageInv, DamageIsConfined
<1> QED
  BY <1>1, DamageStepQuiet, DamageStepScan, DamageStepLeave, DamageStepStore
     DEF Next, Critical

-----------------------------------------------------------------------------
LEMMA TableInvariant == Spec => []TableInv
<1>1. Init => TableInv
  BY InitOK, DamageInit DEF TableInv
<1>2. TableInv /\ [Next]_vars => TableInv'
  BY TypeStep, LockStep, SlotStep, RowStep, DamageStep DEF TableInv, IInv
<1> QED
  BY <1>1, <1>2, PTL DEF Spec

(* Every variable keeps its type, whoever is killed where.                  *)
THEOREM TypeCorrectness == Spec => []TypeOK
<1>1. TableInv => TypeOK
  BY DEF TableInv, IInv
<1> QED
  BY <1>1, TableInvariant, PTL

(* lock() and unlock() exclude: no two processes are inside an accessor at  *)
(* once, for any number of processes, initialisation race and kills.        *)
THEOREM LockExcludes == Spec => []MutualExclusion
<1>1. TableInv => MutualExclusion
  BY DEF TableInv, IInv, LockInv
<1> QED
  BY <1>1, TableInvariant, PTL

(* The semaphore's value always matches who is inside: SEM_UNDO returns a   *)
(* dead holder's lock exactly once.                                         *)
THEOREM SemaphoreBalanced == Spec => []SemaphoreBalance
<1>1. TableInv => SemaphoreBalance
  BY DEF TableInv, IInv, LockInv
<1> QED
  BY <1>1, TableInvariant, PTL

(* open()'s sem_otime protocol: nobody is past it before the initial +1.    *)
THEOREM OpenWaitsForInit == Spec => []OpenMeansInitialised
<1>1. TableInv => OpenMeansInitialised
  BY DEF TableInv, IInv, LockInv
<1> QED
  BY <1>1, TableInvariant, PTL

(* register_terminal() never gives a terminal a second row.                 *)
THEOREM RowsAreUnique == Spec => []OneRowPerTerminal
<1>1. TableInv => OneRowPerTerminal
  BY DEF TableInv, RowInv
<1> QED
  BY <1>1, TableInvariant, PTL

(* A termd that was told it is registered keeps its row.                    *)
THEOREM RegistrationLasts == Spec => []RegisteredHasRow
<1>1. TableInv => RegisteredHasRow
  BY DEF TableInv, RowInv
<1> QED
  BY <1>1, TableInvariant, PTL

(* find() returns one consistent row, copied field by field under the lock. *)
THEOREM FindIsAtomic == Spec => []FindIsASnapshot
<1>1. TableInv => FindIsASnapshot
  BY DEF TableInv, RowInv
<1> QED
  BY <1>1, TableInvariant, PTL

(* A row is only ever half-written while its writer is inside, or because   *)
(* the writer was killed there and nobody has set the row's state since.    *)
THEOREM DamageStaysConfined == Spec => []DamageIsConfined
<1>1. TableInv => DamageIsConfined
  BY DEF TableInv, DamageInv
<1> QED
  BY <1>1, TableInvariant, PTL

(* A row that carries a terminal number carries it for ever.                *)
THEOREM RowsAreKept == Spec => RowsNeverChangeHands
<1>1. TableInv /\ [Next]_vars =>
        [\A i \in Slots : rows[i].term_no # 0 => rows'[i].term_no = rows[i].term_no]_vars
  BY RowsKept DEF TableInv
<1> QED
  BY <1>1, TableInvariant, PTL DEF Spec, RowsNeverChangeHands
=============================================================================
