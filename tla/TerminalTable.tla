---------------------------- MODULE TerminalTable ----------------------------
(***************************************************************************)
(* The terminal table: a System V shared-memory segment of TermEntry rows, *)
(* guarded by one System V semaphore (common/shm_table.{h,cpp}).           *)
(*                                                                         *)
(* Every termd and every reader (locator) runs open(), then calls the      *)
(* accessors.  Any of them may be killed between two machine-level stores. *)
(* A process is a program counter pc[p] plus the locals of the accessor it *)
(* is inside; a termd is named by the terminal number it serves, since one *)
(* process serves one terminal.                                            *)
(***************************************************************************)
EXTENDS Integers

CONSTANTS
  Terms,        \* terminal numbers, each served by the termd of that name
  Readers,      \* processes that only look rows up (locator)
  Wanted,       \* the numbers readers ask for, registered or not
  MaxRows,      \* MAX_TERMINALS
  InitRetries   \* INIT_RETRIES

Procs == Terms \cup Readers

ASSUME TableAssumption ==
  /\ Terms \subseteq Nat \ {0}
  /\ Readers \cap Nat = {}
  /\ Wanted \subseteq Nat
  /\ MaxRows \in Nat \ {0}
  /\ InitRetries \in Nat \ {0}

-----------------------------------------------------------------------------
(* The layout of a row, without last_seen: a wall-clock time that nothing   *)
(* reads or compares.                                                       *)

TERM_STATE_UNUSED       == 0
TERM_STATE_DISCONNECTED == 1
TERM_STATE_CONNECTED    == 2
CAP_LOCK                == 1

TermEntry == [term_no : Nat, state : 0..2, capabilities : 0..1]

Fields == {"term_no", "state", "capabilities"}

ZeroRow == [term_no |-> 0, state |-> TERM_STATE_UNUSED, capabilities |-> 0]

Slots == 1..MaxRows

(* The row value an accessor stores, and the fields it stores into.  The    *)
(* compiler may emit the stores of one critical section in any order.       *)
NewRow(p) ==
  [term_no |-> p, state |-> TERM_STATE_DISCONNECTED, capabilities |-> 0]

StateRow(p, s, c) == [term_no |-> p, state |-> s, capabilities |-> c]

Ops == {"none", "register", "set_state", "touch", "find"}

(* Mutant: set_state() forgets the capabilities. *)
StoresNoCapabilities ==
  [none |-> {}, register |-> Fields, set_state |-> {"state"}, touch |-> {}, find |-> {}]

Stores ==
  [none |-> {}, register |-> Fields, set_state |-> {"state", "capabilities"},
   touch |-> {}, find |-> {}]

-----------------------------------------------------------------------------
VARIABLES
  exists,   \* the semaphore set has been created
  semval,   \* its value
  otime,    \* sem_otime # 0: some semop has completed on it
  undo,     \* undo[p]: the kernel's semadj for p (SEM_UNDO)
  rows,     \* the segment, zero-filled by the kernel
  pc,       \* where each process is
  tries,    \* tries[p]: IPC_STAT polls made inside open()
  joined,   \* joined[p]: termd p's register_terminal returned true
  op,       \* op[p]: the accessor p is inside
  arg,      \* arg[p]: the row value it stores, or the number it looks up
  slot,     \* slot[p]: the row its scan stopped at, 0 when none
  todo,     \* todo[p]: the fields of that row not yet stored or copied
  out,      \* out[p]: find()'s output parameter
  damaged   \* history: rows left half-written by a killed process

sem   == <<exists, semval, otime, undo>>
local == <<op, arg, slot, todo, out>>
vars  == <<sem, rows, pc, tries, joined, local, damaged>>

Opening  == {"semget", "init", "wait"}
Inside   == {"scan", "store", "copy", "unlock"}
Locs     == {"down", "idle", "lock"} \cup Opening \cup Inside

TypeOK ==
  /\ exists \in BOOLEAN
  /\ semval \in Nat
  /\ otime \in BOOLEAN
  /\ undo \in [Procs -> 0..1]
  /\ rows \in [Slots -> TermEntry]
  /\ pc \in [Procs -> Locs]
  /\ tries \in [Procs -> 0..InitRetries]
  /\ joined \in [Terms -> BOOLEAN]
  /\ op \in [Procs -> Ops]
  /\ arg \in [Procs -> TermEntry]
  /\ slot \in [Procs -> 0..MaxRows]
  /\ todo \in [Procs -> SUBSET Fields]
  /\ out \in [Procs -> TermEntry]
  /\ damaged \subseteq Slots

Init ==
  /\ exists = FALSE
  /\ semval = 0
  /\ otime = FALSE
  /\ undo = [p \in Procs |-> 0]
  /\ rows = [i \in Slots |-> ZeroRow]
  /\ pc = [p \in Procs |-> "down"]
  /\ tries = [p \in Procs |-> 0]
  /\ joined = [p \in Terms |-> FALSE]
  /\ op = [p \in Procs |-> "none"]
  /\ arg = [p \in Procs |-> ZeroRow]
  /\ slot = [p \in Procs |-> 0]
  /\ todo = [p \in Procs |-> {}]
  /\ out = [p \in Procs |-> ZeroRow]
  /\ damaged = {}

Goto(p, loc) == pc' = [pc EXCEPT ![p] = loc]

(* An accessor's locals go out of scope when it returns.                    *)
ClearLocals(p) ==
  /\ op'   = [op EXCEPT ![p] = "none"]
  /\ arg'  = [arg EXCEPT ![p] = ZeroRow]
  /\ slot' = [slot EXCEPT ![p] = 0]
  /\ todo' = [todo EXCEPT ![p] = {}]
  /\ out'  = [out EXCEPT ![p] = ZeroRow]

-----------------------------------------------------------------------------
(* open(): attach the segment, then create the semaphore or wait for its    *)
(* creator.                                                                 *)

Start(p) ==
  /\ pc[p] = "down"
  /\ Goto(p, "semget")
  /\ UNCHANGED <<sem, rows, tries, joined, local, damaged>>

(* semget(IPC_CREAT | IPC_EXCL) succeeds: a new set starts at 0.            *)
CreateSem(p) ==
  /\ pc[p] = "semget"
  /\ ~exists
  /\ exists' = TRUE
  /\ Goto(p, "init")
  /\ UNCHANGED <<semval, otime, undo, rows, tries, joined, local, damaged>>

(* Mutant: without IPC_EXCL every opener believes it is the creator. *)
FindSemAsCreator(p) ==
  /\ pc[p] = "semget"
  /\ exists
  /\ Goto(p, "init")
  /\ UNCHANGED <<sem, rows, tries, joined, local, damaged>>

(* EEXIST: somebody else made it.                                           *)
FindSem(p) ==
  /\ pc[p] = "semget"
  /\ exists
  /\ Goto(p, "wait")
  /\ UNCHANGED <<sem, rows, tries, joined, local, damaged>>

(* Mutant: the initial +1 is made with SEM_UNDO. *)
InitSemWithUndo(p) ==
  /\ pc[p] = "init"
  /\ semval' = semval + 1
  /\ undo' = [undo EXCEPT ![p] = @ - 1]
  /\ otime' = TRUE
  /\ Goto(p, "idle")
  /\ UNCHANGED <<exists, rows, tries, joined, local, damaged>>

(* semop(+1) without SEM_UNDO; it also sets sem_otime.                      *)
InitSem(p) ==
  /\ pc[p] = "init"
  /\ semval' = semval + 1
  /\ otime' = TRUE
  /\ Goto(p, "idle")
  /\ UNCHANGED <<exists, undo, rows, tries, joined, local, damaged>>

(* One IPC_STAT finds sem_otime set: open() returns true.                   *)
SeeInit(p) ==
  /\ pc[p] = "wait"
  /\ otime
  /\ Goto(p, "idle")
  /\ tries' = [tries EXCEPT ![p] = 0]
  /\ UNCHANGED <<sem, rows, joined, local, damaged>>

(* Mutant: open() carries on after the last poll. *)
MissInitCarriesOn(p) ==
  /\ pc[p] = "wait"
  /\ ~otime
  /\ IF tries[p] + 1 < InitRetries
       THEN /\ tries' = [tries EXCEPT ![p] = @ + 1]
            /\ UNCHANGED pc
       ELSE /\ tries' = [tries EXCEPT ![p] = 0]
            /\ Goto(p, "idle")
  /\ UNCHANGED <<sem, rows, joined, local, damaged>>

(* It is still zero: sleep and poll again, or give up after InitRetries     *)
(* polls, which makes on_init() fail and the process exit.                  *)
MissInit(p) ==
  /\ pc[p] = "wait"
  /\ ~otime
  /\ IF tries[p] + 1 < InitRetries
       THEN /\ tries' = [tries EXCEPT ![p] = @ + 1]
            /\ UNCHANGED pc
       ELSE /\ tries' = [tries EXCEPT ![p] = 0]
            /\ Goto(p, "down")
  /\ UNCHANGED <<sem, rows, joined, local, damaged>>

-----------------------------------------------------------------------------
(* The accessors' callers.  Call enters lock().                             *)

Call(p, o, a) ==
  /\ pc[p] = "idle"
  /\ Goto(p, "lock")
  /\ op' = [op EXCEPT ![p] = o]
  /\ arg' = [arg EXCEPT ![p] = a]
  /\ UNCHANGED <<sem, rows, tries, joined, slot, todo, out, damaged>>

(* Termd::on_init registers before the main loop starts.                    *)
Register(p) ==
  /\ p \in Terms
  /\ ~joined[p]
  /\ Call(p, "register", NewRow(p))

(* Termd::on_idle: the terminal's socket came up, or went down.             *)
SetState(p) ==
  /\ p \in Terms
  /\ joined[p]
  /\ \/ Call(p, "set_state", StateRow(p, TERM_STATE_CONNECTED, CAP_LOCK))
     \/ Call(p, "set_state", StateRow(p, TERM_STATE_DISCONNECTED, 0))

(* touch() stores last_seen alone: here it takes the lock and scans.        *)
Touch(p) ==
  /\ p \in Terms
  /\ joined[p]
  /\ Call(p, "touch", StateRow(p, TERM_STATE_DISCONNECTED, 0))

(* Locator::resolve looks up whatever number the command carries.           *)
Find(p) ==
  /\ p \in Readers
  /\ \E n \in Wanted : Call(p, "find", [ZeroRow EXCEPT !.term_no = n])

(* Mutants: lock() without SEM_UNDO; find() that does not wait. *)
LockNoUndo(p) ==
  /\ pc[p] = "lock"
  /\ semval > 0
  /\ semval' = semval - 1
  /\ otime' = TRUE
  /\ Goto(p, "scan")
  /\ UNCHANGED <<exists, undo, rows, tries, joined, local, damaged>>

LockNotForFind(p) ==
  /\ pc[p] = "lock"
  /\ IF op[p] = "find"
       THEN UNCHANGED semval
       ELSE semval > 0 /\ semval' = semval - 1
  /\ undo' = [undo EXCEPT ![p] = @ + 1]
  /\ otime' = TRUE
  /\ Goto(p, "scan")
  /\ UNCHANGED <<exists, rows, tries, joined, local, damaged>>

(* semop(-1, SEM_UNDO): blocks while the value is 0.                        *)
Lock(p) ==
  /\ pc[p] = "lock"
  /\ semval > 0
  /\ semval' = semval - 1
  /\ undo' = [undo EXCEPT ![p] = @ + 1]
  /\ otime' = TRUE
  /\ Goto(p, "scan")
  /\ UNCHANGED <<exists, rows, tries, joined, local, damaged>>

(* Mutant: a row that is not connected counts as free. *)
FirstRowNotConnected(i, n) ==
  /\ \/ rows[i].term_no = n
     \/ n = 0 /\ rows[i].state # TERM_STATE_CONNECTED
  /\ \A j \in Slots : j < i => rows[j].term_no # n

(* The for loop over the rows: i is the first row holding number n.         *)
FirstRow(i, n) ==
  /\ rows[i].term_no = n
  /\ \A j \in Slots : j < i => rows[j].term_no # n

(* The scan stops at a row, and the stores or the copy go to that row.      *)
ScanHit(p) ==
  /\ pc[p] = "scan"
  /\ \E i \in Slots :
       /\ FirstRow(i, arg[p].term_no)
       /\ slot' = [slot EXCEPT ![p] = i]
  /\ \/ op[p] \in {"register", "touch"} /\ Goto(p, "unlock") /\ UNCHANGED todo
     \/ op[p] = "find" /\ Goto(p, "copy") /\ todo' = [todo EXCEPT ![p] = Fields]
     \/ /\ op[p] = "set_state"
        /\ Goto(p, "store")
        /\ todo' = [todo EXCEPT ![p] = Stores["set_state"]]
  /\ UNCHANGED <<sem, rows, tries, joined, op, arg, out, damaged>>

(* Mutant: register_terminal() does not look for its own row first. *)
ScanMissNoSearch(p) ==
  /\ pc[p] = "scan"
  /\ op[p] = "register"
  /\ \E i \in Slots :
       /\ FirstRow(i, 0)
       /\ slot' = [slot EXCEPT ![p] = i]
  /\ todo' = [todo EXCEPT ![p] = Stores["register"]]
  /\ Goto(p, "store")
  /\ UNCHANGED <<sem, rows, tries, joined, op, arg, out, damaged>>

(* No row has the number: register_terminal claims the first free row, if   *)
(* the table has one; the other accessors report failure.                   *)
ScanMiss(p) ==
  /\ pc[p] = "scan"
  /\ \A i \in Slots : rows[i].term_no # arg[p].term_no
  /\ \/ /\ op[p] = "register"
        /\ \E i \in Slots :
             /\ FirstRow(i, 0)
             /\ slot' = [slot EXCEPT ![p] = i]
        /\ todo' = [todo EXCEPT ![p] = Stores["register"]]
        /\ Goto(p, "store")
     \/ /\ op[p] = "register" => \A i \in Slots : rows[i].term_no # 0
        /\ Goto(p, "unlock")
        /\ UNCHANGED <<slot, todo>>
  /\ UNCHANGED <<sem, rows, tries, joined, op, arg, out, damaged>>

(* One store into the shared row.  After the last one the row is whole.     *)
Store(p) ==
  /\ pc[p] = "store"
  /\ \E f \in todo[p] :
       /\ rows' = [rows EXCEPT ![slot[p]] = [@ EXCEPT ![f] = arg[p][f]]]
       /\ todo' = [todo EXCEPT ![p] = @ \ {f}]
       /\ IF todo[p] = {f}
            THEN /\ Goto(p, "unlock")
                 /\ damaged' = damaged \ {slot[p]}
            ELSE UNCHANGED <<pc, damaged>>
  /\ UNCHANGED <<sem, tries, joined, op, arg, slot, out>>

(* One load of find()'s  out = rows_[i].                                    *)
Copy(p) ==
  /\ pc[p] = "copy"
  /\ \E f \in todo[p] :
       /\ out' = [out EXCEPT ![p] = [@ EXCEPT ![f] = rows[slot[p]][f]]]
       /\ todo' = [todo EXCEPT ![p] = @ \ {f}]
       /\ IF todo[p] = {f} THEN Goto(p, "unlock") ELSE UNCHANGED pc
  /\ UNCHANGED <<sem, rows, tries, joined, op, arg, slot, damaged>>

(* semop(+1, SEM_UNDO), then the accessor returns.  A termd whose           *)
(* registration failed (table full) fails on_init() and exits.              *)
Unlock(p) ==
  /\ pc[p] = "unlock"
  /\ semval' = semval + 1
  /\ undo' = [undo EXCEPT ![p] = @ - 1]
  /\ otime' = TRUE
  /\ IF op[p] = "register"
       THEN joined' = [joined EXCEPT ![p] = (slot[p] # 0)]
       ELSE UNCHANGED joined
  /\ Goto(p, IF op[p] = "register" /\ slot[p] = 0 THEN "down" ELSE "idle")
  /\ ClearLocals(p)
  /\ UNCHANGED <<exists, rows, tries, damaged>>

(* The process dies (kill -9, or an exit): the kernel applies its semadj.   *)
(* The segment keeps whatever had been stored.                              *)
Kill(p) ==
  /\ pc[p] # "down"
  /\ semval' = semval + undo[p]
  /\ undo' = [undo EXCEPT ![p] = 0]
  /\ Goto(p, "down")
  /\ tries' = [tries EXCEPT ![p] = 0]
  /\ joined' = [t \in Terms |-> joined[t] /\ t # p]
  /\ damaged' = IF pc[p] = "store" /\ todo[p] # Stores[op[p]]
                  THEN damaged \cup {slot[p]} ELSE damaged
  /\ ClearLocals(p)
  /\ UNCHANGED <<exists, otime, rows>>

-----------------------------------------------------------------------------
Open(p)     == Start(p) \/ CreateSem(p) \/ FindSem(p) \/ InitSem(p)
                 \/ SeeInit(p) \/ MissInit(p)
Access(p)   == Register(p) \/ SetState(p) \/ Touch(p) \/ Find(p)
Critical(p) == ScanHit(p) \/ ScanMiss(p) \/ Store(p) \/ Copy(p) \/ Unlock(p)

Next == \E p \in Procs : Open(p) \/ Access(p) \/ Lock(p) \/ Critical(p) \/ Kill(p)

Spec == Init /\ [][Next]_vars

(* Whoever is inside a critical section (one process at most) keeps         *)
(* executing or is killed, and the kernel queues blocked semop() calls, so  *)
(* a waiting reader is not passed over for ever.  Nothing forces a process  *)
(* to start, to call an accessor, or to die.                                *)
Fairness ==
  /\ WF_vars(\E p \in Procs : Critical(p))
  /\ \A p \in Readers : SF_vars(Lock(p))

FairSpec == Spec /\ Fairness

-----------------------------------------------------------------------------
(* A row no reader has to distrust: free, or registered with the            *)
(* capabilities that go with its state.                                     *)
Whole(r) ==
  \/ r = ZeroRow
  \/ /\ r.term_no # 0
     /\ \/ r.state = TERM_STATE_DISCONNECTED /\ r.capabilities = 0
        \/ r.state = TERM_STATE_CONNECTED /\ r.capabilities = CAP_LOCK

(* Two processes are never inside an accessor's critical section at once,   *)
(* whichever of them created the semaphore and whoever was killed holding   *)
(* it (shm_table.cpp: lock, unlock, SEM_UNDO, the initial +1).              *)
MutualExclusion ==
  \A p, q \in Procs : pc[p] \in Inside /\ pc[q] \in Inside => p = q

(* Once initialised, the semaphore is 1 exactly when nobody is inside: a    *)
(* kill neither leaks the lock nor gives it back twice (shm_table.cpp:150). *)
SemaphoreBalance ==
  /\ ~otime => semval = 0
  /\ otime => semval = IF \E p \in Procs : pc[p] \in Inside THEN 0 ELSE 1

(* Nobody uses the table before its semaphore is initialised, the race      *)
(* open()'s sem_otime protocol exists for (shm_table.cpp:18-25).            *)
OpenMeansInitialised ==
  \A p \in Procs : pc[p] \notin {"down"} \cup Opening => otime

(* A terminal has at most one row, however registrations interleave and     *)
(* wherever a registering termd is killed (register_terminal).              *)
OneRowPerTerminal ==
  \A i, j \in Slots :
    rows[i].term_no = rows[j].term_no /\ rows[i].term_no # 0 => i = j

(* A termd that was told it is registered has a row from then on: no other  *)
(* registration overwrites it (register_terminal's free-row scan).          *)
RegisteredHasRow ==
  \A p \in Terms : joined[p] => \E i \in Slots : rows[i].term_no = p

(* What find() hands out is the row as it stands when the lock is given     *)
(* back, not a mixture of two writes (shm_table.h:101-104).                 *)
FindIsASnapshot ==
  \A p \in Procs :
    pc[p] = "unlock" /\ op[p] = "find" /\ slot[p] # 0 => out[p] = rows[slot[p]]

(* Outside a store in progress, the only rows that are not whole are those  *)
(* whose writer was killed between two stores, and the next set_state of    *)
(* that row repairs it (the window shm_table.cpp:150-154 accepts).          *)
DamageIsConfined ==
  \A i \in Slots :
    \/ Whole(rows[i])
    \/ i \in damaged
    \/ \E p \in Procs : pc[p] = "store" /\ slot[p] = i

(* A row never changes hands: once it carries a terminal number it keeps    *)
(* it, so an index computed from it stays right.                            *)
RowsNeverChangeHands ==
  [][\A i \in Slots : rows[i].term_no # 0 => rows'[i].term_no = rows[i].term_no]_vars

(* A reader waiting for the lock gets it, unless it is killed first, even   *)
(* when holders keep being killed inside the critical section: this is what *)
(* SEM_UNDO on lock() buys (shm_table.cpp:150-155).                         *)
ReaderIsServed == \A p \in Readers : pc[p] = "lock" ~> pc[p] # "lock"
=============================================================================
