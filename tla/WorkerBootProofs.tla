-------------------------- MODULE WorkerBootProofs ---------------------------
(***************************************************************************)
(* The types, that overlapping tries of a worker never lose its row, and   *)
(* who says that it could not register: for any number of workers,         *)
(* masters, tries and outages.                                             *)
(***************************************************************************)
EXTENDS WorkerBoot, TLAPS

\* The calls of RegisterWorker and what they share with the workers.
BootTyped ==
  /\ worker_state \in Master!WorkerStateTable
  /\ register \in [Registers -> Master!RegisterCall]
  /\ \A r \in Registers : register[r].worker = r[1]
  /\ boot \in [Workers -> Process]

LEMMA TypedInit == Init => BootTyped
<1> SUFFICES ASSUME Init PROVE BootTyped
  OBVIOUS
<1> USE DEF Init, Master!Init
<1>1. worker_state \in Master!WorkerStateTable
  <2>1. Master!NoWorker \in Master!WorkerStateDTO
    BY DEF Master!WorkerStateDTO, Master!NoWorker
  <2>2. [registered : {TRUE}, available_space_mb : {1}, locked_space_mb : {0}]
          \subseteq Master!WorkerStateDTO
    <3>1. {1} \subseteq Int /\ {0} \subseteq Int /\ {TRUE} \subseteq BOOLEAN
      OBVIOUS
    <3> QED BY <3>1, Zenon DEF Master!WorkerStateDTO
  <2>3. worker_state \in [Workers -> {Master!NoWorker} \cup
           [registered : {TRUE}, available_space_mb : {1}, locked_space_mb : {0}]]
    OBVIOUS
  <2> QED BY <2>1, <2>2, <2>3 DEF Master!WorkerStateTable
<1>2. register \in [Registers -> Master!RegisterCall]
  BY DEF Master!RegisterCall
<1>3. boot \in [Workers -> Process]
  BY TriesAssumption DEF Process
<1> QED BY <1>1, <1>2, <1>3 DEF BootTyped

\* A step of a worker leaves the masters alone.
LEMMA WorkerStepTyped ==
  ASSUME BootTyped, NEW w \in Workers, WorkerStep(w) \/ TryBreaks(w)
  PROVE  boot' \in [Workers -> Process] /\ UNCHANGED <<worker_state, register, lost>>
<1> USE DEF BootTyped, Process
<1>1. CASE GetFreeStorage(w)
  BY <1>1 DEF GetFreeStorage, tables
<1>2. CASE Try(w)
  BY <1>2, TriesAssumption DEF Try, tables
<1>3. CASE TryAnswered(w) \/ TryRefused(w) \/ TryBreaks(w)
  BY <1>3 DEF TryAnswered, TryRefused, TryBreaks, tables
<1>4. CASE GiveUp(w)
  BY <1>4, TriesAssumption DEF GiveUp, tables
<1>5. CASE StartServer(w)
  BY <1>5, ZenonT(60) DEF StartServer, tables
<1> QED BY <1>1, <1>2, <1>3, <1>4, <1>5 DEF WorkerStep

\* What a step of the masters does to the calls: one goes on, fails, or all that
\* a dead master ran fail; a call that has ended stays as it is.
LEMMA CallsGoOn ==
  ASSUME BootTyped, NEW r \in Registers,
         \/ Register(r) \/ RegisterFails(r)
         \/ \E m \in Masters : MasterDies(m) \/ MasterStarts(m)
  PROVE  /\ register' \in [Registers -> Master!RegisterCall]
         /\ \A q \in Registers : /\ register'[q].worker = register[q].worker
                                 /\ register[q].pc = "ok" => register'[q].pc = "ok"
                                 /\ register[q].pc # "idle" => register'[q].pc # "idle"
         /\ UNCHANGED boot
<1> USE DEF BootTyped, Master!RegisterCall, Master!Final
<1>1. CASE Register(r)
  <2>0. Master!Answers \subseteq {"ok", "error"}
    BY DEF Master!Answers
  <2>1. \E pc \in {"deleteBlobEntries", "addWorkerState", "ok", "error"} :
          register' = [register EXCEPT ![r].pc = pc]
    <3>1. CASE Master!RegisterWorker(r) \/ Master!DropCopies(r)
      BY <3>1 DEF Master!RegisterWorker, Master!DropCopies
    <3>2. CASE Master!AddWorkerState(r)
      BY <2>0, <3>2, Zenon DEF Master!AddWorkerState
    <3> QED BY <1>1, <3>1, <3>2 DEF Register, Master!RegisterStep
  <2>2. UNCHANGED boot /\ register[r].pc # "ok"
    BY <1>1 DEF Register, Master!RegisterStep, Master!RegisterWorker, Master!DropCopies,
       Master!AddWorkerState
  <2>3. ASSUME NEW pc \in {"deleteBlobEntries", "addWorkerState", "ok", "error"},
               register' = [register EXCEPT ![r].pc = pc]
        PROVE  /\ register' \in [Registers -> Master!RegisterCall]
               /\ \A q \in Registers : /\ register'[q].worker = register[q].worker
                                       /\ register[q].pc = "ok" => register'[q].pc = "ok"
                                       /\ register[q].pc # "idle" => register'[q].pc # "idle"
    BY <2>2, <2>3
  <2> QED BY <2>1, <2>2, <2>3
<1>2. CASE RegisterFails(r)
  BY <1>2 DEF RegisterFails, Master!RegisterFails
<1>3. ASSUME NEW m \in Masters, MasterDies(m)
      PROVE  /\ register' \in [Registers -> Master!RegisterCall]
             /\ \A q \in Registers : /\ register'[q].worker = register[q].worker
                                     /\ register[q].pc = "ok" => register'[q].pc = "ok"
                                     /\ register[q].pc # "idle" => register'[q].pc # "idle"
             /\ UNCHANGED boot
  BY <1>3 DEF MasterDies
<1>4. CASE \E m \in Masters : MasterStarts(m)
  BY <1>4 DEF MasterStarts, tables
<1> QED BY <1>1, <1>2, <1>3, <1>4

LEMMA RowsTyped ==
  ASSUME BootTyped, NEW r \in Registers,
         \/ Register(r) \/ RegisterFails(r)
         \/ \E m \in Masters : MasterDies(m) \/ MasterStarts(m)
  PROVE  worker_state' \in Master!WorkerStateTable
<1> USE DEF BootTyped, Master!WorkerStateTable
<1>1. CASE Register(r)
  <2>1. PICK row \in Master!WorkerStateDTO :
          worker_state' = [worker_state EXCEPT ![register[r].worker] = row] \/ UNCHANGED worker_state
    <3>1. Master!NoWorker \in Master!WorkerStateDTO
      BY DEF Master!WorkerStateDTO, Master!NoWorker
    <3>2. [registered |-> TRUE, available_space_mb |-> register[r].space, locked_space_mb |-> 0]
            \in Master!WorkerStateDTO
      BY DEF Master!WorkerStateDTO, Master!RegisterCall
    <3>3. CASE Master!RegisterWorker(r)
      BY <3>1, <3>3 DEF Master!RegisterWorker, Master!deleteWorkerState
    <3>4. CASE Master!DropCopies(r)
      BY <3>1, <3>4 DEF Master!DropCopies
    <3>5. CASE Master!AddWorkerState(r)
      BY <3>2, <3>5 DEF Master!AddWorkerState, Master!addWorkerState
    <3> QED BY <1>1, <3>3, <3>4, <3>5 DEF Register, Master!RegisterStep
  <2> QED BY <2>1
<1>2. CASE RegisterFails(r)
  BY <1>2 DEF RegisterFails, Master!RegisterFails, Master!tables
<1>3. CASE \E m \in Masters : MasterDies(m) \/ MasterStarts(m)
  BY <1>3 DEF MasterDies, MasterStarts, tables
<1> QED BY <1>1, <1>2, <1>3

\* A step of a master may come when there are no tries, and so no workers.
LEMMA TypedStep == BootTyped /\ [Next]_vars => BootTyped'
<1> SUFFICES ASSUME BootTyped, [Next]_vars PROVE BootTyped'
  OBVIOUS
<1>1. CASE \E w \in Workers : WorkerStep(w) \/ TryBreaks(w)
  BY <1>1, WorkerStepTyped DEF BootTyped
<1>2. CASE \E r \in Registers : Register(r) \/ RegisterFails(r)
  BY <1>2, CallsGoOn, RowsTyped DEF BootTyped
<1>3. CASE \E m \in Masters : MasterDies(m) \/ MasterStarts(m)
  <2>1. CASE Registers = {}
    BY <1>3, <2>1 DEF BootTyped, MasterDies, MasterStarts, tables
  <2>2. CASE Registers # {}
    BY <1>3, <2>2, CallsGoOn, RowsTyped DEF BootTyped
  <2> QED BY <2>1, <2>2
<1>4. CASE UNCHANGED vars
  BY <1>4 DEF vars, tables, BootTyped
<1> QED BY <1>1, <1>2, <1>3, <1>4 DEF Next

\* The types of what the workers and their calls change.
LEMMA BootTypes == Spec => []BootTyped
BY TypedInit, TypedStep, PTL DEF Spec

\* What a step does to the rest: the tables of calls that nobody makes stay empty.
LEMMA RestTyped ==
  ASSUME TypeOK, Next
  PROVE  /\ blob_copy' \in Master!BlobCopyTable
         /\ UNCHANGED <<alloc, notify, locate, delete>>
         /\ running' \subseteq Masters
         /\ died' \in 0..Outages
         /\ lost' \subseteq Registers
<1> DEFINE Kept == /\ UNCHANGED <<alloc, notify, locate, delete>>
                   /\ UNCHANGED blob_copy \/ \E w : blob_copy' =
                        Master!deleteBlobEntriesByWorkerAddress(blob_copy, w)
                   /\ running' \subseteq Masters
                   /\ died' \in 0..Outages
                   /\ lost' \subseteq Registers
<1> USE DEF TypeOK
<1>1. ASSUME NEW w \in Workers, WorkerStep(w) \/ TryBreaks(w)
      PROVE  Kept
  BY <1>1 DEF WorkerStep, GetFreeStorage, Try, TryAnswered, TryRefused, TryBreaks, GiveUp,
     StartServer, tables
<1>2. ASSUME NEW r \in Registers, Register(r)
      PROVE  Kept
  BY <1>2 DEF Register, Master!RegisterStep, Master!RegisterWorker, Master!DropCopies,
     Master!AddWorkerState
<1>3. ASSUME NEW r \in Registers, RegisterFails(r)
      PROVE  Kept
  BY <1>3 DEF RegisterFails, Master!RegisterFails, Master!tables
<1>4. ASSUME NEW m \in Masters, MasterDies(m)
      PROVE  Kept
  <2>1. died + 1 \in 0..Outages
    BY <1>4, TriesAssumption DEF MasterDies
  <2>2. died' = died + 1
    BY <1>4 DEF MasterDies
  <2>3. running' \subseteq Masters /\ lost' \subseteq Registers
    BY <1>4 DEF MasterDies
  <2>4. UNCHANGED <<blob_copy, alloc, notify, locate, delete>>
    BY <1>4 DEF MasterDies
  <2> QED BY <2>1, <2>2, <2>3, <2>4
<1>5. ASSUME NEW m \in Masters, MasterStarts(m)
      PROVE  Kept
  BY <1>5 DEF MasterStarts, tables
<1>6. UNCHANGED vars => Kept
  BY DEF vars, tables
<1>7. Kept
  BY <1>1, <1>2, <1>3, <1>4, <1>5, <1>6 DEF Next
<1>8. blob_copy' \in Master!BlobCopyTable
  BY <1>7 DEF Master!TypeOK, Master!BlobCopyTable, Master!deleteBlobEntriesByWorkerAddress
<1> QED BY <1>7, <1>8

\* Every process, every call and every row has its type, whatever masters die and
\* whatever connections break.
THEOREM BootTypeCorrect == Spec => []TypeOK
<1>1. Init => TypeOK
  <2> SUFFICES ASSUME Init PROVE TypeOK
    OBVIOUS
  <2>1. BootTyped
    BY TypedInit
  <2>2. blob_copy \in Master!BlobCopyTable
    BY DEF Init, Master!Init, Master!BlobCopyTable
  <2>3. /\ alloc \in [{} -> Master!AllocCall]
        /\ notify \in [{} -> Master!NotifyCall]
        /\ locate \in [{} -> Master!LocateCall]
        /\ delete \in [{} -> Master!DeleteCall]
    BY DEF Init, Master!Init
  <2>4. running \subseteq Masters /\ died \in 0..Outages /\ lost \subseteq Registers
    BY TriesAssumption DEF Init
  <2> QED BY <2>1, <2>2, <2>3, <2>4 DEF TypeOK, BootTyped, Master!TypeOK
<1>2. TypeOK /\ BootTyped' /\ [Next]_vars => TypeOK'
  <2>1. CASE UNCHANGED vars
    BY <2>1 DEF TypeOK, Master!TypeOK, vars, tables
  <2>2. ASSUME TypeOK, BootTyped', Next
        PROVE  TypeOK'
    BY <2>2, RestTyped DEF TypeOK, Master!TypeOK, BootTyped
  <2> QED BY <2>1, <2>2
<1> QED BY <1>1, <1>2, BootTypes, PTL DEF Spec

-----------------------------------------------------------------------------
(* The row of a worker *)

\* What RegistrationHolds says of one worker.
HoldsOf(w) ==
  Begun(w) # {} => Master!Registered(worker_state, w) \/ InFlight(w) # {} \/ Cut(w) # {}

\* A try that begins or goes on is in flight; the insert that ends it finds a row
\* or makes one; and a try that is cut off is remembered.  So a worker that has
\* asked for a row has one, unless some try of its own still has to insert.
LEMMA HoldsStep ==
  ASSUME BootTyped, NEW r \in Registers, Register(r) \/ RegisterFails(r),
         NEW w \in Workers, HoldsOf(w)
  PROVE  HoldsOf(w)'
<1> USE DEF BootTyped, Registers, Begun, InFlight, Cut, HoldsOf
<1>0. PICK v \in Workers, n \in 1..Tries : r = <<v, n>>
  OBVIOUS
<1>1. CASE RegisterFails(r)
  <2> USE <1>1, <1>0 DEF RegisterFails, Master!RegisterFails, Master!tables, Master!Final
  <2>1. CASE v = w
    <3>1. n \in Cut(w)'
      <4>1. register'[<<w, n>>].pc = "error" /\ <<w, n>> \in lost'
        BY <2>1 DEF Master!RegisterCall
      <4> QED BY <4>1
    <3> QED BY <3>1
  <2>2. CASE v # w
    <3>1. \A k \in 1..Tries : register'[<<w, k>>] = register[<<w, k>>]
      BY <2>2
    <3>3. Begun(w)' = Begun(w) /\ InFlight(w)' = InFlight(w) /\ Cut(w)' = Cut(w)
      BY <3>1, <2>2
    <3>2. UNCHANGED worker_state
      OBVIOUS
    <3> QED BY <3>2, <3>3 DEF Master!Registered
  <2> QED BY <2>1, <2>2
<1>2. CASE Register(r)
  <2> USE <1>2, <1>0 DEF Register, Master!RegisterStep
  <2>1. CASE v # w
    <3>1. \A k \in 1..Tries : register'[<<w, k>>] = register[<<w, k>>]
      BY <2>1 DEF Master!RegisterWorker, Master!DropCopies, Master!AddWorkerState
    <3>2. worker_state'[w] = worker_state[w]
      BY <2>1 DEF Master!RegisterWorker, Master!DropCopies, Master!AddWorkerState,
         Master!addWorkerState, Master!deleteWorkerState, Master!WorkerStateTable
    <3> QED BY <3>1, <3>2 DEF Master!Registered
  <2>2. CASE v = w
    <3>1. CASE Master!RegisterWorker(r) \/ Master!DropCopies(r)
      <4>1. n \in InFlight(w)'
        BY <3>1, <2>2 DEF Master!RegisterWorker, Master!DropCopies, Master!Final,
           Master!RegisterCall
      <4> QED BY <4>1
    <3>2. CASE Master!AddWorkerState(r)
      <4>1. Master!Registered(worker_state', w)
        BY <3>2, <2>2 DEF Master!AddWorkerState, Master!addWorkerState, Master!Registered,
           Master!WorkerStateTable
      <4> QED BY <4>1 DEF Master!Registered
    <3> QED BY <3>1, <3>2
  <2> QED BY <2>1, <2>2
<1> QED BY <1>1, <1>2

\* The tries a dead master ran are in lost.
LEMMA HoldsOutage ==
  ASSUME BootTyped, NEW m \in Masters, MasterDies(m), NEW w \in Workers, HoldsOf(w)
  PROVE  HoldsOf(w)'
<1> USE DEF BootTyped, Registers, Begun, InFlight, Cut, HoldsOf, MasterDies, Master!RegisterCall
<1>1. UNCHANGED worker_state /\ lost \subseteq lost'
  OBVIOUS
<1>2. Begun(w)' = Begun(w)
  OBVIOUS
<1>3. Cut(w) \subseteq Cut(w)'
  BY <1>1, <1>2
<1>4. ASSUME NEW n \in InFlight(w) PROVE n \in InFlight(w)' \/ n \in Cut(w)'
  OBVIOUS
<1> QED BY <1>1, <1>2, <1>3, <1>4 DEF Master!Registered

\* Whatever tries of a worker overlap, and whichever fail or die midway, its row
\* is there once it has asked for one, or a try of its own accounts for it.
THEOREM RowsHold == Spec => []RegistrationHolds
<1> DEFINE Holds == \A w \in Workers : HoldsOf(w)
<1>1. Init => Holds
  BY DEF Init, Master!Init, HoldsOf, Begun, Registers
<1>2. BootTyped /\ Holds /\ [Next]_vars => Holds'
  <2> SUFFICES ASSUME BootTyped, Holds, [Next]_vars, NEW w \in Workers PROVE HoldsOf(w)'
    OBVIOUS
  <2>1. CASE \E v \in Workers : WorkerStep(v) \/ TryBreaks(v)
    <3>1. UNCHANGED <<worker_state, register, lost>>
      BY <2>1, WorkerStepTyped
    <3> QED BY <3>1 DEF HoldsOf, Begun, InFlight, Cut, Master!Registered
  <2>2. CASE \E r \in Registers : Register(r) \/ RegisterFails(r)
    BY <2>2, HoldsStep
  <2>3. CASE \E m \in Masters : MasterDies(m)
    BY <2>3, HoldsOutage
  <2>4. CASE (\E m \in Masters : MasterStarts(m)) \/ UNCHANGED vars
    <3>1. UNCHANGED <<worker_state, register, lost>>
      BY <2>4 DEF MasterStarts, vars, tables
    <3> QED BY <3>1 DEF HoldsOf, Begun, InFlight, Cut, Master!Registered
  <2> QED BY <2>1, <2>2, <2>3, <2>4 DEF Next
<1>3. Holds => RegistrationHolds
  BY DEF HoldsOf, RegistrationHolds
<1> QED BY <1>1, <1>2, <1>3, BootTypes, PTL DEF Spec

-----------------------------------------------------------------------------
(* The error that is logged *)

\* The loop is left with 0 in tries by the break of the last try only; until it
\* decides, tries is at least 0, and less than Tries while a try is made.
LoopInv ==
  \A w \in Workers :
    /\ boot[w].pc = "waiting" => boot[w].tries \in 0..(Tries - 1)
    /\ boot[w].pc = "registered" /\ boot[w].tries = 0 => register[<<w, Tries>>].pc = "ok"
    /\ boot[w].complained => register[<<w, Tries>>].pc = "ok"

LEMMA LoopWorker ==
  ASSUME BootTyped, LoopInv, NEW v \in Workers, WorkerStep(v) \/ TryBreaks(v)
  PROVE  LoopInv'
<1> USE DEF BootTyped, Process, LoopInv
<1>0. UNCHANGED register
  BY WorkerStepTyped
<1>1. CASE GetFreeStorage(v)
  BY <1>0, <1>1 DEF GetFreeStorage
<1>2. CASE Try(v)
  BY <1>0, <1>2, TriesAssumption DEF Try
<1>3. CASE TryAnswered(v)
  <2> SUFFICES ASSUME NEW w \in Workers, w = v
               PROVE  boot'[w].pc = "registered" /\ boot'[w].tries = 0
                        => register[<<w, Tries>>].pc = "ok"
    BY <1>0, <1>3 DEF TryAnswered
  <2>1. boot'[w].tries = boot[w].tries
    BY <1>3 DEF TryAnswered
  <2>2. boot[w].tries = 0 => Current(w) = <<w, Tries>>
    BY TriesAssumption DEF Current
  <2>3. boot'[w].pc = "registered" => register[Current(w)].pc = "ok"
    BY <1>3 DEF TryAnswered
  <2> QED BY <2>1, <2>2, <2>3
<1>4. CASE TryRefused(v) \/ TryBreaks(v)
  BY <1>0, <1>4 DEF TryRefused, TryBreaks
<1>5. CASE GiveUp(v)
  BY <1>0, <1>5 DEF GiveUp
<1>6. CASE StartServer(v)
  BY <1>0, <1>6 DEF StartServer
<1> QED BY <1>1, <1>2, <1>3, <1>4, <1>5, <1>6 DEF WorkerStep

\* A worker that says it could not register had its last try answered OK.
ComplaintsAreWrong ==
  \A w \in Workers : boot[w].complained => register[<<w, Tries>>].pc = "ok"

\* Whenever a worker says it could not register, it did, at its last try: for every
\* number of tries and whatever fails on the way.
THEOREM Complaints == Spec => []ComplaintsAreWrong
<1>1. Init => LoopInv
  BY DEF Init, LoopInv
<1>2. BootTyped /\ LoopInv /\ [Next]_vars => LoopInv'
  <2> SUFFICES ASSUME BootTyped, LoopInv, [Next]_vars PROVE LoopInv'
    OBVIOUS
  <2>0. \A w \in Workers : <<w, Tries>> \in Registers
    BY TriesAssumption DEF Registers
  <2>1. CASE \E v \in Workers : WorkerStep(v) \/ TryBreaks(v)
    BY <2>1, LoopWorker
  <2>2. CASE \/ \E r \in Registers : Register(r) \/ RegisterFails(r)
             \/ \E m \in Masters : MasterDies(m) \/ MasterStarts(m)
    <3> SUFFICES ASSUME NEW w \in Workers PROVE LoopInv'
      BY DEF LoopInv
    <3>1. /\ \A q \in Registers : register[q].pc = "ok" => register'[q].pc = "ok"
          /\ UNCHANGED boot
      BY <2>0, <2>2, CallsGoOn
    <3> QED BY <3>1, <2>0 DEF LoopInv
  <2>3. CASE UNCHANGED vars
    BY <2>3 DEF vars, tables, LoopInv
  <2> QED BY <2>1, <2>2, <2>3 DEF Next
<1>3. LoopInv => ComplaintsAreWrong
  BY DEF LoopInv, ComplaintsAreWrong
<1> QED BY <1>1, <1>2, <1>3, BootTypes, PTL DEF Spec
=============================================================================
