----------------------------- MODULE WorkerBoot ------------------------------
(***************************************************************************)
(* How workers come up (src/worker/main.cpp): each looks for free storage, *)
(* registers at the master its ordinal leads to, in a loop over tries, and *)
(* serves.  A try that the worker has given up may still be run by the     *)
(* master, next to later tries of the same worker: the handlers are those  *)
(* of MasterService, over the rows of worker_state all masters share.      *)
(* There are no blobs here; what a late registration does to copies is a   *)
(* subject of BlobStore.                                                   *)
(***************************************************************************)
EXTENDS Integers, FiniteSets

CONSTANTS
  Workers,         \* ordinals of the workers' hostnames
  masters_count,   \* MASTERS_COUNT of the environment
  Tries,           \* tries of the loop; 10 in the code
  Outages          \* times masters may die, in all

ASSUME OrdinalsAssumption == Workers \subseteq Nat
ASSUME MastersAssumption == masters_count \in Nat \ {0}
ASSUME TriesAssumption == Tries \in Nat \ {0} /\ Outages \in Nat

VARIABLES
  blob_copy, worker_state, alloc, notify, locate, register, delete,   \* of MasterService
  boot,      \* boot[w]: the process of worker w
  running,   \* masters that are up
  died,      \* times a master has died
  lost       \* tries whose request or handler is no more: it failed or died at the master

Registers == Workers \X (1..Tries)   \* <<w, n>>: the n-th try of w
Masters == 0..(masters_count - 1)

Master == INSTANCE MasterService WITH
  Hashes <- {}, Allocs <- {}, Notifies <- {}, Locates <- {}, Registers <- Registers,
  Deletes <- {}, Replicas <- 1, Sizes <- {0}, Spaces <- {1}, Faults <- TRUE

tables == <<blob_copy, worker_state, alloc, notify, locate, register, delete>>
vars == <<tables, boot, running, died, lost>>

\* master_idx of LoadFromEnv
MasterOf(w) == w % masters_count

\* "exited": exit(1); tries: the variable of the loop; complained: the error
\* "Couldn't register at master service" is in the log.
Process == [pc : {"starting", "looping", "waiting", "registered", "serving", "exited"},
            tries : -1..Tries, complained : BOOLEAN]

\* The try being made, or made last.
Current(w) == <<w, Tries - boot[w].tries>>

Init ==
  /\ Master!Init
  /\ \A r \in Registers : register[r].worker = r[1]
  /\ boot = [w \in Workers |-> [pc |-> "starting", tries |-> Tries, complained |-> FALSE]]
  /\ running = Masters
  /\ died = 0
  /\ lost = {}

-----------------------------------------------------------------------------
(* The worker *)

\* get_free_storage answers, or the process exits.
GetFreeStorage(w) ==
  /\ boot[w].pc = "starting"
  /\ \E pc \in {"looping", "exited"} : boot' = [boot EXCEPT ![w].pc = pc]
  /\ UNCHANGED <<tables, running, died, lost>>

\* Slip: a failed try is not counted.
Try_Uncounted(w) ==
  /\ boot[w].pc = "looping"
  /\ boot[w].tries # 0
  /\ boot' = [boot EXCEPT ![w].pc = "waiting",
                          ![w].tries = IF @ = Tries THEN @ - 1 ELSE @]
  /\ UNCHANGED <<tables, running, died, lost>>

\* while (tries--): the test is of the value before.
Try(w) ==
  /\ boot[w].pc = "looping"
  /\ boot[w].tries # 0
  /\ boot' = [boot EXCEPT ![w].pc = "waiting", ![w].tries = @ - 1]
  /\ UNCHANGED <<tables, running, died, lost>>

\* Status OK is the end of the loop; after any other, ten seconds and again.
TryAnswered(w) ==
  /\ boot[w].pc = "waiting"
  /\ \/ /\ register[Current(w)].pc = "ok"
        /\ boot' = [boot EXCEPT ![w].pc = "registered"]
     \/ /\ register[Current(w)].pc = "error"
        /\ boot' = [boot EXCEPT ![w].pc = "looping"]
  /\ UNCHANGED <<tables, running, died, lost>>

\* The master cannot be reached, or has died since.
TryRefused(w) ==
  /\ boot[w].pc = "waiting"
  /\ MasterOf(w) \notin running \/ Current(w) \in lost
  /\ boot' = [boot EXCEPT ![w].pc = "looping"]
  /\ UNCHANGED <<tables, running, died, lost>>

\* The connection breaks, before the request arrived or after.
TryBreaks(w) ==
  /\ boot[w].pc = "waiting"
  /\ boot' = [boot EXCEPT ![w].pc = "looping"]
  /\ UNCHANGED <<tables, running, died, lost>>

\* The test fails and decrements once more.
GiveUp(w) ==
  /\ boot[w].pc = "looping"
  /\ boot[w].tries = 0
  /\ boot' = [boot EXCEPT ![w].pc = "registered", ![w].tries = -1]
  /\ UNCHANGED <<tables, running, died, lost>>

\* Registered or not, the server is started.
StartServer(w) ==
  /\ boot[w].pc = "registered"
  /\ boot' = [boot EXCEPT ![w].pc = "serving", ![w].complained = boot[w].tries = 0]
  /\ UNCHANGED <<tables, running, died, lost>>

-----------------------------------------------------------------------------
(* The masters *)

\* A request of w's that was sent.
Sent(r) == Tries - boot[r[1]].tries >= r[2]

\* The master of the worker runs what has come, wanted or not.
Register(r) ==
  /\ Sent(r)
  /\ r \notin lost
  /\ MasterOf(r[1]) \in running
  /\ Master!RegisterStep(r)
  /\ UNCHANGED <<boot, running, died, lost>>

\* A commit fails.
RegisterFails(r) ==
  /\ Master!RegisterFails(r)
  /\ lost' = lost \cup {r}
  /\ UNCHANGED <<boot, running, died>>

\* A master dies with the handlers it runs and the requests that came to it.
MasterDies(m) ==
  LET gone == {r \in Registers : Sent(r) /\ MasterOf(r[1]) = m
                                        /\ register[r].pc \notin Master!Final}
  IN  /\ m \in running
      /\ died < Outages
      /\ died' = died + 1
      /\ running' = running \ {m}
      /\ lost' = lost \cup gone
      /\ register' = [r \in Registers |-> IF r \in gone /\ register[r].pc # "idle"
                                            THEN [register[r] EXCEPT !.pc = "error"]
                                            ELSE register[r]]
      /\ UNCHANGED <<blob_copy, worker_state, alloc, notify, locate, delete, boot>>

\* It is started again, with the tables as they are.
MasterStarts(m) ==
  /\ m \in Masters \ running
  /\ running' = running \cup {m}
  /\ UNCHANGED <<tables, boot, died, lost>>

-----------------------------------------------------------------------------
WorkerStep(w) ==
  \/ GetFreeStorage(w) \/ Try(w) \/ TryAnswered(w) \/ TryRefused(w)
  \/ GiveUp(w) \/ StartServer(w)

Quiet ==
  /\ \A w \in Workers : boot[w].pc \in {"serving", "exited"}
  /\ running = Masters

Next ==
  \/ \E w \in Workers : WorkerStep(w) \/ TryBreaks(w)
  \/ \E r \in Registers : Register(r) \/ RegisterFails(r)
  \/ \E m \in Masters : MasterDies(m) \/ MasterStarts(m)
  \/ Quiet /\ UNCHANGED vars

Spec == Init /\ [][Next]_vars

\* A worker that is not kept waiting goes on, and a master that is up runs its
\* handlers.  Masters need not come back.
FairSpec ==
  /\ Spec
  /\ \A w \in Workers : WF_vars(WorkerStep(w))
  /\ \A r \in Registers : WF_vars(Register(r))

-----------------------------------------------------------------------------
(* Properties *)

TypeOK ==
  /\ Master!TypeOK
  /\ boot \in [Workers -> Process]
  /\ running \subseteq Masters
  /\ died \in 0..Outages
  /\ lost \subseteq Registers

Begun(w) == {n \in 1..Tries : register[<<w, n>>].pc # "idle"}
InFlight(w) == {n \in Begun(w) : register[<<w, n>>].pc \notin Master!Final}
Cut(w) == {n \in Begun(w) : <<w, n>> \in lost}

\* Overlapping tries of a worker, of which each erases its row and inserts it,
\* never lose the row between them: an insert fails only since the row is there,
\* and whoever erased it will insert it.  Only a handler in flight, or one cut off
\* midway, leaves a worker without a row once it has asked for one.
RegistrationHolds ==
  \A w \in Workers : Begun(w) # {} =>
    Master!Registered(worker_state, w) \/ InFlight(w) # {} \/ Cut(w) # {}

\* "Couldn't register at master service" (worker/main.cpp:61-63) is said by a
\* worker none of whose tries was answered OK.  (The test is of tries after the
\* loop, which a last try that succeeds leaves at 0, and giving up at -1.)
OnlyUnregisteredComplain ==
  \A w \in Workers : boot[w].complained =>
    \A n \in 1..Tries : register[<<w, n>>].pc # "ok"

\* Every worker comes up, or exits for want of storage, though its master stays
\* down, connections break and handlers fail: it gives up in the end.
EveryWorkerComesUp == \A w \in Workers : <>(boot[w].pc \in {"serving", "exited"})
=============================================================================
