--------------------------- MODULE ClientSession ----------------------------
(***************************************************************************)
(* The client program (src/client/main.cpp) run against the system of      *)
(* BlobStore by several users at once.  A client pings, uploads its blob,  *)
(* gets it back and compares, and deletes it, one call after the other, so *)
(* it has one call of each kind and gives its name to all three.           *)
(*                                                                         *)
(* BlobStore lets any call arrive at any time; here a call arrives when    *)
(* its client makes it.  The blob is a constant of the program             *)
(* (main.cpp:54): the clients all work on one hash.                        *)
(***************************************************************************)
EXTENDS Integers, Sequences

CONSTANTS
  Hashes,     \* the hash of the blob, as a set of one
  Workers, Boots, Replicas, Chunks, Faults, BadDisks,   \* as in BlobStore
  Clients,    \* runs of the program
  Pings,      \* HealthCheck calls of run_frontend_ping; 5 in the code
  HangUps     \* clients that may lose their connections

ASSUME OneBlob == \E h \in Hashes : Hashes = {h}
ASSUME ReplicasAssumption == Replicas \in Nat \ {0}
ASSUME ChunksAssumption == Chunks \in Nat \ {0}
ASSUME FaultsAssumption == Faults \in BOOLEAN
ASSUME DisksAssumption == BadDisks \subseteq Workers
ASSUME PingsAssumption == Pings \in Nat
ASSUME HangUpsAssumption == HangUps \subseteq Clients

VARIABLES
  blob_copy, worker_state, alloc, notify, locate, register, deletion,
  files, data, save, get, erase, upload, fetch, boot, sent,   \* as in BlobStore
  client                                                     \* client[c]: a run

Store == INSTANCE BlobStore WITH Uploads <- Clients, Fetches <- Clients, Removals <- Clients

store == <<blob_copy, worker_state, alloc, notify, locate, register, deletion,
           files, data, save, get, erase, upload, fetch, boot, sent>>
vars == <<store, client>>

\* pc: the call the program is in; cnt: pings to come; outcome: what comparing
\* the data retrieved with the data expected came to; lost: calls whose connection
\* broke.
ClientRun == [pc : {"pinging", "uploading", "getting", "deleting", "done"},
              cnt : 0..Pings, outcome : {"none", "match", "mismatch", "failed"},
              lost : SUBSET {"uploading", "getting", "deleting"}]

Init ==
  /\ Store!Init
  /\ client = [c \in Clients |-> [pc |-> "pinging", cnt |-> Pings, outcome |-> "none",
                                lost |-> {}]]

-----------------------------------------------------------------------------
\* HealthCheck: its status is logged, no more.
Ping(c) ==
  /\ client[c].pc = "pinging"
  /\ client[c].cnt > 0
  /\ client' = [client EXCEPT ![c].cnt = @ - 1]

\* The header and the one chunk are written.
UploadBlob(c) ==
  /\ client[c].pc = "pinging"
  /\ client[c].cnt = 0
  /\ client' = [client EXCEPT ![c].pc = "uploading"]

\* The hash in the answer is what is asked for next; any other status ends the
\* program.
UploadAnswered(c) ==
  /\ client[c].pc = "uploading"
  /\ \/ /\ upload[c].pc = "ok"
        /\ client' = [client EXCEPT ![c].pc = "getting"]
     \/ /\ upload[c].pc = "error"
        /\ client' = [client EXCEPT ![c].pc = "done"]

Compared(c, outcome) == client' = [client EXCEPT ![c].pc = "deleting", ![c].outcome = outcome]

\* The frontend has answered OK: what it relayed is compared with the blob.  A
\* stream that was cut may have lost its end.
BlobRetrieved(c, w) ==
  /\ client[c].pc = "getting"
  /\ fetch[c].pc \in {"ok", "cut"}
  /\ w \in locate[c].chosen
  /\ \/ get[<<c, w>>].sent = Store!Worker!Content(get[<<c, w>>].hash) /\ Compared(c, "match")
     \/ get[<<c, w>>].sent # Store!Worker!Content(get[<<c, w>>].hash) /\ Compared(c, "mismatch")
     \/ fetch[c].pc = "cut" /\ Compared(c, "mismatch")

\* No data to compare: the program goes on to delete.
RetrievalFails(c) ==
  /\ client[c].pc = "getting"
  /\ fetch[c].pc = "error"
  /\ Compared(c, "failed")

DeleteAnswered(c) ==
  /\ client[c].pc = "deleting"
  /\ deletion[c].pc \in Store!Final
  /\ client' = [client EXCEPT ![c].pc = "done"]

ClientStep(c) ==
  \/ Ping(c) \/ UploadBlob(c) \/ UploadAnswered(c)
  \/ \E w \in Workers : BlobRetrieved(c, w)
  \/ RetrievalFails(c) \/ DeleteAnswered(c)

\* The status is that of a broken connection: the call may not have arrived, or
\* arrives late, or goes on without its client.
ConnectionBreaks(c) ==
  /\ c \in HangUps
  /\ \/ /\ client[c].pc \in {"uploading", "deleting"}
        /\ client' = [client EXCEPT ![c].pc = "done", ![c].lost = @ \cup {client[c].pc}]
     \/ /\ client[c].pc = "getting"
        /\ client' = [client EXCEPT ![c].pc = "deleting", ![c].outcome = "failed",
                                   ![c].lost = @ \cup {"getting"}]

\* A call that its client is in, or has given up.
Made(c, call) == client[c].pc = call \/ call \in client[c].lost

\* A call arrives at a frontend only from a client that has made it.
Requested ==
  \A c \in Clients :
    /\ upload[c].pc = "idle" /\ upload'[c].pc # "idle" => Made(c, "uploading")
    /\ locate[c].pc = "idle" /\ locate'[c].pc # "idle" => Made(c, "getting")
    /\ deletion[c].pc = "idle" /\ deletion'[c].pc # "idle" => Made(c, "deleting")

StoreStep == Store!Next /\ Requested /\ UNCHANGED client

\* Every program has ended, and what it began at the store is over.
Quiet ==
  /\ \A c \in Clients :
       /\ client[c].pc = "done"
       /\ upload[c].pc \in {"idle"} \cup Store!Final
       /\ fetch[c].pc # "reading"
       /\ deletion[c].pc \in {"idle"} \cup Store!Final
  /\ \A w \in Workers : Store!Up(w)

Next ==
  \/ \E c \in Clients : (ClientStep(c) \/ ConnectionBreaks(c)) /\ UNCHANGED store
  \/ StoreStep
  \/ Quiet /\ UNCHANGED vars

Spec == Init /\ [][Next]_vars

\* A call that has been made arrives.
CallArrives(c) ==
  /\ \/ client[c].pc = "uploading" /\ Store!ReceiveBlob(c)
     \/ client[c].pc = "getting" /\ locate[c].pc = "idle" /\ Store!LocateBlob(c)
     \/ client[c].pc = "deleting" /\ Store!StartRemoval(c)
  /\ UNCHANGED client

\* While a client, a call on its way, a frontend, a master or a worker can go on,
\* one of them does: a session takes finitely many steps, so more is not asked.
\* A client has no deadline: if the system does not answer, it waits.
FairSpec ==
  /\ Spec
  /\ WF_vars(\/ \E c \in Clients : (ClientStep(c) /\ UNCHANGED store) \/ CallArrives(c)
             \/ Store!Owed /\ UNCHANGED client)

-----------------------------------------------------------------------------
(* Properties *)

\* Every run of the program ends, although it waits for every answer as long as
\* it takes (client/main.cpp:165-181): frontends, masters and workers wait for one
\* another, one by one and never in a ring, whatever calls of lost clients are on.
EverySessionEnds == <>(\A c \in Clients : client[c].pc = "done")

Others(c) == Clients \ {c}

\* Data that does not match (client/main.cpp:136) is the work of another user's
\* deletion, of a broken stream, or of the worker it came from, which died or whose
\* disk took less than it was given or gave back less: a client alone on its blob,
\* whose own deletion comes later, gets it back.
MismatchHasCause ==
  \A c \in Clients : client[c].outcome = "mismatch" =>
    \/ \E d \in Others(c) : deletion[d].pc # "idle"
    \/ \E w \in locate[c].chosen :
         \/ Store!Died(w)
         \/ \E h \in Hashes : Store!Torn(h, w)
         \/ get[<<c, w>>].unread
    \/ fetch[c].pc = "cut"

\* Once the deletion is answered OK nothing of the blob is left, no row at the
\* masters and no file at a worker (client/main.cpp:157-159), unless another user
\* has uploaded it too.  A worker that has died may keep a file: its registration
\* may come late and take the rows of files it has got since, so nobody asks it.
DeletedBlobIsGone ==
  \A c \in Clients, h \in Hashes, w \in Workers :
    /\ deletion[c].pc = "ok"
    /\ \A d \in Others(c) : alloc[d].pc = "idle"
    => /\ blob_copy[h][w] = Store!Master!NoCopy
       /\ <<w, h>> \notin files \/ Store!Died(w)
=============================================================================
