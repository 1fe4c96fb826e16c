-------------------------- MODULE MasterAccounting --------------------------
(***************************************************************************)
(* The space accounts of worker_state against the copies in blob_copy,     *)
(* with a record of how the handlers were run.                             *)
(***************************************************************************)
EXTENDS MasterService

VARIABLE orderly   \* whether calls have been run one at a time and none has failed midway

Started(pc) == pc \notin {"idle"} \cup Final

\* The calls that have begun and not ended, tagged by their RPC.
InFlight ==
  {<<"alloc", a>> : a \in {a \in Allocs : Started(alloc[a].pc)}}
    \cup {<<"notify", n>> : n \in {n \in Notifies : Started(notify[n].pc)}}
    \cup {<<"locate", l>> : l \in {l \in Locates : Started(locate[l].pc)}}
    \cup {<<"register", r>> : r \in {r \in Registers : Started(register[r].pc)}}
    \cup {<<"delete", d>> : d \in {d \in Deletes : Started(delete[d].pc)}}

OneAtATime == \A c, d \in InFlight : c = d

AccountedInit == Init /\ orderly = TRUE

AccountedNext == Next /\ orderly' = (orderly /\ OneAtATime' /\ ~Fault)

AccountedSpec == AccountedInit /\ [][AccountedNext]_<<vars, orderly>>

\* The space the copies on w take or will take, a pair for each megabyte: the
\* sum of their sizes is the number of pairs.
Reserved(w) ==
  UNION {{h} \X (1 .. blob_copy[h][w].size_mb) : h \in {h \in Hashes : HasCopy(blob_copy, h, w)}}

Promised(w) == Cardinality(Reserved(w))

\* What the master takes to be free on w is at most what w can have reported
\* less the copies placed on it, but for the slack.
FreeWithin(w, slack) ==
  \E s \in Spaces : FreeSpace(worker_state[w]) <= s - Promised(w) + slack

\* Between calls the master believes free on a worker no more than there is: with
\* it, a selected worker has room for the blob ("mark locked space",
\* master_service.cpp:47).  It may believe less: DeleteBlob gives no space back.
SpaceNotOverpromised ==
  InFlight = {} =>
    \A w \in Workers : Registered(worker_state, w) => FreeWithin(w, 0)

\* The accounts are right as long as the masters are given one call at a time and
\* each runs to its end: what is wrong with them is the overlap, not the sums.
OrderlySpaceNotOverpromised == orderly => SpaceNotOverpromised
=============================================================================
