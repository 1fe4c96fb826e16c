----------------------------- MODULE OneWriter ------------------------------
(***************************************************************************)
(* The files of a worker when its callers do what the masters see to, as   *)
(* long as nobody deletes a blob being uploaded: of the calls that write   *)
(* or remove the file of a blob one is in flight.  A history variable says *)
(* whether that has been so, and no write has failed.                      *)
(***************************************************************************)
EXTENDS WorkerService

VARIABLE orderly   \* whether blobs have had one writer at a time and no write has failed

OneWriterPerBlob ==
  /\ \A s, t \in Saves :
       Active(save[s].pc) /\ Active(save[t].pc) /\ save[s].hash = save[t].hash => s = t
  /\ \A s \in Saves, d \in Deletes :
       ~(Active(save[s].pc) /\ Active(delete[d].pc) /\ save[s].hash = delete[d].hash)

OrderlyInit == Init /\ orderly = TRUE

OrderlyNext == Next /\ orderly' = (orderly /\ OneWriterPerBlob' /\ ~WriteFault)

OrderlySpec == OrderlyInit /\ [][OrderlyNext]_<<vars, orderly>>

OrderlyFairSpec == OrderlySpec /\ Fairness

-----------------------------------------------------------------------------
(* Properties *)

\* A file no SaveBlob is writing is the whole of the blob it is named after:
\* streams that stopped short or that were misnamed leave nothing, and a blob
\* saved again over a file left by a refused notification is not doubled.
StoredBlobIsWhole ==
  \A h \in files :
    (\A s \in Saves : save[s].hash = h => save[s].pc # "receiving") => data[h] = Content(h)

\* So it is as long as one call writes a blob at a time and none of its writes fails.
OrderlyBlobIsWhole == orderly => StoredBlobIsWhole

\* What a GetBlob has sent is the beginning of the blob asked for, even when the
\* file is deleted, truncated and written again while it is sent, or cannot be
\* read to its end: as long as one call writes a blob at a time, none of its
\* writes fails, and calls stream the blob they name.
SentIsPrefix ==
  orderly /\ (\A s \in Saves : save[s].blob = save[s].hash) =>
    \A g \in Gets : get[g].sent = Prefix(get[g].hash, Len(get[g].sent))
=============================================================================
