------------------------------- MODULE BlobMap -------------------------------
(***************************************************************************)
(* What the content store promises the clients of this repository: a       *)
(* write-once map from digests to blobs.  A blob appears under its digest  *)
(* all at once and with the content the digest is of, it may be removed,   *)
(* and a read that began while it was there and that runs to its end has   *)
(* delivered exactly the blob.  The map does not outlive the daemon: the   *)
(* files of its blobs stay on disk, but no digest finds them after a       *)
(* restart until they are uploaded again.  A blob is written as its digest.*)
(***************************************************************************)
CONSTANTS
    Blobs,     \* the digests
    Readers,   \* concurrent reads
    Nothing    \* no blob

VARIABLES
    held,      \* digest -> what is stored under it
    reading,   \* each read in progress: the digest it is of
    answer     \* each read that has ended: what it delivered

vars == <<held, reading, answer>>

Init ==
    /\ held = [d \in Blobs |-> Nothing]
    /\ reading = [rd \in Readers |-> Nothing]
    /\ answer = [rd \in Readers |-> Nothing]

Put(d) ==
    /\ held[d] = Nothing
    /\ held' = [held EXCEPT ![d] = d]
    /\ UNCHANGED <<reading, answer>>

Remove(d) ==
    /\ held' = [held EXCEPT ![d] = Nothing]
    /\ UNCHANGED <<reading, answer>>

BeginRead(rd, d) ==
    /\ reading[rd] = Nothing
    /\ held[d] # Nothing
    /\ reading' = [reading EXCEPT ![rd] = d]
    /\ answer' = [answer EXCEPT ![rd] = Nothing]
    /\ UNCHANGED held

EndRead(rd) ==
    /\ reading[rd] # Nothing
    /\ answer' = [answer EXCEPT ![rd] = reading[rd]]
    /\ reading' = [reading EXCEPT ![rd] = Nothing]
    /\ UNCHANGED held

BreakOff(rd) ==
    /\ reading' = [reading EXCEPT ![rd] = Nothing]
    /\ answer' = [answer EXCEPT ![rd] = Nothing]
    /\ UNCHANGED held

(* The daemon restarts: reads break off, and every blob is forgotten.      *)
Forget ==
    /\ held' = [d \in Blobs |-> Nothing]
    /\ reading' = [rd \in Readers |-> Nothing]
    /\ answer' = [rd \in Readers |-> Nothing]

Next ==
    \/ \E d \in Blobs : Put(d) \/ Remove(d)
    \/ \E rd \in Readers, d \in Blobs : BeginRead(rd, d)
    \/ \E rd \in Readers : EndRead(rd) \/ BreakOff(rd)
    \/ Forget

Spec == Init /\ [][Next]_vars
=============================================================================
