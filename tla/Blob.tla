-------------------------------- MODULE Blob --------------------------------
(***************************************************************************)
(* The transfer of one file (blob): the sender that offers and serves it,  *)
(* and the receiver's goroutine Run, which pulls it window by window into  *)
(* a .part file, checks it and renames it, beside the delivery loop, the   *)
(* client that may delete it, and restarts.                                *)
(*                                                                         *)
(* A file is the version of each of its chunks; 0 is a hole, and the       *)
(* manifest promises version 1.  Chunks and requests are lost, repeated    *)
(* and reordered, also by the queues of HandleChunk and HandleChunkReq;    *)
(* the queues of pulls are longer than one file can fill.  Malformed       *)
(* input, the limits of the manifest and a failing disk are left out.      *)
(***************************************************************************)
EXTENDS Integers, FiniteSets

CONSTANTS
  NChunks,     \* Manifest.Chunks
  Window,      \* chunks one request asks for
  DirtyFlush,  \* dirtyFlush: chunks between two saves of the bitmap
  MaxFaults    \* bound: restarts and failed transactions

ASSUME BlobBoundsAssumption ==
  /\ NChunks \in Nat \ {0} /\ Window \in Nat \ {0}
  /\ DirtyFlush \in Nat \ {0} /\ MaxFaults \in Nat

Chunks == 1..NChunks
Content == 0..2
File == [Chunks -> Content]
NoFile == <<>>
Promised == [i \in Chunks |-> 1]

VARIABLES
  \* The sender.
  offer,     \* how far Offer has come: "none", "sent", "kept" in table files, "gone"
  source,    \* version of the file on its disk
  \* On the way.
  manifest,  \* the manifest's envelope
  reqs,      \* requests: sets of chunk numbers
  chunks,    \* chunks: their numbers and versions
  \* The receiver's disk.
  row,       \* its row of table files
  part, final,
  \* The receiver's memory.
  hook,      \* onManifest committed, its hook has not run
  newPulls,  \* does the queue of new pulls hold the file?
  dropPulls, \* does the queue of dropped pulls?
  pull,      \* the pull
  pc,        \* where Run is in finishPull; "select" outside
  del,       \* where DeleteFile is, with the path it has read
  \* History and budget.
  deleted,   \* the row was deleted
  torn,      \* the file was renamed and that was not recorded
  faults

senderVars == <<offer, source>>
net == <<manifest, reqs, chunks>>
disk == <<row, part, final>>
runVars == <<newPulls, dropPulls, pull, pc>>
history == <<deleted, torn, faults>>
vars == <<senderVars, net, disk, hook, runVars, del, history>>

Chunk == [i : Chunks, v : 1..2]
NoRow == [stored |-> FALSE, bm |-> {}, done |-> FALSE, path |-> "part"]
Row == [stored : BOOLEAN, bm : SUBSET Chunks, done : BOOLEAN, path : {"part", "final"}]
\* data: what the open file holds; linked: the open file is the .part on the disk.
NoPull == [on |-> FALSE, bm |-> {}, window |-> {}, dirty |-> 0, data |-> NoFile, linked |-> FALSE]
Pull == [on : BOOLEAN, bm : SUBSET Chunks, window : SUBSET Chunks, dirty : 0 .. DirtyFlush,
         data : File \cup {NoFile}, linked : BOOLEAN]
Idle == [at |-> "none", path |-> "part"]

TypeOK ==
  /\ offer \in {"none", "sent", "kept", "gone"} /\ source \in 1..2
  /\ manifest \in BOOLEAN /\ reqs \subseteq SUBSET Chunks /\ chunks \subseteq Chunk
  /\ row \in Row /\ part \in File \cup {NoFile} /\ final \in File \cup {NoFile}
  /\ hook \in BOOLEAN /\ newPulls \in BOOLEAN /\ dropPulls \in BOOLEAN
  /\ pull \in Pull /\ pc \in {"select", "rename", "record"}
  /\ pull.on /\ pull.linked => part = pull.data
  /\ pc # "select" => pull.on /\ pull.bm = Chunks
  /\ del \in [at : {"none", "row", "files", "failed"}, path : {"none", "part", "final"}]
  /\ deleted \in BOOLEAN /\ torn \in BOOLEAN /\ faults \in 0..MaxFaults

Init ==
  /\ offer = "none" /\ source = 1
  /\ manifest = FALSE /\ reqs = {} /\ chunks = {}
  /\ row = NoRow /\ part = NoFile /\ final = NoFile
  /\ hook = FALSE /\ newPulls = FALSE /\ dropPulls = FALSE
  /\ pull = NoPull /\ pc = "select" /\ del = Idle
  /\ deleted = FALSE /\ torn = FALSE /\ faults = 0

-----------------------------------------------------------------------------
(* The sender                                                              *)

\* Offer sends the manifest first and stores its own row afterwards.
Offer ==
  /\ offer = "none"
  /\ offer' = "sent" /\ manifest' = TRUE
  /\ UNCHANGED <<source, reqs, chunks, disk, hook, runVars, del, history>>

OfferKeep ==
  /\ offer = "sent" /\ offer' = "kept"
  /\ UNCHANGED <<source, net, disk, hook, runVars, del, history>>

\* The row could not be stored, or the sender deletes it.
Withdraw ==
  /\ offer \in {"sent", "kept"} /\ offer' = "gone"
  /\ UNCHANGED <<source, net, disk, hook, runVars, del, history>>

\* The sender's user changes the file.
Edit ==
  /\ offer = "kept" /\ source = 1 /\ source' = 2
  /\ UNCHANGED <<offer, net, disk, hook, runVars, del, history>>

\* serveRequest sends the chunks of r up to last; a failing send drops the rest.
Serve(r, last) ==
  /\ r \in reqs /\ offer = "kept"
  /\ chunks' = chunks \cup {[i |-> i, v |-> source] : i \in {j \in r : j <= last}}
  /\ reqs' = reqs \ {r}
  /\ UNCHANGED <<senderVars, manifest, disk, hook, runVars, del, history>>

LoseReq(r) ==
  /\ r \in reqs /\ reqs' = reqs \ {r}
  /\ UNCHANGED <<senderVars, manifest, chunks, disk, hook, runVars, del, history>>

\* Lost, or dropped by acceptChunk: no pull, or a chunk that is there already.
LoseChunk(c) ==
  /\ c \in chunks /\ chunks' = chunks \ {c}
  /\ UNCHANGED <<senderVars, manifest, reqs, disk, hook, runVars, del, history>>

-----------------------------------------------------------------------------
(* The receiver: delivery loop and pulls                                   *)

OnManifest ==
  /\ manifest /\ manifest' = FALSE
  /\ row' = [NoRow EXCEPT !.stored = TRUE]
  /\ hook' = TRUE
  /\ UNCHANGED <<senderVars, reqs, chunks, part, final, runVars, del, history>>

ManifestHook ==
  /\ hook /\ hook' = FALSE /\ newPulls' = TRUE
  /\ UNCHANGED <<senderVars, net, disk, dropPulls, pull, pc, del, history>>

\* The bitmap of the chunks that have come.
NewBitmap == {}
Has(bm, i) == i \in bm
SetBit(bm, i) == bm \cup {i}
Count(bm) == Cardinality(bm)
Complete(bm) == Count(bm) = NChunks

BugMissing(bm, limit) == {i \in Chunks \ bm : i < NChunks /\ Cardinality({j \in Chunks \ bm : j < i}) < limit}

\* Bitmap.Missing: the first limit chunks that are not there.
Missing(bm, limit) == {i \in Chunks \ bm : Cardinality({j \in Chunks \ bm : j < i}) < limit}

\* requestWindow of the pull p.
Requested(p) == LET w == Missing(p.bm, Window) IN IF w = {} THEN p ELSE [p EXCEPT !.window = w]
Ask(p) == LET w == Missing(p.bm, Window) IN IF w = {} THEN reqs ELSE reqs \cup {w}

BugTruncate == [i \in Chunks |-> 0]

\* os.OpenFile: an old .part is continued.
Opened == IF part = NoFile THEN [i \in Chunks |-> 0] ELSE part

\* startPull with the bitmap bm.
Open(bm) ==
  LET p == [on |-> TRUE, bm |-> bm, window |-> {}, dirty |-> 0, data |-> Opened, linked |-> TRUE] IN
  /\ part' = Opened
  /\ pull' = Requested(p)
  /\ reqs' = Ask(p)

StartPull ==
  /\ pc = "select" /\ newPulls /\ newPulls' = FALSE
  /\ IF pull.on THEN UNCHANGED <<part, pull, reqs>> ELSE Open(NewBitmap)
  /\ UNCHANGED <<senderVars, manifest, chunks, row, final, hook, dropPulls, pc, del, history>>

DropPull ==
  /\ pc = "select" /\ dropPulls /\ dropPulls' = FALSE
  /\ pull' = NoPull
  /\ UNCHANGED <<senderVars, net, disk, hook, newPulls, pc, del, history>>

\* The tick after a silent window.
Tick ==
  /\ pc = "select" /\ pull.on
  /\ pull' = Requested(pull) /\ reqs' = Ask(pull)
  /\ UNCHANGED <<senderVars, manifest, chunks, disk, hook, newPulls, dropPulls, pc, del, history>>

BugUpsert(bm, done, path) == [stored |-> TRUE, bm |-> bm, done |-> done, path |-> path]

\* FileProgress and FilePath update the row if there is one.
Updated(bm, done, path) ==
  IF row.stored THEN [stored |-> TRUE, bm |-> bm, done |-> done, path |-> path] ELSE row

\* persistPull; a failure is only counted.
Saves(bm) == row' \in {row, Updated(bm, FALSE, row.path)}

BugNoHash(p) == TRUE

\* finishPull begins if the content is the promised one.
HashMatches(p) == p.data = Promised

BugDirtied(n) == n + 1

\* The count of chunks since the last save, which starts again after one.
Dirtied(n) == IF n + 1 >= DirtyFlush THEN 0 ELSE n + 1

\* acceptChunk: write, mark, and then finish, save or ask for the next window.
AcceptChunk(c) ==
  LET bm == SetBit(pull.bm, c.i)
      p == [pull EXCEPT !.bm = bm, !.data[c.i] = c.v,
              !.dirty = Dirtied(@)]
  IN
  /\ pc = "select" /\ pull.on /\ c \in chunks /\ ~Has(pull.bm, c.i)
  /\ chunks' = chunks \ {c}
  /\ part' = IF pull.linked THEN p.data ELSE part
  /\ \/ /\ Complete(bm) /\ HashMatches(p)
        /\ pull' = p /\ pc' = "rename"
        /\ UNCHANGED <<row, reqs>>
     \/ /\ Complete(bm) /\ ~HashMatches(p)
        /\ pull' = NoPull /\ Saves(bm)
        /\ UNCHANGED <<pc, reqs>>
     \/ /\ ~Complete(bm)
        /\ IF p.dirty = 0 THEN Saves(bm) ELSE row' = row
        /\ IF pull.window \subseteq bm
           THEN pull' = Requested(p) /\ reqs' = Ask(p)
           ELSE pull' = p /\ reqs' = reqs
        /\ UNCHANGED pc
  /\ UNCHANGED <<senderVars, manifest, final, hook, newPulls, dropPulls, del, history>>

Rename ==
  /\ pc = "rename"
  /\ IF pull.linked
     THEN /\ final' = part /\ part' = NoFile
          /\ pull' = [pull EXCEPT !.linked = FALSE] /\ pc' = "record"
     ELSE /\ UNCHANGED <<part, final>>
          /\ pull' = NoPull /\ pc' = "select"
  /\ UNCHANGED <<senderVars, net, row, hook, newPulls, dropPulls, del, history>>

Record ==
  /\ pc = "record" /\ pc' = "select" /\ pull' = NoPull
  /\ row' = Updated(pull.bm, TRUE, "final")
  /\ UNCHANGED <<senderVars, net, part, final, hook, newPulls, dropPulls, del, history>>

RecordFails ==
  /\ pc = "record" /\ faults < MaxFaults /\ faults' = faults + 1
  /\ pc' = "select" /\ pull' = NoPull /\ torn' = TRUE
  /\ UNCHANGED <<senderVars, net, disk, hook, newPulls, dropPulls, del, deleted>>

-----------------------------------------------------------------------------
(* Deletion and restart                                                    *)

\* DeleteFile reads the row and asks Run to drop the pull ...
DeleteStart ==
  /\ del.at \in {"none", "failed"} /\ ~deleted /\ row.stored
  /\ del' = [at |-> "row", path |-> row.path] /\ dropPulls' = TRUE
  /\ UNCHANGED <<senderVars, net, disk, hook, newPulls, pull, pc, history>>

\* ... deletes the row ...
DeleteRow ==
  /\ del.at = "row" /\ del' = [del EXCEPT !.at = "files"]
  /\ row' = NoRow /\ deleted' = TRUE
  /\ UNCHANGED <<senderVars, net, part, final, hook, runVars, torn, faults>>

DeleteFails ==
  /\ del.at = "row" /\ faults < MaxFaults /\ faults' = faults + 1
  /\ del' = [del EXCEPT !.at = "failed"]
  /\ UNCHANGED <<senderVars, net, disk, hook, runVars, deleted, torn>>

\* ... and removes the file it knows of and the .part.
DeleteFiles ==
  /\ del.at = "files" /\ del' = Idle
  /\ part' = NoFile
  /\ final' = IF del.path = "final" THEN NoFile ELSE final
  /\ pull' = [pull EXCEPT !.linked = FALSE]
  /\ UNCHANGED <<senderVars, net, row, hook, newPulls, dropPulls, pc, deleted, torn, faults>>

\* FileListUnfinished: the receptions that go on.
Unfinished == row.stored /\ ~row.done

\* The process stops, having saved the bitmap or not, and starts again: Run takes up
\* what is not done.
Restart ==
  LET saved == {row.bm} \cup (IF pull.on /\ pc = "select" /\ row.stored THEN {pull.bm} ELSE {}) IN
  /\ faults < MaxFaults /\ faults' = faults + 1
  /\ torn' = (torn \/ pc = "record")
  /\ hook' = FALSE /\ newPulls' = FALSE /\ dropPulls' = FALSE /\ del' = Idle /\ pc' = "select"
  /\ \E bm \in saved :
       /\ row' = [row EXCEPT !.bm = bm]
       /\ IF Unfinished
          THEN Open(bm)
          ELSE pull' = NoPull /\ UNCHANGED <<part, reqs>>
  /\ UNCHANGED <<senderVars, manifest, chunks, final, deleted>>

Sender == Offer \/ OfferKeep \/ Withdraw \/ Edit \/ \E r \in reqs, last \in Chunks : Serve(r, last)
Network == (\E r \in reqs : LoseReq(r)) \/ (\E c \in chunks : LoseChunk(c))
Run == StartPull \/ DropPull \/ Tick \/ (\E c \in chunks : AcceptChunk(c)) \/ Rename \/ Record
Delivery == OnManifest \/ ManifestHook
DeleteFile == DeleteStart \/ DeleteRow \/ DeleteFiles

Next == Sender \/ Network \/ Delivery \/ Run \/ RecordFails \/ DeleteFile \/ DeleteFails \/ Restart

Spec == Init /\ [][Next]_vars

\* Goroutines are scheduled and the tick comes; whatever is asked and sent again and
\* again is not lost for ever.
Fairness ==
  /\ WF_vars(OnManifest) /\ WF_vars(ManifestHook)
  /\ WF_vars(DeleteRow) /\ WF_vars(DeleteFiles)
  /\ WF_vars(StartPull) /\ WF_vars(Rename) /\ WF_vars(Record) /\ WF_vars(OfferKeep)
  /\ SF_vars(Tick)
  /\ \A i \in Chunks :
       /\ SF_vars(\E r \in reqs : i \in r /\ Serve(r, NChunks))
       /\ SF_vars(\E c \in chunks : c.i = i /\ AcceptChunk(c))

FairSpec == Spec /\ Fairness

-----------------------------------------------------------------------------
(* Properties                                                              *)

\* A file that is reported as received is on the disk, under the path of its row, and is
\* what the manifest promised, through restarts at any point (finishPull: hash, rename,
\* record).
DoneIsPromised == row.done => row.path = "final" /\ final = Promised

\* What the stored bitmap marks is in the .part, so that a restart may go on with what is
\* missing; except after a rename that was not recorded (acceptChunk, startPull).
BitmapIsBacked ==
  row.stored /\ ~row.done /\ ~torn /\ pc # "record" =>
    \A i \in row.bm : part # NoFile /\ part[i] # 0

\* The row of a deleted file does not come back, whatever its pull still does (FileProgress,
\* FilePath and DeleteFile on two goroutines).
DeletedStaysDeleted == deleted => ~row.stored

\* An offered file is received in the end, over any losses and restarts, unless its
\* deletion was asked, the sender has changed or withdrawn it, or a rename was not recorded
\* (requestWindow, the tick, the resumption in Run).
EventuallyReceived ==
  row.stored ~> row.done \/ deleted \/ del.at = "failed" \/ torn \/ source = 2 \/ offer = "gone"

=============================================================================
