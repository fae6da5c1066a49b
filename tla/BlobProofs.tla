----------------------------- MODULE BlobProofs -----------------------------
(***************************************************************************)
(* Theorems about module Blob: its types, what a stored row says of the    *)
(* disk, and that a deleted row stays deleted, for any number of chunks,   *)
(* window, interval of saving and number of faults.                        *)
(***************************************************************************)
EXTENDS Blob, FiniteSetTheorems, TLAPS

-----------------------------------------------------------------------------
(* The inductive invariant                                                 *)

\* The types, by the part of the state they are about.
SenderTypes ==
  /\ offer \in {"none", "sent", "kept", "gone"} /\ source \in 1..2
  /\ manifest \in BOOLEAN /\ reqs \subseteq SUBSET Chunks /\ chunks \subseteq Chunk

DiskTypes == row \in Row /\ part \in File \cup {NoFile} /\ final \in File \cup {NoFile}

QueueTypes == hook \in BOOLEAN /\ newPulls \in BOOLEAN /\ dropPulls \in BOOLEAN

PullTypes ==
  /\ pull \in Pull /\ pc \in {"select", "rename", "record"}
  /\ pull.on /\ pull.linked => part = pull.data
  /\ pc # "select" => pull.on /\ pull.bm = Chunks

DeleteTypes ==
  /\ del \in [at : {"none", "row", "files", "failed"}, path : {"none", "part", "final"}]
  /\ deleted \in BOOLEAN /\ torn \in BOOLEAN /\ faults \in 0..MaxFaults

\* A pull has a file open; the .part is no longer that file only when DeleteFile has
\* removed it or finishPull has renamed it.
PullIsOpen ==
  pull.on =>
    /\ pull.data \in File
    /\ ~pull.linked => deleted \/ pc = "record"

\* There is one manifest, and only its delivery makes a row.
OneManifest ==
  /\ manifest => offer # "none"
  /\ row.stored \/ deleted \/ del.at # "none" => ~manifest /\ offer # "none"

\* DeleteFile removes the files after the row.
RowFirst ==
  /\ del.at = "files" => deleted
  /\ ~row.stored => ~row.done

\* Between the check of the content and the record of the path.
Finishing ==
  /\ pc = "rename" => pull.data = Promised
  /\ pc = "record" /\ ~deleted => final = Promised

\* What the bitmap in memory marks is in the open file.
PullIsBacked == pull.on /\ ~torn => \A i \in pull.bm : pull.data[i] # 0

IInv ==
  /\ SenderTypes /\ DiskTypes /\ QueueTypes /\ PullTypes /\ DeleteTypes
  /\ PullIsOpen /\ OneManifest /\ RowFirst
  /\ DeletedStaysDeleted
  /\ DoneIsPromised /\ Finishing
  /\ BitmapIsBacked /\ PullIsBacked

-----------------------------------------------------------------------------
(* Files and bitmaps                                                       *)

LEMMA IInvTypes == IInv => TypeOK
BY DEF IInv, SenderTypes, DiskTypes, QueueTypes, PullTypes, DeleteTypes, TypeOK

LEMMA Files ==
  /\ NoFile \notin File /\ Promised \in File
  /\ [i \in Chunks |-> 0] \in File
  /\ \A f \in File, i \in Chunks, v \in Content : [f EXCEPT ![i] = v] \in File
<1>1. 1 \in Chunks
  BY BlobBoundsAssumption DEF Chunks
<1>2. \A f \in File : DOMAIN f # {}
  BY <1>1 DEF File
<1>3. DOMAIN NoFile = {}
  BY DEF NoFile
<1>4. NoFile \notin File
  BY <1>2, <1>3
<1>5. 0 \in Content /\ 1 \in Content
  BY DEF Content
<1>. QED BY <1>4, <1>5 DEF File, Promised

\* A bitmap is complete when every chunk is marked (Bitmap.Complete).
LEMMA CompleteIsAll ==
  ASSUME NEW bm \in SUBSET Chunks, Complete(bm)
  PROVE  bm = Chunks
<1>1. IsFiniteSet(Chunks) /\ Cardinality(Chunks) = NChunks
  BY FS_Interval, BlobBoundsAssumption DEF Chunks
<1>. QED BY <1>1, FS_Subset DEF Complete, Count

\* What a request makes of a pull (requestWindow).
LEMMA RequestKeeps ==
  ASSUME NEW p \in Pull, reqs \subseteq SUBSET Chunks
  PROVE  /\ Requested(p) \in Pull
         /\ Requested(p).on = p.on /\ Requested(p).bm = p.bm
         /\ Requested(p).data = p.data /\ Requested(p).linked = p.linked
         /\ Ask(p) \subseteq SUBSET Chunks
<1>1. Missing(p.bm, Window) \in SUBSET Chunks
  BY DEF Missing
<1>. QED BY <1>1 DEF Requested, Ask, Pull

\* What opening a file with a bitmap makes (startPull).
LEMMA OpenKeeps ==
  ASSUME IInv, NEW bm \in SUBSET Chunks, Open(bm)
  PROVE  /\ part' \in File /\ part' = Opened
         /\ pull' \in Pull /\ reqs' \subseteq SUBSET Chunks
         /\ pull'.on /\ pull'.linked /\ pull'.bm = bm /\ pull'.data = part'
<1>. DEFINE p == [on |-> TRUE, bm |-> bm, window |-> {}, dirty |-> 0, data |-> Opened,
                  linked |-> TRUE]
<1>1. Opened \in File
  BY Files DEF Opened, IInv, DiskTypes
<1>2. p \in Pull
  BY <1>1, BlobBoundsAssumption DEF Pull
<1>3. reqs \subseteq SUBSET Chunks
  BY DEF IInv, SenderTypes
<1>4. part' = Opened /\ pull' = Requested(p) /\ reqs' = Ask(p)
  BY DEF Open
<1>5. p.on /\ p.bm = bm /\ p.data = Opened /\ p.linked
  OBVIOUS
<1>. HIDE DEF p
<1>. QED BY <1>1, <1>2, <1>3, <1>4, <1>5, RequestKeeps

LEMMA NoRowType == NoRow \in Row /\ ~NoRow.stored /\ ~NoRow.done /\ NoRow.bm = {}
BY DEF NoRow, Row

LEMMA NoPullType == NoPull \in Pull /\ ~NoPull.on
BY BlobBoundsAssumption DEF NoPull, Pull

-----------------------------------------------------------------------------
(* The steps                                                               *)

LEMMA InitHolds == Init => IInv
<1>. SUFFICES ASSUME Init PROVE IInv
  OBVIOUS
<1>1. SenderTypes
  <2>1. offer \in {"none", "sent", "kept", "gone"} /\ source \in 1..2
    BY DEF Init
  <2>2. manifest \in BOOLEAN /\ reqs \subseteq SUBSET Chunks /\ chunks \subseteq Chunk
    BY Zenon DEF Init
  <2>. QED BY <2>1, <2>2 DEF SenderTypes
<1>2. QueueTypes
  BY DEF Init, QueueTypes
<1>3. DiskTypes
  BY NoRowType DEF Init, DiskTypes
<1>4. PullTypes
  BY NoPullType DEF Init, PullTypes
<1>5. DeleteTypes
  <2>1. del \in [at : {"none", "row", "files", "failed"}, path : {"none", "part", "final"}]
    BY DEF Init, Idle
  <2>2. deleted \in BOOLEAN /\ torn \in BOOLEAN
    BY Zenon DEF Init
  <2>3. faults \in 0..MaxFaults
    BY BlobBoundsAssumption DEF Init
  <2>. QED BY <2>1, <2>2, <2>3 DEF DeleteTypes
<1>6. PullIsOpen /\ OneManifest /\ RowFirst /\ DeletedStaysDeleted /\ DoneIsPromised /\ Finishing
  BY NoRowType, NoPullType
  DEF Init, PullIsOpen, OneManifest, RowFirst, DeletedStaysDeleted, DoneIsPromised, Finishing, Idle
<1>7. BitmapIsBacked /\ PullIsBacked
  BY NoRowType, NoPullType DEF Init, BitmapIsBacked, PullIsBacked
<1>. QED BY <1>1, <1>2, <1>3, <1>4, <1>5, <1>6, <1>7 DEF IInv

\* The steps of the sender and of the network leave the receiver alone.
LEMMA OutsideKeeps ==
  ASSUME IInv, Sender \/ Network PROVE IInv'
<1>1. UNCHANGED <<row, part, final, hook, newPulls, dropPulls, pull, pc, del, deleted, torn,
   faults>>
  BY DEF Sender, Network, Offer, OfferKeep, Withdraw, Edit, Serve, LoseReq, LoseChunk, disk,
         runVars, history
<1>2. OneManifest'
  BY <1>1 DEF IInv, OneManifest, Sender, Network, Offer, OfferKeep, Withdraw, Edit, Serve,
              LoseReq, LoseChunk, senderVars, net
<1>3. offer' \in {"none", "sent", "kept", "gone"} /\ source' \in 1..2
  BY DEF IInv, SenderTypes, Sender, Network, Offer, OfferKeep, Withdraw, Edit, Serve,
         LoseReq, LoseChunk, senderVars
<1>4. manifest' = TRUE \/ manifest' = manifest
  BY DEF Sender, Network, Offer, OfferKeep, Withdraw, Edit, Serve, LoseReq, LoseChunk, net
<1>5. reqs' \subseteq reqs
  BY DEF Sender, Network, Offer, OfferKeep, Withdraw, Edit, Serve, LoseReq, LoseChunk, net
<1>6. chunks' \subseteq Chunk
  <2>1. CASE \E r \in reqs, last \in Chunks : Serve(r, last)
    <3>1. PICK r \in reqs, last \in Chunks : Serve(r, last)
      BY <2>1
    <3>2. \A j \in r : j \in Chunks
      BY DEF IInv, SenderTypes
    <3>3. source \in 1..2 /\ chunks \subseteq Chunk
      BY DEF IInv, SenderTypes
    <3>4. chunks' = chunks \cup {[i |-> i, v |-> source] : i \in {j \in r : j <= last}}
      BY <3>1 DEF Serve
    <3>. QED BY <3>2, <3>3, <3>4 DEF Chunk
  <2>2. CASE ~ \E r \in reqs, last \in Chunks : Serve(r, last)
    <3>1. chunks' \subseteq chunks
      BY <2>2 DEF Sender, Network, Offer, OfferKeep, Withdraw, Edit, LoseReq, LoseChunk, net
    <3>. QED BY <3>1 DEF IInv, SenderTypes
  <2>. QED BY <2>1, <2>2
<1>7. SenderTypes'
  BY <1>3, <1>5, <1>6, <1>4 DEF IInv, SenderTypes
<1>8. DiskTypes' /\ QueueTypes' /\ PullTypes' /\ DeleteTypes'
  BY <1>1 DEF IInv, DiskTypes, QueueTypes, PullTypes, DeleteTypes
<1>9. PullIsOpen' /\ RowFirst' /\ DeletedStaysDeleted' /\ DoneIsPromised' /\ Finishing'
  BY <1>1 DEF IInv, PullIsOpen, RowFirst, DeletedStaysDeleted, DoneIsPromised, Finishing
<1>10. BitmapIsBacked' /\ PullIsBacked'
  BY <1>1 DEF IInv, BitmapIsBacked, PullIsBacked
<1>. QED BY <1>2, <1>7, <1>8, <1>9, <1>10 DEF IInv

LEMMA OnManifestKeeps ==
  ASSUME IInv, OnManifest PROVE IInv'
<1>1. /\ manifest /\ ~manifest' /\ row' = [NoRow EXCEPT !.stored = TRUE] /\ hook' = TRUE
      /\ UNCHANGED <<offer, source, reqs, chunks, part, final, newPulls, dropPulls, pull, pc, del,
                     deleted, torn, faults>>
  BY DEF OnManifest, senderVars, runVars, history
<1>2. row' \in Row /\ row'.stored /\ ~row'.done /\ row'.bm = {}
  BY <1>1 DEF NoRow, Row
<1>3. ~deleted /\ del.at = "none" /\ offer # "none"
  BY <1>1 DEF IInv, OneManifest
<1>4. manifest' \in BOOLEAN
  BY DEF OnManifest
<1>5. DiskTypes' /\ QueueTypes'
  BY <1>1, <1>2, <1>3 DEF IInv, DiskTypes, QueueTypes
<1>6. SenderTypes'
  BY <1>1, <1>4 DEF IInv, SenderTypes
<1>7. PullTypes' /\ DeleteTypes'
  BY <1>1, <1>2, <1>3 DEF IInv, PullTypes, DeleteTypes
<1>8. PullIsOpen' /\ OneManifest'
  BY <1>1, <1>2, <1>3 DEF IInv, PullIsOpen, OneManifest
<1>9. RowFirst' /\ DeletedStaysDeleted'
  BY <1>1, <1>2, <1>3 DEF IInv, RowFirst, DeletedStaysDeleted
<1>10. DoneIsPromised' /\ Finishing'
  BY <1>1, <1>2, <1>3 DEF IInv, DoneIsPromised, Finishing
<1>11. BitmapIsBacked' /\ PullIsBacked'
  BY <1>1, <1>2, <1>3 DEF IInv, BitmapIsBacked, PullIsBacked
<1>. QED
  BY <1>5, <1>6, <1>7, <1>8, <1>9, <1>10, <1>11 DEF IInv

LEMMA ManifestHookKeeps ==
  ASSUME IInv, ManifestHook PROVE IInv'
<1>1. /\ hook' = FALSE /\ newPulls' = TRUE
      /\ UNCHANGED <<offer, source, manifest, reqs, chunks, row, part, final, dropPulls, pull, pc,
                     del, deleted, torn, faults>>
  BY DEF ManifestHook, senderVars, net, disk, history
<1>2. SenderTypes' /\ DiskTypes' /\ QueueTypes'
  BY <1>1 DEF IInv, SenderTypes, DiskTypes, QueueTypes
<1>3. PullTypes' /\ DeleteTypes'
  BY <1>1 DEF IInv, PullTypes, DeleteTypes
<1>4. PullIsOpen' /\ OneManifest'
  BY <1>1 DEF IInv, PullIsOpen, OneManifest
<1>5. RowFirst' /\ DeletedStaysDeleted'
  BY <1>1 DEF IInv, RowFirst, DeletedStaysDeleted
<1>6. DoneIsPromised' /\ Finishing'
  BY <1>1 DEF IInv, DoneIsPromised, Finishing
<1>7. BitmapIsBacked' /\ PullIsBacked'
  BY <1>1 DEF IInv, BitmapIsBacked, PullIsBacked
<1>. QED
  BY <1>2, <1>3, <1>4, <1>5, <1>6, <1>7 DEF IInv

LEMMA StartPullKeeps ==
  ASSUME IInv, StartPull PROVE IInv'
<1>1. /\ newPulls' = FALSE /\ pc = "select"
      /\ UNCHANGED <<offer, source, manifest, chunks, row, final, hook, dropPulls, pc, del,
                     deleted, torn, faults>>
  BY DEF StartPull, senderVars, history
<1>2. CASE pull.on
  <2>1. UNCHANGED <<part, pull, reqs>>
    BY <1>2 DEF StartPull
  <2>2. SenderTypes' /\ DiskTypes' /\ QueueTypes'
    BY <1>1, <2>1 DEF IInv, SenderTypes, DiskTypes, QueueTypes
  <2>3. PullTypes' /\ DeleteTypes'
    BY <1>1, <2>1 DEF IInv, PullTypes, DeleteTypes
  <2>4. PullIsOpen' /\ OneManifest'
    BY <1>1, <2>1 DEF IInv, PullIsOpen, OneManifest
  <2>5. RowFirst' /\ DeletedStaysDeleted'
    BY <1>1, <2>1 DEF IInv, RowFirst, DeletedStaysDeleted
  <2>6. DoneIsPromised' /\ Finishing'
    BY <1>1, <2>1 DEF IInv, DoneIsPromised, Finishing
  <2>7. BitmapIsBacked' /\ PullIsBacked'
    BY <1>1, <2>1 DEF IInv, BitmapIsBacked, PullIsBacked
  <2>. QED
    BY <2>2, <2>3, <2>4, <2>5, <2>6, <2>7 DEF IInv
<1>3. CASE ~pull.on
  <2>1. Open({})
    BY <1>3 DEF StartPull, NewBitmap
  <2>2. /\ part' \in File /\ part' = Opened
        /\ pull' \in Pull /\ reqs' \subseteq SUBSET Chunks
        /\ pull'.on /\ pull'.linked /\ pull'.bm = {} /\ pull'.data = part'
    BY <2>1, OpenKeeps
  <2>3. SenderTypes' /\ DiskTypes' /\ QueueTypes'
    BY <1>1, <2>2 DEF IInv, SenderTypes, DiskTypes, QueueTypes
  <2>4. PullTypes' /\ DeleteTypes'
    BY <1>1, <2>2 DEF IInv, PullTypes, DeleteTypes
  <2>5. PullIsOpen' /\ OneManifest'
    BY <1>1, <2>2 DEF IInv, PullIsOpen, OneManifest
  <2>6. RowFirst' /\ DeletedStaysDeleted'
    BY <1>1, <2>2 DEF IInv, RowFirst, DeletedStaysDeleted
  <2>7. DoneIsPromised' /\ Finishing'
    BY <1>1, <2>2 DEF IInv, DoneIsPromised, Finishing
  <2>8. PullIsBacked'
    BY <1>1, <2>2 DEF IInv, PullIsBacked
  <2>9. BitmapIsBacked'
    BY <1>1, <2>2, Files DEF IInv, BitmapIsBacked, Opened
  <2>. QED
    BY <2>3, <2>4, <2>5, <2>6, <2>7, <2>8, <2>9 DEF IInv
<1>. QED BY <1>2, <1>3

LEMMA DropPullKeeps ==
  ASSUME IInv, DropPull PROVE IInv'
<1>1. /\ dropPulls' = FALSE /\ pull' = NoPull /\ pc = "select"
      /\ UNCHANGED <<offer, source, manifest, reqs, chunks, row, part, final, hook, newPulls, pc,
                     del, deleted, torn, faults>>
  BY DEF DropPull, senderVars, net, disk, history
<1>2. SenderTypes' /\ DiskTypes' /\ QueueTypes'
  BY <1>1, NoPullType DEF IInv, SenderTypes, DiskTypes, QueueTypes
<1>3. PullTypes' /\ DeleteTypes'
  BY <1>1, NoPullType DEF IInv, PullTypes, DeleteTypes
<1>4. PullIsOpen' /\ OneManifest'
  BY <1>1, NoPullType DEF IInv, PullIsOpen, OneManifest
<1>5. RowFirst' /\ DeletedStaysDeleted'
  BY <1>1, NoPullType DEF IInv, RowFirst, DeletedStaysDeleted
<1>6. DoneIsPromised' /\ Finishing'
  BY <1>1, NoPullType DEF IInv, DoneIsPromised, Finishing
<1>7. BitmapIsBacked' /\ PullIsBacked'
  BY <1>1, NoPullType DEF IInv, BitmapIsBacked, PullIsBacked
<1>. QED
  BY <1>2, <1>3, <1>4, <1>5, <1>6, <1>7 DEF IInv

LEMMA TickKeeps ==
  ASSUME IInv, Tick PROVE IInv'
<1>1. UNCHANGED <<offer, source, manifest, chunks, row, part, final, hook, newPulls, dropPulls, pc,
                  del, deleted, torn, faults>>
  BY DEF Tick, senderVars, disk, history
<1>2. pull \in Pull /\ reqs \subseteq SUBSET Chunks
  BY DEF IInv, SenderTypes, PullTypes
<1>3. /\ pull' \in Pull /\ reqs' \subseteq SUBSET Chunks
      /\ pull'.on = pull.on /\ pull'.bm = pull.bm
      /\ pull'.data = pull.data /\ pull'.linked = pull.linked
  BY <1>2, RequestKeeps DEF Tick
<1>4. SenderTypes' /\ DiskTypes' /\ QueueTypes'
  BY <1>1, <1>3 DEF IInv, SenderTypes, DiskTypes, QueueTypes
<1>5. PullTypes' /\ DeleteTypes'
  BY <1>1, <1>3 DEF IInv, PullTypes, DeleteTypes
<1>6. PullIsOpen' /\ OneManifest'
  BY <1>1, <1>3 DEF IInv, PullIsOpen, OneManifest
<1>7. RowFirst' /\ DeletedStaysDeleted'
  BY <1>1, <1>3 DEF IInv, RowFirst, DeletedStaysDeleted
<1>8. DoneIsPromised' /\ Finishing'
  BY <1>1, <1>3 DEF IInv, DoneIsPromised, Finishing
<1>9. BitmapIsBacked' /\ PullIsBacked'
  BY <1>1, <1>3 DEF IInv, BitmapIsBacked, PullIsBacked
<1>. QED
  BY <1>4, <1>5, <1>6, <1>7, <1>8, <1>9 DEF IInv

LEMMA AcceptChunkKeeps ==
  ASSUME IInv, NEW c \in chunks, AcceptChunk(c) PROVE IInv'
<1>. DEFINE bm == SetBit(pull.bm, c.i)
            p == [pull EXCEPT !.bm = bm, !.data[c.i] = c.v, !.dirty = Dirtied(@)]
<1>1. /\ pc = "select" /\ pull.on
      /\ UNCHANGED <<offer, source, manifest, final, hook, newPulls, dropPulls, del, deleted,
                     torn, faults>>
      /\ chunks' \subseteq chunks
      /\ part' = IF pull.linked THEN p.data ELSE part
  BY DEF AcceptChunk, senderVars, history
<1>2. c.i \in Chunks /\ c.v \in 1..2 /\ pull \in Pull /\ pull.data \in File
  BY <1>1 DEF IInv, SenderTypes, PullTypes, PullIsOpen, Chunk
<1>3. pull.bm \subseteq Chunks /\ pull.dirty \in 0..DirtyFlush
      /\ bm \in SUBSET Chunks /\ Dirtied(pull.dirty) \in 0..DirtyFlush
  BY <1>2, BlobBoundsAssumption DEF Pull, SetBit, Dirtied
<1>4. p.data = [pull.data EXCEPT ![c.i] = c.v] /\ p.data \in File
  <2>1. p.data = [pull.data EXCEPT ![c.i] = c.v]
    BY <1>2 DEF Pull
  <2>2. c.v \in Content
    BY <1>2 DEF Content
  <2>3. [pull.data EXCEPT ![c.i] = c.v] \in File
    BY <1>2, <2>2, Files
  <2>. QED BY <2>1, <2>3
<1>5. p \in Pull /\ p.on /\ p.bm = bm /\ p.linked = pull.linked
  BY <1>1, <1>2, <1>3, <1>4 DEF Pull
<1>6. ~torn => \A i \in bm : p.data[i] # 0
  BY <1>1, <1>2, <1>4 DEF IInv, PullIsBacked, SetBit, File
<1>7. /\ \/ row' = row
         \/ /\ row.stored /\ row'.stored /\ ~row'.done /\ row'.bm = bm
      /\ row' \in Row
  <2>1. row' = row \/ Saves(bm)
    BY DEF AcceptChunk
  <2>2. row' = row \/ row' = Updated(bm, FALSE, row.path)
    BY <2>1 DEF Saves
  <2>3. row \in Row
    BY DEF IInv, DiskTypes
  <2>4. row.path \in {"part", "final"}
    BY <2>3 DEF Row
  <2>5. CASE row.stored
    <3>. DEFINE r == [stored |-> TRUE, bm |-> bm, done |-> FALSE, path |-> row.path]
    <3>1. r \in Row /\ r.stored /\ ~r.done /\ r.bm = bm
      BY <1>3, <2>4 DEF Row
    <3>. QED BY <2>2, <2>3, <2>5, <3>1 DEF Updated
  <2>. QED BY <2>2, <2>3, <2>5 DEF Updated
<1>8. /\ \/ /\ pull'.on /\ pull' \in Pull /\ pull'.bm = bm /\ pull'.data = p.data
            /\ pull'.linked = p.linked
         \/ pull' = NoPull
      /\ reqs' \subseteq SUBSET Chunks
      /\ \/ pc' = "rename" /\ pull' = p /\ bm = Chunks /\ p.data = Promised
         \/ pc' = "select"
  <2>1. reqs \subseteq SUBSET Chunks
    BY DEF IInv, SenderTypes
  <2>2. \/ /\ Complete(bm) /\ HashMatches(p) /\ pull' = p /\ pc' = "rename" /\ reqs' = reqs
        \/ pull' = NoPull /\ pc' = "select" /\ reqs' = reqs
        \/ /\ \/ pull' = Requested(p) /\ reqs' = Ask(p)
              \/ pull' = p /\ reqs' = reqs
           /\ pc' = "select"
    BY <1>1 DEF AcceptChunk
  <2>. HIDE DEF p, bm
  <2>3. /\ Requested(p) \in Pull /\ Requested(p).on /\ Requested(p).bm = bm
        /\ Requested(p).data = p.data /\ Requested(p).linked = p.linked
        /\ Ask(p) \subseteq SUBSET Chunks
    BY <1>5, <2>1, RequestKeeps
  <2>4. Complete(bm) => bm = Chunks
    BY <1>3, CompleteIsAll
  <2>. QED BY <1>5, <2>1, <2>2, <2>3, <2>4 DEF HashMatches
<1>. HIDE DEF p, bm
<1>9. row.stored => pull.linked
  BY <1>1 DEF IInv, PullIsOpen, DeletedStaysDeleted
<1>10. DiskTypes'
  BY <1>1, <1>2, <1>4, <1>5, <1>7, <1>8, NoPullType DEF IInv, DiskTypes
<1>11. SenderTypes'
  BY <1>1, <1>8 DEF IInv, SenderTypes
<1>12. QueueTypes'
  BY <1>1 DEF IInv, QueueTypes
<1>13. PullTypes'
  BY <1>1, <1>2, <1>4, <1>5, <1>7, <1>8, NoPullType DEF IInv, PullTypes
<1>14. DeleteTypes'
  BY <1>1 DEF IInv, DeleteTypes
<1>15. PullIsOpen'
  BY <1>1, <1>2, <1>4, <1>5, <1>7, <1>8, NoPullType DEF IInv, PullIsOpen
<1>16. OneManifest'
  BY <1>1, <1>7 DEF IInv, OneManifest
<1>17. RowFirst'
  BY <1>1, <1>7 DEF IInv, RowFirst
<1>18. DeletedStaysDeleted'
  BY <1>1, <1>7 DEF IInv, DeletedStaysDeleted
<1>19. DoneIsPromised'
  BY <1>1, <1>7 DEF IInv, DoneIsPromised
<1>20. Finishing'
  BY <1>8 DEF IInv, Finishing
<1>21. BitmapIsBacked'
  <2>. SUFFICES ASSUME row'.stored, ~row'.done, ~torn', NEW i \in row'.bm
               PROVE  part' # NoFile /\ part'[i] # 0
    BY DEF BitmapIsBacked
  <2>1. pull.linked /\ part' = p.data /\ part = pull.data
    BY <1>1, <1>7, <1>9 DEF IInv, PullTypes
  <2>2. part' # NoFile
    BY <1>4, <2>1, Files
  <2>3. CASE row' = row
    <3>1. part[i] # 0 /\ i \in Chunks
      BY <1>1, <2>3 DEF IInv, BitmapIsBacked, DiskTypes, Row
    <3>. QED BY <1>2, <1>4, <2>1, <2>2, <3>1 DEF File
  <2>4. CASE row'.bm = bm
    BY <1>1, <1>6, <2>1, <2>2, <2>4
  <2>. QED BY <1>7, <2>3, <2>4
<1>22. PullIsBacked'
  BY <1>1, <1>6, <1>8, NoPullType DEF IInv, PullIsBacked
<1>. QED
  BY <1>10, <1>11, <1>12, <1>13, <1>14, <1>15, <1>16, <1>17, <1>18, <1>19, <1>20, <1>21, <1>22 DEF
     IInv

LEMMA RenameKeeps ==
  ASSUME IInv, Rename PROVE IInv'
<1>1. /\ pc = "rename" /\ pull.on /\ pull.data = Promised /\ pull \in Pull
      /\ UNCHANGED <<offer, source, manifest, reqs, chunks, row, hook, newPulls, dropPulls, del,
                     deleted, torn, faults>>
  BY DEF Rename, IInv, PullTypes, Finishing, senderVars, net, history
<1>2. CASE pull.linked
  <2>1. /\ final' = Promised /\ final' = part /\ part' = NoFile /\ pc' = "record"
        /\ pull' = [pull EXCEPT !.linked = FALSE]
    BY <1>1, <1>2 DEF Rename, IInv, PullTypes
  <2>2. /\ pull' \in Pull /\ pull'.on /\ ~pull'.linked
        /\ pull'.bm = pull.bm /\ pull'.data = pull.data
    BY <1>1, <2>1 DEF Pull
  <2>3. SenderTypes' /\ QueueTypes'
    BY <1>1, <2>1, <2>2 DEF IInv, SenderTypes, QueueTypes
  <2>4. DiskTypes'
    BY <1>1, <2>1, Files DEF IInv, DiskTypes
  <2>5. PullTypes' /\ DeleteTypes'
    BY <1>1, <2>1, <2>2 DEF IInv, PullTypes, DeleteTypes
  <2>6. PullIsOpen' /\ OneManifest'
    BY <1>1, <2>1, <2>2 DEF IInv, PullIsOpen, OneManifest
  <2>7. RowFirst' /\ DeletedStaysDeleted'
    BY <1>1, <2>1, <2>2 DEF IInv, RowFirst, DeletedStaysDeleted
  <2>8. DoneIsPromised' /\ Finishing'
    BY <1>1, <2>1, <2>2 DEF IInv, DoneIsPromised, Finishing
  <2>9. BitmapIsBacked' /\ PullIsBacked'
    BY <1>1, <2>1, <2>2 DEF IInv, BitmapIsBacked, PullIsBacked
  <2>. QED
    BY <2>3, <2>4, <2>5, <2>6, <2>7, <2>8, <2>9 DEF IInv
<1>3. CASE ~pull.linked
  <2>1. UNCHANGED <<part, final>> /\ pull' = NoPull /\ pc' = "select"
    BY <1>3 DEF Rename
  <2>2. ~row.stored
    BY <1>1, <1>3 DEF IInv, PullIsOpen, DeletedStaysDeleted
  <2>3. SenderTypes' /\ DiskTypes' /\ QueueTypes'
    BY <1>1, <2>1, <2>2, NoPullType DEF IInv, SenderTypes, DiskTypes, QueueTypes
  <2>4. PullTypes' /\ DeleteTypes'
    BY <1>1, <2>1, <2>2, NoPullType DEF IInv, PullTypes, DeleteTypes
  <2>5. PullIsOpen' /\ OneManifest'
    BY <1>1, <2>1, <2>2, NoPullType DEF IInv, PullIsOpen, OneManifest
  <2>6. RowFirst' /\ DeletedStaysDeleted'
    BY <1>1, <2>1, <2>2, NoPullType DEF IInv, RowFirst, DeletedStaysDeleted
  <2>7. DoneIsPromised' /\ Finishing'
    BY <1>1, <2>1, <2>2, NoPullType DEF IInv, DoneIsPromised, Finishing
  <2>8. BitmapIsBacked' /\ PullIsBacked'
    BY <1>1, <2>1, <2>2, NoPullType DEF IInv, BitmapIsBacked, PullIsBacked
  <2>. QED
    BY <2>3, <2>4, <2>5, <2>6, <2>7, <2>8 DEF IInv
<1>. QED BY <1>2, <1>3

LEMMA RecordKeeps ==
  ASSUME IInv, Record PROVE IInv'
<1>1. /\ pc = "record" /\ pc' = "select" /\ pull' = NoPull /\ pull \in Pull
      /\ row' = Updated(pull.bm, TRUE, "final")
      /\ UNCHANGED <<offer, source, manifest, reqs, chunks, part, final, hook, newPulls, dropPulls,
                     del, deleted, torn, faults>>
  BY DEF Record, IInv, PullTypes, senderVars, net, history
<1>2. /\ row' \in Row /\ row'.stored = row.stored
      /\ \/ row' = row /\ ~row.stored
         \/ row.stored /\ row'.done /\ row'.path = "final"
  BY <1>1 DEF IInv, DiskTypes, Updated, Row, Pull
<1>3. row.stored => final = Promised
  BY <1>1 DEF IInv, DeletedStaysDeleted, Finishing
<1>4. SenderTypes' /\ DiskTypes' /\ QueueTypes'
  BY <1>1, <1>2, <1>3, NoPullType DEF IInv, SenderTypes, DiskTypes, QueueTypes
<1>5. PullTypes' /\ DeleteTypes'
  BY <1>1, <1>2, <1>3, NoPullType DEF IInv, PullTypes, DeleteTypes
<1>6. PullIsOpen' /\ OneManifest'
  BY <1>1, <1>2, <1>3, NoPullType DEF IInv, PullIsOpen, OneManifest
<1>7. RowFirst' /\ DeletedStaysDeleted'
  BY <1>1, <1>2, <1>3, NoPullType DEF IInv, RowFirst, DeletedStaysDeleted
<1>8. Finishing'
  BY <1>1, <1>2, <1>3, NoPullType DEF IInv, Finishing
<1>9. DoneIsPromised'
  BY <1>1, <1>2, <1>3 DEF IInv, DoneIsPromised, RowFirst
<1>10. BitmapIsBacked' /\ PullIsBacked'
  BY <1>1, <1>2, <1>3, NoPullType DEF IInv, BitmapIsBacked, PullIsBacked
<1>. QED
  BY <1>4, <1>5, <1>6, <1>7, <1>8, <1>9, <1>10 DEF IInv

LEMMA RecordFailsKeeps ==
  ASSUME IInv, RecordFails PROVE IInv'
<1>1. /\ pc' = "select" /\ pull' = NoPull /\ torn' = TRUE
      /\ faults' = faults + 1 /\ faults < MaxFaults
      /\ UNCHANGED <<offer, source, manifest, reqs, chunks, row, part, final, hook, newPulls,
                     dropPulls, del, deleted>>
  BY DEF RecordFails, senderVars, net, disk
<1>2. SenderTypes' /\ DiskTypes' /\ QueueTypes'
  BY <1>1, NoPullType DEF IInv, SenderTypes, DiskTypes, QueueTypes
<1>3. PullTypes'
  BY <1>1, NoPullType DEF IInv, PullTypes
<1>4. DeleteTypes'
  BY <1>1, BlobBoundsAssumption DEF IInv, DeleteTypes
<1>5. PullIsOpen' /\ OneManifest'
  BY <1>1, NoPullType DEF IInv, PullIsOpen, OneManifest
<1>6. RowFirst' /\ DeletedStaysDeleted'
  BY <1>1, NoPullType DEF IInv, RowFirst, DeletedStaysDeleted
<1>7. DoneIsPromised' /\ Finishing'
  BY <1>1, NoPullType DEF IInv, DoneIsPromised, Finishing
<1>8. BitmapIsBacked' /\ PullIsBacked'
  BY <1>1, NoPullType DEF IInv, BitmapIsBacked, PullIsBacked
<1>. QED
  BY <1>2, <1>3, <1>4, <1>5, <1>6, <1>7, <1>8 DEF IInv

LEMMA DeleteStartKeeps ==
  ASSUME IInv, DeleteStart PROVE IInv'
<1>1. /\ row.stored /\ del' = [at |-> "row", path |-> row.path] /\ dropPulls' = TRUE
      /\ UNCHANGED <<offer, source, manifest, reqs, chunks, row, part, final, hook, newPulls, pull,
                     pc, deleted, torn, faults>>
  BY DEF DeleteStart, senderVars, net, disk, history
<1>2. SenderTypes' /\ DiskTypes' /\ QueueTypes'
  BY <1>1 DEF IInv, SenderTypes, DiskTypes, QueueTypes
<1>3. PullTypes'
  BY <1>1 DEF IInv, PullTypes
<1>4. DeleteTypes'
  BY <1>1 DEF IInv, DeleteTypes, DiskTypes, Row
<1>5. PullIsOpen' /\ OneManifest'
  BY <1>1 DEF IInv, PullIsOpen, OneManifest
<1>6. RowFirst' /\ DeletedStaysDeleted'
  BY <1>1 DEF IInv, RowFirst, DeletedStaysDeleted
<1>7. DoneIsPromised' /\ Finishing'
  BY <1>1 DEF IInv, DoneIsPromised, Finishing
<1>8. BitmapIsBacked' /\ PullIsBacked'
  BY <1>1 DEF IInv, BitmapIsBacked, PullIsBacked
<1>. QED
  BY <1>2, <1>3, <1>4, <1>5, <1>6, <1>7, <1>8 DEF IInv

LEMMA DeleteRowKeeps ==
  ASSUME IInv, DeleteRow PROVE IInv'
<1>1. /\ del.at = "row" /\ del' = [del EXCEPT !.at = "files"] /\ row' = NoRow /\ deleted' = TRUE
      /\ UNCHANGED <<offer, source, manifest, reqs, chunks, part, final, hook, newPulls, dropPulls,
                     pull, pc, torn, faults>>
  BY DEF DeleteRow, senderVars, net, runVars
<1>2. SenderTypes' /\ DiskTypes' /\ QueueTypes'
  BY <1>1, NoRowType DEF IInv, SenderTypes, DiskTypes, QueueTypes
<1>3. PullTypes' /\ DeleteTypes'
  BY <1>1, NoRowType DEF IInv, PullTypes, DeleteTypes
<1>4. PullIsOpen' /\ OneManifest'
  BY <1>1, NoRowType DEF IInv, PullIsOpen, OneManifest
<1>5. RowFirst' /\ DeletedStaysDeleted'
  BY <1>1, NoRowType DEF IInv, RowFirst, DeletedStaysDeleted
<1>6. DoneIsPromised' /\ Finishing'
  BY <1>1, NoRowType DEF IInv, DoneIsPromised, Finishing
<1>7. BitmapIsBacked' /\ PullIsBacked'
  BY <1>1, NoRowType DEF IInv, BitmapIsBacked, PullIsBacked
<1>. QED
  BY <1>2, <1>3, <1>4, <1>5, <1>6, <1>7 DEF IInv

LEMMA DeleteFailsKeeps ==
  ASSUME IInv, DeleteFails PROVE IInv'
<1>1. /\ del.at = "row" /\ del' = [del EXCEPT !.at = "failed"]
      /\ faults' = faults + 1 /\ faults < MaxFaults
      /\ UNCHANGED <<offer, source, manifest, reqs, chunks, row, part, final, hook, newPulls,
                     dropPulls, pull, pc, deleted, torn>>
  BY DEF DeleteFails, senderVars, net, disk, runVars
<1>2. SenderTypes' /\ DiskTypes' /\ QueueTypes'
  BY <1>1 DEF IInv, SenderTypes, DiskTypes, QueueTypes
<1>3. PullTypes'
  BY <1>1 DEF IInv, PullTypes
<1>4. DeleteTypes'
  BY <1>1, BlobBoundsAssumption DEF IInv, DeleteTypes
<1>5. PullIsOpen' /\ OneManifest'
  BY <1>1 DEF IInv, PullIsOpen, OneManifest
<1>6. RowFirst' /\ DeletedStaysDeleted'
  BY <1>1 DEF IInv, RowFirst, DeletedStaysDeleted
<1>7. DoneIsPromised' /\ Finishing'
  BY <1>1 DEF IInv, DoneIsPromised, Finishing
<1>8. BitmapIsBacked' /\ PullIsBacked'
  BY <1>1 DEF IInv, BitmapIsBacked, PullIsBacked
<1>. QED
  BY <1>2, <1>3, <1>4, <1>5, <1>6, <1>7, <1>8 DEF IInv

LEMMA DeleteFilesKeeps ==
  ASSUME IInv, DeleteFiles PROVE IInv'
<1>1. /\ del.at = "files" /\ del' = Idle /\ part' = NoFile
      /\ final' \in {NoFile, final} /\ pull' = [pull EXCEPT !.linked = FALSE]
      /\ UNCHANGED <<offer, source, manifest, reqs, chunks, row, hook, newPulls, dropPulls, pc,
                     deleted, torn, faults>>
  BY DEF DeleteFiles, senderVars, net
<1>2. deleted /\ ~row.stored /\ ~row.done
  BY <1>1 DEF IInv, RowFirst, DeletedStaysDeleted
<1>3. /\ pull' \in Pull /\ pull'.on = pull.on /\ ~pull'.linked /\ pull'.bm = pull.bm
      /\ pull'.data = pull.data
  BY <1>1 DEF IInv, PullTypes, Pull
<1>4. SenderTypes' /\ DiskTypes' /\ QueueTypes'
  BY <1>1, <1>2, <1>3 DEF IInv, SenderTypes, DiskTypes, QueueTypes
<1>5. PullTypes'
  BY <1>1, <1>2, <1>3 DEF IInv, PullTypes
<1>6. DeleteTypes'
  BY <1>1, <1>2 DEF IInv, DeleteTypes, Idle
<1>7. PullIsOpen'
  BY <1>1, <1>2, <1>3 DEF IInv, PullIsOpen
<1>8. OneManifest'
  BY <1>1, <1>2 DEF IInv, OneManifest, Idle
<1>9. DeletedStaysDeleted'
  BY <1>1, <1>2, <1>3 DEF IInv, DeletedStaysDeleted
<1>10. RowFirst'
  BY <1>1, <1>2 DEF IInv, RowFirst, Idle
<1>11. DoneIsPromised' /\ Finishing'
  BY <1>1, <1>2, <1>3 DEF IInv, DoneIsPromised, Finishing
<1>12. BitmapIsBacked' /\ PullIsBacked'
  BY <1>1, <1>2, <1>3 DEF IInv, BitmapIsBacked, PullIsBacked
<1>. QED
  BY <1>4, <1>5, <1>6, <1>7, <1>8, <1>9, <1>10, <1>11, <1>12 DEF IInv

LEMMA RestartKeeps ==
  ASSUME IInv, Restart PROVE IInv'
<1>1. /\ faults < MaxFaults /\ faults' = faults + 1
      /\ torn' = (torn \/ pc = "record") /\ pc' = "select" /\ del' = Idle
      /\ hook' = FALSE /\ newPulls' = FALSE /\ dropPulls' = FALSE
      /\ UNCHANGED <<offer, source, manifest, chunks, final, deleted>>
  BY DEF Restart, senderVars
<1>2. PICK bm \in {row.bm} \cup (IF pull.on /\ pc = "select" /\ row.stored THEN {pull.bm} ELSE {}) :
        /\ row' = [row EXCEPT !.bm = bm]
        /\ IF Unfinished
           THEN Open(bm)
           ELSE pull' = NoPull /\ UNCHANGED <<part, reqs>>
  BY DEF Restart
<1>3. row \in Row /\ pull \in Pull /\ bm \in SUBSET Chunks
  BY <1>2 DEF IInv, DiskTypes, PullTypes, Row, Pull
<1>4. /\ row' \in Row /\ row'.bm = bm /\ row'.stored = row.stored /\ row'.done = row.done
      /\ row'.path = row.path
  BY <1>2, <1>3 DEF Row
<1>5. CASE Unfinished
  <2>1. /\ part' \in File /\ part' = Opened
        /\ pull' \in Pull /\ reqs' \subseteq SUBSET Chunks
        /\ pull'.on /\ pull'.linked /\ pull'.bm = bm /\ pull'.data = part'
    BY <1>2, <1>3, <1>5, OpenKeeps
  <2>2. ~torn' => \A i \in bm : part # NoFile /\ part[i] # 0
    <3>1. CASE bm = row.bm
      BY <1>1, <1>5, <3>1 DEF IInv, BitmapIsBacked, Unfinished
    <3>2. CASE pull.on /\ pc = "select" /\ row.stored /\ bm = pull.bm
      <4>1. pull.linked /\ part = pull.data /\ part \in File
        BY <3>2 DEF IInv, PullIsOpen, DeletedStaysDeleted, PullTypes
      <4>. QED BY <1>1, <3>2, <4>1, Files DEF IInv, PullIsBacked
    <3>. QED BY <1>2, <3>1, <3>2
  <2>3. ~torn' => \A i \in bm : part' # NoFile /\ part'[i] # 0
    BY <2>1, <2>2 DEF Opened
  <2>4. SenderTypes' /\ DiskTypes' /\ QueueTypes'
    BY <1>1, <1>4, <2>1 DEF IInv, SenderTypes, DiskTypes, QueueTypes
  <2>5. PullTypes'
    BY <1>1, <1>4, <2>1 DEF IInv, PullTypes
  <2>6. DeleteTypes'
    BY <1>1, BlobBoundsAssumption DEF IInv, DeleteTypes, Idle
  <2>7. PullIsOpen'
    BY <1>1, <1>4, <2>1 DEF IInv, PullIsOpen
  <2>8. OneManifest'
    BY <1>1, <1>4 DEF IInv, OneManifest, Idle
  <2>9. DeletedStaysDeleted'
    BY <1>1, <1>4, <2>1 DEF IInv, DeletedStaysDeleted
  <2>10. RowFirst'
    BY <1>1, <1>4 DEF IInv, RowFirst, Idle
  <2>11. DoneIsPromised' /\ Finishing'
    BY <1>1, <1>4, <2>1 DEF IInv, DoneIsPromised, Finishing
  <2>12. BitmapIsBacked'
    BY <1>4, <2>3 DEF IInv, BitmapIsBacked
  <2>13. PullIsBacked'
    BY <2>1, <2>3 DEF IInv, PullIsBacked
  <2>. QED
    BY <2>4, <2>5, <2>6, <2>7, <2>8, <2>9, <2>10, <2>11, <2>12, <2>13 DEF IInv
<1>6. CASE ~Unfinished
  <2>1. pull' = NoPull /\ UNCHANGED <<part, reqs>>
    BY <1>2, <1>6
  <2>2. SenderTypes' /\ DiskTypes' /\ QueueTypes'
    BY <1>1, <1>4, <2>1, NoPullType DEF IInv, SenderTypes, DiskTypes, QueueTypes
  <2>3. PullTypes'
    BY <1>1, <1>4, <2>1, NoPullType DEF IInv, PullTypes
  <2>4. DeleteTypes'
    BY <1>1, BlobBoundsAssumption DEF IInv, DeleteTypes, Idle
  <2>5. PullIsOpen'
    BY <1>1, <1>4, <2>1, NoPullType DEF IInv, PullIsOpen
  <2>6. OneManifest'
    BY <1>1, <1>4 DEF IInv, OneManifest, Idle
  <2>7. DeletedStaysDeleted'
    BY <1>1, <1>4, <2>1, NoPullType DEF IInv, DeletedStaysDeleted
  <2>8. RowFirst'
    BY <1>1, <1>4 DEF IInv, RowFirst, Idle
  <2>9. DoneIsPromised' /\ Finishing'
    BY <1>1, <1>4, <2>1, NoPullType DEF IInv, DoneIsPromised, Finishing
  <2>10. PullIsBacked'
    BY <1>1, <1>4, <2>1, NoPullType DEF IInv, PullIsBacked
  <2>11. BitmapIsBacked'
    BY <1>4, <1>6 DEF IInv, BitmapIsBacked, Unfinished
  <2>. QED
    BY <2>2, <2>3, <2>4, <2>5, <2>6, <2>7, <2>8, <2>9, <2>10, <2>11 DEF IInv
<1>. QED BY <1>5, <1>6

LEMMA StutterKeeps ==
  ASSUME IInv, UNCHANGED vars PROVE IInv'
<1>1. UNCHANGED <<offer, source, manifest, reqs, chunks, row, part, final, hook, newPulls,
                  dropPulls, pull, pc, del, deleted, torn, faults>>
  BY DEF vars, senderVars, net, disk, runVars, history
<1>2. SenderTypes' /\ DiskTypes' /\ QueueTypes'
  BY <1>1 DEF IInv, SenderTypes, DiskTypes, QueueTypes
<1>3. PullTypes' /\ DeleteTypes'
  BY <1>1 DEF IInv, PullTypes, DeleteTypes
<1>4. PullIsOpen' /\ OneManifest'
  BY <1>1 DEF IInv, PullIsOpen, OneManifest
<1>5. RowFirst' /\ DeletedStaysDeleted'
  BY <1>1 DEF IInv, RowFirst, DeletedStaysDeleted
<1>6. DoneIsPromised' /\ Finishing'
  BY <1>1 DEF IInv, DoneIsPromised, Finishing
<1>7. BitmapIsBacked' /\ PullIsBacked'
  BY <1>1 DEF IInv, BitmapIsBacked, PullIsBacked
<1>. QED
  BY <1>2, <1>3, <1>4, <1>5, <1>6, <1>7 DEF IInv

-----------------------------------------------------------------------------
(* The theorems                                                            *)

\* The invariant holds of every execution of the sender, the receiver's two goroutines,
\* the deletion and the restarts.
THEOREM BlobInvariant == Spec => []IInv
<1>1. IInv /\ [Next]_vars => IInv'
  <2>. SUFFICES ASSUME IInv, [Next]_vars PROVE IInv'
    OBVIOUS
  <2>1. CASE Sender \/ Network
    BY <2>1, OutsideKeeps
  <2>2. CASE Delivery
    BY <2>2, OnManifestKeeps, ManifestHookKeeps DEF Delivery
  <2>3. CASE Run
    BY <2>3, StartPullKeeps, DropPullKeeps, TickKeeps, AcceptChunkKeeps, RenameKeeps, RecordKeeps
    DEF Run
  <2>4. CASE DeleteFile
    BY <2>4, DeleteStartKeeps, DeleteRowKeeps, DeleteFilesKeeps DEF DeleteFile
  <2>5. CASE RecordFails \/ DeleteFails \/ Restart
    BY <2>5, RecordFailsKeeps, DeleteFailsKeeps, RestartKeeps
  <2>6. CASE UNCHANGED vars
    BY <2>6, StutterKeeps
  <2>. QED BY <2>1, <2>2, <2>3, <2>4, <2>5, <2>6 DEF Next
<1>. QED BY InitHolds, <1>1, PTL DEF Spec

\* Every variable has its type, for any number of chunks: the bitmap of a pull that is
\* being finished is full, and an open file that is still the .part has its content.
THEOREM BlobTypes == Spec => []TypeOK
BY BlobInvariant, IInvTypes, PTL

\* A file reported as received is on the disk and is what the manifest promised, wherever
\* finishPull, DeleteFile and the restarts interleave (finishPull: hash, rename, record).
THEOREM BlobPromised == Spec => []DoneIsPromised
<1>1. IInv => DoneIsPromised
  BY DEF IInv
<1>. QED BY BlobInvariant, <1>1, PTL

\* What the stored bitmap marks has been written, so a restart loses no chunk, except
\* after a rename that was not recorded (acceptChunk, persistPull, startPull).
THEOREM BlobBacked == Spec => []BitmapIsBacked
<1>1. IInv => BitmapIsBacked
  BY DEF IInv
<1>. QED BY BlobInvariant, <1>1, PTL

\* The pull that goes on after DeleteFile never brings the row back (FileProgress,
\* FilePath).
THEOREM BlobDeleted == Spec => []DeletedStaysDeleted
<1>1. IInv => DeletedStaysDeleted
  BY DEF IInv
<1>. QED BY BlobInvariant, <1>1, PTL

=============================================================================
