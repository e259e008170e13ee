-------------------------- MODULE TransferLink_proofs --------------------------
(***************************************************************************)
(* Proof, for images of any length and any number of pictures, transfer     *)
(* ids, lost or late replies and power losses, that an upload of            *)
(* TransferLink puts every chunk in its place and that the phone calls      *)
(* nothing accepted but what the card committed.                           *)
(***************************************************************************)
EXTENDS TransferLink, NCTransfer_proofs, SequenceTheorems

-----------------------------------------------------------------------------
(* The invariant.                                                          *)

Frame(type, id, seq, off, body) ==
    [type |-> type, tid |-> id, seq |-> seq, off |-> off, body |-> body]

StatusFrame == Frame("STATUS", 0, 0, 0, <<>>)

StartBody == [format : {"mono"}, plane : {1}, clean : BOOLEAN, crc : {Image(p) : p \in Picture}]

\* The frame that brings the work w on picture p forward.
WorkFrame(w, p) ==
    IF ~ w.started
    THEN Frame("START", w.id, 0, 0,
               [format |-> "mono", plane |-> 1, clean |-> w.clean, crc |-> Image(p)])
    ELSE IF w.off < ImageSize
    THEN Frame("DATA", w.id, w.seq, w.off, <<Image(p)[w.off + 1]>>)
    ELSE Frame("COMMIT", w.id, w.seq, w.off, <<>>)

IsStart(f) == f.type = "START" /\ f.tid \in TransferID /\ f.seq = 0 /\ f.off = 0 /\ f.body \in StartBody

IsData(f) ==
    /\ f.type = "DATA" /\ f.tid \in TransferID /\ f.off \in 0 .. ImageSize - 1
    /\ f.seq = f.off + 1 /\ \E c \in Chunk : f.body = <<c>>

IsCommit(f) ==
    /\ f.type = "COMMIT" /\ f.tid \in TransferID /\ f.off = ImageSize /\ f.seq = f.off + 1
    /\ f.body = <<>>

FrameType(f) == f = StatusFrame \/ IsStart(f) \/ IsData(f) \/ IsCommit(f)

Reply == [type : Exchange, tid : TransferID \cup {0}, seq : 0 .. ImageSize + 1,
          error : {"NONE", "TRANSFER_ID"}, state : {"RECEIVING", "CHARGING"},
          eseq : 0 .. ImageSize + 2, eoff : 0 .. ImageSize, pending : BOOLEAN]

Buffer == [1 .. ImageSize -> Chunk \cup {None}]

Prepared == [tid : TransferID, seq : {ImageSize + 2}, clean : BOOLEAN, image : Buffer]

MessageInv ==
    /\ outbox \in Reply \cup {None}
    /\ host \in Reply \cup {None}
    /\ rf = None \/ FrameType(rf)
    /\ stored \in Prepared \cup {None}

PhoneInv ==
    /\ run \in {"off", "status", "upload", "done"}
    /\ picture \in Picture
    /\ clean \in BOOLEAN
    /\ work \in Work \cup {None}
    /\ recoveryCount \in 0 .. 3
    /\ sent = None \/ FrameType(sent)

\* The card's transfer tr, its buffer b and its state st.
Session(tr, b, st) ==
    /\ DOMAIN tr = DOMAIN ResetTransfer
    /\ b \in Buffer
    /\ tr.active \in BOOLEAN /\ tr.committed \in BOOLEAN
    /\ st = IF tr.committed THEN "CHARGING" ELSE "RECEIVING"
    /\ ~ tr.active => tr = ResetTransfer
    /\ tr.active =>
        /\ tr.tid \in TransferID
        /\ tr.clean \in BOOLEAN
        /\ tr.off \in 0 .. ImageSize
        /\ tr.seq = IF tr.committed THEN ImageSize + 2 ELSE tr.off + 1
        /\ tr.committed => tr.off = ImageSize
        /\ tr.crc = NoCrc => tr.committed
        /\ tr.crc # NoCrc => /\ tr.crc \in {Image(p) : p \in Picture}
                             /\ \A i \in 1 .. tr.off : b[i] = tr.crc[i]
        /\ tr.last.type = "START" => ~ tr.committed /\ tr.off = 0
        /\ tr.last.type = "DATA" => ~ tr.committed
        /\ tr.last.type = "COMMIT" => tr.committed

\* There is one message on its way, if any, and none after a run that
\* ended well.  (A reply that waits behind a new frame is never published.)
OneMessage ==
    /\ host # None => rf = None /\ outbox = None
    /\ run = "done" => rf = None /\ outbox = None /\ host = None /\ sent = None

\* The card is in the transfer of this work.
InTransfer == work # None /\ t.active /\ t.tid = work.id

WorkInv ==
    /\ work # None /\ work.started =>
           work.seq = IF work.committed THEN ImageSize + 2 ELSE work.off + 1
    /\ work # None /\ work.committed => run = "done" /\ work.started /\ work.off = ImageSize
    /\ run = "done" => work # None /\ work.committed
    /\ run = "upload" => work # None

\* Where the card is when it is in the phone's transfer: at the phone's place,
\* or one frame further, and then it remembers that frame.
PlaceInv ==
    InTransfer =>
        /\ t.crc \in {Image(picture), NoCrc}
        /\ run = "upload" => t.crc # NoCrc
        /\ ~ work.started => t.off = 0 /\ ~ t.committed
        /\ work.started =>
             \/ t.seq = work.seq /\ t.off = work.off /\ (t.committed => work.committed)
             \/ /\ work.off < ImageSize /\ ~ t.committed
                /\ t.last = remember(WorkFrame(work, picture))
                /\ t.seq = work.seq + 1 /\ t.off = work.off + 1
             \/ /\ work.off = ImageSize /\ t.committed
                /\ t.crc # NoCrc => t.last = remember(WorkFrame(work, picture))
                /\ t.seq = work.seq + 1

\* What Flash holds under the id of this work, the card is in.
StoredInv ==
    stored # None /\ work # None /\ stored.tid = work.id => InTransfer /\ t.committed

\* A frame of the card's session repeats the last one or is the next one.
Fits(tr, f) ==
    \/ ~ tr.active \/ tr.tid # f.tid
    \/ is_duplicate(tr, f)
    \/ /\ tr.seq = f.seq /\ tr.off = f.off /\ ~ tr.committed
       /\ f.type = "DATA" => f.body = <<tr.crc[f.off + 1]>>

FrameInv ==
    /\ rf # None /\ rf.type # "STATUS" /\ work # None => rf = WorkFrame(work, picture)
    /\ rf # None /\ rf.type \in {"DATA", "COMMIT"} => Fits(t, rf)
    /\ sent # None => \/ run = "status" /\ sent = StatusFrame
                      \/ run = "upload" /\ sent = WorkFrame(work, picture)

\* A reply tells where the card still is, and is about the frame the phone
\* would send again.
Answers(m) ==
    m # None =>
        /\ m.eseq = t.seq /\ m.eoff = t.off /\ m.state = state
        /\ m.error = "TRANSFER_ID" => m.type \in {"DATA", "COMMIT"} /\ ~ (t.active /\ t.tid = m.tid)
        /\ m.error = "NONE" /\ m.type = "START" => t.active /\ ~ t.committed /\ t.off = 0
        /\ m.error = "NONE" /\ m.type \in {"DATA", "COMMIT"} =>
               t.active /\ t.tid = m.tid /\ t.last.type = m.type
        /\ m.type # "STATUS" /\ work # None =>
               /\ m.tid = work.id
               /\ m.type = WorkFrame(work, picture).type
               /\ m.seq = WorkFrame(work, picture).seq

ReplyInv == Answers(outbox) /\ Answers(host)

LinkInv ==
    /\ MessageInv
    /\ PhoneInv
    /\ Session(t, buf, state)
    /\ OneMessage
    /\ WorkInv
    /\ PlaceInv
    /\ StoredInv
    /\ FrameInv
    /\ ReplyInv

-----------------------------------------------------------------------------
(* Images, sessions and frames.                                            *)

LEMMA ImagesAreWhole ==
  ASSUME NEW p \in Picture
  PROVE  /\ Image(p) # NoCrc
         /\ Image(p) \in Buffer
         /\ \A i \in 1 .. ImageSize : Image(p)[i] = <<p, i>>
<1>1. \A i \in 1 .. ImageSize : Image(p)[i] = <<p, i>>
  BY DEF Image
<1>2. Image(p) \in Buffer
  BY DEF Image, Buffer, Chunk
<1>3. DOMAIN Image(p) = 1 .. ImageSize
  BY DEF Image
<1>4. 1 \in DOMAIN Image(p)
  BY <1>3, LinkAssumption
<1>5. 1 \notin DOMAIN NoCrc
  BY DEF NoCrc
<1>6. QED
  BY <1>1, <1>2, <1>4, <1>5

LEMMA EqualBuffers ==
  ASSUME NEW a \in Buffer, NEW b \in Buffer, \A i \in 1 .. ImageSize : a[i] = b[i]
  PROVE  a = b
<1>1. /\ a = [i \in 1 .. ImageSize |-> a[i]]
      /\ b = [i \in 1 .. ImageSize |-> b[i]]
  BY DEF Buffer
<1>2. [i \in 1 .. ImageSize |-> a[i]] = [i \in 1 .. ImageSize |-> b[i]]
  OBVIOUS
<1>3. QED
  BY <1>1, <1>2

LEMMA SamePrefixes ==
  ASSUME NEW a, NEW b, NEW n \in Nat, \A i \in 1 .. n : a[i] = b[i]
  PROVE  SubSeq(a, 1, n) = SubSeq(b, 1, n)
<1> DEFINE S == {b[i] : i \in 1 .. n}
<1>1. \A i \in 1 .. n : a[i] \in S /\ b[i] \in S
  OBVIOUS
<1>2. /\ SubSeq(a, 1, n) \in Seq(S) /\ SubSeq(b, 1, n) \in Seq(S)
      /\ Len(SubSeq(a, 1, n)) = IF 1 <= n THEN n - 1 + 1 ELSE 0
      /\ Len(SubSeq(b, 1, n)) = IF 1 <= n THEN n - 1 + 1 ELSE 0
      /\ \A i \in 1 .. n - 1 + 1 : SubSeq(a, 1, n)[i] = a[1 + i - 1]
      /\ \A i \in 1 .. n - 1 + 1 : SubSeq(b, 1, n)[i] = b[1 + i - 1]
  BY <1>1, SubSeqProperties
<1> HIDE DEF S
<1>3. Len(SubSeq(a, 1, n)) = n /\ Len(SubSeq(b, 1, n)) = n
  BY <1>2
<1>4. \A i \in 1 .. n : SubSeq(a, 1, n)[i] = SubSeq(b, 1, n)[i]
  BY <1>2
<1>5. QED
  BY <1>2, <1>3, <1>4, SeqEqual

LEMMA ResetFields ==
  /\ ResetTransfer.active = FALSE /\ ResetTransfer.committed = FALSE
  /\ ResetTransfer.tid = 0 /\ ResetTransfer.seq = 0 /\ ResetTransfer.off = 0
  /\ ResetTransfer.crc = NoCrc
BY DEF ResetTransfer

\* The types of what a reply copies from the transfer.
LEMMA SessionTypes ==
  ASSUME NEW tr, NEW b, NEW st, Session(tr, b, st)
  PROVE  /\ tr.tid \in TransferID \cup {0}
         /\ tr.seq \in 0 .. ImageSize + 2
         /\ tr.off \in 0 .. ImageSize
         /\ st \in {"RECEIVING", "CHARGING"}
         /\ tr.committed => tr.active
<1>1. CASE tr.active
  BY <1>1, LinkAssumption DEF Session
<1>2. CASE ~ tr.active
  <2>1. tr = ResetTransfer
    BY <1>2 DEF Session
  <2>2. QED
    BY <2>1, ResetFields, LinkAssumption DEF Session
<1>3. QED
  BY <1>1, <1>2

\* A committed image is whole.
LEMMA CommittedIsWhole ==
  ASSUME NEW tr, NEW b, NEW st, Session(tr, b, st),
         tr.active, tr.off = ImageSize, tr.crc # NoCrc
  PROVE  b = tr.crc
<1>1. tr.crc \in {Image(p) : p \in Picture}
  BY DEF Session
<1>2. tr.crc \in Buffer
  BY <1>1, ImagesAreWhole
<1>3. \A i \in 1 .. ImageSize : b[i] = tr.crc[i]
  BY DEF Session
<1>4. b \in Buffer
  BY DEF Session
<1>5. QED
  BY <1>2, <1>3, <1>4, EqualBuffers

LEMMA WorkFrameType ==
  ASSUME NEW w \in Work, NEW p \in Picture,
         w.started => w.seq = w.off + 1
  PROVE  /\ FrameType(WorkFrame(w, p))
         /\ WorkFrame(w, p).tid = w.id
         /\ WorkFrame(w, p).off = IF w.started THEN w.off ELSE 0
         /\ WorkFrame(w, p).seq = IF w.started THEN w.seq ELSE 0
         /\ WorkFrame(w, p).type = IF ~ w.started THEN "START"
                                   ELSE IF w.off < ImageSize THEN "DATA" ELSE "COMMIT"
<1> DEFINE f == WorkFrame(w, p)
<1>0. w.id \in TransferID /\ w.off \in 0 .. ImageSize /\ w.started \in BOOLEAN /\ w.clean \in BOOLEAN
  BY DEF Work
<1>1. CASE ~ w.started
  <2> DEFINE body == [format |-> "mono", plane |-> 1, clean |-> w.clean, crc |-> Image(p)]
  <2>1. body \in StartBody
    BY <1>0 DEF StartBody
  <2> HIDE DEF body
  <2>2. f = Frame("START", w.id, 0, 0, body)
    BY <1>1 DEF WorkFrame, body
  <2>3. f.type = "START" /\ f.tid = w.id /\ f.seq = 0 /\ f.off = 0 /\ f.body = body
    BY <2>2 DEF Frame
  <2>4. IsStart(f)
    BY <2>1, <2>3, <1>0 DEF IsStart
  <2>5. QED
    BY <2>3, <2>4, <1>1 DEF FrameType
<1>2. CASE w.started /\ w.off < ImageSize
  <2> DEFINE c == Image(p)[w.off + 1]
  <2> w.off + 1 \in 1 .. ImageSize
    BY <1>0, <1>2, LinkAssumption
  <2>1. c \in Chunk
    <3>1. c = <<p, w.off + 1>>
      BY ImagesAreWhole
    <3>2. QED
      BY <3>1 DEF Chunk
  <2> HIDE DEF c
  <2>2. f = Frame("DATA", w.id, w.seq, w.off, <<c>>)
    BY <1>2 DEF WorkFrame, c
  <2>3. f.type = "DATA" /\ f.tid = w.id /\ f.seq = w.seq /\ f.off = w.off /\ f.body = <<c>>
    BY <2>2 DEF Frame
  <2>4. w.off \in 0 .. ImageSize - 1 /\ w.seq = w.off + 1
    BY <1>0, <1>2, LinkAssumption
  <2>5. IsData(f)
    BY <2>1, <2>3, <2>4, <1>0 DEF IsData
  <2>6. QED
    BY <2>3, <2>5, <1>2 DEF FrameType
<1>3. CASE w.started /\ ~ w.off < ImageSize
  <2>1. f = Frame("COMMIT", w.id, w.seq, w.off, <<>>)
    BY <1>3 DEF WorkFrame
  <2>2. f.type = "COMMIT" /\ f.tid = w.id /\ f.seq = w.seq /\ f.off = w.off /\ f.body = <<>>
    BY <2>1 DEF Frame
  <2>3. w.off = ImageSize /\ w.seq = w.off + 1
    BY <1>0, <1>3, LinkAssumption
  <2>4. IsCommit(f)
    BY <2>2, <2>3, <1>0 DEF IsCommit
  <2>5. QED
    BY <2>2, <2>4, <1>3 DEF FrameType
<1>4. QED
  BY <1>0, <1>1, <1>2, <1>3

-----------------------------------------------------------------------------
(* What the card makes of a frame.                                         *)

\* The results r of the frames f that the transfer tr and the buffer b accept.
Opened(tr, f) ==
    /\ DOMAIN tr = DOMAIN ResetTransfer
    /\ tr.active = TRUE /\ tr.committed = FALSE
    /\ tr.tid = f.tid /\ tr.seq = 1 /\ tr.off = 0
    /\ tr.crc = f.body.crc /\ tr.clean = f.body.clean /\ tr.last = remember(f)

StartOutcome(tr, b, f, r) ==
    /\ r.buf = b /\ r.error = "NONE" /\ r.result \in {"DUPLICATE", "ACCEPTED"}
    /\ (r.t = tr /\ tr.active /\ tr.last.type = "START") \/ Opened(r.t, f)

DataOutcome(tr, f, r) ==
    /\ r.error = "NONE" /\ r.result = "ACCEPTED"
    /\ Session(r.t, r.buf, "RECEIVING")
    /\ SameSession(r.t, tr) /\ r.t.committed = FALSE
    /\ r.t.seq = f.seq + 1 /\ r.t.off = f.off + 1 /\ r.t.last = remember(f)

CommitOutcome(tr, f, r) ==
    /\ r.error = "NONE" /\ r.result = "COMMITTED"
    /\ Session(r.t, r.buf, "CHARGING")
    /\ SameSession(r.t, tr) /\ r.t.committed = TRUE
    /\ r.t.seq = f.seq + 1 /\ r.t.off = f.off /\ r.t.last = remember(f)

\* A START is repeated or opens its session.
LEMMA StartApplies ==
  ASSUME NEW tr, NEW b, NEW f, IsStart(f),
         NEW r, r = nc_transfer_apply(tr, b, f)
  PROVE  StartOutcome(tr, b, f, r)
<1>1. r = ApplyStart(tr, b, f)
  BY DEF nc_transfer_apply, IsStart
<1>2. f.seq = 0 /\ f.off = 0 /\ f.body.format = "mono" /\ f.body.plane = 1
  BY DEF IsStart, StartBody
<1>3. CASE is_duplicate(tr, f) /\ tr.active
  <2>1. r = Replied(tr, b, "DUPLICATE", "NONE")
    BY <1>1, <1>3 DEF ApplyStart
  <2>2. tr.last.type = "START"
    BY <1>3 DEF is_duplicate, IsStart
  <2>3. QED
    BY <2>1, <2>2, <1>3 DEF Replied, StartOutcome
<1>4. CASE ~ (is_duplicate(tr, f) /\ tr.active)
  <2> DEFINE new == [ResetTransfer EXCEPT
               !.active = TRUE, !.tid = f.tid, !.seq = 1, !.crc = f.body.crc,
               !.clean = f.body.clean, !.format = f.body.format,
               !.plane = IF f.body.format = "gray" THEN f.body.plane ELSE 0,
               !.last = remember(f)]
  <2>1. r = Replied(new, b, "ACCEPTED", "NONE")
    BY <1>1, <1>2, <1>4 DEF ApplyStart
  <2>2. /\ DOMAIN new = DOMAIN ResetTransfer
        /\ new.active = TRUE /\ new.committed = FALSE
    BY DEF ResetTransfer
  <2>3. new.tid = f.tid /\ new.seq = 1 /\ new.off = 0
    BY DEF ResetTransfer
  <2>4. new.crc = f.body.crc /\ new.clean = f.body.clean /\ new.last = remember(f)
    BY DEF ResetTransfer
  <2> HIDE DEF new
  <2>5. r.t = new /\ r.buf = b /\ r.error = "NONE" /\ r.result = "ACCEPTED"
    BY <2>1 DEF Replied
  <2>6. QED
    BY <2>2, <2>3, <2>4, <2>5 DEF StartOutcome, Opened
<1>5. QED
  BY <1>3, <1>4

\* The transfer after an accepted START is a session.
LEMMA OpenedSession ==
  ASSUME NEW tr, NEW b \in Buffer, NEW f, IsStart(f),
         Opened(tr, f)
  PROVE  Session(tr, b, "RECEIVING")
<1> USE DEF Opened
<1>1. f.tid \in TransferID /\ f.body.clean \in BOOLEAN /\ f.body.crc \in {Image(p) : p \in Picture}
  BY DEF IsStart, StartBody
<1>2. tr.crc # NoCrc
  BY <1>1, ImagesAreWhole
<1>3. tr.last.type = "START"
  BY DEF remember, IsStart
<1>4. 0 \in 0 .. ImageSize /\ 1 .. 0 = {}
  BY LinkAssumption
<1>5. tr.off \in 0 .. ImageSize /\ tr.seq = tr.off + 1
  BY <1>4
<1>6. \A i \in 1 .. tr.off : b[i] = tr.crc[i]
  BY <1>4
<1>7. QED
  BY <1>1, <1>2, <1>3, <1>5, <1>6 DEF Session

\* A frame of another session is refused and one applied already is not
\* applied again.
LEMMA FrameRefusedOrRepeated ==
  ASSUME NEW tr, NEW b, NEW f, f.type \in {"DATA", "COMMIT"},
         NEW r, r = nc_transfer_apply(tr, b, f)
  PROVE  /\ ~ tr.active \/ tr.tid # f.tid =>
               r.t = tr /\ r.buf = b /\ r.error = "TRANSFER_ID" /\ r.result = "REJECTED"
         /\ tr.active /\ tr.tid = f.tid /\ is_duplicate(tr, f) =>
               r.t = tr /\ r.buf = b /\ r.error = "NONE" /\ r.result = "DUPLICATE"
<1>1. r = ApplyInSession(tr, b, f)
  BY DEF nc_transfer_apply
<1>2. ASSUME ~ tr.active \/ tr.tid # f.tid
      PROVE  r = Replied(tr, b, "REJECTED", "TRANSFER_ID")
  BY <1>1, <1>2 DEF ApplyInSession, Reject
<1>3. ASSUME tr.active, tr.tid = f.tid, is_duplicate(tr, f)
      PROVE  r = Replied(tr, b, "DUPLICATE", "NONE")
  BY <1>1, <1>3 DEF ApplyInSession
<1>4. QED
  BY <1>2, <1>3 DEF Replied

LEMMA NextNumber ==
  ASSUME NEW n \in 0 .. ImageSize + 1
  PROVE  (n + 1) % SeqModulus = n + 1
<1>1. \A m, k \in Nat : m < k => m % k = m
  OBVIOUS
<1>2. SeqModulus \in Nat
  BY SeqNumbers
<1>3. n + 1 \in Nat /\ n + 1 < SeqModulus
  BY <1>2, LinkAssumption
<1>4. QED
  BY <1>1, <1>2, <1>3

\* A DATA in its place fills the next chunk of the image.
LEMMA DataApplies ==
  ASSUME NEW tr, NEW b, Session(tr, b, "RECEIVING"), NEW f, IsData(f),
         tr.active, tr.tid = f.tid, ~ is_duplicate(tr, f),
         tr.seq = f.seq, tr.off = f.off, ~ tr.committed,
         f.body = <<tr.crc[f.off + 1]>>,
         NEW r, r = nc_transfer_apply(tr, b, f)
  PROVE  DataOutcome(tr, f, r)
<1> DEFINE adv == Advanced(tr, f)
           new == [adv EXCEPT !.off = @ + Len(f.body)]
           image == CopyChunks(b, tr.off, f.body)
<1>1. /\ f.type = "DATA" /\ f.off \in 0 .. ImageSize - 1 /\ f.seq = f.off + 1
      /\ f.tid \in TransferID
  BY DEF IsData
<1>2. PICK c \in Chunk : f.body = <<c>>
  BY DEF IsData
<1>3. c = tr.crc[f.off + 1]
  BY <1>2
<1>4. Len(f.body) = 1 /\ f.body # <<>> /\ f.body[1] = c
  BY <1>2
<1>5. tr.off + Len(f.body) = f.off + 1 /\ ~ tr.off + Len(f.body) > ImageSize
  BY <1>1, <1>4, LinkAssumption
<1>6. r = ApplyData(tr, b, f)
  BY <1>1 DEF nc_transfer_apply, ApplyInSession
<1>7. r = Replied(new, image, "ACCEPTED", "NONE")
  BY <1>4, <1>5, <1>6 DEF ApplyData
<1>8. r.t = new /\ r.buf = image /\ r.result = "ACCEPTED" /\ r.error = "NONE"
  BY <1>7 DEF Replied
<1>9. DOMAIN tr = DOMAIN ResetTransfer
  BY DEF Session
<1>10. /\ DOMAIN adv = DOMAIN ResetTransfer
       /\ SameSession(adv, tr)
       /\ adv.committed = tr.committed /\ adv.off = tr.off /\ adv.last = remember(f)
       /\ adv.seq = (tr.seq + 1) % SeqModulus
  BY <1>9, AdvancedFields
<1>11. f.seq \in 0 .. ImageSize + 1
  BY <1>1, LinkAssumption
<1>12. adv.seq = f.seq + 1
  BY <1>10, <1>11, NextNumber
<1> HIDE DEF adv
<1>13. adv.off + Len(f.body) = f.off + 1
  BY <1>5, <1>10
<1>14. new = [adv EXCEPT !.off = f.off + 1]
  BY <1>13
<1> HIDE DEF new
<1>15. /\ DOMAIN new = DOMAIN ResetTransfer
       /\ SameSession(new, adv)
       /\ new.off = f.off + 1 /\ new.seq = adv.seq /\ new.last = adv.last
       /\ new.committed = adv.committed
  BY <1>10, <1>14, OffSet
<1>16. SameSession(new, tr)
  BY <1>10, <1>15 DEF SameSession
<1>17. tr.committed = FALSE
  BY DEF Session
<1>18. new.last.type = "DATA" /\ new.committed = FALSE
  BY <1>1, <1>10, <1>15, <1>17 DEF remember
<1>19. \A i \in 1 .. ImageSize : image[i] = IF i = f.off + 1 THEN c ELSE b[i]
  <2> SUFFICES ASSUME NEW i \in 1 .. ImageSize
               PROVE  image[i] = IF i = f.off + 1 THEN c ELSE b[i]
    OBVIOUS
  <2>1. image[i] = IF tr.off < i /\ i <= tr.off + Len(f.body) THEN f.body[i - tr.off] ELSE b[i]
    BY DEF CopyChunks
  <2>2. CASE i = f.off + 1
    <3>1. tr.off < i /\ i <= tr.off + Len(f.body) /\ i - tr.off = 1
      BY <1>1, <1>4, <2>2, LinkAssumption
    <3>2. QED
      BY <2>1, <2>2, <3>1, <1>4
  <2>3. CASE i # f.off + 1
    <3>1. ~ (tr.off < i /\ i <= tr.off + Len(f.body))
      BY <1>1, <1>4, <2>3, LinkAssumption
    <3>2. QED
      BY <2>1, <2>3, <3>1
  <2>4. QED
    BY <2>2, <2>3
<1>20. image \in Buffer
  <2>1. image = [i \in 1 .. ImageSize |-> image[i]]
    BY DEF CopyChunks
  <2>2. b \in Buffer
    BY DEF Session
  <2>3. \A i \in 1 .. ImageSize : image[i] \in Chunk \cup {None}
    BY <1>19, <2>2 DEF Buffer
  <2> HIDE DEF image
  <2>4. QED
    BY <2>1, <2>3 DEF Buffer
<1> HIDE DEF image
<1>21. tr.crc # NoCrc /\ tr.crc \in {Image(p) : p \in Picture} /\ tr.clean \in BOOLEAN
  BY DEF Session
<1>22. \A i \in 1 .. f.off : b[i] = tr.crc[i]
  BY <1>21 DEF Session
<1>23. \A i \in 1 .. f.off + 1 : image[i] = tr.crc[i]
  BY <1>1, <1>3, <1>19, <1>22, LinkAssumption
<1>24. f.off + 1 \in 0 .. ImageSize /\ new.seq = new.off + 1
  BY <1>1, <1>12, <1>15, LinkAssumption
<1>25. new.active = TRUE /\ new.tid = f.tid /\ new.crc = tr.crc /\ new.clean = tr.clean
  BY <1>16 DEF SameSession, Session
<1>26. Session(new, image, "RECEIVING")
  BY <1>1, <1>15, <1>18, <1>20, <1>21, <1>23, <1>24, <1>25 DEF Session
<1>27. QED
  BY <1>8, <1>10, <1>12, <1>15, <1>16, <1>18, <1>26 DEF DataOutcome

\* A COMMIT in its place commits the image.
LEMMA CommitApplies ==
  ASSUME NEW tr, NEW b, Session(tr, b, "RECEIVING"), NEW f, IsCommit(f),
         tr.active, tr.tid = f.tid, ~ is_duplicate(tr, f),
         tr.seq = f.seq, tr.off = f.off, ~ tr.committed,
         NEW r, r = nc_transfer_apply(tr, b, f)
  PROVE  CommitOutcome(tr, f, r)
<1> DEFINE adv == Advanced(tr, f)
           new == [adv EXCEPT !.committed = TRUE]
<1>1. /\ f.type = "COMMIT" /\ f.off = ImageSize /\ f.seq = f.off + 1 /\ f.body = <<>>
      /\ f.tid \in TransferID
  BY DEF IsCommit
<1>2. tr.crc # NoCrc /\ tr.crc \in {Image(p) : p \in Picture} /\ tr.clean \in BOOLEAN
  BY DEF Session
<1>3. b = tr.crc
  BY <1>1, <1>2, CommittedIsWhole
<1>4. r = ApplyCommit(tr, b, f)
  BY <1>1 DEF nc_transfer_apply, ApplyInSession
<1>5. r = Replied(new, b, "COMMITTED", "NONE")
  BY <1>1, <1>3, <1>4 DEF ApplyCommit
<1>6. r.t = new /\ r.buf = b /\ r.result = "COMMITTED" /\ r.error = "NONE"
  BY <1>5 DEF Replied
<1>7. DOMAIN tr = DOMAIN ResetTransfer
  BY DEF Session
<1>8. /\ DOMAIN adv = DOMAIN ResetTransfer
      /\ SameSession(adv, tr)
      /\ adv.off = tr.off /\ adv.last = remember(f)
      /\ adv.seq = (tr.seq + 1) % SeqModulus
  BY <1>7, AdvancedFields
<1>9. f.seq \in 0 .. ImageSize + 1
  <2>1. ImageSize + 1 \in 0 .. ImageSize + 1
    BY LinkAssumption
  <2>2. QED
    BY <1>1, <2>1
<1>10. adv.seq = f.seq + 1
  BY <1>8, <1>9, NextNumber
<1> HIDE DEF adv
<1>11. new = [adv EXCEPT !.committed = TRUE]
  OBVIOUS
<1> HIDE DEF new
<1>12. /\ DOMAIN new = DOMAIN ResetTransfer
       /\ SameSession(new, adv)
       /\ new.off = adv.off /\ new.seq = adv.seq /\ new.last = adv.last
       /\ new.committed = TRUE
  BY <1>8, <1>11, CommittedSet
<1>13. SameSession(new, tr)
  BY <1>8, <1>12 DEF SameSession
<1>14. new.last.type = "COMMIT"
  BY <1>1, <1>8, <1>12 DEF remember
<1>15. new.active = TRUE /\ new.tid = f.tid /\ new.crc = tr.crc /\ new.clean = tr.clean
  BY <1>13 DEF SameSession, Session
<1>16. new.off = ImageSize /\ new.off \in 0 .. ImageSize /\ new.seq = ImageSize + 2
  BY <1>1, <1>8, <1>10, <1>12, LinkAssumption
<1>17. b \in Buffer
  BY DEF Session
<1>18. Session(new, b, "CHARGING")
  <2>1. \A i \in 1 .. new.off : b[i] = new.crc[i]
    BY <1>3, <1>15
  <2>2. new.crc # NoCrc /\ new.crc \in {Image(p) : p \in Picture} /\ new.clean \in BOOLEAN
    BY <1>2, <1>15
  <2>3. QED
    BY <2>1, <2>2, <1>1, <1>12, <1>14, <1>15, <1>16, <1>17 DEF Session
<1>19. QED
  BY <1>6, <1>8, <1>10, <1>12, <1>13, <1>18 DEF CommitOutcome

-----------------------------------------------------------------------------
(* The steps of the card.                                                  *)

LEMMA FrameFields ==
  ASSUME NEW f, FrameType(f)
  PROVE  /\ f.type \in Exchange
         /\ f.tid \in TransferID \cup {0}
         /\ f.seq \in 0 .. ImageSize + 1
         /\ f.type = "STATUS" => f = StatusFrame
         /\ f.type = "START" => IsStart(f)
         /\ f.type = "DATA" => IsData(f)
         /\ f.type = "COMMIT" => IsCommit(f)
<1>0. 0 \in 0 .. ImageSize + 1 /\ ImageSize + 1 \in 0 .. ImageSize + 1
  BY LinkAssumption
<1>1. CASE f = StatusFrame
  <2>1. f.type = "STATUS" /\ f.tid = 0 /\ f.seq = 0
    BY <1>1 DEF StatusFrame, Frame
  <2>2. QED
    BY <2>1, <1>0, <1>1 DEF Exchange
<1>2. CASE IsStart(f)
  BY <1>0, <1>2 DEF IsStart, Exchange
<1>3. CASE IsData(f)
  <2>1. f.off + 1 \in 0 .. ImageSize + 1
    BY <1>3, LinkAssumption DEF IsData
  <2>2. QED
    BY <2>1, <1>3 DEF IsData, Exchange
<1>4. CASE IsCommit(f)
  BY <1>0, <1>4 DEF IsCommit, Exchange
<1>5. QED
  BY <1>1, <1>2, <1>3, <1>4 DEF FrameType

LEMMA ReplyFields ==
  ASSUME NEW f, NEW r, NEW st
  PROVE  /\ CardReply(f, r, st).type = f.type /\ CardReply(f, r, st).tid = f.tid
         /\ CardReply(f, r, st).seq = f.seq /\ CardReply(f, r, st).error = r.error
         /\ CardReply(f, r, st).state = st
         /\ CardReply(f, r, st).eseq = r.t.seq /\ CardReply(f, r, st).eoff = r.t.off
BY DEF CardReply

\* What the card does with the frame in the mailbox: it answers and stays as
\* it is, or the session is opened, moved on by a chunk, or committed.
CardStays ==
    /\ t' = t /\ buf' = buf /\ state' = state
    /\ outbox'.error \in {"NONE", "TRANSFER_ID"}
    /\ outbox'.error = "TRANSFER_ID" =>
           rf.type \in {"DATA", "COMMIT"} /\ ~ (t.active /\ t.tid = rf.tid)
    /\ outbox'.error = "NONE" /\ rf.type = "START" => t.active /\ t.last.type = "START"
    /\ outbox'.error = "NONE" /\ rf.type \in {"DATA", "COMMIT"} =>
           t.active /\ t.tid = rf.tid /\ t.last.type = rf.type

CardOpens ==
    /\ rf.type = "START" /\ outbox'.error = "NONE" /\ state' = "RECEIVING"
    /\ t'.active = TRUE /\ t'.committed = FALSE /\ t'.tid = rf.tid /\ t'.off = 0
    /\ t'.crc = rf.body.crc

CardMovesOn ==
    /\ rf.type \in {"DATA", "COMMIT"} /\ outbox'.error = "NONE"
    /\ t.active /\ t.tid = rf.tid /\ ~ t.committed
    /\ SameSession(t', t)
    /\ t'.seq = rf.seq + 1 /\ t'.last = remember(rf)
    /\ IF rf.type = "DATA" THEN t'.off = rf.off + 1 /\ t'.committed = FALSE
                           ELSE t'.off = rf.off /\ t'.committed = TRUE

LEMMA CardHandleCases ==
  ASSUME LinkInv, CardHandle
  PROVE  /\ Session(t, buf, state)'
         /\ CardStays \/ CardOpens \/ CardMovesOn
         /\ outbox'.type = rf.type /\ outbox'.tid = rf.tid /\ outbox'.seq = rf.seq
         /\ outbox'.state = state' /\ outbox'.eseq = t'.seq /\ outbox'.eoff = t'.off
<1> DEFINE r == nc_transfer_apply(t, buf, rf)
           st == IF rf.type = "START" /\ r.result # "REJECTED" THEN "RECEIVING"
                 ELSE IF r.result = "COMMITTED" THEN "CHARGING"
                 ELSE state
<1>1. /\ rf # None
      /\ t' = r.t /\ buf' = r.buf /\ state' = st
      /\ outbox' = CardReply(rf, r, st)
  BY DEF CardHandle
<1>2. FrameType(rf) /\ Session(t, buf, state)
  BY <1>1 DEF LinkInv, MessageInv
<1>0. r = nc_transfer_apply(t, buf, rf)
  OBVIOUS
<1> HIDE DEF r
<1>3. /\ outbox'.type = rf.type /\ outbox'.tid = rf.tid /\ outbox'.seq = rf.seq
      /\ outbox'.state = state' /\ outbox'.eseq = t'.seq /\ outbox'.eoff = t'.off
      /\ outbox'.error = r.error
  BY <1>1, ReplyFields
<1>4. CASE rf.type = "STATUS"
  <2>1. r = Replied(t, buf, "STATUS_ONLY", "NONE")
    BY <1>0, <1>4 DEF nc_transfer_apply
  <2>2. r.t = t /\ r.buf = buf /\ r.result = "STATUS_ONLY" /\ r.error = "NONE"
    BY <2>1 DEF Replied
  <2>3. t' = t /\ buf' = buf /\ state' = state
    BY <2>2, <1>1, <1>4
  <2>4. CardStays
    BY <2>2, <2>3, <1>3, <1>4 DEF CardStays
  <2>5. QED
    BY <2>3, <2>4, <1>2, <1>3
<1>5. CASE rf.type = "START"
  <2>1. IsStart(rf)
    BY <1>2, <1>5, FrameFields
  <2> StartOutcome(t, buf, rf, r)
    BY <2>1, <1>0, StartApplies
  <2>2. /\ r.buf = buf /\ r.error = "NONE" /\ r.result \in {"DUPLICATE", "ACCEPTED"}
        /\ (r.t = t /\ t.active /\ t.last.type = "START") \/ Opened(r.t, rf)
    BY DEF StartOutcome
  <2>3. state' = "RECEIVING" /\ buf' = buf
    BY <2>2, <1>1, <1>5
  <2>4. CASE r.t = t /\ t.active /\ t.last.type = "START"
    <3>1. t' = t /\ state' = state
      BY <2>3, <2>4, <1>1, <1>2 DEF Session
    <3>2. CardStays
      BY <3>1, <2>2, <2>3, <2>4, <1>3, <1>5 DEF CardStays
    <3>3. QED
      BY <3>1, <3>2, <2>3, <1>2, <1>3
  <2>5. CASE Opened(r.t, rf)
    <3>1. buf \in Buffer
      BY <1>2 DEF Session
    <3>2. Session(r.t, buf, "RECEIVING")
      BY <2>1, <2>5, <3>1, OpenedSession
    <3>3. CardOpens
      BY <2>2, <2>3, <2>5, <1>1, <1>3, <1>5 DEF CardOpens, Opened
    <3>4. QED
      BY <3>2, <3>3, <2>3, <1>1, <1>3
  <2>6. QED
    BY <2>2, <2>4, <2>5
<1>6. CASE rf.type \in {"DATA", "COMMIT"}
  <2>1. Fits(t, rf)
    BY <1>1, <1>6 DEF LinkInv, FrameInv
  <2>2. CASE ~ t.active \/ t.tid # rf.tid
    <3>1. r.t = t /\ r.buf = buf /\ r.error = "TRANSFER_ID" /\ r.result = "REJECTED"
      BY <1>6, <2>2, <1>0, FrameRefusedOrRepeated
    <3>2. t' = t /\ buf' = buf /\ state' = state
      BY <3>1, <1>1
    <3>3. CardStays
      BY <3>1, <3>2, <2>2, <1>3, <1>6 DEF CardStays
    <3>4. QED
      BY <3>2, <3>3, <1>2, <1>3
  <2>3. CASE t.active /\ t.tid = rf.tid /\ is_duplicate(t, rf)
    <3>1. r.t = t /\ r.buf = buf /\ r.error = "NONE" /\ r.result = "DUPLICATE"
      BY <1>6, <2>3, <1>0, FrameRefusedOrRepeated
    <3>2. t' = t /\ buf' = buf /\ state' = state
      BY <3>1, <1>1, <1>6
    <3>3. t.last.type = rf.type
      BY <2>3 DEF is_duplicate
    <3>4. CardStays
      BY <3>1, <3>2, <3>3, <2>3, <1>3, <1>6 DEF CardStays
    <3>5. QED
      BY <3>2, <3>4, <1>2, <1>3
  <2>4. CASE t.active /\ t.tid = rf.tid /\ ~ is_duplicate(t, rf)
    <3>1. /\ t.seq = rf.seq /\ t.off = rf.off /\ ~ t.committed
          /\ rf.type = "DATA" => rf.body = <<t.crc[rf.off + 1]>>
      BY <2>1, <2>4 DEF Fits
    <3>2. Session(t, buf, "RECEIVING")
      BY <3>1, <1>2 DEF Session
    <3>3. CASE rf.type = "DATA"
      <4>1. IsData(rf)
        BY <3>3, <1>2, FrameFields
      <4> DataOutcome(t, rf, r)
        BY <4>1, <3>1, <3>2, <3>3, <2>4, <1>0, DataApplies
      <4>2. /\ r.error = "NONE" /\ r.result = "ACCEPTED"
            /\ Session(r.t, r.buf, "RECEIVING")
            /\ SameSession(r.t, t) /\ r.t.committed = FALSE
            /\ r.t.seq = rf.seq + 1 /\ r.t.off = rf.off + 1 /\ r.t.last = remember(rf)
        BY DEF DataOutcome
      <4>3. state = "RECEIVING" /\ state' = "RECEIVING"
        BY <4>2, <3>1, <3>3, <1>1, <1>2 DEF Session
      <4>4. CardMovesOn
        BY <4>2, <3>1, <3>3, <2>4, <1>1, <1>3 DEF CardMovesOn
      <4>5. QED
        BY <4>2, <4>3, <4>4, <1>1, <1>3
    <3>4. CASE rf.type = "COMMIT"
      <4>1. IsCommit(rf)
        BY <3>4, <1>2, FrameFields
      <4> CommitOutcome(t, rf, r)
        BY <4>1, <3>1, <3>2, <2>4, <1>0, CommitApplies
      <4>2. /\ r.error = "NONE" /\ r.result = "COMMITTED"
            /\ Session(r.t, r.buf, "CHARGING")
            /\ SameSession(r.t, t) /\ r.t.committed = TRUE
            /\ r.t.seq = rf.seq + 1 /\ r.t.off = rf.off /\ r.t.last = remember(rf)
        BY DEF CommitOutcome
      <4>3. state' = "CHARGING"
        BY <4>2, <3>4, <1>1
      <4>4. CardMovesOn
        BY <4>2, <3>1, <3>4, <2>4, <1>1, <1>3 DEF CardMovesOn
      <4>5. QED
        BY <4>2, <4>3, <4>4, <1>1, <1>3
    <3>5. QED
      BY <3>3, <3>4, <1>6
  <2>5. QED
    BY <2>2, <2>3, <2>4
<1>7. QED
  BY <1>2, <1>4, <1>5, <1>6, FrameFields DEF Exchange

LEMMA SomeFrame ==
  ASSUME LinkInv, CardHandle
  PROVE  /\ rf # None /\ outbox = None /\ host = None /\ rf' = None /\ host' = None
         /\ FrameType(rf) /\ Session(t, buf, state) /\ run # "done"
         /\ UNCHANGED <<stored, run, picture, clean, work, sent, recoveryCount>>
         /\ rf.type # "STATUS" /\ work # None => rf = WorkFrame(work, picture)
BY DEF LinkInv, MessageInv, OneMessage, FrameInv, CardHandle, phoneVars

LEMMA SomeWork ==
  ASSUME LinkInv, work # None
  PROVE  /\ work \in Work /\ picture \in Picture
         /\ work.started => work.seq = IF work.committed THEN ImageSize + 2 ELSE work.off + 1
         /\ run # "done" =>
              /\ work.committed = FALSE
              /\ work.started => work.seq = work.off + 1
<1>1. work \in Work /\ picture \in Picture
  BY DEF LinkInv, PhoneInv
<1>2. work.committed \in BOOLEAN
  BY <1>1 DEF Work
<1>3. QED
  BY <1>1, <1>2 DEF LinkInv, WorkInv

LEMMA ReplyRecord ==
  ASSUME NEW a \in Exchange, NEW b \in TransferID \cup {0}, NEW c \in 0 .. ImageSize + 1,
         NEW d \in {"NONE", "TRANSFER_ID"}, NEW e \in {"RECEIVING", "CHARGING"},
         NEW f \in 0 .. ImageSize + 2, NEW g \in 0 .. ImageSize, NEW h \in BOOLEAN
  PROVE  [type |-> a, tid |-> b, seq |-> c, error |-> d, state |-> e, eseq |-> f,
          eoff |-> g, pending |-> h] \in Reply
BY DEF Reply

LEMMA ReplyInReply ==
  ASSUME LinkInv, CardHandle
  PROVE  outbox' \in Reply
<1>1. outbox' = [type |-> outbox'.type, tid |-> outbox'.tid, seq |-> outbox'.seq,
                 error |-> outbox'.error, state |-> outbox'.state, eseq |-> outbox'.eseq,
                 eoff |-> outbox'.eoff, pending |-> (stored # None)]
  BY DEF CardHandle, CardReply
<1>2. /\ Session(t, buf, state)'
      /\ CardStays \/ CardOpens \/ CardMovesOn
      /\ outbox'.type = rf.type /\ outbox'.tid = rf.tid /\ outbox'.seq = rf.seq
      /\ outbox'.state = state' /\ outbox'.eseq = t'.seq /\ outbox'.eoff = t'.off
  BY CardHandleCases
<1>3. /\ t'.seq \in 0 .. ImageSize + 2 /\ t'.off \in 0 .. ImageSize
      /\ state' \in {"RECEIVING", "CHARGING"}
  <2>1. Session(t', buf', state')
    BY <1>2
  <2>2. QED
    BY <2>1, SessionTypes
<1>4. outbox'.error \in {"NONE", "TRANSFER_ID"}
  BY <1>2 DEF CardStays, CardOpens, CardMovesOn
<1>5. rf.type \in Exchange /\ rf.tid \in TransferID \cup {0} /\ rf.seq \in 0 .. ImageSize + 1
  BY SomeFrame, FrameFields
<1>6. /\ outbox'.type \in Exchange /\ outbox'.tid \in TransferID \cup {0}
      /\ outbox'.seq \in 0 .. ImageSize + 1
      /\ outbox'.error \in {"NONE", "TRANSFER_ID"}
      /\ outbox'.state \in {"RECEIVING", "CHARGING"}
      /\ outbox'.eseq \in 0 .. ImageSize + 2
      /\ outbox'.eoff \in 0 .. ImageSize
  BY <1>2, <1>3, <1>4, <1>5
<1>7. QED
  <2> DEFINE h == stored # None
  <2>1. h \in BOOLEAN
    OBVIOUS
  <2>2. outbox' = [type |-> outbox'.type, tid |-> outbox'.tid, seq |-> outbox'.seq,
                   error |-> outbox'.error, state |-> outbox'.state, eseq |-> outbox'.eseq,
                   eoff |-> outbox'.eoff, pending |-> h]
    BY <1>1
  <2> HIDE DEF h
  <2>3. [type |-> outbox'.type, tid |-> outbox'.tid, seq |-> outbox'.seq,
         error |-> outbox'.error, state |-> outbox'.state, eseq |-> outbox'.eseq,
         eoff |-> outbox'.eoff, pending |-> h] \in Reply
    BY <1>6, <2>1, ReplyRecord
  <2>4. QED
    BY <2>2, <2>3, Zenon

\* The session and what the phone and Flash have of it.
LEMMA StayingKeeps ==
  ASSUME LinkInv, CardHandle, CardStays
  PROVE  PlaceInv' /\ StoredInv' /\ Answers(outbox)'
<1>1. /\ UNCHANGED <<t, buf, state, stored, run, picture, clean, work>>
      /\ FrameType(rf)
      /\ rf.type # "STATUS" /\ work # None => rf = WorkFrame(work, picture)
  BY SomeFrame DEF CardStays
<1>2. PlaceInv'
  BY <1>1 DEF LinkInv, PlaceInv, InTransfer
<1>3. StoredInv'
  BY <1>1 DEF LinkInv, StoredInv, InTransfer
<1>4. /\ outbox'.type = rf.type /\ outbox'.tid = rf.tid /\ outbox'.seq = rf.seq
      /\ outbox'.state = state' /\ outbox'.eseq = t'.seq /\ outbox'.eoff = t'.off
  BY CardHandleCases
<1>5. t.active /\ t.last.type = "START" => ~ t.committed /\ t.off = 0
  BY DEF LinkInv, Session
<1>6. rf.type # "STATUS" /\ work # None =>
        /\ rf.tid = work.id
        /\ rf.type = WorkFrame(work, picture).type
        /\ rf.seq = WorkFrame(work, picture).seq
  BY <1>1, SomeWork, SomeFrame, WorkFrameType
<1>7. Answers(outbox)'
  BY <1>1, <1>4, <1>5, <1>6 DEF CardStays, Answers
<1>8. QED
  BY <1>2, <1>3, <1>7

LEMMA OpeningKeeps ==
  ASSUME LinkInv, CardHandle, CardOpens
  PROVE  PlaceInv' /\ StoredInv' /\ Answers(outbox)'
<1>1. /\ UNCHANGED <<stored, run, picture, clean, work>>
      /\ FrameType(rf) /\ IsStart(rf) /\ run # "done"
      /\ work # None => rf = WorkFrame(work, picture)
  BY SomeFrame, FrameFields DEF CardOpens
<1>2. /\ outbox'.type = rf.type /\ outbox'.tid = rf.tid /\ outbox'.seq = rf.seq
      /\ outbox'.state = state' /\ outbox'.eseq = t'.seq /\ outbox'.eoff = t'.off
  BY CardHandleCases
<1>3. CASE work = None
  <2>1. PlaceInv' /\ StoredInv'
    BY <1>1, <1>3 DEF PlaceInv, StoredInv, InTransfer
  <2>2. Answers(outbox)'
    BY <1>1, <1>2, <1>3 DEF Answers, CardOpens
  <2>3. QED
    BY <2>1, <2>2
<1>4. CASE work # None
  <2>1. /\ rf = WorkFrame(work, picture) /\ rf.tid = work.id
        /\ work.started \in BOOLEAN
        /\ rf.type = IF ~ work.started THEN "START"
                     ELSE IF work.off < ImageSize THEN "DATA" ELSE "COMMIT"
    BY <1>1, <1>4, SomeWork, WorkFrameType DEF Work
  <2>2. ~ work.started
    BY <2>1 DEF CardOpens
  <2>3. rf.body.crc = Image(picture)
    <3>1. rf.body = [format |-> "mono", plane |-> 1, clean |-> work.clean, crc |-> Image(picture)]
      BY <2>1, <2>2 DEF WorkFrame, Frame
    <3>2. QED
      BY <3>1
  <2>4. Image(picture) # NoCrc
    BY <1>4, SomeWork, ImagesAreWhole
  <2>5. PlaceInv'
    BY <1>1, <2>2, <2>3, <2>4 DEF PlaceInv, InTransfer, CardOpens
  <2>6. ~ (stored # None /\ stored.tid = work.id)
    BY <1>4, <2>2 DEF LinkInv, StoredInv, PlaceInv
  <2>7. StoredInv'
    BY <1>1, <2>6 DEF StoredInv
  <2>8. Answers(outbox)'
    BY <1>1, <1>2, <2>1 DEF Answers, CardOpens
  <2>9. QED
    BY <2>5, <2>7, <2>8
<1>5. QED
  BY <1>3, <1>4

LEMMA MovingOnKeeps ==
  ASSUME LinkInv, CardHandle, CardMovesOn
  PROVE  PlaceInv' /\ StoredInv' /\ Answers(outbox)'
<1>1. /\ UNCHANGED <<stored, run, picture, clean, work>>
      /\ FrameType(rf) /\ run # "done"
      /\ work # None => rf = WorkFrame(work, picture)
  BY SomeFrame DEF CardMovesOn
<1>2. /\ outbox'.type = rf.type /\ outbox'.tid = rf.tid /\ outbox'.seq = rf.seq
      /\ outbox'.state = state' /\ outbox'.eseq = t'.seq /\ outbox'.eoff = t'.off
  BY CardHandleCases
<1>3. /\ t'.active = t.active /\ t'.tid = t.tid /\ t'.crc = t.crc
      /\ t'.last = remember(rf) /\ t'.last.type = rf.type
      /\ t.active /\ t.tid = rf.tid
  BY DEF CardMovesOn, SameSession, remember
<1>4. CASE work = None
  <2>1. PlaceInv' /\ StoredInv'
    BY <1>1, <1>4 DEF PlaceInv, StoredInv, InTransfer
  <2>2. Answers(outbox)'
    BY <1>1, <1>2, <1>3, <1>4 DEF Answers, CardMovesOn
  <2>3. QED
    BY <2>1, <2>2
<1>5. CASE work # None
  <2>1. /\ work \in Work
        /\ rf = WorkFrame(work, picture) /\ rf.tid = work.id
        /\ rf.off = IF work.started THEN work.off ELSE 0
        /\ rf.seq = IF work.started THEN work.seq ELSE 0
        /\ rf.type = IF ~ work.started THEN "START"
                     ELSE IF work.off < ImageSize THEN "DATA" ELSE "COMMIT"
    BY <1>1, <1>5, SomeWork, WorkFrameType
  <2>2. work.started = TRUE
    BY <2>1 DEF CardMovesOn, Work
  <2>3. rf.off = work.off /\ rf.seq = work.seq /\ work.off \in 0 .. ImageSize
    BY <2>1, <2>2 DEF Work
  <2>4. InTransfer /\ InTransfer'
    BY <1>1, <1>3, <1>5, <2>1 DEF InTransfer
  <2>5. t.crc \in {Image(picture), NoCrc} /\ (run = "upload" => t.crc # NoCrc)
    BY <2>4 DEF LinkInv, PlaceInv
  <2> t'.last = remember(WorkFrame(work', picture'))
    BY <1>1, <1>3, <2>1
  <2> /\ t'.crc \in {Image(picture'), NoCrc} /\ (run' = "upload" => t'.crc # NoCrc)
      /\ work'.started = TRUE
    BY <1>1, <1>3, <2>2, <2>5
  <2>6. ASSUME rf.type = "DATA" PROVE PlaceInv'
    <3>1. work.off < ImageSize
      BY <2>1, <2>2, <2>6
    <3>2. t'.seq = work.seq + 1 /\ t'.off = work.off + 1 /\ t'.committed = FALSE
      BY <2>3, <2>6 DEF CardMovesOn
    <3>3. QED
      BY <1>1, <3>1, <3>2 DEF PlaceInv
  <2>7. ASSUME rf.type = "COMMIT" PROVE PlaceInv'
    <3>1. work.off = ImageSize
      <4>1. ~ work.off < ImageSize
        BY <2>1, <2>2, <2>7
      <4>2. QED
        BY <2>3, <4>1, LinkAssumption
    <3>2. t'.seq = work.seq + 1 /\ t'.committed = TRUE
      BY <2>3, <2>7 DEF CardMovesOn
    <3>3. QED
      BY <1>1, <3>1, <3>2 DEF PlaceInv
  <2>8. PlaceInv'
    BY <2>6, <2>7 DEF CardMovesOn
  <2>9. ~ (stored # None /\ stored.tid = work.id)
    BY <1>5 DEF LinkInv, StoredInv, CardMovesOn
  <2>10. StoredInv'
    BY <1>1, <2>9 DEF StoredInv
  <2>11. Answers(outbox)'
    BY <1>1, <1>2, <1>3, <2>1 DEF Answers, CardMovesOn
  <2>12. QED
    BY <2>8, <2>10, <2>11
<1>6. QED
  BY <1>4, <1>5

LEMMA CardHandleKeeps ==
  ASSUME LinkInv, CardHandle
  PROVE  LinkInv'
<1>1. /\ rf' = None /\ host' = None /\ run # "done"
      /\ UNCHANGED <<stored, run, picture, clean, work, sent, recoveryCount>>
  BY SomeFrame
<1>2. Session(t, buf, state)'
  BY CardHandleCases
<1>3. PlaceInv' /\ StoredInv' /\ Answers(outbox)'
  BY CardHandleCases, StayingKeeps, OpeningKeeps, MovingOnKeeps
<1>4. MessageInv'
  BY <1>1, ReplyInReply DEF LinkInv, MessageInv
<1>5. PhoneInv'
  BY <1>1 DEF LinkInv, PhoneInv
<1>6. OneMessage' /\ WorkInv'
  BY <1>1 DEF LinkInv, OneMessage, WorkInv
<1>7. FrameInv'
  BY <1>1 DEF LinkInv, FrameInv
<1>8. ReplyInv'
  BY <1>1, <1>3 DEF ReplyInv, Answers
<1>9. QED
  BY <1>2, <1>3, <1>4, <1>5, <1>6, <1>7, <1>8 DEF LinkInv

LEMMA CardPublishKeeps ==
  ASSUME LinkInv, CardPublish
  PROVE  LinkInv'
<1> USE DEF CardPublish, phoneVars
<1>1. MessageInv' /\ PhoneInv'
  BY DEF LinkInv, MessageInv, PhoneInv
<1>2. Session(t, buf, state)'
  BY DEF LinkInv, Session
<1>3. OneMessage' /\ WorkInv'
  BY DEF LinkInv, OneMessage, WorkInv
<1>4. PlaceInv' /\ StoredInv'
  BY DEF LinkInv, PlaceInv, StoredInv, InTransfer
<1>5. FrameInv'
  BY DEF LinkInv, FrameInv
<1>6. ReplyInv'
  BY DEF LinkInv, ReplyInv, Answers
<1>7. QED
  BY <1>1, <1>2, <1>3, <1>4, <1>5, <1>6 DEF LinkInv

LEMMA CardGivesUpKeeps ==
  ASSUME LinkInv, CardGivesUp
  PROVE  LinkInv'
<1> USE DEF CardGivesUp, phoneVars
<1>1. MessageInv' /\ PhoneInv'
  BY DEF LinkInv, MessageInv, PhoneInv
<1>2. Session(t, buf, state)'
  BY DEF LinkInv, Session
<1>3. OneMessage' /\ WorkInv'
  BY DEF LinkInv, OneMessage, WorkInv
<1>4. PlaceInv' /\ StoredInv'
  BY DEF LinkInv, PlaceInv, StoredInv, InTransfer
<1>5. FrameInv'
  BY DEF LinkInv, FrameInv, Fits
<1>6. ReplyInv'
  BY DEF LinkInv, ReplyInv, Answers
<1>7. QED
  BY <1>1, <1>2, <1>3, <1>4, <1>5, <1>6 DEF LinkInv

\* What is staged is the committed image, under the card's transfer id.
LEMMA CardStageKeeps ==
  ASSUME LinkInv, CardStage
  PROVE  LinkInv'
<1> USE DEF CardStage, phoneVars
<1>1. Session(t, buf, state)
  BY DEF LinkInv
<1>2. t.committed
  BY <1>1 DEF Session
<1>3. t.active
  BY <1>1, <1>2, SessionTypes
<1>4. t.tid \in TransferID /\ t.seq = ImageSize + 2 /\ t.clean \in BOOLEAN /\ buf \in Buffer
  BY <1>1, <1>2, <1>3 DEF Session
<1>5. stored' \in Prepared
  BY <1>4 DEF Prepared
<1>6. stored'.tid = t.tid
  OBVIOUS
<1>7. MessageInv' /\ PhoneInv'
  BY <1>5 DEF LinkInv, MessageInv, PhoneInv
<1>8. Session(t, buf, state)'
  BY DEF LinkInv, Session
<1>9. OneMessage' /\ WorkInv'
  BY DEF LinkInv, OneMessage, WorkInv
<1>10. PlaceInv'
  BY DEF LinkInv, PlaceInv, InTransfer
<1>11. StoredInv'
  BY <1>2, <1>3, <1>6 DEF StoredInv, InTransfer
<1>12. FrameInv'
  BY DEF LinkInv, FrameInv
<1>13. ReplyInv'
  BY DEF LinkInv, ReplyInv, Answers
<1>14. QED
  BY <1>7, <1>8, <1>9, <1>10, <1>11, <1>12, <1>13 DEF LinkInv

LEMMA ResumedFields ==
  ASSUME NEW s
  PROVE  /\ DOMAIN Resumed(s) = DOMAIN ResetTransfer
         /\ Resumed(s).active = TRUE /\ Resumed(s).committed = TRUE
         /\ Resumed(s).tid = s.tid /\ Resumed(s).seq = s.seq /\ Resumed(s).clean = s.clean
         /\ Resumed(s).off = ImageSize /\ Resumed(s).crc = NoCrc
         /\ Resumed(s).last.type = "NONE"
<1> USE DEF Resumed, ResetTransfer, NothingRemembered
<1>1. DOMAIN Resumed(s) = DOMAIN ResetTransfer
  OBVIOUS
<1>2. Resumed(s).active = TRUE /\ Resumed(s).committed = TRUE
  OBVIOUS
<1>3. Resumed(s).tid = s.tid /\ Resumed(s).seq = s.seq /\ Resumed(s).clean = s.clean
  OBVIOUS
<1>4. Resumed(s).off = ImageSize /\ Resumed(s).crc = NoCrc
  OBVIOUS
<1>5. Resumed(s).last.type = "NONE"
  OBVIOUS
<1> HIDE DEF Resumed, ResetTransfer, NothingRemembered
<1>6. QED
  BY <1>1, <1>2, <1>3, <1>4, <1>5

LEMMA BlankSession == Session(ResetTransfer, BlankImage, "RECEIVING")
<1>1. BlankImage \in Buffer
  BY DEF BlankImage, Buffer
<1>2. QED
  BY <1>1, ResetFields DEF Session

\* A card that comes back from Flash in the phone's transfer is past COMMIT,
\* as it was before.
LEMMA PowerLossKeeps ==
  ASSUME LinkInv, PowerLoss
  PROVE  LinkInv'
<1>1. /\ outbox' = None /\ rf' = None /\ host' = None /\ sent' = None
      /\ run' \in {"done", "off"} /\ (run' = "done" <=> run = "done")
      /\ UNCHANGED <<stored, picture, clean, work, recoveryCount>>
  BY DEF PowerLoss
<1>2. ASSUME stored = None
      PROVE Session(t, buf, state)' /\ PlaceInv' /\ StoredInv'
  <2>1. t' = ResetTransfer /\ buf' = BlankImage /\ state' = "RECEIVING"
    BY <1>2 DEF PowerLoss
  <2>2. Session(t, buf, state)'
    BY <2>1, BlankSession
  <2>3. PlaceInv' /\ StoredInv'
    BY <1>1, <1>2, <2>1, ResetFields DEF PlaceInv, StoredInv, InTransfer
  <2>4. QED
    BY <2>2, <2>3
<1>3. ASSUME stored # None
      PROVE Session(t, buf, state)' /\ PlaceInv' /\ StoredInv'
  <2>1. /\ t' = Resumed(stored) /\ buf' = stored.image /\ state' = "CHARGING"
        /\ stored \in Prepared
    BY <1>3 DEF PowerLoss, LinkInv, MessageInv
  <2>2. /\ DOMAIN t' = DOMAIN ResetTransfer
        /\ t'.active = TRUE /\ t'.committed = TRUE
        /\ t'.tid = stored.tid /\ t'.seq = stored.seq /\ t'.clean = stored.clean
        /\ t'.off = ImageSize /\ t'.crc = NoCrc /\ t'.last.type = "NONE"
    BY <2>1, ResumedFields
  <2>3. /\ stored.tid \in TransferID /\ stored.seq = ImageSize + 2
        /\ stored.clean \in BOOLEAN /\ stored.image \in Buffer
    BY <2>1 DEF Prepared
  <2>4. t'.seq = ImageSize + 2 /\ t'.off \in 0 .. ImageSize
    BY <2>2, <2>3, LinkAssumption
  <2>5. Session(t', buf', state')
    BY <2>1, <2>2, <2>3, <2>4 DEF Session
  <2>6. StoredInv'
    BY <1>1, <2>2 DEF StoredInv, InTransfer
  <2>7. ASSUME InTransfer'
        PROVE  /\ work.started
               /\ \/ work.committed /\ work.seq = ImageSize + 2 /\ work.off = ImageSize
                  \/ work.seq + 1 = ImageSize + 2 /\ work.off = ImageSize
    <3>1. work # None /\ stored.tid = work.id
      BY <1>1, <2>2, <2>7 DEF InTransfer
    <3>2. InTransfer /\ t.committed
      BY <1>3, <3>1 DEF LinkInv, StoredInv
    <3>3. work.started
      BY <3>2 DEF LinkInv, PlaceInv
    <3>4. t.seq = ImageSize + 2
      BY <3>2 DEF LinkInv, Session, InTransfer
    <3>5. CASE t.seq = work.seq /\ t.off = work.off /\ (t.committed => work.committed)
      BY <3>1, <3>2, <3>3, <3>4, <3>5 DEF LinkInv, WorkInv
    <3>6. CASE work.off = ImageSize /\ t.seq = work.seq + 1
      BY <3>3, <3>4, <3>6
    <3>7. QED
      BY <3>2, <3>3, <3>5, <3>6 DEF LinkInv, PlaceInv
  <2>8. PlaceInv'
    BY <1>1, <2>2, <2>4, <2>7 DEF PlaceInv
  <2>9. QED
    BY <2>5, <2>6, <2>8
<1>4. Session(t, buf, state)' /\ PlaceInv' /\ StoredInv'
  BY <1>2, <1>3
<1>5. MessageInv' /\ PhoneInv'
  BY <1>1 DEF LinkInv, MessageInv, PhoneInv
<1>6. OneMessage' /\ WorkInv'
  BY <1>1 DEF LinkInv, OneMessage, WorkInv
<1>7. FrameInv' /\ ReplyInv'
  BY <1>1 DEF FrameInv, ReplyInv, Answers
<1>8. QED
  BY <1>4, <1>5, <1>6, <1>7 DEF LinkInv

-----------------------------------------------------------------------------
(* The steps of the phone.                                                 *)

\* Steps of the phone that leave the card and its mailbox alone, except that
\* they may take the reply out of it.
CardUntouched ==
    /\ UNCHANGED <<t, buf, state, outbox, stored, rf>>
    /\ host' \in {host, None}

LEMMA UntouchedCardKeeps ==
  ASSUME LinkInv, CardUntouched
  PROVE  MessageInv' /\ Session(t, buf, state)'
BY DEF CardUntouched, LinkInv, MessageInv, Session

LEMMA PhonePrepareKeeps ==
  ASSUME LinkInv, NEW p \in Picture, NEW c \in BOOLEAN, PhonePrepare(p, c)
  PROVE  LinkInv'
<1> USE DEF PhonePrepare, cardVars
<1>1. MessageInv' /\ Session(t, buf, state)'
  BY UntouchedCardKeeps DEF CardUntouched
<1>2. PhoneInv'
  BY DEF LinkInv, PhoneInv
<1>3. OneMessage' /\ WorkInv' /\ PlaceInv' /\ StoredInv'
  BY DEF LinkInv, OneMessage, WorkInv, PlaceInv, StoredInv, InTransfer
<1>4. FrameInv'
  BY DEF LinkInv, OneMessage, FrameInv
<1>5. ReplyInv'
  BY DEF LinkInv, ReplyInv, Answers
<1>6. QED
  BY <1>1, <1>2, <1>3, <1>4, <1>5 DEF LinkInv

LEMMA PhoneScanKeeps ==
  ASSUME LinkInv, PhoneScan
  PROVE  LinkInv'
<1> USE DEF PhoneScan, cardVars
<1>1. MessageInv' /\ Session(t, buf, state)'
  BY UntouchedCardKeeps DEF CardUntouched
<1>2. PhoneInv'
  BY DEF LinkInv, PhoneInv
<1>3. OneMessage' /\ WorkInv'
  BY DEF LinkInv, OneMessage, WorkInv
<1>4. PlaceInv' /\ StoredInv'
  BY DEF LinkInv, PlaceInv, StoredInv, InTransfer
<1>5. FrameInv'
  BY DEF LinkInv, FrameInv
<1>6. ReplyInv'
  BY DEF LinkInv, ReplyInv, Answers
<1>7. QED
  BY <1>1, <1>2, <1>3, <1>4, <1>5, <1>6 DEF LinkInv

\* The frame of a run that uploads.
LEMMA NextFrameOfUpload ==
  /\ run = "status" => NextFrame = StatusFrame
  /\ run = "upload" => NextFrame = WorkFrame(work, picture)
BY DEF NextFrame, StatusFrame, WorkFrame, Frame

\* An exchange that failed: the run ends, or its DATA is sent again.
LEMMA FailingKeeps ==
  ASSUME LinkInv, CardUntouched, NEW f, ExchangeFails(f), InExchange,
         f.type = "DATA" => run = "upload"
  PROVE  LinkInv'
<1>1. /\ run' \in {"upload", "off"} /\ (run' = "upload" => run = "upload")
      /\ sent' = None /\ UNCHANGED <<picture, clean, work, recoveryCount>>
      /\ run # "done"
  BY DEF ExchangeFails, InExchange
<1>2. MessageInv' /\ Session(t, buf, state)'
  BY UntouchedCardKeeps
<1>3. PhoneInv'
  BY <1>1 DEF LinkInv, PhoneInv
<1>4. OneMessage' /\ WorkInv'
  BY <1>1 DEF LinkInv, OneMessage, WorkInv, CardUntouched
<1>5. PlaceInv' /\ StoredInv'
  BY <1>1 DEF LinkInv, PlaceInv, StoredInv, InTransfer, CardUntouched
<1>6. FrameInv'
  BY <1>1 DEF LinkInv, FrameInv, CardUntouched
<1>7. ReplyInv'
  BY <1>1 DEF LinkInv, ReplyInv, Answers, CardUntouched
<1>8. QED
  BY <1>2, <1>3, <1>4, <1>5, <1>6, <1>7 DEF LinkInv

\* The frame the phone waits for is one of the run.
LEMMA SentFrame ==
  ASSUME LinkInv, sent # None
  PROVE  /\ InExchange
         /\ \/ run = "status" /\ sent = StatusFrame
            \/ run = "upload" /\ sent = WorkFrame(work, picture)
         /\ sent.type = "DATA" => run = "upload"
<1>1. StatusFrame.type = "STATUS"
  BY DEF StatusFrame, Frame
<1>2. QED
  BY <1>1 DEF LinkInv, FrameInv, InExchange

LEMMA PhoneMissesKeeps ==
  ASSUME LinkInv, PhoneMisses
  PROVE  LinkInv'
<1>1. CardUntouched /\ sent # None /\ ExchangeFails(sent)
  BY DEF PhoneMisses, CardUntouched, cardVars
<1>2. QED
  BY <1>1, SentFrame, FailingKeeps

LEMMA PhoneTimesOutKeeps ==
  ASSUME LinkInv, PhoneTimesOut
  PROVE  LinkInv'
<1>1. CardUntouched /\ sent # None /\ ExchangeFails(sent)
  BY DEF PhoneTimesOut, CardUntouched, cardVars
<1>2. QED
  BY <1>1, SentFrame, FailingKeeps

LEMMA PhoneLeavesEarlyKeeps ==
  ASSUME LinkInv, PhoneLeavesEarly
  PROVE  LinkInv'
<1>1. CardUntouched /\ sent # None /\ ExchangeFails(sent)
  BY DEF PhoneLeavesEarly, CardUntouched, cardVars
<1>2. QED
  BY <1>1, SentFrame, FailingKeeps

LEMMA PhoneFindsBusyKeeps ==
  ASSUME LinkInv, PhoneFindsBusy
  PROVE  LinkInv'
<1>1. CardUntouched /\ InExchange /\ ExchangeFails(NextFrame)
  BY DEF PhoneFindsBusy, CardUntouched, cardVars
<1>2. StatusFrame.type = "STATUS"
  BY DEF StatusFrame, Frame
<1>3. NextFrame.type = "DATA" => run = "upload"
  BY <1>1, <1>2, NextFrameOfUpload DEF InExchange
<1>4. QED
  BY <1>1, <1>3, FailingKeeps

\* The phone's next frame repeats the one the card remembers, or fits.
LEMMA NextFrameFits ==
  ASSUME LinkInv, run = "upload", WorkFrame(work, picture).type \in {"DATA", "COMMIT"}
  PROVE  Fits(t, WorkFrame(work, picture))
<1> DEFINE f == WorkFrame(work, picture)
<1>1. work # None
  BY DEF LinkInv, WorkInv
<1>2. /\ work \in Work /\ picture \in Picture /\ work.committed = FALSE
      /\ work.started => work.seq = work.off + 1
  BY <1>1, SomeWork
<1>3. /\ f.tid = work.id
      /\ f.off = IF work.started THEN work.off ELSE 0
      /\ f.seq = IF work.started THEN work.seq ELSE 0
      /\ f.type = IF ~ work.started THEN "START"
                  ELSE IF work.off < ImageSize THEN "DATA" ELSE "COMMIT"
  BY <1>2, WorkFrameType
<1>4. work.started
  BY <1>3
<1>5. SUFFICES ASSUME InTransfer
               PROVE  Fits(t, f)
  BY <1>1, <1>3 DEF Fits, InTransfer
<1>6. CASE t.seq = work.seq /\ t.off = work.off /\ (t.committed => work.committed)
  <2>1. t.crc = Image(picture)
    BY <1>5 DEF LinkInv, PlaceInv
  <2>2. f.type = "DATA" => f.body = <<Image(picture)[work.off + 1]>>
    BY <1>3, <1>4 DEF WorkFrame, Frame
  <2> HIDE DEF f
  <2>3. QED
    BY <1>2, <1>3, <1>4, <1>6, <2>1, <2>2 DEF Fits
<1>7. CASE t.last = remember(f)
  <2>1. is_duplicate(t, f)
    BY <1>7 DEF is_duplicate, remember
  <2>2. QED
    BY <2>1 DEF Fits
<1>8. QED
  BY <1>4, <1>5, <1>6, <1>7 DEF LinkInv, PlaceInv

\* The work w is v, but for how far it has been sent.
SameWork(w, v) ==
    /\ w.id = v.id /\ w.clean = v.clean /\ w.started = v.started
    /\ w.committed = v.committed /\ w.seq = v.seq /\ w.off = v.off

LEMMA SentWork ==
  ASSUME NEW w \in Work, NEW v, v = [w EXCEPT !.highestSentOffset = w.off + 1],
         w.off < ImageSize
  PROVE  v \in Work /\ SameWork(v, w)
<1>1. w.off + 1 \in 0 .. ImageSize
  <2>1. w.off \in 0 .. ImageSize
    BY DEF Work
  <2>2. QED
    BY <2>1, LinkAssumption
<1>2. v \in Work
  BY <1>1 DEF Work
<1>3. SameWork(v, w)
  BY DEF Work, SameWork
<1>4. QED
  BY <1>2, <1>3

LEMMA PhoneSendKeeps ==
  ASSUME LinkInv, PhoneSend
  PROVE  LinkInv'
<1>1. /\ sent = None /\ rf = None /\ host = None
      /\ sent' = NextFrame /\ rf' = NextFrame
      /\ UNCHANGED <<t, buf, state, outbox, stored, host, run, picture, clean, recoveryCount>>
      /\ run \in {"status", "upload"}
  BY DEF PhoneSend, cardVars, InExchange
<1>2. StatusFrame.type = "STATUS"
  BY DEF StatusFrame, Frame
<1>3. work # None => work \in Work /\ picture \in Picture /\ (work.started => work.seq = work.off + 1)
  BY <1>1, SomeWork
<1>4. run = "upload" => work # None
  BY DEF LinkInv, WorkInv
<1>5. FrameType(NextFrame)
  BY <1>1, <1>3, <1>4, NextFrameOfUpload, WorkFrameType DEF FrameType
<1>6. NextFrame.type = "DATA" => run = "upload" /\ work # None /\ work.off < ImageSize
  BY <1>1, <1>2, <1>3, <1>4, NextFrameOfUpload, WorkFrameType
<1>7. /\ work' = None <=> work = None
      /\ work # None => work' \in Work /\ SameWork(work', work)
  <2>1. CASE work' = work
    BY <1>3, <2>1 DEF SameWork
  <2>2. CASE work' # work
    <3>1. NextFrame.type = "DATA" /\ work' = [work EXCEPT !.highestSentOffset = work.off + 1]
      BY <2>2 DEF PhoneSend
    <3>2. work' \in Work /\ SameWork(work', work)
      BY <1>3, <1>6, <3>1, SentWork
    <3>3. QED
      BY <1>6, <3>1, <3>2, LinkAssumption
  <2>3. QED
    BY <2>1, <2>2
<1>8. work # None => WorkFrame(work', picture') = WorkFrame(work, picture)
  BY <1>1, <1>7 DEF WorkFrame, SameWork
<1>9. MessageInv'
  BY <1>1, <1>5 DEF LinkInv, MessageInv
<1>10. PhoneInv'
  BY <1>1, <1>5, <1>7 DEF LinkInv, PhoneInv
<1>11. Session(t, buf, state)'
  BY <1>1 DEF LinkInv, Session
<1>12. OneMessage'
  BY <1>1 DEF OneMessage
<1>13. WorkInv'
  BY <1>1, <1>7 DEF LinkInv, WorkInv, SameWork
<1>14. InTransfer' <=> InTransfer
  BY <1>1, <1>7 DEF InTransfer, SameWork
<1>15. PlaceInv'
  <2>1. SUFFICES ASSUME InTransfer
                 PROVE  PlaceInv'
    BY <1>14 DEF PlaceInv
  <2>2. /\ WorkFrame(work', picture') = WorkFrame(work, picture)
        /\ work'.started = work.started /\ work'.committed = work.committed
        /\ work'.seq = work.seq /\ work'.off = work.off
    BY <2>1, <1>7, <1>8 DEF InTransfer, SameWork
  <2>3. QED
    BY <1>1, <2>1, <2>2 DEF LinkInv, PlaceInv
<1>16. StoredInv'
  BY <1>1, <1>7, <1>14 DEF LinkInv, StoredInv, SameWork
<1>17. FrameInv'
  <2>1. NextFrame.type # "STATUS" => run = "upload" /\ NextFrame = WorkFrame(work, picture) /\ work # None
    BY <1>1, <1>2, <1>4, NextFrameOfUpload
  <2>2. NextFrame.type \in {"DATA", "COMMIT"} => Fits(t, NextFrame)
    BY <2>1, NextFrameFits
  <2>3. Fits(t, NextFrame) => Fits(t', rf')
    BY <1>1
  <2>4. \/ run' = "status" /\ sent' = StatusFrame
        \/ run' = "upload" /\ sent' = WorkFrame(work', picture')
    BY <1>1, <1>4, <1>8, NextFrameOfUpload
  <2>5. rf'.type # "STATUS" /\ work' # None => rf' = WorkFrame(work', picture')
    BY <1>1, <1>7, <1>8, <2>1
  <2>6. QED
    BY <1>1, <2>2, <2>3, <2>4, <2>5 DEF FrameInv
<1>18. ReplyInv'
  BY <1>1, <1>7, <1>8 DEF LinkInv, ReplyInv, Answers, SameWork
<1>19. QED
  BY <1>9, <1>10, <1>11, <1>12, <1>13, <1>15, <1>16, <1>17, <1>18 DEF LinkInv

\* With the reply read the mailbox is empty: what is left to show is about
\* the phone's work.
LEMMA EmptyMailboxKeeps ==
  ASSUME LinkInv, CardUntouched, host # None, host' = None, sent' = None,
         PhoneInv', WorkInv', PlaceInv', StoredInv'
  PROVE  LinkInv'
<1>1. MessageInv' /\ Session(t, buf, state)'
  BY UntouchedCardKeeps
<1>2. rf' = None /\ outbox' = None
  BY DEF LinkInv, OneMessage, CardUntouched
<1>3. OneMessage' /\ FrameInv' /\ ReplyInv'
  BY <1>2 DEF OneMessage, FrameInv, ReplyInv, Answers
<1>4. QED
  BY <1>1, <1>3 DEF LinkInv

LEMMA WorkRecord ==
  ASSUME NEW id \in TransferID, NEW c \in BOOLEAN, NEW a \in BOOLEAN, NEW b \in BOOLEAN,
         NEW seq \in 0 .. ImageSize + 2, NEW off \in 0 .. ImageSize,
         NEW highest \in 0 .. ImageSize
  PROVE  [id |-> id, clean |-> c, started |-> a, committed |-> b, seq |-> seq, off |-> off,
          highestSentOffset |-> highest] \in Work
BY DEF Work

\* A new transfer id is unknown to the card and to its Flash.
LEMMA NewWork ==
  ASSUME LinkInv, NEW c \in BOOLEAN,
         NEW w, w = [makeWork EXCEPT !.clean = c]
  PROVE  /\ w \in Work /\ w.started = FALSE /\ w.committed = FALSE
         /\ w.id # t.tid /\ (stored # None => w.id # stored.tid)
<1> DEFINE S == {t.tid, MessageID(stored), MessageID(outbox), MessageID(rf), MessageID(host)}
<1>1. t.tid \in TransferID \cup {0}
  BY SessionTypes DEF LinkInv
<1>2. MessageID(stored) \in TransferID \cup {0}
  BY DEF LinkInv, MessageInv, MessageID, Prepared
<1>3. MessageID(outbox) \in TransferID \cup {0}
  BY DEF LinkInv, MessageInv, MessageID, Reply
<1>4. MessageID(host) \in TransferID \cup {0}
  BY DEF LinkInv, MessageInv, MessageID, Reply
<1>5. MessageID(rf) \in TransferID \cup {0}
  BY FrameFields DEF LinkInv, MessageInv, MessageID
<1>6. TransferID \ S # {}
  BY <1>1, <1>2, <1>3, <1>4, <1>5, LinkAssumption
<1>7. FreshID \in TransferID \ S
  BY <1>6 DEF FreshID
<1>8. FreshID \in TransferID /\ FreshID # t.tid /\ FreshID # MessageID(stored)
  BY <1>7
<1>9. w = [id |-> FreshID, clean |-> c, started |-> FALSE, committed |-> FALSE,
           seq |-> 0, off |-> 0, highestSentOffset |-> 0]
  BY DEF makeWork
<1>10. 0 \in 0 .. ImageSize /\ 0 \in 0 .. ImageSize + 2
  BY LinkAssumption
<1>11. w \in Work
  <2>1. FALSE \in BOOLEAN
    OBVIOUS
  <2> DEFINE id == FreshID
  <2>2. id \in TransferID
    BY <1>8
  <2>3. w = [id |-> id, clean |-> c, started |-> FALSE, committed |-> FALSE,
             seq |-> 0, off |-> 0, highestSentOffset |-> 0]
    BY <1>9
  <2> HIDE DEF id
  <2>4. [id |-> id, clean |-> c, started |-> FALSE, committed |-> FALSE,
         seq |-> 0, off |-> 0, highestSentOffset |-> 0] \in Work
    BY <1>10, <2>1, <2>2, WorkRecord
  <2>5. QED
    BY <2>3, <2>4, Zenon
<1>12. w.id = FreshID /\ w.started = FALSE /\ w.committed = FALSE
  BY <1>9
<1>13. QED
  BY <1>8, <1>11, <1>12 DEF MessageID

\* The card's reply to STATUS: new work, or the work goes on with a card that
\* has not committed it.
LEMMA HandleStatusKeeps ==
  ASSUME LinkInv, CardUntouched, host # None, host' = None, sent' = None,
         run = "status", picture' = picture, HandleStatus(host)
  PROVE  LinkInv'
<1> DEFINE stale == work # None /\ host.state = "CHARGING"
           c == clean \/ stale \/ (work = None /\ host.pending)
<1>1. run' = "upload" /\ recoveryCount' = recoveryCount
  BY DEF HandleStatus
<1>2. UNCHANGED <<t, stored>>
  BY DEF CardUntouched
<1>3. ASSUME work = None \/ stale
      PROVE  PhoneInv' /\ WorkInv' /\ PlaceInv' /\ StoredInv'
  <2>1. host \in Reply /\ clean \in BOOLEAN
    BY DEF LinkInv, MessageInv, PhoneInv
  <2>2. c \in BOOLEAN
    BY <2>1 DEF Reply
  <2>3. work' = [makeWork EXCEPT !.clean = c] /\ clean' = c
    BY <1>3 DEF HandleStatus
  <2> HIDE DEF c, stale
  <2>4. /\ work' \in Work /\ work'.started = FALSE /\ work'.committed = FALSE
        /\ work'.id # t.tid /\ (stored # None => work'.id # stored.tid)
    BY <2>2, <2>3, NewWork
  <2>5. work' # None
    BY <2>4, LinkAssumption
  <2>6. PhoneInv'
    BY <1>1, <2>2, <2>3, <2>4 DEF LinkInv, PhoneInv
  <2>7. WorkInv'
    BY <1>1, <2>4, <2>5 DEF WorkInv
  <2>8. PlaceInv' /\ StoredInv'
    BY <1>2, <2>4 DEF PlaceInv, StoredInv, InTransfer
  <2>9. QED
    BY <2>6, <2>7, <2>8
<1>4. ASSUME ~ (work = None \/ stale)
      PROVE  PhoneInv' /\ WorkInv' /\ PlaceInv' /\ StoredInv'
  <2>1. work' = work /\ clean' = clean
    BY <1>4 DEF HandleStatus
  <2>2. host.state = state /\ work # None /\ host.state # "CHARGING"
    BY <1>4 DEF LinkInv, ReplyInv, Answers
  <2>3. ~ t.committed
    BY <2>2 DEF LinkInv, Session
  <2>4. InTransfer => t.crc # NoCrc
    BY <2>3 DEF LinkInv, Session, InTransfer
  <2>5. PhoneInv'
    BY <1>1, <2>1 DEF LinkInv, PhoneInv
  <2>6. WorkInv'
    BY <1>1, <2>1, <2>2 DEF LinkInv, WorkInv
  <2>7. PlaceInv'
    BY <1>1, <1>2, <2>1, <2>4 DEF LinkInv, PlaceInv, InTransfer
  <2>8. StoredInv'
    BY <1>2, <2>1 DEF LinkInv, StoredInv, InTransfer
  <2>9. QED
    BY <2>5, <2>6, <2>7, <2>8
<1>5. QED
  BY <1>3, <1>4, EmptyMailboxKeeps

\* The card does not know the transfer: it is begun again, or the run ends.
LEMMA HandleUnknownTransferKeeps ==
  ASSUME LinkInv, CardUntouched, host # None, host' = None, sent' = None,
         run = "upload", work # None, host.error = "TRANSFER_ID",
         host.type # "STATUS", picture' = picture, HandleUnknownTransfer
  PROVE  LinkInv'
<1>1. UNCHANGED <<t, stored, clean>> /\ picture' = picture
  BY DEF CardUntouched, HandleUnknownTransfer
<1>2. ~ InTransfer
  BY DEF LinkInv, ReplyInv, Answers, InTransfer
<1>3. work \in Work /\ recoveryCount \in 0 .. 3 /\ work.committed = FALSE
  BY SomeWork DEF LinkInv, PhoneInv
<1>4. ASSUME recoveryCount < 2
      PROVE  PhoneInv' /\ WorkInv' /\ PlaceInv' /\ StoredInv'
  <2>1. /\ recoveryCount' = recoveryCount + 1 /\ run' = run
        /\ work' = [work EXCEPT !.started = FALSE, !.highestSentOffset = 0]
    BY <1>4 DEF HandleUnknownTransfer
  <2>2. 0 \in 0 .. ImageSize /\ recoveryCount' \in 0 .. 3
    BY <1>3, <1>4, <2>1, LinkAssumption
  <2>3. work' \in Work /\ work'.started = FALSE /\ work'.committed = FALSE /\ work'.id = work.id
    BY <1>3, <2>1, <2>2 DEF Work
  <2>4. work' # None
    BY <2>3, LinkAssumption
  <2>5. PhoneInv'
    BY <1>1, <2>1, <2>2, <2>3 DEF LinkInv, PhoneInv
  <2>6. WorkInv'
    BY <2>1, <2>3, <2>4 DEF WorkInv
  <2>7. ~ InTransfer'
    BY <1>1, <1>2, <2>3 DEF InTransfer
  <2>8. PlaceInv' /\ StoredInv'
    BY <1>1, <1>2, <2>3, <2>7 DEF LinkInv, PlaceInv, StoredInv
  <2>9. QED
    BY <2>5, <2>6, <2>8
<1>5. ASSUME ~ recoveryCount < 2
      PROVE  PhoneInv' /\ WorkInv' /\ PlaceInv' /\ StoredInv'
  <2>1. run' = "off" /\ UNCHANGED <<recoveryCount, work>>
    BY <1>5 DEF HandleUnknownTransfer, RunFails
  <2>2. PhoneInv'
    BY <1>1, <2>1 DEF LinkInv, PhoneInv
  <2>3. WorkInv'
    BY <2>1, <1>3 DEF LinkInv, WorkInv
  <2>4. PlaceInv' /\ StoredInv'
    BY <1>1, <1>2, <2>1 DEF LinkInv, PlaceInv, StoredInv, InTransfer
  <2>5. QED
    BY <2>2, <2>3, <2>4
<1>6. QED
  BY <1>4, <1>5, EmptyMailboxKeeps

\* The card has applied the frame, and now the phone is where the card is.
LEMMA HandleProgressKeeps ==
  ASSUME LinkInv, CardUntouched, host # None, host' = None, sent' = None,
         run = "upload", work # None, picture' = picture,
         host.error = "NONE", host.type # "STATUS",
         NEW f, f = WorkFrame(work, picture), Matches(host, f), HandleProgress(f, host)
  PROVE  /\ LinkInv'
         /\ run' = "done" => /\ t.committed /\ t.tid = work.id
                             /\ buf = Image(picture)
<1>1. /\ UNCHANGED <<t, buf, stored, clean, recoveryCount>>
      /\ work' = [work EXCEPT !.started = TRUE, !.seq = host.eseq, !.off = host.eoff,
                              !.committed = f.type = "COMMIT"]
      /\ run' = IF f.type = "COMMIT" THEN "done" ELSE "upload"
  BY DEF CardUntouched, HandleProgress
<1>2. work \in Work /\ picture \in Picture /\ (work.started => work.seq = work.off + 1)
  BY SomeWork
<1>3. /\ FrameType(f) /\ f.tid = work.id /\ f.type \in {"START", "DATA", "COMMIT"}
      /\ f.type = "START" <=> ~ work.started
  BY <1>2, WorkFrameType
<1>4. host.type = f.type /\ host.eseq = t.seq /\ host.eoff = t.off /\ host.tid = f.tid
  BY DEF Matches, LinkInv, ReplyInv, Answers
<1>5. Session(t, buf, state)
  BY DEF LinkInv
<1>6. t.seq \in 0 .. ImageSize + 2 /\ t.off \in 0 .. ImageSize
  BY <1>5, SessionTypes
<1>7. /\ t.active
      /\ t.committed <=> f.type = "COMMIT"
      /\ f.type \in {"DATA", "COMMIT"} => t.tid = work.id
  BY <1>3, <1>4, <1>5 DEF LinkInv, ReplyInv, Answers, Session
<1>8. t.seq = IF f.type = "COMMIT" THEN ImageSize + 2 ELSE t.off + 1
  BY <1>5, <1>7 DEF Session
<1> DEFINE last == f.type = "COMMIT"
<1>9. last \in BOOLEAN
  OBVIOUS
<1>10. work' = [work EXCEPT !.started = TRUE, !.seq = t.seq, !.off = t.off, !.committed = last]
  BY <1>1, <1>4
<1> HIDE DEF last
<1>11. /\ work' \in Work /\ work'.id = work.id
       /\ work'.started = TRUE /\ work'.seq = t.seq /\ work'.off = t.off
       /\ work'.committed = last
  BY <1>2, <1>6, <1>9, <1>10 DEF Work
<1>12. work' # None
  BY <1>11, LinkAssumption
<1>13. PhoneInv'
  BY <1>1, <1>11 DEF LinkInv, PhoneInv
<1>14. last => t.off = ImageSize
  BY <1>5, <1>7 DEF Session, last
<1>15. WorkInv'
  BY <1>1, <1>8, <1>11, <1>12, <1>14 DEF WorkInv, last
<1>16. InTransfer' <=> InTransfer
  BY <1>1, <1>11, <1>12 DEF InTransfer
<1>17. InTransfer => t.crc = Image(picture)
  BY DEF LinkInv, PlaceInv
<1>18. Image(picture) # NoCrc
  BY <1>2, ImagesAreWhole
<1>19. PlaceInv'
  BY <1>1, <1>7, <1>11, <1>16, <1>17, <1>18 DEF PlaceInv, last
<1>20. StoredInv'
  BY <1>1, <1>11, <1>16 DEF LinkInv, StoredInv
<1>21. LinkInv'
  BY <1>13, <1>15, <1>19, <1>20, EmptyMailboxKeeps
<1>22. ASSUME run' = "done"
       PROVE  t.committed /\ t.tid = work.id /\ buf = Image(picture)
  <2>1. f.type = "COMMIT"
    BY <1>1, <1>22
  <2>2. t.committed /\ InTransfer
    BY <1>7, <2>1 DEF InTransfer
  <2>3. t.crc = Image(picture) /\ t.off = ImageSize
    BY <1>5, <1>7, <1>17, <2>2 DEF Session
  <2>4. buf = t.crc
    BY <1>5, <1>7, <1>18, <2>3, CommittedIsWhole
  <2>5. QED
    BY <2>2, <2>3, <2>4 DEF InTransfer
<1>23. QED
  BY <1>21, <1>22

\* The reply to the frame of an upload.
LEMMA HandleKeeps ==
  ASSUME LinkInv, CardUntouched, host # None, host' = None, sent' = None,
         run = "upload", picture' = picture,
         NEW f, f = WorkFrame(work, picture), Matches(host, f), Handle(f, host)
  PROVE  /\ LinkInv'
         /\ run' = "done" => /\ t.committed /\ t.tid = work.id
                             /\ buf = Image(picture)
<1>1. work # None
  BY DEF LinkInv, WorkInv
<1>2. f.type \in {"START", "DATA", "COMMIT"}
  BY <1>1, SomeWork, WorkFrameType
<1>3. host.type = f.type /\ host.error \in {"NONE", "TRANSFER_ID"}
  BY DEF Matches, LinkInv, MessageInv, Reply
<1>4. CASE host.error = "TRANSFER_ID"
  <2>1. HandleUnknownTransfer
    BY <1>2, <1>4 DEF Handle
  <2>2. LinkInv'
    BY <1>1, <1>2, <1>3, <1>4, <2>1, HandleUnknownTransferKeeps
  <2>3. run' # "done"
    BY <2>1 DEF HandleUnknownTransfer, RunFails
  <2>4. QED
    BY <2>2, <2>3
<1>5. CASE host.error = "NONE"
  <2>1. HandleProgress(f, host)
    BY <1>2, <1>5 DEF Handle
  <2>2. QED
    BY <1>1, <1>2, <1>3, <1>5, <2>1, HandleProgressKeeps
<1>6. QED
  BY <1>3, <1>4, <1>5

LEMMA PhoneReceiveKeeps ==
  ASSUME LinkInv, PhoneReceive
  PROVE  /\ LinkInv'
         /\ run # "done" /\ run' = "done" =>
               t.committed /\ t.tid = work.id /\ buf = Image(picture)
<1>1. /\ CardUntouched /\ host # None /\ sent # None
      /\ host' = None /\ sent' = None /\ picture' = picture
      /\ Matches(host, sent) /\ Handle(sent, host)
  BY DEF PhoneReceive, CardUntouched, cardVars
<1>2. CASE run = "status" /\ sent = StatusFrame
  <2>1. sent.type = "STATUS"
    BY <1>2 DEF StatusFrame, Frame
  <2>2. HandleStatus(host)
    BY <1>1, <2>1 DEF Handle
  <2>3. LinkInv'
    BY <1>1, <1>2, <2>2, HandleStatusKeeps
  <2>4. run' # "done"
    BY <2>2 DEF HandleStatus
  <2>5. QED
    BY <2>3, <2>4
<1>3. CASE run = "upload" /\ sent = WorkFrame(work, picture)
  BY <1>1, <1>3, HandleKeeps
<1>4. QED
  BY <1>1, <1>2, <1>3, SentFrame

\* A late reply is read before the next frame is sent.
LEMMA PhoneDrainsKeeps ==
  ASSUME LinkInv, PhoneDrains
  PROVE  /\ LinkInv'
         /\ run # "done" /\ run' = "done" =>
               t.committed /\ t.tid = work.id /\ buf = Image(picture)
<1>1. /\ CardUntouched /\ host # None /\ InExchange
      /\ host' = None /\ sent' = None /\ picture' = picture
  BY DEF PhoneDrains, CardUntouched, cardVars
<1>2. CASE NextFrame.type = "DATA" /\ Matches(host, NextFrame)
  <2>1. Handle(NextFrame, host)
    BY <1>2 DEF PhoneDrains
  <2>2. StatusFrame.type = "STATUS"
    BY DEF StatusFrame, Frame
  <2>3. run = "upload" /\ NextFrame = WorkFrame(work, picture)
    BY <1>1, <1>2, <2>2, NextFrameOfUpload DEF InExchange
  <2>4. QED
    BY <1>1, <1>2, <2>1, <2>3, HandleKeeps
<1>3. CASE ~ (NextFrame.type = "DATA" /\ Matches(host, NextFrame))
  <2>1. UNCHANGED <<run, clean, work, recoveryCount>>
    BY <1>3 DEF PhoneDrains
  <2>2. UNCHANGED <<t, stored>>
    BY <1>1 DEF CardUntouched
  <2>3. PhoneInv' /\ WorkInv'
    BY <1>1, <2>1 DEF LinkInv, PhoneInv, WorkInv
  <2>4. PlaceInv' /\ StoredInv'
    BY <1>1, <2>1, <2>2 DEF LinkInv, PlaceInv, StoredInv, InTransfer
  <2>5. QED
    BY <1>1, <2>1, <2>3, <2>4, EmptyMailboxKeeps
<1>4. QED
  BY <1>2, <1>3

-----------------------------------------------------------------------------
(* The theorems.                                                           *)

LEMMA InitLink ==
  ASSUME Init
  PROVE  LinkInv
<1> USE DEF Init
<1>1. MessageInv
  BY DEF MessageInv
<1>2. PhoneInv
  BY DEF PhoneInv
<1>3. Session(t, buf, state)
  BY BlankSession
<1>4. OneMessage /\ WorkInv
  BY DEF OneMessage, WorkInv
<1>5. PlaceInv /\ StoredInv
  BY DEF PlaceInv, StoredInv, InTransfer
<1>6. FrameInv /\ ReplyInv
  BY DEF FrameInv, ReplyInv, Answers
<1>7. QED
  BY <1>1, <1>2, <1>3, <1>4, <1>5, <1>6 DEF LinkInv

LEMMA LinkUnchanged ==
  ASSUME LinkInv, UNCHANGED linkVars
  PROVE  LinkInv'
<1> USE DEF linkVars, cardVars, phoneVars
<1>1. MessageInv' /\ PhoneInv' /\ Session(t, buf, state)'
  BY DEF LinkInv, MessageInv, PhoneInv, Session
<1>2. OneMessage' /\ WorkInv'
  BY DEF LinkInv, OneMessage, WorkInv
<1>3. PlaceInv' /\ StoredInv'
  BY DEF LinkInv, PlaceInv, StoredInv, InTransfer
<1>4. FrameInv'
  BY DEF LinkInv, FrameInv
<1>5. ReplyInv'
  BY DEF LinkInv, ReplyInv, Answers
<1>6. QED
  BY <1>1, <1>2, <1>3, <1>4, <1>5 DEF LinkInv

\* LinkInv is inductive: a reply, wherever it is, is about where the card still
\* is, and a card in the phone's transfer is at the phone's place or has
\* applied, and remembers, the frame the phone would send next.
THEOREM LinkInductive == Spec => []LinkInv
<1>1. Init => LinkInv
  BY InitLink
<1>2. LinkInv /\ [Next]_linkVars => LinkInv'
  <2> SUFFICES ASSUME LinkInv, [Next]_linkVars
               PROVE  LinkInv'
    OBVIOUS
  <2>1. CASE CardHandle
    BY <2>1, CardHandleKeeps
  <2>2. CASE CardPublish
    BY <2>2, CardPublishKeeps
  <2>3. CASE CardGivesUp
    BY <2>3, CardGivesUpKeeps
  <2>4. CASE CardStage
    BY <2>4, CardStageKeeps
  <2>5. CASE PowerLoss
    BY <2>5, PowerLossKeeps
  <2>6. ASSUME NEW p \in Picture, NEW c \in BOOLEAN, PhonePrepare(p, c)
        PROVE  LinkInv'
    BY <2>6, PhonePrepareKeeps
  <2>7. CASE PhoneScan
    BY <2>7, PhoneScanKeeps
  <2>8. CASE PhoneSend
    BY <2>8, PhoneSendKeeps
  <2>9. CASE PhoneReceive
    BY <2>9, PhoneReceiveKeeps
  <2>10. CASE PhoneMisses
    BY <2>10, PhoneMissesKeeps
  <2>11. CASE PhoneTimesOut
    BY <2>11, PhoneTimesOutKeeps
  <2>12. CASE PhoneLeavesEarly
    BY <2>12, PhoneLeavesEarlyKeeps
  <2>13. CASE PhoneFindsBusy
    BY <2>13, PhoneFindsBusyKeeps
  <2>14. CASE PhoneDrains
    BY <2>14, PhoneDrainsKeeps
  <2>15. CASE UNCHANGED linkVars
    BY <2>15, LinkUnchanged
  <2>16. QED
    BY <2>1, <2>2, <2>3, <2>4, <2>5, <2>6, <2>7, <2>8, <2>9, <2>10, <2>11, <2>12, <2>13,
       <2>14, <2>15 DEF Next
<1>3. QED
  BY <1>1, <1>2, PTL DEF Spec

\* The phone never calls an upload accepted before the card has committed its
\* picture, whole, under its transfer id.
THEOREM ConfirmedImageWasCommitted == Spec => ConfirmedImageIsCommitted
<1>1. LinkInv /\ [Next]_linkVars =>
        [run # "done" /\ run' = "done" =>
            t.committed /\ t.tid = work.id /\ buf = Image(picture)]_linkVars
  <2> SUFFICES ASSUME LinkInv, Next, run # "done", run' = "done"
               PROVE  t.committed /\ t.tid = work.id /\ buf = Image(picture)
    OBVIOUS
  <2>1. CASE PhoneReceive
    BY <2>1, PhoneReceiveKeeps
  <2>2. CASE PhoneDrains
    BY <2>2, PhoneDrainsKeeps
  <2>3. CASE CardHandle \/ CardPublish \/ CardGivesUp \/ CardStage \/ PhoneSend
    BY <2>3 DEF CardHandle, CardPublish, CardGivesUp, CardStage, PhoneSend, phoneVars
  <2>4. CASE PowerLoss \/ PhoneScan \/ \E p \in Picture, c \in BOOLEAN : PhonePrepare(p, c)
    BY <2>4 DEF PowerLoss, PhoneScan, PhonePrepare
  <2>5. CASE PhoneMisses \/ PhoneTimesOut \/ PhoneLeavesEarly \/ PhoneFindsBusy
    <3>1. \E f : ExchangeFails(f)
      BY <2>5 DEF PhoneMisses, PhoneTimesOut, PhoneLeavesEarly, PhoneFindsBusy
    <3>2. QED
      BY <3>1 DEF ExchangeFails
  <2>6. QED
    BY <2>1, <2>2, <2>3, <2>4, <2>5 DEF Next
<1>2. QED
  BY <1>1, LinkInductive, PTL DEF Spec, ConfirmedImageIsCommitted

\* The types of TransferLink, the restarts of a run within their bound among
\* them.
THEOREM LinkTypeOK == Spec => []TypeOK
<1>1. LinkInv => TypeOK
  <2> SUFFICES ASSUME LinkInv
               PROVE  TypeOK
    OBVIOUS
  <2>1. Session(t, buf, state)
    BY DEF LinkInv
  <2>2. /\ t.active \in BOOLEAN /\ t.committed \in BOOLEAN
        /\ buf \in [1 .. ImageSize -> Chunk \cup {None}]
    BY <2>1 DEF Session, Buffer
  <2>3. /\ t.tid \in TransferID \cup {0} /\ t.seq \in 0 .. ImageSize + 2
        /\ t.off \in 0 .. ImageSize /\ state \in {"RECEIVING", "CHARGING"}
    BY <2>1, SessionTypes
  <2>4. MessageOK(outbox) /\ MessageOK(host)
    BY DEF LinkInv, MessageInv, MessageOK, Reply
  <2>5. MessageOK(rf) /\ MessageOK(sent)
    BY FrameFields DEF LinkInv, MessageInv, PhoneInv, MessageOK
  <2>6. /\ run \in {"off", "status", "upload", "done"} /\ picture \in Picture
        /\ clean \in BOOLEAN /\ work \in Work \cup {None} /\ recoveryCount \in 0 .. 3
    BY DEF LinkInv, PhoneInv
  <2>7. QED
    BY <2>2, <2>3, <2>4, <2>5, <2>6 DEF TypeOK
<1>2. QED
  BY <1>1, LinkInductive, PTL

\* The buffer holds the announced image up to the card's place, and all of it
\* once it is committed.
THEOREM BufferAlwaysHoldsAnnounced == Spec => []BufferHoldsAnnounced
<1>1. LinkInv => BufferHoldsAnnounced
  <2> SUFFICES ASSUME LinkInv, t.active, t.crc # NoCrc
               PROVE  /\ SubSeq(buf, 1, t.off) = SubSeq(t.crc, 1, t.off)
                      /\ t.committed => buf = t.crc
    BY DEF BufferHoldsAnnounced
  <2>1. Session(t, buf, state)
    BY DEF LinkInv
  <2>2. t.off \in 0 .. ImageSize /\ \A i \in 1 .. t.off : buf[i] = t.crc[i]
    BY <2>1 DEF Session
  <2>3. SubSeq(buf, 1, t.off) = SubSeq(t.crc, 1, t.off)
    BY <2>2, SamePrefixes, LinkAssumption
  <2>4. ASSUME t.committed
        PROVE  buf = t.crc
    <3>1. t.off = ImageSize
      BY <2>1, <2>4 DEF Session
    <3>2. QED
      BY <2>1, <3>1, CommittedIsWhole
  <2>5. QED
    BY <2>3, <2>4
<1>2. QED
  BY <1>1, LinkInductive, PTL

\* The card in the phone's transfer is at the phone's place or one frame ahead.
THEOREM NeverMoreThanOneFrameAhead == Spec => []AtMostOneFrameAhead
<1>1. LinkInv => AtMostOneFrameAhead
  <2> SUFFICES ASSUME LinkInv, work # None, work.started, t.active, t.tid = work.id
               PROVE  \/ t.seq = work.seq /\ t.off = work.off
                      \/ t.seq = work.seq + 1 /\ t.off = work.off + 1
                      \/ /\ t.seq = work.seq + 1 /\ t.off = work.off
                         /\ t.off = ImageSize /\ t.committed
    BY DEF AtMostOneFrameAhead
  <2>1. t.committed => t.off = ImageSize
    BY DEF LinkInv, Session
  <2>2. QED
    BY <2>1 DEF LinkInv, PlaceInv, InTransfer
<1>2. QED
  BY <1>1, LinkInductive, PTL

\* No reply refuses the phone but for a transfer the card does not know.
THEOREM OnlyUnknownTransferIsRefused == Spec => []OnlyUnknownTransferRefused
<1>1. LinkInv => OnlyUnknownTransferRefused
  BY DEF LinkInv, MessageInv, Reply, OnlyUnknownTransferRefused
<1>2. QED
  BY <1>1, LinkInductive, PTL
=============================================================================
