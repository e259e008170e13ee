-------------------------- MODULE CardFirmware_proofs --------------------------
(***************************************************************************)
(* Proof, for every set of pictures, panels of any number of strips and any *)
(* sequence of frames, faults and power cuts, that the firmware of           *)
(* CardFirmware stages, records and shows whole pictures only.              *)
(***************************************************************************)
EXTENDS CardFirmware, NCTransfer_proofs

-----------------------------------------------------------------------------
(* The invariant.                                                          *)

\* The session of the second plane of a gray picture, which is never staged.
SecondPlane == t.format = "gray" /\ t.plane = 1

\* States in which the card has a whole picture.
Holding == {"CHARGING", "READY", "EXECUTE_ACK", "REFRESHING"}

(* The frames of a picture, with DATA in pieces of any length and with any   *)
(* sequence number and offset: PhoneFrame and its bounds are for TLC.       *)
WireFrame ==
    UNION {(IF p.format = "pattern" THEN {PatternFrame(p)}
            ELSE {StartFrame(p, k) : k \in DOMAIN p.planes})
           \cup {SessionFrame("DATA", p, n, off, body) :
                     n \in Nat, off \in Nat, body \in Seq({"W", "B"})}
           \cup {SessionFrame(type, p, n, off, <<>>) :
                     type \in {"COMMIT", "EXECUTE"}, n \in Nat, off \in Nat}
           : p \in Picture}

Remembered == {NothingRemembered} \cup {remember(f) : f \in WireFrame}

TransferType(tr) ==
    /\ DOMAIN tr = DOMAIN ResetTransfer
    /\ tr.active \in BOOLEAN /\ tr.committed \in BOOLEAN /\ tr.execute_requested \in BOOLEAN
    /\ tr.tid \in Nat
    /\ tr.seq \in 0 .. SeqModulus - 1
    /\ tr.off \in 0 .. ImageSize
    /\ tr.crc \in Image \cup {NoCrc}
    /\ tr.clean \in BOOLEAN
    /\ tr.format \in {"none", "mono", "gray"}
    /\ tr.plane \in {0, 1}
    /\ tr.pattern \in Nat
    /\ tr.last \in Remembered

\* The session was opened by a START of a picture, and is of one plane of it.
Announced(tr) ==
    \E p \in Picture : \E k \in DOMAIN p.planes :
        /\ p.format = tr.format /\ p.tid = tr.tid /\ p.clean = tr.clean
        /\ tr.pattern = 0 /\ tr.crc = p.planes[k] /\ tr.plane = k - 1

\* A transfer and the buffer it is received into.
SessionOK(tr, b) ==
    /\ TransferType(tr)
    /\ b \in Image
    /\ tr.last.type # "NONE" => tr.seq = (tr.last.seq + 1) % SeqModulus
    /\ tr.active => tr.format # "none"
    /\ tr.format = "mono" => tr.plane = 0
    /\ tr.clean => tr.format = "mono"
    /\ tr.committed => tr.active /\ tr.off = ImageSize
    /\ tr.execute_requested => tr.committed /\ (tr.format = "gray" => tr.plane = 1)
    /\ tr.crc # NoCrc => Announced(tr)
    /\ tr.crc # NoCrc /\ tr.committed => b = tr.crc

TransferInv == SessionOK(t, buf)

\* Frames the store can hold: whole pictures that were sent, or the factory's.
Kept == {f \in StorableFrame : f.seq < SeqModulus /\ (f = FactoryFrame \/ PictureOf(f) # {})}

StoreInv ==
    /\ committed \in Kept \cup {NoFrame}
    /\ prepared \in Kept \cup {NoFrame}
    /\ header \in Kept \cup {NoFrame, TornHeader}
    /\ staging \in Kept \cup {NoFrame}
    /\ committing \in BOOLEAN
    /\ prepared # NoFrame => header = prepared
    /\ committing => prepared # NoFrame /\ pc = "commit"
    /\ staging # NoFrame <=> pc = "stage"
    /\ pc = "stage" => staging = FrameToStage

LoopTypes ==
    /\ state \in AppState
    /\ staged \in BOOLEAN /\ clean_active \in BOOLEAN /\ full_first \in BOOLEAN
    /\ clean_phase \in 0 .. 4
    /\ gray_rows \in 0 .. ImageSize
    /\ ack_read \in BOOLEAN
    /\ pause \in {"none", "requested", "paused"}
    /\ pc \in {"loop", "stage", "drive", "commit"}
    /\ host \in {"empty", "ack", "error"}
    /\ brownout \in BOOLEAN

StateInv ==
    /\ pc \in {"drive", "commit"} <=> state = "REFRESHING"
    /\ pc = "stage" => state = "CHARGING" /\ ~ staged
    /\ state \in Holding => t.committed
    /\ state \in Holding \ {"CHARGING"} => staged
    /\ state \in {"EXECUTE_ACK", "REFRESHING"} =>
           t.execute_requested /\ (full_first => clean_active)

CleanInv ==
    /\ clean_active <=> clean_phase # 0
    /\ clean_active => t.execute_requested /\ t.format = "mono"
    /\ state = "READY" => ~ clean_active
    /\ state = "EXECUTE_ACK" /\ clean_active => clean_phase = 1
    /\ pc = "commit" /\ clean_active => clean_phase = 4
    /\ full_first <=> t.format = "mono" /\ committed_format = "gray"

HoldingInv ==
    /\ state = "CHARGING" /\ ~ staged => ~ SecondPlane /\ PictureOf(FrameToStage) # {}
    /\ state \in Holding /\ SecondPlane => t.crc # NoCrc
    /\ state \in Holding /\ staged /\ ~ SecondPlane =>
           /\ prepared # NoFrame
           /\ prepared.tid = t.tid /\ prepared.image = buf /\ prepared.format = t.format

GrayInv ==
    /\ t.format = "gray" /\ gray_rows > 0 =>
           /\ t.execute_requested
           /\ header \in StorableFrame
           /\ \A i \in 1 .. gray_rows : panel[i] = <<"gray", header.image[i], buf[i]>>
    /\ state = "EXECUTE_ACK" /\ t.format = "gray" => gray_rows = 0
    /\ pc = "drive" /\ IsGray => gray_rows < ImageSize
    /\ pc = "commit" /\ IsGray => gray_rows = ImageSize
    /\ pc \in {"drive", "commit"} /\ IsGray => PlaneZeroPending(t.tid) /\ Image \subseteq adrift

PanelType ==
    [Strip -> {Unsettled} \cup {<<"mono", c>> : c \in {"W", "B"}}
                  \cup {<<"gray", b, c>> : b \in {"W", "B"}, c \in {"W", "B"}}]

AllShow(image) == \A i \in Strip : panel[i] = <<"mono", image[i]>>

\* What a clean cycle has done to the panel when it comes to a phase.
CycleInv ==
    /\ clean_phase >= 2 => AllWhite \in adrift
    /\ clean_phase >= 3 => AllBlack \in adrift
    /\ state = "CHARGING" /\ clean_phase = 3 => AllShow(AllBlack)
    /\ state = "CHARGING" /\ clean_phase = 4 => AllShow(AllWhite)
    /\ pc = "drive" /\ clean_phase = 4 =>
           \A i \in Strip : buf[i] = "W" => panel[i] = <<"mono", "W">>
    /\ pc = "commit" /\ clean_active => AllShow(buf)

Base == IF committed_format = "mono" THEN committed.image ELSE AllWhite

\* When all refreshes since were toward one image, a strip shows the record or
\* that image, and is in between only where the two differ.
DriftInv ==
    /\ panel \in PanelType
    /\ adrift \subseteq Image
    /\ adrift = {} => \A i \in Strip : Shows(i, committed)
    /\ pc \in {"drive", "commit"} /\ ~ IsGray => CurrentImage \in adrift
    /\ committed_format # "gray" =>
           \A x \in Image : adrift = {x} =>
               \A i \in Strip :
                   \/ panel[i] \in {<<"mono", Base[i]>>, <<"mono", x[i]>>}
                   \/ panel[i] = Unsettled /\ Base[i] # x[i]
    /\ pc = "commit" /\ ~ IsGray /\ adrift = {buf} => AllShow(buf)

CardInv ==
    /\ TransferInv /\ StoreInv /\ LoopTypes /\ StateInv /\ CleanInv /\ HoldingInv
    /\ GrayInv /\ CycleInv /\ DriftInv

-----------------------------------------------------------------------------
(* Frames.                                                                 *)

StartOf(f, p) ==
    /\ p.format \in {"mono", "gray"}
    /\ \E k \in DOMAIN p.planes : k \in {1, 2} /\ p.planes[k] \in Image /\ f = StartFrame(p, k)

DataOf(f, p) ==
    \E n \in Nat, off \in Nat, body \in Seq({"W", "B"}) :
        f = SessionFrame("DATA", p, n, off, body)

EmptyOf(f, p) ==
    \E type \in {"COMMIT", "EXECUTE"}, n \in Nat, off \in Nat :
        f = SessionFrame(type, p, n, off, <<>>)

\* What a phone sends is one of four kinds of frame.
LEMMA FrameKinds ==
  ASSUME NEW f \in WireFrame
  PROVE  \E p \in Picture :
           \/ StartOf(f, p) \/ DataOf(f, p) \/ EmptyOf(f, p)
           \/ p.format = "pattern" /\ f = PatternFrame(p)
<1>1. PICK p \in Picture :
        \/ p.format = "pattern" /\ f = PatternFrame(p)
        \/ p.format # "pattern" /\ \E k \in DOMAIN p.planes : f = StartFrame(p, k)
        \/ DataOf(f, p)
        \/ EmptyOf(f, p)
  BY DEF WireFrame, DataOf, EmptyOf
<1>2. p.format # "pattern" =>
        \A k \in DOMAIN p.planes : k \in {1, 2} /\ p.planes[k] \in Image
  BY PictureAssumption
<1>3. p.format \in {"mono", "gray", "pattern"}
  BY PictureAssumption
<1>4. QED
  BY <1>1, <1>2, <1>3 DEF StartOf

\* A frame of TLC's phone is one of them.
LEMMA PhoneFrames == PhoneFrame \subseteq WireFrame
<1>1. SUFFICES ASSUME NEW f \in PhoneFrame
               PROVE  f \in WireFrame
  OBVIOUS
<1>2. PICK p \in Picture :
        \/ p.format = "pattern" /\ f = PatternFrame(p)
        \/ p.format # "pattern" /\ \E k \in DOMAIN p.planes : f = StartFrame(p, k)
        \/ p.format # "pattern" /\ \E k \in DOMAIN p.planes :
               f = SessionFrame("DATA", p, 1, 0, p.planes[k])
        \/ \E type \in {"COMMIT", "EXECUTE"}, n \in 1 .. SeqLimit :
               f = SessionFrame(type, p, n, ImageSize, <<>>)
  BY DEF PhoneFrame
<1>3. CASE p.format = "pattern" /\ f = PatternFrame(p)
  BY <1>3 DEF WireFrame
<1>4. CASE p.format # "pattern" /\ \E k \in DOMAIN p.planes : f = StartFrame(p, k)
  BY <1>4 DEF WireFrame
<1>5. CASE p.format # "pattern" /\ \E k \in DOMAIN p.planes :
               f = SessionFrame("DATA", p, 1, 0, p.planes[k])
  <2>1. \A k \in DOMAIN p.planes : p.planes[k] \in Image
    BY <1>5, PictureAssumption
  <2>2. Image \subseteq Seq({"W", "B"})
    BY PictureAssumption DEF Image, Strip
  <2>3. PICK body \in Seq({"W", "B"}) : f = SessionFrame("DATA", p, 1, 0, body)
    BY <1>5, <2>1, <2>2
  <2>4. QED
    BY <2>3 DEF WireFrame
<1>6. CASE \E type \in {"COMMIT", "EXECUTE"}, n \in 1 .. SeqLimit :
               f = SessionFrame(type, p, n, ImageSize, <<>>)
  <2>1. ImageSize \in Nat /\ SeqLimit \in Nat
    BY PictureAssumption
  <2>2. PICK type \in {"COMMIT", "EXECUTE"}, n \in Nat :
          f = SessionFrame(type, p, n, ImageSize, <<>>)
    BY <1>6, <2>1
  <2>3. QED
    BY <2>1, <2>2 DEF WireFrame
<1>7. QED
  BY <1>2, <1>3, <1>4, <1>5, <1>6

-----------------------------------------------------------------------------
(* What a frame does to the transfer.                                      *)

Opens(r) ==
    /\ r.result = "ACCEPTED"
    /\ r.buf = buf
    /\ ~ r.t.committed /\ ~ r.t.execute_requested
    /\ r.t.format \in {"mono", "gray"}

Builds(r) ==
    /\ r.result = "PATTERN"
    /\ r.t.committed /\ ~ r.t.execute_requested
    /\ r.t.format = "mono" /\ r.t.crc = NoCrc /\ ~ r.t.clean
    /\ \E p \in Picture :
           p.format = "pattern" /\ p.tid = r.t.tid /\ p.pattern = r.t.pattern /\ ~ p.clean

Fills(r) ==
    /\ r.result = "ACCEPTED"
    /\ SameSession(r.t, t)
    /\ ~ t.committed /\ ~ r.t.committed /\ ~ r.t.execute_requested

Commits(r) ==
    /\ r.result = "COMMITTED"
    /\ r.buf = buf
    /\ SameSession(r.t, t)
    /\ r.t.committed /\ t.crc # NoCrc
    /\ r.t.execute_requested = t.execute_requested

Executes(r) ==
    /\ r.result = "EXECUTE"
    /\ r.buf = buf
    /\ SameSession(r.t, t)
    /\ t.committed /\ r.t.committed /\ r.t.execute_requested

LEMMA Sizes ==
  /\ ImageSize \in Nat \ {0}
  /\ 0 \in 0 .. ImageSize /\ ImageSize \in 0 .. ImageSize
  /\ 1 \in 0 .. SeqModulus - 1
  BY PictureAssumption DEF SeqModulus

LEMMA StartApplied ==
  ASSUME TransferInv, NEW f \in WireFrame, NEW p \in Picture, StartOf(f, p),
         NEW r, r = nc_transfer_apply(t, buf, f)
  PROVE  \/ r.result = "REJECTED"
         \/ r.result = "DUPLICATE" /\ r.t = t /\ r.buf = buf
         \/ Opens(r) /\ SessionOK(r.t, r.buf)
<1>1. PICK k \in DOMAIN p.planes : k \in {1, 2} /\ p.planes[k] \in Image /\ f = StartFrame(p, k)
  BY DEF StartOf
<1>2. /\ p.format \in {"mono", "gray"} /\ p.tid \in Nat /\ p.clean \in BOOLEAN /\ p.pattern = 0
      /\ p.clean => p.format = "mono"
      /\ p.format = "mono" => k = 1
      /\ p.planes[k] # NoCrc
  BY <1>1, PictureAssumption DEF StartOf, Image, Strip, NoCrc
<1>3. /\ f.type = "START" /\ f.tid = p.tid /\ f.seq = 0 /\ f.off = 0
      /\ f.body.format = p.format /\ f.body.clean = p.clean /\ f.body.crc = p.planes[k]
      /\ f.body.plane = IF p.format = "gray" THEN k - 1 ELSE 1
  BY <1>1 DEF StartFrame
<1>4. r = ApplyStart(t, buf, f)
  BY <1>3 DEF nc_transfer_apply
<1> DEFINE new == [ResetTransfer EXCEPT
               !.active = TRUE, !.tid = f.tid, !.seq = 1, !.crc = f.body.crc,
               !.clean = f.body.clean, !.format = f.body.format,
               !.plane = IF f.body.format = "gray" THEN f.body.plane ELSE 0,
               !.last = remember(f)]
<1>5. \/ r.result = "REJECTED"
      \/ r.result = "DUPLICATE" /\ r.t = t /\ r.buf = buf
      \/ r.result = "ACCEPTED" /\ r.t = new /\ r.buf = buf
  BY <1>4 DEF ApplyStart, Reject, Replied
<1>6. /\ new.active = TRUE /\ new.committed = FALSE /\ new.execute_requested = FALSE
      /\ new.tid = p.tid /\ new.seq = 1 /\ new.off = 0 /\ new.crc = p.planes[k]
      /\ new.clean = p.clean /\ new.format = p.format /\ new.plane = k - 1
      /\ new.pattern = 0 /\ new.last = remember(f)
  BY <1>2, <1>3 DEF ResetTransfer
<1>7. DOMAIN new = DOMAIN ResetTransfer
  BY DEF ResetTransfer
<1> HIDE DEF new
<1>8. TransferType(new)
  <2>1. remember(f) \in Remembered
    BY DEF Remembered
  <2>2. new.plane \in {0, 1}
    BY <1>1, <1>6
  <2>3. new.seq \in 0 .. SeqModulus - 1 /\ new.off \in 0 .. ImageSize
    BY <1>6, Sizes
  <2>4. /\ new.crc \in Image \cup {NoCrc} /\ new.format \in {"none", "mono", "gray"}
        /\ new.pattern \in Nat /\ new.clean \in BOOLEAN /\ new.tid \in Nat
    BY <1>1, <1>2, <1>6
  <2>5. QED
    BY <1>6, <1>7, <2>1, <2>2, <2>3, <2>4 DEF TransferType
<1>9. new.last.type # "NONE" => new.seq = (new.last.seq + 1) % SeqModulus
  BY <1>3, <1>6 DEF remember, SeqModulus
<1>10. Announced(new)
  BY <1>2, <1>6 DEF Announced
<1>11. SessionOK(new, buf)
  BY <1>2, <1>6, <1>8, <1>9, <1>10 DEF SessionOK, TransferInv
<1>12. QED
  BY <1>2, <1>5, <1>6, <1>11 DEF Opens

LEMMA PatternApplied ==
  ASSUME TransferInv, NEW f \in WireFrame, NEW p \in Picture,
         p.format = "pattern", f = PatternFrame(p),
         NEW r, r = nc_transfer_apply(t, buf, f)
  PROVE  \/ r.result = "REJECTED"
         \/ r.result = "DUPLICATE" /\ r.t = t /\ r.buf = buf
         \/ Builds(r) /\ r.buf = buf /\ SessionOK(r.t, buf)
<1>1. p.tid \in Nat /\ p.pattern \in Nat /\ ~ p.clean
  BY PictureAssumption
<1>2. /\ f.type = "PATTERN" /\ f.tid = p.tid /\ f.seq = 0 /\ f.off = 0 /\ f.body = p.pattern
  BY DEF PatternFrame
<1>3. r = ApplyPattern(t, buf, f)
  BY <1>2 DEF nc_transfer_apply
<1> DEFINE new == [ResetTransfer EXCEPT
               !.active = TRUE, !.committed = TRUE, !.tid = f.tid, !.seq = 1,
               !.off = ImageSize, !.pattern = f.body, !.format = "mono",
               !.last = remember(f)]
<1>4. \/ r.result = "REJECTED"
      \/ r.result = "DUPLICATE" /\ r.t = t /\ r.buf = buf
      \/ r.result = "PATTERN" /\ r.t = new /\ r.buf = buf
  BY <1>3 DEF ApplyPattern, Reject, Replied
<1>5. /\ new.active = TRUE /\ new.committed = TRUE /\ new.execute_requested = FALSE
      /\ new.tid = p.tid /\ new.seq = 1 /\ new.off = ImageSize /\ new.crc = NoCrc
      /\ new.clean = FALSE /\ new.format = "mono" /\ new.plane = 0
      /\ new.pattern = p.pattern /\ new.last = remember(f)
  BY <1>2 DEF ResetTransfer
<1>6. DOMAIN new = DOMAIN ResetTransfer
  BY DEF ResetTransfer
<1> HIDE DEF new
<1>7. TransferType(new)
  <2>1. remember(f) \in Remembered
    BY DEF Remembered
  <2>2. QED
    BY <1>1, <1>5, <1>6, <2>1, Sizes DEF TransferType
<1>8. new.last.type # "NONE" => new.seq = (new.last.seq + 1) % SeqModulus
  BY <1>2, <1>5 DEF remember, SeqModulus
<1>9. SessionOK(new, buf)
  BY <1>5, <1>7, <1>8 DEF SessionOK, TransferInv
<1>10. QED
  BY <1>1, <1>4, <1>5, <1>9 DEF Builds

\* A transfer that has advanced by an accepted frame of its session.
LEMMA AdvancedType ==
  ASSUME TransferInv, NEW f \in WireFrame, f.seq = t.seq
  PROVE  /\ DOMAIN t = DOMAIN ResetTransfer
         /\ (t.seq + 1) % SeqModulus \in 0 .. SeqModulus - 1
         /\ remember(f) \in Remembered /\ remember(f).seq = t.seq
<1>1. DOMAIN t = DOMAIN ResetTransfer /\ t.seq \in 0 .. SeqModulus - 1
  BY DEF TransferInv, SessionOK, TransferType
<1>2. remember(f) \in Remembered /\ remember(f).seq = t.seq
  BY DEF Remembered, remember
<1>3. (t.seq + 1) % SeqModulus \in 0 .. SeqModulus - 1
  BY <1>1, SeqNumbers
<1>4. QED
  BY <1>1, <1>2, <1>3

\* SessionOK of a transfer that differs from t in its progress.
LEMMA ProgressOK ==
  ASSUME TransferInv, NEW new, NEW b \in Image, SameSession(new, t),
         DOMAIN new = DOMAIN ResetTransfer,
         new.committed \in BOOLEAN, new.execute_requested \in BOOLEAN,
         new.seq \in 0 .. SeqModulus - 1, new.off \in 0 .. ImageSize,
         new.last \in Remembered, new.seq = (new.last.seq + 1) % SeqModulus,
         new.committed => t.active /\ new.off = ImageSize,
         new.execute_requested => new.committed /\ (t.format = "gray" => t.plane = 1),
         t.crc # NoCrc /\ new.committed => b = t.crc
  PROVE  SessionOK(new, b)
<1>1. TransferType(new)
  BY DEF TransferType, TransferInv, SessionOK, SameSession
<1>2. t.crc # NoCrc => Announced(new)
  BY DEF Announced, TransferInv, SessionOK, SameSession
<1>3. QED
  BY <1>1, <1>2 DEF SessionOK, TransferInv, SameSession

LEMMA PieceCopied ==
  ASSUME NEW b \in Image, NEW off \in 0 .. ImageSize, NEW body \in Seq({"W", "B"})
  PROVE  CopyChunks(b, off, body) \in Image
<1>1. ImageSize \in Nat \ {0} /\ Len(body) \in Nat
  BY PictureAssumption
<1>2. \A i \in 1 .. ImageSize : b[i] \in {"W", "B"}
  BY DEF Image, Strip
<1>3. \A i \in 1 .. ImageSize :
        off < i /\ i <= off + Len(body) => body[i - off] \in {"W", "B"}
  <2>1. SUFFICES ASSUME NEW i \in 1 .. ImageSize, off < i, i <= off + Len(body)
                 PROVE  body[i - off] \in {"W", "B"}
    OBVIOUS
  <2>2. i - off \in 1 .. Len(body)
    BY <1>1, <2>1
  <2>3. QED
    BY <2>2
<1>4. QED
  BY <1>2, <1>3 DEF CopyChunks, Image, Strip

LEMMA DataApplied ==
  ASSUME TransferInv, NEW f \in WireFrame, NEW p \in Picture, DataOf(f, p),
         NEW r, r = nc_transfer_apply(t, buf, f)
  PROVE  \/ r.result = "REJECTED"
         \/ r.result = "DUPLICATE" /\ r.t = t /\ r.buf = buf
         \/ Fills(r) /\ SessionOK(r.t, r.buf)
<1>1. f.type = "DATA" /\ f.body \in Seq({"W", "B"})
  BY DEF DataOf, SessionFrame
<1>2. r = ApplyInSession(t, buf, f)
  BY <1>1 DEF nc_transfer_apply
<1> DEFINE new == [Advanced(t, f) EXCEPT !.off = @ + Len(f.body)]
           Lands == /\ f.seq = t.seq /\ t.active
                    /\ f.body # <<>> /\ ~ t.off + Len(f.body) > ImageSize
                    /\ r.result = "ACCEPTED" /\ r.t = new
                    /\ r.buf = CopyChunks(buf, t.off, f.body)
<1>3. \/ r.result = "REJECTED"
      \/ r.result = "DUPLICATE" /\ r.t = t /\ r.buf = buf
      \/ Lands
  BY <1>1, <1>2 DEF ApplyInSession, ApplyData, Reject, Replied
<1>4. CASE Lands
  <2>1. /\ buf \in Image /\ ImageSize \in Nat \ {0} /\ t.off \in 0 .. ImageSize
        /\ t.committed \in BOOLEAN /\ t.execute_requested \in BOOLEAN
        /\ t.committed => t.off = ImageSize
        /\ t.execute_requested => t.committed
    BY Sizes DEF TransferInv, SessionOK, TransferType
  <2>2. Len(f.body) \in Nat /\ Len(f.body) # 0 /\ t.off + Len(f.body) <= ImageSize
    BY <1>1, <1>4, <2>1
  <2>3. r.buf \in Image
    BY <1>1, <1>4, <2>1, PieceCopied
  <2>4. /\ DOMAIN Advanced(t, f) = DOMAIN ResetTransfer
        /\ SameSession(Advanced(t, f), t)
        /\ Advanced(t, f).committed = t.committed
        /\ Advanced(t, f).execute_requested = t.execute_requested
        /\ Advanced(t, f).off = t.off
        /\ Advanced(t, f).seq = (t.seq + 1) % SeqModulus
        /\ Advanced(t, f).last = remember(f)
    BY <1>4, AdvancedType, AdvancedFields
  <2>5. /\ DOMAIN new = DOMAIN ResetTransfer
        /\ new.off = t.off + Len(f.body)
        /\ SameSession(new, Advanced(t, f))
        /\ new.seq = Advanced(t, f).seq /\ new.last = Advanced(t, f).last
        /\ new.committed = Advanced(t, f).committed
        /\ new.execute_requested = Advanced(t, f).execute_requested
    <3>1. PICK moved : moved = t.off + Len(f.body)
      OBVIOUS
    <3>2. new = [Advanced(t, f) EXCEPT !.off = moved]
      BY <2>4, <3>1
    <3> HIDE DEF new, Lands
    <3>3. /\ DOMAIN new = DOMAIN ResetTransfer
          /\ new.off = moved
          /\ SameSession(new, Advanced(t, f))
          /\ new.seq = Advanced(t, f).seq /\ new.last = Advanced(t, f).last
          /\ new.committed = Advanced(t, f).committed
          /\ new.execute_requested = Advanced(t, f).execute_requested
      BY <2>4, <3>2, OffSet
    <3>4. QED
      BY <3>1, <3>3
  <2>6. ~ t.committed /\ ~ t.execute_requested
    BY <2>1, <2>2
  <2>7. new.committed = FALSE /\ new.execute_requested = FALSE
    BY <2>1, <2>4, <2>5, <2>6
  <2>8. /\ SameSession(new, t)
        /\ new.seq = (t.seq + 1) % SeqModulus /\ new.seq \in 0 .. SeqModulus - 1
        /\ new.last \in Remembered /\ new.last.seq = t.seq
    <3>1. f.seq = t.seq
      BY <1>4
    <3> HIDE DEF new, Lands
    <3>2. QED
      BY <2>4, <2>5, <3>1, AdvancedType DEF SameSession
  <2>9. new.off \in 0 .. ImageSize
    BY <2>1, <2>2, <2>5
  <2> HIDE DEF new
  <2>10. SessionOK(new, r.buf)
    <3>1. new.committed \in BOOLEAN /\ new.execute_requested \in BOOLEAN
      BY <2>7
    <3>2. new.seq = (new.last.seq + 1) % SeqModulus
      BY <2>8
    <3>3. QED
      BY <2>3, <2>5, <2>7, <2>8, <2>9, <3>1, <3>2, ProgressOK
  <2>11. QED
    BY <1>4, <2>6, <2>7, <2>8, <2>10 DEF Fills
<1>5. QED
  BY <1>3, <1>4

LEMMA CommitApplied ==
  ASSUME TransferInv, NEW f \in WireFrame, NEW p \in Picture, EmptyOf(f, p),
         f.type = "COMMIT", NEW r, r = nc_transfer_apply(t, buf, f)
  PROVE  \/ r.result = "REJECTED"
         \/ r.result = "DUPLICATE" /\ r.t = t /\ r.buf = buf
         \/ Commits(r) /\ SessionOK(r.t, r.buf)
<1>1. f.body = <<>>
  BY DEF EmptyOf, SessionFrame
<1>2. r = ApplyInSession(t, buf, f)
  BY DEF nc_transfer_apply
<1> DEFINE new == [Advanced(t, f) EXCEPT !.committed = TRUE]
<1>3. \/ r.result = "REJECTED"
      \/ r.result = "DUPLICATE" /\ r.t = t /\ r.buf = buf
      \/ /\ f.seq = t.seq /\ t.active /\ t.off = ImageSize /\ buf = t.crc
         /\ r.result = "COMMITTED" /\ r.t = new /\ r.buf = buf
  BY <1>1, <1>2 DEF ApplyInSession, ApplyCommit, Reject, Replied
<1>4. CASE /\ f.seq = t.seq /\ t.active /\ t.off = ImageSize /\ buf = t.crc
           /\ r.result = "COMMITTED" /\ r.t = new /\ r.buf = buf
  <2>1. buf \in Image /\ t.crc # NoCrc
    <3>1. buf \in Image
      BY DEF TransferInv, SessionOK
    <3>2. QED
      BY <1>4, <3>1, Sizes DEF Image, Strip, NoCrc
  <2>2. /\ DOMAIN Advanced(t, f) = DOMAIN ResetTransfer
        /\ SameSession(Advanced(t, f), t)
        /\ Advanced(t, f).execute_requested = t.execute_requested
        /\ Advanced(t, f).off = ImageSize
        /\ Advanced(t, f).seq = (t.seq + 1) % SeqModulus
        /\ Advanced(t, f).last = remember(f)
    BY <1>4, AdvancedType, AdvancedFields
  <2> HIDE DEF new
  <2>3. /\ DOMAIN new = DOMAIN ResetTransfer
        /\ new.committed = TRUE
        /\ SameSession(new, Advanced(t, f))
        /\ new.seq = Advanced(t, f).seq /\ new.last = Advanced(t, f).last
        /\ new.off = Advanced(t, f).off
        /\ new.execute_requested = Advanced(t, f).execute_requested
    <3>1. new = [Advanced(t, f) EXCEPT !.committed = TRUE]
      BY DEF new
    <3>2. QED
      BY <2>2, <3>1, CommittedSet
  <2>4. /\ SameSession(new, t)
        /\ new.committed = TRUE /\ new.execute_requested = t.execute_requested
        /\ new.off = ImageSize
        /\ new.seq = (new.last.seq + 1) % SeqModulus /\ new.seq \in 0 .. SeqModulus - 1
        /\ new.last \in Remembered
        /\ DOMAIN new = DOMAIN ResetTransfer
    BY <1>4, <2>2, <2>3, AdvancedType DEF SameSession
  <2>5. SessionOK(new, buf)
    <3>1. new.committed \in BOOLEAN /\ new.execute_requested \in BOOLEAN
      BY <2>4 DEF TransferInv, SessionOK, TransferType
    <3>2. new.off \in 0 .. ImageSize /\ (new.committed => t.active /\ new.off = ImageSize)
      BY <1>4, <2>4, Sizes
    <3>3. new.execute_requested => new.committed /\ (t.format = "gray" => t.plane = 1)
      BY <2>4 DEF TransferInv, SessionOK
    <3>4. t.crc # NoCrc /\ new.committed => buf = t.crc
      BY <1>4
    <3>5. QED
      BY <2>1, <2>4, <3>1, <3>2, <3>3, <3>4, ProgressOK
  <2>6. QED
    BY <1>4, <2>1, <2>4, <2>5 DEF Commits
<1>5. QED
  BY <1>3, <1>4

\* app_process refuses the EXECUTE of a first plane before the transfer sees it.
LEMMA ExecuteApplied ==
  ASSUME TransferInv, NEW f \in WireFrame, NEW p \in Picture, EmptyOf(f, p),
         f.type = "EXECUTE", t.format = "gray" => t.plane = 1,
         NEW r, r = nc_transfer_apply(t, buf, f)
  PROVE  \/ r.result = "REJECTED"
         \/ r.result = "DUPLICATE" /\ r.t = t /\ r.buf = buf
         \/ Executes(r) /\ SessionOK(r.t, r.buf)
<1>1. f.body = <<>>
  BY DEF EmptyOf, SessionFrame
<1>2. r = ApplyInSession(t, buf, f)
  BY DEF nc_transfer_apply
<1> DEFINE new == [Advanced(t, f) EXCEPT !.execute_requested = TRUE]
<1>3. \/ r.result = "REJECTED"
      \/ r.result = "DUPLICATE" /\ r.t = t /\ r.buf = buf
      \/ /\ f.seq = t.seq /\ t.committed
         /\ r.result = "EXECUTE" /\ r.t = new /\ r.buf = buf
  BY <1>1, <1>2 DEF ApplyInSession, ApplyExecute, Reject, Replied
<1>4. CASE /\ f.seq = t.seq /\ t.committed
           /\ r.result = "EXECUTE" /\ r.t = new /\ r.buf = buf
  <2>1. /\ buf \in Image /\ t.off = ImageSize /\ t.active /\ t.committed = TRUE
        /\ t.crc # NoCrc => buf = t.crc
    BY <1>4 DEF TransferInv, SessionOK, TransferType
  <2>2. /\ DOMAIN Advanced(t, f) = DOMAIN ResetTransfer
        /\ SameSession(Advanced(t, f), t)
        /\ Advanced(t, f).committed = TRUE
        /\ Advanced(t, f).off = ImageSize
        /\ Advanced(t, f).seq = (t.seq + 1) % SeqModulus
        /\ Advanced(t, f).last = remember(f)
    BY <1>4, <2>1, AdvancedType, AdvancedFields
  <2> HIDE DEF new
  <2>3. /\ DOMAIN new = DOMAIN ResetTransfer
        /\ new.execute_requested = TRUE
        /\ SameSession(new, Advanced(t, f))
        /\ new.seq = Advanced(t, f).seq /\ new.last = Advanced(t, f).last
        /\ new.off = Advanced(t, f).off
        /\ new.committed = Advanced(t, f).committed
    <3>1. new = [Advanced(t, f) EXCEPT !.execute_requested = TRUE]
      BY DEF new
    <3>2. QED
      BY <2>2, <3>1, ExecuteSet
  <2>4. /\ SameSession(new, t)
        /\ new.committed = TRUE /\ new.execute_requested = TRUE
        /\ new.off = ImageSize
        /\ new.seq = (new.last.seq + 1) % SeqModulus /\ new.seq \in 0 .. SeqModulus - 1
        /\ new.last \in Remembered
        /\ DOMAIN new = DOMAIN ResetTransfer
    BY <1>4, <2>2, <2>3, AdvancedType DEF SameSession
  <2>5. SessionOK(new, buf)
    <3>1. new.committed \in BOOLEAN /\ new.execute_requested \in BOOLEAN
      BY <2>4
    <3>2. new.off \in 0 .. ImageSize /\ (new.committed => t.active /\ new.off = ImageSize)
      BY <2>1, <2>4, Sizes
    <3>3. new.execute_requested => new.committed /\ (t.format = "gray" => t.plane = 1)
      BY <2>4
    <3>4. QED
      BY <2>1, <2>4, <3>1, <3>2, <3>3, ProgressOK
  <2>6. QED
    BY <1>4, <2>4, <2>5 DEF Executes
<1>5. QED
  BY <1>3, <1>4

-----------------------------------------------------------------------------
(* What a frame does to the card.                                          *)

Started ==
    /\ TransferInv'
    /\ state' = "RECEIVING" /\ staged' \in BOOLEAN
    /\ clean_active' = FALSE /\ clean_phase' = 0 /\ gray_rows' = 0
    /\ full_first' = (t'.format = "mono" /\ committed_format = "gray")
    /\ ack_read' = ack_read

Received ==
    /\ TransferInv'
    /\ SameSession(t', t)
    /\ ~ t.committed /\ ~ t'.committed /\ ~ t'.execute_requested
    /\ UNCHANGED <<state, staged, loopVars, ack_read>>

Taken ==
    /\ TransferInv'
    /\ SameSession(t', t) /\ buf' = buf
    /\ t'.committed /\ t.crc # NoCrc /\ t'.execute_requested = t.execute_requested
    /\ state' = "CHARGING" /\ staged' = (t'.format = "gray" /\ t'.plane = 1)
    /\ clean_active' = FALSE /\ clean_phase' = 0
    /\ UNCHANGED <<full_first, gray_rows, ack_read>>

Patterned ==
    /\ TransferInv'
    /\ t'.committed /\ ~ t'.execute_requested
    /\ t'.format = "mono" /\ t'.crc = NoCrc /\ ~ t'.clean
    /\ buf' = PatternImage(t'.pattern)
    /\ \E p \in Picture :
           p.format = "pattern" /\ p.tid = t'.tid /\ p.pattern = t'.pattern /\ ~ p.clean
    /\ state' = "CHARGING" /\ staged' = FALSE
    /\ clean_active' = FALSE /\ clean_phase' = 0
    /\ full_first' = (committed_format = "gray")
    /\ UNCHANGED <<gray_rows, ack_read>>

Asked ==
    /\ TransferInv'
    /\ SameSession(t', t) /\ buf' = buf
    /\ state = "READY"
    /\ t.committed /\ t'.committed /\ t'.execute_requested
    /\ gray_rows' = IF t'.format = "gray" THEN 0 ELSE gray_rows
    /\ clean_active' = (clean_active \/ t'.clean \/ full_first)
    /\ clean_phase' = IF t'.clean \/ full_first THEN 1 ELSE clean_phase
    /\ state' \in {"EXECUTE_ACK", "ERROR"} /\ ack_read' \in {FALSE, ack_read}
    /\ UNCHANGED <<staged, full_first>>

LEMMA PatternImages == \A n : PatternImage(n) \in Image
  BY DEF PatternImage, AllBlack, AllWhite, Image

LEMMA MessageEffect ==
  ASSUME TransferInv, NEW f \in WireFrame, HandleMessage(f)
  PROVE  /\ UNCHANGED <<pause, pc, storeVars, brownout, panelVars>>
         /\ pc = "loop" /\ host' \in {"empty", "ack", "error"}
         /\ \/ UNCHANGED <<t, buf, state, staged, loopVars, ack_read>>
            \/ Started \/ Received \/ Taken \/ Patterned \/ Asked
<1> DEFINE r == nc_transfer_apply(t, buf, f)
<1> HIDE DEF r
<1>1. /\ UNCHANGED <<pause, pc, storeVars, brownout, panelVars>> /\ pc = "loop"
      /\ \/ \E reply \in {"ack", "error"} : AnswerOnly(reply)
         \/ r.result # "REJECTED" /\ Applied(f, r) /\ ~ ExecuteWhileCharging(f) /\ ~ RefusedFirst(f)
  BY DEF HandleMessage, Listening, r
<1>2. CASE \E reply \in {"ack", "error"} : AnswerOnly(reply)
  BY <1>1, <1>2 DEF AnswerOnly, Answer
<1>3. CASE /\ r.result # "REJECTED" /\ Applied(f, r)
           /\ ~ ExecuteWhileCharging(f) /\ ~ RefusedFirst(f)
  <2>1. t' = r.t /\ r = nc_transfer_apply(t, buf, f)
    BY <1>3 DEF Applied, r
  <2>2. PICK p \in Picture :
           \/ StartOf(f, p) \/ DataOf(f, p) \/ EmptyOf(f, p)
           \/ p.format = "pattern" /\ f = PatternFrame(p)
    BY FrameKinds
  <2>3. CASE StartOf(f, p)
    <3>1. f.type = "START"
      BY <2>3 DEF StartOf, StartFrame
    <3>2. r.result \in {"ACCEPTED", "DUPLICATE"} /\ r.buf = buf /\ SessionOK(r.t, r.buf)
      <4>1. \/ r.result = "DUPLICATE" /\ r.t = t /\ r.buf = buf
            \/ Opens(r) /\ SessionOK(r.t, r.buf)
        BY <1>3, <2>1, <2>3, StartApplied
      <4>2. QED
        BY <4>1 DEF Opens, TransferInv
    <3>3. AfterStart(r)
      BY <1>3, <3>1, <3>2 DEF Applied
    <3>4. TransferInv'
      BY <2>1, <3>2, <3>3 DEF TransferInv, AfterStart
    <3>5. Started /\ host' \in {"empty", "ack"}
      BY <2>1, <3>3, <3>4 DEF Started, AfterStart, Answer
    <3>6. QED
      BY <1>1, <3>5
  <2>4. CASE r.result = "DUPLICATE" /\ r.t = t /\ r.buf = buf /\ ~ StartOf(f, p)
    <3>1. f.type # "START"
      BY <2>2, <2>4 DEF DataOf, EmptyOf, SessionFrame, PatternFrame
    <3>2. t' = t /\ buf' = buf /\ Answer("ack") /\ UNCHANGED <<state, staged, loopVars, ack_read>>
      BY <2>1, <2>4, <3>1, <1>3 DEF Applied
    <3>3. QED
      BY <1>1, <3>2 DEF Answer
  <2>5. CASE DataOf(f, p) /\ r.result # "DUPLICATE"
    <3>1. Fills(r) /\ SessionOK(r.t, r.buf)
      BY <1>3, <2>1, <2>5, DataApplied
    <3>2. f.type = "DATA"
      BY <2>5 DEF DataOf, SessionFrame
    <3>3. buf' = r.buf /\ Answer("ack") /\ UNCHANGED <<state, staged, loopVars, ack_read>>
      BY <1>3, <3>1, <3>2 DEF Applied, Fills
    <3>4. TransferInv'
      BY <2>1, <3>1, <3>3 DEF TransferInv
    <3>5. Received
      BY <2>1, <3>1, <3>3, <3>4 DEF Received, Fills
    <3>6. QED
      BY <1>1, <3>3, <3>5 DEF Answer
  <2>6. CASE p.format = "pattern" /\ f = PatternFrame(p) /\ r.result # "DUPLICATE"
    <3>1. Builds(r) /\ SessionOK(r.t, buf)
      BY <1>3, <2>1, <2>6, PatternApplied
    <3>2. f.type = "PATTERN"
      BY <2>6 DEF PatternFrame
    <3>3. AfterCommit(r)
      BY <1>3, <3>1, <3>2 DEF Applied, Builds
    <3>4. buf' = PatternImage(r.t.pattern) /\ full_first' = (committed_format = "gray")
      BY <3>1, <3>3 DEF AfterCommit, Builds
    <3>5. TransferInv'
      BY <2>1, <3>1, <3>4, PatternImages DEF TransferInv, SessionOK, Builds
    <3>6. staged' = FALSE
      BY <3>1, <3>3 DEF AfterCommit, Builds
    <3>7. Patterned /\ host' \in {"empty", "ack"}
      BY <2>1, <3>1, <3>3, <3>4, <3>5, <3>6 DEF Patterned, AfterCommit, Builds, Answer
    <3>8. QED
      BY <1>1, <3>7
  <2>7. CASE EmptyOf(f, p) /\ f.type = "COMMIT" /\ r.result # "DUPLICATE"
    <3>1. Commits(r) /\ SessionOK(r.t, r.buf)
      BY <1>3, <2>1, <2>7, CommitApplied
    <3>2. AfterCommit(r)
      BY <1>3, <2>7, <3>1 DEF Applied, Commits
    <3>3. buf' = buf /\ full_first' = full_first
      BY <3>1, <3>2 DEF AfterCommit, Commits
    <3>4. TransferInv'
      BY <2>1, <3>1, <3>3 DEF TransferInv, Commits
    <3>5. Taken /\ host' \in {"empty", "ack"}
      BY <2>1, <3>1, <3>2, <3>3, <3>4 DEF Taken, AfterCommit, Commits, Answer
    <3>6. QED
      BY <1>1, <3>5
  <2>8. CASE EmptyOf(f, p) /\ f.type = "EXECUTE" /\ r.result # "DUPLICATE"
    <3>1. state = "READY" /\ (t.format = "gray" => t.plane = 1)
      BY <1>3, <2>8 DEF RefusedFirst
    <3>2. Executes(r) /\ SessionOK(r.t, r.buf)
      BY <1>3, <2>1, <2>8, <3>1, ExecuteApplied
    <3>3. AfterExecute(r)
      BY <1>3, <2>8, <3>2 DEF Applied, Executes
    <3>4. buf' = buf
      BY <3>2, <3>3 DEF AfterExecute, Executes
    <3>5. TransferInv'
      BY <2>1, <3>2, <3>4 DEF TransferInv, Executes
    <3>6. /\ gray_rows' = IF t'.format = "gray" THEN 0 ELSE gray_rows
          /\ clean_active' = (clean_active \/ t'.clean \/ full_first)
          /\ clean_phase' = IF t'.clean \/ full_first THEN 1 ELSE clean_phase
          /\ state' \in {"EXECUTE_ACK", "ERROR"} /\ ack_read' \in {FALSE, ack_read}
          /\ host' \in {"empty", "ack"}
          /\ UNCHANGED <<staged, full_first>>
      BY <2>1, <3>3 DEF AfterExecute
    <3>7. Asked
      BY <2>1, <3>1, <3>2, <3>4, <3>5, <3>6 DEF Asked, Executes
    <3>8. QED
      BY <1>1, <3>6, <3>7
  <2>9. EmptyOf(f, p) => f.type \in {"COMMIT", "EXECUTE"}
    BY DEF EmptyOf, SessionFrame
  <2>10. r.result = "DUPLICATE" /\ ~ StartOf(f, p) => r.t = t /\ r.buf = buf
    <3>1. SUFFICES ASSUME r.result = "DUPLICATE", ~ StartOf(f, p)
                   PROVE  r.t = t /\ r.buf = buf
      OBVIOUS
    <3>2. CASE DataOf(f, p)
      BY <2>1, <3>1, <3>2, DataApplied DEF Fills
    <3>3. CASE p.format = "pattern" /\ f = PatternFrame(p)
      BY <2>1, <3>1, <3>3, PatternApplied DEF Builds
    <3>4. CASE EmptyOf(f, p) /\ f.type = "COMMIT"
      BY <2>1, <3>1, <3>4, CommitApplied DEF Commits
    <3>5. CASE EmptyOf(f, p) /\ f.type = "EXECUTE"
      <4>1. t.format = "gray" => t.plane = 1
        BY <1>3, <3>5 DEF RefusedFirst
      <4>2. QED
        BY <2>1, <3>1, <3>5, <4>1, ExecuteApplied DEF Executes
    <3>6. QED
      BY <2>2, <2>9, <3>1, <3>2, <3>3, <3>4, <3>5
  <2>11. QED
    BY <2>2, <2>3, <2>4, <2>5, <2>6, <2>7, <2>8, <2>9, <2>10
<1>4. QED
  BY <1>1, <1>2, <1>3

-----------------------------------------------------------------------------
(* Steps that leave the picture alone.                                     *)

\* A step of the mailbox, of the pause for NDEF, or of the wait for the ACK.
LEMMA QuietStep ==
  ASSUME CardInv, LoopTypes',
         UNCHANGED <<t, buf, state, staged, loopVars, pc, storeVars, panelVars>>
  PROVE  CardInv'
<1> USE DEF loopVars, storeVars, panelVars
<1>1. TransferInv'
  BY DEF CardInv, TransferInv
<1>2. StoreInv'
  BY DEF CardInv, StoreInv, FrameToStage
<1>3. StateInv'
  BY DEF CardInv, StateInv
<1>4. CleanInv'
  BY DEF CardInv, CleanInv, committed_format
<1>5. HoldingInv'
  BY DEF CardInv, HoldingInv, SecondPlane, FrameToStage
<1>6. GrayInv'
  BY DEF CardInv, GrayInv, IsGray, PlaneZeroPending, pending_format, pending_tid
<1>7. CycleInv'
  BY DEF CardInv, CycleInv, AllShow
<1>8. DriftInv'
  BY DEF CardInv, DriftInv, AllShow, IsGray, Base, committed_format, CurrentImage, Shows
<1>9. QED
  BY <1>1, <1>2, <1>3, <1>4, <1>5, <1>6, <1>7, <1>8 DEF CardInv

\* set_error keeps all but the state, and the store if a write was under way.
LEMMA ErrorStep ==
  ASSUME CardInv, StopWithError, StoreInv', committed' = committed,
         header' = header \/ ~ (t.format = "gray" /\ gray_rows > 0)
  PROVE  CardInv'
<1> USE DEF loopVars, storeVars, panelVars, StopWithError
<1>1. TransferInv'
  BY DEF CardInv, TransferInv
<1>2. LoopTypes'
  BY DEF CardInv, LoopTypes, AppState
<1>3. StateInv'
  BY DEF CardInv, StateInv, Holding
<1>4. CleanInv'
  BY DEF CardInv, CleanInv, committed_format
<1>5. HoldingInv'
  BY DEF CardInv, HoldingInv, Holding
<1>6. GrayInv'
  BY DEF CardInv, GrayInv
<1>7. CycleInv'
  BY DEF CardInv, CycleInv
<1>8. DriftInv'
  BY DEF CardInv, DriftInv, Base, committed_format, Shows
<1>9. QED
  BY <1>1, <1>2, <1>3, <1>4, <1>5, <1>6, <1>7, <1>8 DEF CardInv

-----------------------------------------------------------------------------
(* Frames preserve the invariant.                                          *)

\* What every frame leaves alone.
Mailed ==
    /\ UNCHANGED <<pause, pc, storeVars, brownout, panelVars>>
    /\ pc = "loop" /\ host' \in {"empty", "ack", "error"}

LEMMA MailedStore ==
  ASSUME StoreInv, Mailed
  PROVE  StoreInv'
  BY DEF StoreInv, Mailed, storeVars, panelVars

LEMMA MailedDrift ==
  ASSUME DriftInv, Mailed
  PROVE  DriftInv'
  BY DEF DriftInv, Mailed, storeVars, panelVars, Base, committed_format, Shows

LEMMA StartedStep ==
  ASSUME CardInv, Mailed, Started
  PROVE  CardInv'
<1> USE DEF Mailed, Started, loopVars, storeVars, panelVars
<1>1. LoopTypes'
  <2>1. staged' \in BOOLEAN /\ clean_active' \in BOOLEAN /\ full_first' \in BOOLEAN
    BY Zenon DEF CardInv, LoopTypes
  <2>2. clean_phase' \in 0 .. 4 /\ gray_rows' \in 0 .. ImageSize
    BY Sizes DEF CardInv, LoopTypes
  <2>3. QED
    BY <2>1, <2>2 DEF CardInv, LoopTypes, AppState
<1>2. StateInv'
  BY DEF CardInv, StateInv, Holding
<1>3. CleanInv'
  BY DEF CardInv, CleanInv, committed_format
<1>4. HoldingInv'
  BY DEF HoldingInv, Holding
<1>5. GrayInv'
  BY DEF GrayInv
<1>6. CycleInv'
  BY DEF CycleInv
<1>7. QED
  BY <1>1, <1>2, <1>3, <1>4, <1>5, <1>6, MailedStore, MailedDrift DEF CardInv

LEMMA ReceivedStep ==
  ASSUME CardInv, Mailed, Received
  PROVE  CardInv'
<1> USE DEF Mailed, Received, SameSession, loopVars, storeVars, panelVars
<1>1. state \notin Holding /\ ~ clean_active /\ ~ t.execute_requested
  BY DEF CardInv, StateInv, CleanInv, TransferInv, SessionOK
<1>2. LoopTypes'
  BY DEF CardInv, LoopTypes
<1>3. StateInv'
  BY <1>1 DEF CardInv, StateInv, Holding
<1>4. CleanInv'
  BY <1>1 DEF CardInv, CleanInv, committed_format, Holding
<1>5. HoldingInv'
  BY <1>1 DEF HoldingInv, Holding
<1>6. GrayInv'
  BY <1>1 DEF CardInv, GrayInv, Holding
<1>7. CycleInv'
  BY <1>1 DEF CardInv, CycleInv, Holding
<1>8. QED
  BY <1>2, <1>3, <1>4, <1>5, <1>6, <1>7, MailedStore, MailedDrift DEF CardInv

\* A whole image is of the picture that START announced.
LEMMA AnnouncedPicture ==
  ASSUME NEW tr, NEW b, SessionOK(tr, b), tr.committed, tr.crc # NoCrc,
         ~ (tr.format = "gray" /\ tr.plane = 1)
  PROVE  PictureOf([image |-> b, tid |-> tr.tid, seq |-> tr.seq, pattern |-> tr.pattern,
                    clean |-> tr.clean, format |-> tr.format]) # {}
<1>1. PICK p \in Picture : \E k \in DOMAIN p.planes :
        /\ p.format = tr.format /\ p.tid = tr.tid /\ p.clean = tr.clean
        /\ tr.pattern = 0 /\ tr.crc = p.planes[k] /\ tr.plane = k - 1
  BY DEF SessionOK, Announced
<1>2. tr.format \in {"none", "mono", "gray"} /\ tr.plane \in {0, 1} /\ b = tr.crc
  BY DEF SessionOK, TransferType
<1>3. tr.format \in {"mono", "gray"} /\ p.pattern = 0
  BY <1>1, <1>2, PictureAssumption DEF SessionOK
<1>4. PICK k \in DOMAIN p.planes : tr.crc = p.planes[k] /\ tr.plane = k - 1
  BY <1>1
<1>5. p.format = "mono" => k = 1
  BY <1>4, PictureAssumption
<1>6. p.format = "gray" => k \in {1, 2}
  BY <1>4, PictureAssumption
<1>7. k = 1
  BY <1>1, <1>2, <1>3, <1>4, <1>5, <1>6
<1>8. b = p.planes[1]
  BY <1>2, <1>4, <1>7
<1> DEFINE kept == [image |-> b, tid |-> tr.tid, seq |-> tr.seq, pattern |-> tr.pattern,
                    clean |-> tr.clean, format |-> tr.format]
<1>9. p \in PictureOf(kept)
  BY <1>1, <1>3, <1>8 DEF PictureOf
<1>10. QED
  BY <1>9

LEMMA TakenStep ==
  ASSUME CardInv, Mailed, Taken
  PROVE  CardInv'
<1> USE DEF Mailed, Taken, SameSession, loopVars, storeVars, panelVars
<1>1. LoopTypes'
  <2>1. staged' \in BOOLEAN /\ clean_active' \in BOOLEAN /\ full_first' \in BOOLEAN
    BY Zenon DEF CardInv, LoopTypes
  <2>2. clean_phase' \in 0 .. 4 /\ gray_rows' \in 0 .. ImageSize
    BY Sizes DEF CardInv, LoopTypes
  <2>3. QED
    BY <2>1, <2>2 DEF CardInv, LoopTypes, AppState
<1>2. StateInv'
  BY DEF CardInv, StateInv, Holding
<1>3. CleanInv'
  BY DEF CardInv, CleanInv, committed_format
<1>4. HoldingInv'
  <2>1. ~ SecondPlane' => PictureOf(FrameToStage') # {}
    BY AnnouncedPicture DEF TransferInv, SecondPlane, FrameToStage
  <2>2. staged' = SecondPlane'
    BY DEF SecondPlane
  <2>3. QED
    BY <2>1, <2>2 DEF HoldingInv, PictureOf
<1>5. GrayInv'
  BY DEF CardInv, GrayInv
<1>6. CycleInv'
  BY DEF CardInv, CycleInv
<1>7. QED
  BY <1>1, <1>2, <1>3, <1>4, <1>5, <1>6, MailedStore, MailedDrift DEF CardInv

LEMMA PatternedStep ==
  ASSUME CardInv, Mailed, Patterned
  PROVE  CardInv'
<1> USE DEF Mailed, Patterned, loopVars, storeVars, panelVars
<1>1. LoopTypes'
  <2>1. staged' \in BOOLEAN /\ clean_active' \in BOOLEAN /\ full_first' \in BOOLEAN
    BY Zenon DEF CardInv, LoopTypes
  <2>2. clean_phase' \in 0 .. 4 /\ gray_rows' \in 0 .. ImageSize
    BY Sizes DEF CardInv, LoopTypes
  <2>3. QED
    BY <2>1, <2>2 DEF CardInv, LoopTypes, AppState
<1>2. StateInv'
  BY DEF CardInv, StateInv, Holding
<1>3. CleanInv'
  BY DEF CardInv, CleanInv, committed_format
<1>4. HoldingInv'
  <2>1. PICK p \in Picture :
          p.format = "pattern" /\ p.tid = t'.tid /\ p.pattern = t'.pattern /\ ~ p.clean
    OBVIOUS
  <2>2. p.clean = FALSE /\ t'.clean = FALSE
    BY <2>1, PictureAssumption DEF TransferInv, SessionOK, TransferType
  <2>3. p \in PictureOf(FrameToStage')
    BY <2>1, <2>2 DEF PictureOf, FrameToStage
  <2>4. PictureOf(FrameToStage)' # {} /\ ~ SecondPlane'
    BY <2>3 DEF PictureOf, SecondPlane
  <2>5. QED
    BY <2>4 DEF HoldingInv
<1>5. GrayInv'
  BY DEF CardInv, GrayInv
<1>6. CycleInv'
  BY DEF CardInv, CycleInv
<1>7. QED
  BY <1>1, <1>2, <1>3, <1>4, <1>5, <1>6, MailedStore, MailedDrift DEF CardInv

LEMMA AskedStep ==
  ASSUME CardInv, Mailed, Asked
  PROVE  CardInv'
<1> USE DEF Mailed, Asked, SameSession, loopVars, storeVars, panelVars
<1>1. /\ ~ clean_active /\ clean_phase = 0 /\ staged = TRUE
      /\ full_first \in BOOLEAN /\ t'.clean \in BOOLEAN /\ clean_active \in BOOLEAN
      /\ full_first => t.format = "mono"
      /\ t'.clean => t.format = "mono"
  BY DEF CardInv, CleanInv, StateInv, Holding, LoopTypes, TransferInv, SessionOK, TransferType
<1>2. LoopTypes'
  <2>1. staged' \in BOOLEAN /\ clean_active' \in BOOLEAN /\ full_first' \in BOOLEAN
    BY <1>1
  <2>2. clean_phase' \in 0 .. 4 /\ gray_rows' \in 0 .. ImageSize
    BY <1>1, Sizes DEF CardInv, LoopTypes
  <2>3. ack_read' \in BOOLEAN /\ state' \in AppState
    BY DEF CardInv, LoopTypes, AppState
  <2>4. QED
    BY <2>1, <2>2, <2>3 DEF CardInv, LoopTypes
<1>3. StateInv'
  BY <1>1 DEF CardInv, StateInv, Holding
<1>4. CleanInv'
  BY <1>1 DEF CardInv, CleanInv, committed_format
<1>5. HoldingInv'
  BY <1>1 DEF CardInv, HoldingInv, Holding, SecondPlane
<1>6. GrayInv'
  BY <1>1 DEF CardInv, GrayInv
<1>7. CycleInv'
  BY <1>1 DEF CardInv, CycleInv
<1>8. QED
  BY <1>2, <1>3, <1>4, <1>5, <1>6, <1>7, MailedStore, MailedDrift DEF CardInv

LEMMA MessageStep ==
  ASSUME CardInv, NEW f \in WireFrame, HandleMessage(f)
  PROVE  CardInv'
<1>1. Mailed /\ \/ UNCHANGED <<t, buf, state, staged, loopVars, ack_read>>
                \/ Started \/ Received \/ Taken \/ Patterned \/ Asked
  BY MessageEffect DEF CardInv, Mailed
<1>2. CASE UNCHANGED <<t, buf, state, staged, loopVars, ack_read>>
  <2>1. LoopTypes'
    BY <1>1, <1>2 DEF CardInv, LoopTypes, Mailed, loopVars
  <2>2. QED
    BY <1>1, <1>2, <2>1, QuietStep DEF Mailed
<1>3. QED
  BY <1>1, <1>2, StartedStep, ReceivedStep, TakenStep, PatternedStep, AskedStep

-----------------------------------------------------------------------------
(* Charging, staging and the ways to stop.                                 *)

LEMMA StopStep ==
  ASSUME CardInv, StopWithError, UNCHANGED storeVars, pc # "stage", ~ committing
  PROVE  CardInv'
<1>1. StoreInv'
  BY DEF CardInv, StoreInv, StopWithError, storeVars
<1>2. QED
  BY <1>1, ErrorStep DEF storeVars

\* While a frame is staged the bands of a gray picture are not under way.
LEMMA StagingIsNotGray ==
  ASSUME CardInv, pc = "stage"
  PROVE  ~ (t.format = "gray" /\ gray_rows > 0) /\ ~ committing
  BY DEF CardInv, StateInv, HoldingInv, SecondPlane, GrayInv, TransferInv, SessionOK, StoreInv

LEMMA StageFailsStep ==
  ASSUME CardInv, StageFails
  PROVE  CardInv'
<1>1. /\ StopWithError /\ staging' = NoFrame /\ committed' = committed
      /\ committing' = committing
      /\ prepared' \in {prepared, NoFrame} /\ header' \in {header, NoFrame, staging, TornHeader}
      /\ prepared' # NoFrame => header' = header
  BY DEF StageFails, Store!Fail, Store!Overwrite
<1>2. StoreInv'
  BY <1>1, StagingIsNotGray DEF CardInv, StoreInv, StageFails, StopWithError
<1>3. QED
  BY <1>1, <1>2, ErrorStep, StagingIsNotGray DEF StageFails

LEMMA CommitFailsStep ==
  ASSUME CardInv, CommitFails
  PROVE  CardInv'
<1>1. CASE Store!Spoil
  <2>1. StoreInv'
    BY <1>1 DEF CardInv, StoreInv, CommitFails, StopWithError, Store!Spoil
  <2>2. QED
    BY <1>1, <2>1, ErrorStep DEF CommitFails, Store!Spoil
<1>2. CASE ~ Store!Spoil
  BY <1>2, StopStep DEF CommitFails
<1>3. QED
  BY <1>1, <1>2

\* What charging and staging leave alone.
LEMMA StagingStep ==
  ASSUME CardInv, StoreInv', LoopTypes', StateInv', HoldingInv',
         UNCHANGED <<t, buf, loopVars, panelVars, committed>>,
         state = "CHARGING", pc' \in {"loop", "stage"}, pc \in {"loop", "stage"},
         \/ state' = "CHARGING"
         \/ state' = "READY" /\ ~ clean_active,
         header' = header \/ ~ (t.format = "gray" /\ gray_rows > 0)
  PROVE  CardInv'
<1> USE DEF loopVars, panelVars
<1>1. TransferInv'
  BY DEF CardInv, TransferInv
<1>2. CleanInv'
  BY DEF CardInv, CleanInv, committed_format
<1>3. GrayInv'
  BY DEF CardInv, GrayInv
<1>4. CycleInv'
  BY DEF CardInv, CycleInv, AllShow
<1>5. DriftInv'
  BY DEF CardInv, DriftInv, Base, committed_format, Shows
<1>6. QED
  BY <1>1, <1>2, <1>3, <1>4, <1>5 DEF CardInv

LEMMA BecomesReadyStep ==
  ASSUME CardInv, BecomesReady
  PROVE  CardInv'
<1> USE DEF BecomesReady, Running, storeVars, loopVars, panelVars
<1>1. StoreInv' /\ LoopTypes'
  BY DEF CardInv, StoreInv, LoopTypes, AppState, FrameToStage
<1>2. StateInv'
  BY DEF CardInv, StateInv, Holding
<1>3. HoldingInv'
  BY DEF CardInv, HoldingInv, Holding, SecondPlane
<1>4. QED
  BY <1>1, <1>2, <1>3, StagingStep

LEMMA StageBeginsStep ==
  ASSUME CardInv, StageBegins
  PROVE  CardInv'
<1>1. FrameToStage \in Kept
  <2>1. /\ buf \in Image /\ t.tid \in Nat /\ t.seq \in Nat /\ t.seq < SeqModulus
        /\ t.pattern \in Nat /\ t.clean \in BOOLEAN /\ t.format \in {"mono", "gray"}
    <3>1. t.committed
      BY DEF CardInv, StateInv, Holding, StageBegins
    <3>2. t.format \in {"mono", "gray"}
      BY <3>1 DEF CardInv, TransferInv, SessionOK, TransferType
    <3>3. QED
      BY <3>2, SeqNumbers DEF CardInv, TransferInv, SessionOK, TransferType
  <2>2. PictureOf(FrameToStage) # {}
    BY DEF CardInv, HoldingInv, StageBegins
  <2>3. QED
    BY <2>1, <2>2 DEF Kept, StorableFrame, FrameToStage
<1>2. FrameToStage # NoFrame
  BY <1>1, FrameAssumption DEF Kept
<1> USE DEF StageBegins, Running, Store!Begin, loopVars, panelVars
<1>3. StoreInv'
  BY <1>1, <1>2 DEF CardInv, StoreInv, FrameToStage
<1>4. LoopTypes' /\ StateInv'
  BY DEF CardInv, LoopTypes, StateInv, Holding
<1>5. HoldingInv'
  BY DEF CardInv, HoldingInv, Holding, SecondPlane, FrameToStage
<1>6. QED
  BY <1>3, <1>4, <1>5, StagingStep

LEMMA StageWritesStep ==
  ASSUME CardInv, StageWrites
  PROVE  CardInv'
<1> USE DEF StageWrites, loopVars, panelVars
<1>1. /\ staging' = staging /\ committed' = committed /\ committing' = committing
      /\ prepared' = NoFrame /\ header' \in {header, NoFrame, staging, TornHeader}
  BY DEF Store!Disturb, Store!Overwrite
<1>2. StoreInv'
  BY <1>1, StagingIsNotGray DEF CardInv, StoreInv, FrameToStage
<1>3. LoopTypes' /\ StateInv' /\ state = "CHARGING" /\ ~ staged
  BY DEF CardInv, LoopTypes, StateInv, Holding
<1>4. HoldingInv'
  BY <1>3 DEF CardInv, HoldingInv, Holding, SecondPlane, FrameToStage
<1>5. QED
  BY <1>1, <1>2, <1>3, <1>4, StagingStep, StagingIsNotGray

LEMMA StageSucceedsStep ==
  ASSUME CardInv, StageSucceeds
  PROVE  CardInv'
<1> USE DEF StageSucceeds, Store!Land, loopVars, panelVars
<1>1. state = "CHARGING" /\ staging = FrameToStage /\ staging \in Kept
  BY DEF CardInv, StateInv, StoreInv
<1>2. StoreInv'
  BY <1>1, StagingIsNotGray DEF CardInv, StoreInv
<1>3. LoopTypes' /\ StateInv'
  BY <1>1 DEF CardInv, LoopTypes, StateInv, Holding
<1>4. /\ FrameToStage.tid = t.tid /\ FrameToStage.image = buf
      /\ FrameToStage.format = t.format
  BY DEF FrameToStage
<1>5. HoldingInv'
  BY <1>1, <1>4 DEF CardInv, HoldingInv, Holding, SecondPlane
<1>6. QED
  BY <1>1, <1>2, <1>3, <1>5, StagingStep, StagingIsNotGray

-----------------------------------------------------------------------------
(* Boot.                                                                   *)

LEMMA KeptFrames ==
  ASSUME NEW f \in Kept
  PROVE  /\ f \in StorableFrame /\ f \notin {NoFrame, TornHeader}
         /\ f.image \in Image /\ f.tid \in Nat /\ f.seq \in 0 .. SeqModulus - 1
         /\ f.pattern \in Nat /\ f.clean \in BOOLEAN /\ f.format \in {"mono", "gray"}
         /\ f.clean => f.format = "mono"
<1>1. /\ f \in StorableFrame /\ f.seq < SeqModulus
      /\ f = FactoryFrame \/ PictureOf(f) # {}
  BY DEF Kept
<1>2. /\ f.image \in Image /\ f.tid \in Nat /\ f.seq \in Nat
      /\ f.pattern \in Nat /\ f.clean \in BOOLEAN /\ f.format \in {"mono", "gray"}
  BY <1>1 DEF StorableFrame
<1>3. f.seq \in 0 .. SeqModulus - 1
  BY <1>1, <1>2, SeqNumbers
<1>4. f.clean => f.format = "mono"
  <2>1. CASE f = FactoryFrame
    BY <2>1 DEF FactoryFrame
  <2>2. CASE f # FactoryFrame
    <3>1. PICK p \in Picture : p.clean = f.clean /\ f.format = IF p.format = "gray" THEN "gray" ELSE "mono"
      BY <1>1, <2>2 DEF PictureOf
    <3>2. QED
      BY <3>1, PictureAssumption
  <2>3. QED
    BY <2>1, <2>2
<1>5. QED
  BY <1>1, <1>2, <1>3, <1>4, FrameAssumption

\* A transfer taken up from a stored frame is a session with a whole picture.
LEMMA ResumedOK ==
  ASSUME NEW f \in Kept, NEW seq \in 0 .. SeqModulus - 1, NEW executed \in BOOLEAN,
         NEW b \in Image
  PROVE  /\ SessionOK(Resumed(f, seq, executed), b)
         /\ Resumed(f, seq, executed).tid = f.tid
         /\ Resumed(f, seq, executed).format = f.format
         /\ Resumed(f, seq, executed).committed
<1> DEFINE new == Resumed(f, seq, executed)
<1>1. /\ new.active = TRUE /\ new.committed = TRUE /\ new.execute_requested = executed
      /\ new.tid = f.tid /\ new.seq = seq /\ new.off = ImageSize /\ new.crc = NoCrc
      /\ new.clean = (~ executed /\ f.clean) /\ new.format = f.format
      /\ new.plane = IF executed /\ f.format = "gray" THEN 1 ELSE 0
      /\ new.pattern = f.pattern /\ new.last = NothingRemembered
  BY DEF Resumed, ResetTransfer
<1>2. DOMAIN new = DOMAIN ResetTransfer
  BY DEF Resumed, ResetTransfer
<1> HIDE DEF new
<1>3. /\ f.tid \in Nat /\ f.pattern \in Nat /\ f.clean \in BOOLEAN
      /\ f.format \in {"mono", "gray"} /\ (f.clean => f.format = "mono")
  BY KeptFrames
<1>4. new.clean \in BOOLEAN /\ (new.clean => new.format = "mono")
  BY <1>1, <1>3
<1>5. new.last \in Remembered /\ new.last.type = "NONE"
  BY <1>1 DEF Remembered, NothingRemembered
<1>6. new.plane \in {0, 1} /\ new.off \in 0 .. ImageSize
  BY <1>1, Sizes
<1>7. TransferType(new)
  BY <1>1, <1>2, <1>3, <1>4, <1>5, <1>6 DEF TransferType
<1>8. SessionOK(new, b)
  BY <1>1, <1>3, <1>4, <1>5, <1>7 DEF SessionOK
<1>9. QED
  BY <1>1, <1>8 DEF new

LEMMA ResetOK ==
  ASSUME NEW b \in Image
  PROVE  SessionOK(ResetTransfer, b)
<1>1. NothingRemembered \in Remembered /\ NothingRemembered.type = "NONE"
  BY DEF Remembered, NothingRemembered
<1>2. TransferType(ResetTransfer)
  BY <1>1, Sizes, SeqNumbers DEF TransferType, ResetTransfer
<1>3. QED
  BY <1>1, <1>2 DEF SessionOK, ResetTransfer

\* What the store holds when it has been scanned.
StoreScanned ==
    /\ committed' \in Kept \cup {NoFrame} /\ prepared' \in Kept \cup {NoFrame}
    /\ header' = prepared' /\ staging' = NoFrame /\ committing' = FALSE

LEMMA BootSession ==
  ASSUME StoreScanned, Boot
  PROVE  /\ TransferInv'
         /\ prepared' # NoFrame =>
                /\ t'.committed /\ t'.tid = prepared'.tid /\ t'.format = prepared'.format
                /\ staged' = TRUE
                /\ \/ state' = "RECEIVING" /\ t'.format = "gray"
                   \/ state' = "CHARGING" /\ t'.format = "mono" /\ buf' = prepared'.image
         /\ prepared' = NoFrame => state' \in {"RECEIVING", "COMPLETE"} /\ staged' = FALSE
         /\ full_first' \in BOOLEAN
         /\ full_first' <=> t'.format = "mono" /\ committed_format' = "gray"
<1>1. AllBlack \in Image
  BY DEF AllBlack, Image
<1>2. CASE prepared' # NoFrame
  <2>1. prepared' \in Kept /\ pending_format' = prepared'.format
    BY <1>2, KeptFrames DEF StoreScanned, pending_format
  <2>2. prepared'.seq \in 0 .. SeqModulus - 1 /\ prepared'.image \in Image
        /\ prepared'.format \in {"mono", "gray"}
    BY <2>1, KeptFrames
  <2>3. /\ t' = Resumed(prepared', prepared'.seq, FALSE)
        /\ state' = IF prepared'.format = "gray" THEN "RECEIVING" ELSE "CHARGING"
        /\ buf' = IF prepared'.format = "gray" THEN AllBlack ELSE prepared'.image
        /\ full_first' = (prepared'.format = "mono" /\ committed_format' = "gray")
        /\ staged' = TRUE
    BY <1>2, <2>1 DEF Boot
  <2>4. buf' \in Image
    BY <1>1, <2>2, <2>3
  <2>5. /\ SessionOK(t', buf') /\ t'.tid = prepared'.tid /\ t'.format = prepared'.format
        /\ t'.committed
    BY <2>1, <2>2, <2>3, <2>4, ResumedOK
  <2>6. QED
    BY <1>2, <2>2, <2>3, <2>5 DEF TransferInv
<1>3. CASE prepared' = NoFrame /\ committed' = NoFrame
  <2>1. t' = ResetTransfer /\ state' = "RECEIVING" /\ buf' = AllBlack
        /\ full_first' = FALSE /\ staged' = FALSE
    BY <1>3 DEF Boot
  <2>2. committed_format' = "none"
    BY <1>3 DEF committed_format
  <2>3. QED
    BY <1>1, <1>3, <2>1, <2>2, ResetOK DEF TransferInv
<1>4. CASE prepared' = NoFrame /\ committed' # NoFrame
  <2>1. committed' \in Kept /\ committed_format' = committed'.format
    BY <1>4 DEF StoreScanned, committed_format
  <2>2. (committed'.seq + 1) % SeqModulus \in 0 .. SeqModulus - 1
    BY <2>1, KeptFrames, SeqNumbers
  <2>3. /\ t' = Resumed(committed', (committed'.seq + 1) % SeqModulus, TRUE)
        /\ state' = "COMPLETE" /\ buf' = AllBlack /\ full_first' = FALSE /\ staged' = FALSE
    BY <1>4 DEF Boot
  <2>4. SessionOK(t', buf') /\ t'.format = committed'.format
    BY <1>1, <2>1, <2>2, <2>3, ResumedOK
  <2>5. QED
    BY <1>4, <2>1, <2>3, <2>4 DEF TransferInv
<1>5. QED
  BY <1>2, <1>3, <1>4

\* A power cut leaves a scanned store, and the record replaced only by a frame
\* that the panel had been shown to the end.
LEMMA PowerCycleStore ==
  ASSUME CardInv, Store!PowerCycle
  PROVE  /\ StoreScanned
         /\ committed' # committed => /\ committing /\ prepared # NoFrame
                                      /\ committed' = prepared
  BY DEF CardInv, StoreInv, Store!PowerCycle, StoreScanned

LEMMA TwoImages == AllWhite \in Image /\ AllBlack \in Image /\ AllWhite # AllBlack
<1>1. AllWhite \in Image /\ AllBlack \in Image
  BY DEF AllWhite, AllBlack, Image
<1>2. 1 \in Strip
  BY Sizes DEF Strip
<1>3. AllWhite[1] = "W" /\ AllBlack[1] = "B"
  BY <1>2 DEF AllWhite, AllBlack
<1>4. QED
  BY <1>1, <1>3

\* What is known of the panel and of the prepared frame while it is put on
\* record.
LEMMA AtCommit ==
  ASSUME CardInv, pc = "commit", prepared # NoFrame
  PROVE  /\ adrift # {}
         /\ IsGray => prepared.format = "gray" /\ header = prepared /\ Image \subseteq adrift
         /\ ~ IsGray => /\ prepared.image = buf /\ prepared.format = "mono"
                        /\ t.format = "mono"
                        /\ CurrentImage = buf /\ buf \in adrift
                        /\ adrift = {buf} => AllShow(buf)
<1>1. state = "REFRESHING" /\ staged /\ t.committed /\ t.execute_requested
  BY DEF CardInv, StateInv, Holding
<1>2. t.format \in {"mono", "gray"}
  BY <1>1 DEF CardInv, TransferInv, SessionOK, TransferType
<1>3. CASE IsGray
  <2>1. PlaneZeroPending(t.tid) /\ Image \subseteq adrift /\ header = prepared
    BY <1>3 DEF CardInv, GrayInv, StoreInv
  <2>2. prepared.format = "gray"
    BY <2>1 DEF PlaneZeroPending, pending_format
  <2>3. QED
    BY <1>3, <2>1, <2>2, TwoImages
<1>4. CASE ~ IsGray
  <2>1. t.format = "mono"
    BY <1>2, <1>4 DEF IsGray, CardInv, CleanInv
  <2>2. prepared.image = buf /\ prepared.format = "mono"
    BY <1>1, <2>1 DEF CardInv, HoldingInv, Holding, SecondPlane
  <2>3. CurrentImage = buf
    BY DEF CurrentImage, CardInv, CleanInv
  <2>4. buf \in adrift /\ (adrift = {buf} => AllShow(buf))
    BY <1>4, <2>3 DEF CardInv, DriftInv
  <2>5. QED
    BY <1>4, <2>1, <2>2, <2>3, <2>4
<1>5. QED
  BY <1>3, <1>4

LEMMA PowerCycleStep ==
  ASSUME CardInv, PowerCycle
  PROVE  CardInv'
<1>1. StoreScanned /\ Boot /\ UNCHANGED panelVars
  BY PowerCycleStore DEF PowerCycle
<1>2. TransferInv'
  BY <1>1, BootSession
<1>3. StoreInv'
  BY <1>1 DEF StoreScanned, Boot, StoreInv
<1>4. LoopTypes'
  <2>1. state' \in AppState /\ staged' \in BOOLEAN /\ full_first' \in BOOLEAN
    BY <1>1, BootSession DEF AppState
  <2>2. clean_active' \in BOOLEAN /\ ack_read' \in BOOLEAN /\ brownout' \in BOOLEAN
    BY <1>1, Zenon DEF Boot
  <2>3. clean_phase' \in 0 .. 4 /\ gray_rows' \in 0 .. ImageSize
    BY <1>1, Sizes DEF Boot
  <2>4. QED
    BY <1>1, <2>1, <2>2, <2>3 DEF Boot, LoopTypes
<1>5. StateInv'
  BY <1>1, BootSession DEF Boot, StateInv, Holding
<1>6. CleanInv'
  BY <1>1, BootSession DEF Boot, CleanInv
<1>7. HoldingInv'
  BY <1>1, BootSession DEF Boot, HoldingInv, Holding, SecondPlane
<1>8. GrayInv'
  BY <1>1, BootSession DEF Boot, GrayInv
<1>9. CycleInv'
  BY <1>1 DEF Boot, CycleInv
<1>10. DriftInv'
  <2>1. panel' = panel /\ adrift' = adrift /\ pc' = "loop"
    BY <1>1 DEF Boot, panelVars
  <2>2. CASE committed' = committed
    BY <2>1, <2>2 DEF CardInv, DriftInv, Base, committed_format, Shows
  <2>3. CASE committed' # committed
    <3>1. pc = "commit" /\ prepared # NoFrame /\ committed' = prepared
      BY <2>3, PowerCycleStore DEF PowerCycle, CardInv, StoreInv
    <3>2. committed_format' = prepared.format
      BY <3>1 DEF committed_format
    <3>3. ASSUME committed_format' # "gray", NEW x \in Image, adrift = {x}, NEW i \in Strip
          PROVE  panel[i] = <<"mono", x[i]>>
      <4>1. ~ IsGray /\ buf \in adrift /\ (adrift = {buf} => AllShow(buf))
        BY <3>1, <3>2, <3>3, AtCommit
      <4>2. AllShow(buf) /\ x = buf
        BY <3>3, <4>1
      <4>3. QED
        BY <4>2 DEF AllShow
    <3>4. QED
      BY <2>1, <3>1, <3>3, AtCommit DEF CardInv, DriftInv
  <2>4. QED
    BY <2>2, <2>3
<1>11. QED
  BY <1>2, <1>3, <1>4, <1>5, <1>6, <1>7, <1>8, <1>9, <1>10 DEF CardInv

LEMMA FactoryFrameKept == FactoryFrame \in Kept
<1>1. AllBlack \in Image
  BY TwoImages
<1>2. FactoryFrame \in StorableFrame
  BY <1>1 DEF FactoryFrame, StorableFrame
<1>3. FactoryFrame.seq < SeqModulus
  BY DEF FactoryFrame, SeqModulus
<1>4. QED
  BY <1>2, <1>3 DEF Kept

LEMMA InitStep ==
  ASSUME Init
  PROVE  CardInv
<1> USE DEF Init
<1>1. FactoryFrame \in Kept /\ FactoryFrame # NoFrame
  BY FactoryFrameKept, KeptFrames
<1>2. /\ FactoryFrame.format = "mono" /\ FactoryFrame.image = AllBlack
  BY DEF FactoryFrame
<1>3. /\ buf \in Image /\ 1 \in 0 .. SeqModulus - 1 /\ TRUE \in BOOLEAN
  BY TwoImages, Sizes
<1>4. TransferInv
  BY <1>1, <1>3, ResumedOK, ResetOK DEF TransferInv
<1>5. StoreInv
  BY <1>1 DEF StoreInv
<1>6. LoopTypes
  <2>1. /\ staged \in BOOLEAN /\ clean_active \in BOOLEAN /\ full_first \in BOOLEAN
        /\ ack_read \in BOOLEAN /\ brownout \in BOOLEAN
    BY Zenon
  <2>2. clean_phase \in 0 .. 4 /\ gray_rows \in 0 .. ImageSize
    BY Sizes
  <2>3. state \in AppState
    BY DEF AppState
  <2>4. QED
    BY <2>1, <2>2, <2>3 DEF LoopTypes
<1>7. StateInv /\ HoldingInv /\ CycleInv
  BY DEF StateInv, HoldingInv, CycleInv, Holding
<1>8. CleanInv
  BY <1>2 DEF CleanInv, committed_format
<1>9. GrayInv
  BY DEF GrayInv
<1>10. DriftInv
  <2>1. panel \in PanelType
    BY DEF PanelType
  <2>2. \A i \in Strip : Shows(i, committed)
    <3>1. CASE committed = NoFrame
      BY <3>1 DEF Shows
    <3>2. CASE committed = FactoryFrame
      BY <1>1, <1>2, <3>2 DEF Shows, AllBlack
    <3>3. QED
      BY <3>1, <3>2
  <2>3. \A x : adrift # {x}
    OBVIOUS
  <2>4. QED
    BY <2>1, <2>2, <2>3 DEF DriftInv
<1>11. QED
  BY <1>4, <1>5, <1>6, <1>7, <1>8, <1>9, <1>10 DEF CardInv

-----------------------------------------------------------------------------
(* A refresh starts.                                                       *)

\* When app_process calls for a refresh.
RefreshDue ==
    /\ Running /\ staged /\ t.committed /\ t.execute_requested
    /\ \/ state = "CHARGING" /\ (clean_active \/ (IsGray /\ gray_rows < ImageSize))
       \/ state = "EXECUTE_ACK" /\ (IsGray => gray_rows = 0)
    /\ full_first => clean_active
    /\ ~ IsGray => t.format = "mono"
    /\ IsGray => ~ clean_active /\ ~ full_first

LEMMA RefreshIsDue ==
  ASSUME CardInv, RefreshContinues \/ QuietIsOver
  PROVE  RefreshDue
<1>1. Running /\ staged /\ t.committed
  BY DEF RefreshContinues, QuietIsOver, CardInv, StateInv, Holding
<1>2. t.execute_requested /\ (full_first => clean_active \/ (state = "CHARGING" /\ IsGray))
  BY DEF RefreshContinues, QuietIsOver, CardInv, StateInv, CleanInv
<1>3. t.format \in {"mono", "gray"}
  BY <1>1 DEF CardInv, TransferInv, SessionOK, TransferType
<1>4. IsGray => t.format = "gray" /\ ~ clean_active /\ ~ full_first
  BY DEF IsGray, CardInv, CleanInv
<1>5. ~ IsGray => t.format = "mono"
  BY <1>3 DEF IsGray, CardInv, CleanInv
<1>6. state = "EXECUTE_ACK" => (IsGray => gray_rows = 0)
  BY <1>4 DEF CardInv, GrayInv
<1>7. \/ state = "CHARGING" /\ (clean_active \/ (IsGray /\ gray_rows < ImageSize))
      \/ state = "EXECUTE_ACK"
  BY DEF RefreshContinues, QuietIsOver
<1>8. QED
  BY <1>1, <1>2, <1>4, <1>5, <1>6, <1>7 DEF RefreshDue

LEMMA CurrentIsImage ==
  ASSUME CardInv
  PROVE  CurrentImage \in Image
  BY TwoImages DEF CardInv, TransferInv, SessionOK, CurrentImage

\* The parts of the invariant that do not depend on the kind of refresh.
LEMMA DrivingStep ==
  ASSUME CardInv, RefreshDue, NEW images, StartDriving(images)
  PROVE  TransferInv' /\ StoreInv' /\ LoopTypes' /\ StateInv' /\ CleanInv' /\ HoldingInv'
<1> USE DEF StartDriving, RefreshDue, Running, loopVars, storeVars
<1>1. TransferInv'
  BY DEF CardInv, TransferInv
<1>2. StoreInv' /\ LoopTypes'
  BY DEF CardInv, StoreInv, LoopTypes, AppState
<1>3. StateInv'
  BY DEF CardInv, StateInv, Holding
<1>4. CleanInv'
  BY DEF CardInv, CleanInv, committed_format
<1>5. HoldingInv'
  BY DEF CardInv, HoldingInv, Holding, SecondPlane
<1>6. QED
  BY <1>1, <1>2, <1>3, <1>4, <1>5

LEMMA PanelDriven ==
  ASSUME DriftInv, panel' = [i \in Strip |-> IF i \in Driven THEN Unsettled ELSE panel[i]]
  PROVE  /\ panel' \in PanelType
         /\ \A i \in Strip : panel'[i] = IF i \in Driven THEN Unsettled ELSE panel[i]
<1>1. panel \in PanelType
  BY DEF DriftInv
<1> DEFINE C == {Unsettled} \cup {<<"mono", c>> : c \in {"W", "B"}}
                  \cup {<<"gray", b, c>> : b \in {"W", "B"}, c \in {"W", "B"}}
<1>2. PanelType = [Strip -> C] /\ Unsettled \in C
  BY DEF PanelType
<1> HIDE DEF C
<1>3. QED
  BY <1>1, <1>2

\* A baseline that is not the frame on record has been driven toward before.
LEMMA BaselineDrift ==
  ASSUME CardInv, RefreshDue, ~ IsGray, committed_format # "gray",
         NEW x \in Image, adrift \subseteq {x}, CurrentImage = x
  PROVE  PreviousImage = Base /\ Driven = {i \in Strip : Base[i] # x[i]}
<1>1. clean_phase \in 0 .. 4
  BY DEF CardInv, LoopTypes
<1>2. clean_phase >= 2 => AllWhite \in adrift /\ x = AllWhite
  BY <1>1 DEF CardInv, CycleInv
<1>3. clean_phase >= 3 => AllBlack \in adrift /\ x = AllBlack
  BY <1>1 DEF CardInv, CycleInv
<1>4. ~ (clean_active /\ clean_phase \in {2, 3, 4})
  <2>1. ASSUME clean_active, clean_phase = 2 PROVE FALSE
    BY <1>2, <2>1, TwoImages DEF CurrentImage
  <2>2. ASSUME clean_phase \in {3, 4} PROVE FALSE
    BY <1>2, <1>3, <2>2, TwoImages
  <2>3. QED
    BY <2>1, <2>2
<1>5. PreviousImage = Base
  BY <1>4 DEF PreviousImage, Base
<1>6. ~ full_clean_step
  BY DEF full_clean_step, CardInv, CleanInv
<1>7. QED
  BY <1>5, <1>6 DEF Driven

LEMMA MonoDrivingStep ==
  ASSUME CardInv, RefreshDue, ~ IsGray, StartDriving({CurrentImage})
  PROVE  CardInv'
<1>1. /\ state' = "REFRESHING" /\ pc' = "drive"
      /\ UNCHANGED <<t, buf, clean_active, clean_phase, full_first, gray_rows, committed, header>>
      /\ adrift' = adrift \cup {CurrentImage}
      /\ panel' = [i \in Strip |-> IF i \in Driven THEN Unsettled ELSE panel[i]]
  BY DEF StartDriving, loopVars, storeVars
<1>2. /\ panel' \in PanelType
      /\ \A i \in Strip : panel'[i] = IF i \in Driven THEN Unsettled ELSE panel[i]
  BY <1>1, PanelDriven DEF CardInv
<1>3. ~ IsGray' /\ CurrentImage' = CurrentImage /\ Base' = Base
      /\ committed_format' = committed_format
  BY <1>1 DEF IsGray, CurrentImage, Base, committed_format
<1>4. GrayInv'
  BY <1>1, <1>3 DEF RefreshDue, GrayInv
<1>5. CycleInv'
  <2>1. clean_phase \in 0 .. 4 /\ (clean_phase = 4 => clean_active)
    BY DEF CardInv, LoopTypes, CleanInv
  <2>2. ASSUME clean_phase = 4, NEW i \in Strip, buf[i] = "W"
        PROVE  panel'[i] = <<"mono", "W">>
    <3>1. state = "CHARGING" /\ clean_active
      BY <2>1, <2>2 DEF RefreshDue, CardInv, CleanInv
    <3>2. panel[i] = <<"mono", "W">>
      BY <2>2, <3>1 DEF CardInv, CycleInv, AllShow, AllWhite
    <3>3. PreviousImage = AllWhite /\ CurrentImage = buf /\ ~ full_clean_step
      BY <2>2, <3>1 DEF PreviousImage, CurrentImage, full_clean_step
    <3>4. i \notin Driven
      BY <2>2, <3>3 DEF Driven, AllWhite
    <3>5. QED
      BY <1>2, <3>2, <3>4
  <2>3. QED
    BY <1>1, <2>2 DEF CardInv, CycleInv
<1>6. DriftInv'
  <2>1. adrift' \subseteq Image /\ adrift' # {} /\ CurrentImage' \in adrift'
    BY <1>1, <1>3, CurrentIsImage DEF CardInv, DriftInv
  <2>2. ASSUME committed_format # "gray", NEW x \in Image, adrift' = {x}, NEW i \in Strip
        PROVE  \/ panel'[i] \in {<<"mono", Base[i]>>, <<"mono", x[i]>>}
               \/ panel'[i] = Unsettled /\ Base[i] # x[i]
    <3>1. x = CurrentImage /\ adrift \subseteq {x}
      BY <1>1, <2>2
    <3>2. Driven = {j \in Strip : Base[j] # x[j]}
      BY <2>2, <3>1, BaselineDrift
    <3>3. CASE i \in Driven
      BY <1>2, <3>2, <3>3
    <3>4. CASE i \notin Driven /\ adrift = {x}
      BY <1>2, <2>2, <3>4 DEF CardInv, DriftInv
    <3>5. CASE i \notin Driven /\ adrift = {}
      <4>1. Shows(i, committed)
        BY <3>5 DEF CardInv, DriftInv
      <4>2. committed = NoFrame => Base[i] = "W"
        BY DEF Base, committed_format, AllWhite
      <4>3. committed # NoFrame => committed.format = "mono" /\ Base = committed.image
        <5>1. committed # NoFrame => committed \in Kept
          BY DEF CardInv, StoreInv
        <5>2. QED
          BY <2>2, <5>1, KeptFrames DEF Base, committed_format
      <4>4. panel[i] = <<"mono", Base[i]>>
        BY <4>1, <4>2, <4>3 DEF Shows
      <4>5. QED
        BY <1>2, <3>5, <4>4
    <3>6. QED
      BY <3>1, <3>3, <3>4, <3>5
  <2>3. QED
    BY <1>1, <1>2, <1>3, <2>1, <2>2 DEF DriftInv
<1>7. QED
  BY <1>4, <1>5, <1>6, DrivingStep DEF CardInv

LEMMA GrayDrivingStep ==
  ASSUME CardInv, RefreshDue, IsGray, PlaneZeroPending(t.tid), StartDriving(Image)
  PROVE  CardInv'
<1>1. /\ state' = "REFRESHING" /\ pc' = "drive"
      /\ UNCHANGED <<t, buf, clean_active, clean_phase, full_first, gray_rows, committed, header>>
      /\ adrift' = adrift \cup Image
      /\ panel' = [i \in Strip |-> IF i \in Driven THEN Unsettled ELSE panel[i]]
  BY DEF StartDriving, loopVars, storeVars
<1>2. /\ panel' \in PanelType
      /\ \A i \in Strip : panel'[i] = IF i \in Driven THEN Unsettled ELSE panel[i]
  BY <1>1, PanelDriven DEF CardInv
<1>3. IsGray' /\ PlaneZeroPending(t.tid)' /\ Driven = {gray_rows + 1}
  BY <1>1 DEF IsGray, PlaneZeroPending, pending_format, pending_tid, Driven
<1>4. gray_rows \in 0 .. ImageSize /\ gray_rows < ImageSize
  BY Sizes DEF RefreshDue, CardInv, LoopTypes
<1>5. GrayInv'
  <2>1. ASSUME gray_rows > 0, NEW i \in 1 .. gray_rows
        PROVE  panel'[i] = <<"gray", header.image[i], buf[i]>>
    <3>1. i \in Strip /\ i # gray_rows + 1
      BY <1>4, <2>1, Sizes DEF Strip
    <3>2. panel[i] = <<"gray", header.image[i], buf[i]>>
      BY <2>1 DEF CardInv, GrayInv, IsGray
    <3>3. QED
      BY <1>2, <1>3, <3>1, <3>2
  <2>2. QED
    BY <1>1, <1>3, <1>4, <2>1 DEF CardInv, GrayInv
<1>6. CycleInv'
  BY <1>1 DEF CardInv, CycleInv, CleanInv, RefreshDue
<1>7. DriftInv'
  <2>1. \A x : adrift' # {x}
    BY <1>1, TwoImages
  <2>2. adrift' # {} /\ adrift' \subseteq Image
    BY <1>1, TwoImages DEF CardInv, DriftInv
  <2>3. QED
    BY <1>1, <1>2, <1>3, <2>1, <2>2 DEF DriftInv
<1>8. QED
  BY <1>5, <1>6, <1>7, DrivingStep DEF CardInv

LEMMA RefreshStep ==
  ASSUME CardInv, RefreshContinues \/ QuietIsOver
  PROVE  CardInv'
<1>1. RefreshDue /\ Refresh
  BY RefreshIsDue DEF RefreshContinues, QuietIsOver
<1>2. CASE RefreshRefused
  <2>1. ~ committing /\ pc # "stage"
    BY <1>1 DEF RefreshDue, Running, CardInv, StoreInv
  <2>2. QED
    BY <1>2, <2>1, StopStep DEF RefreshRefused
<1>3. CASE ~ IsGray /\ StartDriving({CurrentImage})
  BY <1>1, <1>3, MonoDrivingStep
<1>4. CASE IsGray /\ PlaneZeroPending(t.tid) /\ StartDriving(Image)
  BY <1>1, <1>4, GrayDrivingStep
<1>5. QED
  BY <1>1, <1>2, <1>3, <1>4 DEF Refresh, refresh_partial, refresh_gray4

-----------------------------------------------------------------------------
(* The waveform ends.                                                      *)

LEMMA PanelSettled ==
  ASSUME CardInv, pc = "drive", DriveEnds
  PROVE  /\ panel' \in PanelType
         /\ \A i \in Strip : panel'[i] = IF i \in Driven THEN Shade(i) ELSE panel[i]
<1>1. panel \in PanelType
  BY DEF CardInv, DriftInv
<1> DEFINE C == {Unsettled} \cup {<<"mono", c>> : c \in {"W", "B"}}
                  \cup {<<"gray", b, c>> : b \in {"W", "B"}, c \in {"W", "B"}}
<1>2. ASSUME NEW i \in Strip PROVE Shade(i) \in C
  <2>1. buf[i] \in {"W", "B"}
    BY DEF CardInv, TransferInv, SessionOK, Image
  <2>2. CurrentImage[i] \in {"W", "B"}
    BY CurrentIsImage DEF Image
  <2>3. ASSUME IsGray PROVE header.image[i] \in {"W", "B"}
    <3>1. PlaneZeroPending(t.tid)
      BY <2>3 DEF CardInv, GrayInv
    <3>2. header \in StorableFrame
      BY <3>1, KeptFrames DEF CardInv, StoreInv, PlaneZeroPending, pending_format
    <3>3. QED
      BY <3>2 DEF StorableFrame, Image
  <2>4. QED
    BY <2>1, <2>2, <2>3 DEF Shade
<1>3. PanelType = [Strip -> C]
  BY DEF PanelType
<1> HIDE DEF C
<1>4. panel' = [i \in Strip |-> IF i \in Driven THEN Shade(i) ELSE panel[i]]
  BY DEF DriveEnds
<1>5. QED
  BY <1>1, <1>2, <1>3, <1>4

\* The card charges again, or puts the frame on record.
LEMMA SettledStep ==
  ASSUME CardInv, pc = "drive", DriveEnds,
         \/ ChargeAgain
         \/ CommitBegins
  PROVE  /\ TransferInv' /\ StoreInv' /\ HoldingInv'
         /\ pc' \in {"loop", "commit"}
         /\ state' = IF pc' = "loop" THEN "CHARGING" ELSE "REFRESHING"
         /\ UNCHANGED <<committed, prepared, header>>
<1> USE DEF DriveEnds, ChargeAgain, CommitBegins, storeVars
<1>1. state = "REFRESHING" /\ staged /\ ~ committing /\ staging = NoFrame
  BY DEF CardInv, StateInv, Holding, StoreInv
<1>2. /\ pc' \in {"loop", "commit"}
      /\ state' = IF pc' = "loop" THEN "CHARGING" ELSE "REFRESHING"
      /\ UNCHANGED <<committed, prepared, header, staging>>
      /\ \/ committing' = committing
         \/ committing' = TRUE /\ prepared # NoFrame /\ pc' = "commit"
  BY <1>1 DEF Store!Commit
<1>3. TransferInv'
  BY DEF CardInv, TransferInv
<1>4. StoreInv'
  <2>1. committing' = FALSE \/ (committing' = TRUE /\ prepared # NoFrame /\ pc' = "commit")
    <3>1. committing = FALSE
      BY <1>1 DEF CardInv, StoreInv
    <3> HIDE DEF DriveEnds, ChargeAgain, CommitBegins
    <3>2. QED
      BY <1>2, <3>1
  <2>2. staging' = NoFrame /\ pc' # "stage"
    BY <1>1, <1>2
  <2>3. QED
    BY <1>2, <2>1, <2>2 DEF CardInv, StoreInv
<1>5. HoldingInv'
  BY <1>1, <1>2 DEF CardInv, HoldingInv, Holding, SecondPlane
<1>6. QED
  BY <1>2, <1>3, <1>4, <1>5

\* A panel that has been driven toward one image only, of a strip that was.
LEMMA OneImageStrip ==
  ASSUME CardInv, pc = "drive", ~ IsGray, DriveEnds, committed_format # "gray",
         NEW x \in Image, adrift = {x}, NEW i \in Strip
  PROVE  /\ x = CurrentImage
         /\ \/ panel'[i] \in {<<"mono", Base[i]>>, <<"mono", x[i]>>}
            \/ panel'[i] = Unsettled /\ Base[i] # x[i]
<1>1. CurrentImage = x
  BY DEF CardInv, DriftInv
<1>2. CASE i \in Driven
  BY <1>1, <1>2, PanelSettled DEF Shade
<1>3. CASE i \notin Driven
  BY <1>1, <1>3, PanelSettled DEF CardInv, DriftInv
<1>4. QED
  BY <1>1, <1>2, <1>3

LEMMA PhaseEndsStep ==
  ASSUME CardInv, PartialEnds, clean_active, clean_phase < CLEAN_PHASE_TARGET
  PROVE  CardInv'
<1>1. /\ pc = "drive" /\ ~ IsGray /\ ChargeAgain /\ clean_phase' = clean_phase + 1 /\ DriveEnds
      /\ UNCHANGED <<t, buf, staged, clean_active, full_first, gray_rows, ack_read, pause, host,
                     brownout, adrift>>
      /\ state' = "CHARGING" /\ pc' = "loop"
  BY DEF PartialEnds, DriveEnds, NextPhase, ChargeAgain
<1>2. clean_phase \in {1, 2, 3} /\ t.execute_requested /\ t.format = "mono" /\ t.committed
      /\ staged
  BY DEF CardInv, LoopTypes, CleanInv, CLEAN_PHASE_TARGET, TransferInv, SessionOK, PartialEnds,
         DriveEnds, StateInv, Holding
<1>3. /\ TransferInv' /\ StoreInv' /\ HoldingInv'
      /\ UNCHANGED <<committed, prepared, header>>
  BY <1>1, SettledStep
<1>4. LoopTypes'
  BY <1>1, <1>2 DEF CardInv, LoopTypes, AppState
<1>5. StateInv' /\ GrayInv'
  BY <1>1, <1>2 DEF StateInv, GrayInv, Holding
<1>6. CleanInv'
  BY <1>1, <1>2, <1>3 DEF CardInv, CleanInv, committed_format
<1>7. CurrentImage \in adrift
  BY <1>1 DEF CardInv, DriftInv
<1>8. CycleInv'
  <2>1. CASE clean_phase = 1
    BY <1>1, <1>7, <2>1 DEF CycleInv, CurrentImage
  <2>2. CASE clean_phase = 2
    <3>1. CurrentImage = AllBlack /\ PreviousImage = AllWhite /\ AllWhite \in adrift
      BY <2>2 DEF CurrentImage, PreviousImage, CardInv, CycleInv
    <3>2. \A i \in Strip : i \in Driven
      BY <1>1, <3>1 DEF Driven, AllWhite, AllBlack
    <3>3. AllShow(AllBlack)'
      BY <1>1, <3>1, <3>2, PanelSettled DEF AllShow, Shade
    <3>4. QED
      BY <1>1, <1>7, <2>2, <3>1, <3>3 DEF CycleInv
  <2>3. CASE clean_phase = 3
    <3>1. /\ CurrentImage = AllWhite /\ PreviousImage = AllBlack
          /\ AllWhite \in adrift /\ AllBlack \in adrift
      BY <2>3 DEF CurrentImage, PreviousImage, CardInv, CycleInv
    <3>2. \A i \in Strip : i \in Driven
      BY <1>1, <3>1 DEF Driven, AllWhite, AllBlack
    <3>3. AllShow(AllWhite)'
      BY <1>1, <3>1, <3>2, PanelSettled DEF AllShow, Shade
    <3>4. QED
      BY <1>1, <2>3, <3>1, <3>3 DEF CycleInv
  <2>4. QED
    BY <1>2, <2>1, <2>2, <2>3
<1>9. DriftInv'
  <2>1. Base' = Base /\ committed_format' = committed_format
    BY <1>3 DEF Base, committed_format
  <2>2. adrift # {} /\ adrift \subseteq Image
    BY <1>7 DEF CardInv, DriftInv
  <2>3. QED
    BY <1>1, <2>1, <2>2, PanelSettled, OneImageStrip DEF DriftInv
<1>10. QED
  BY <1>3, <1>4, <1>5, <1>6, <1>8, <1>9 DEF CardInv

LEMMA LastPhaseEndsStep ==
  ASSUME CardInv, PartialEnds, ~ (clean_active /\ clean_phase < CLEAN_PHASE_TARGET)
  PROVE  CardInv'
<1>1. /\ pc = "drive" /\ ~ IsGray /\ CommitBegins /\ DriveEnds
      /\ UNCHANGED <<t, buf, staged, clean_active, clean_phase, full_first, gray_rows, ack_read,
                     pause, host, brownout, adrift, state>>
      /\ pc' = "commit"
  BY DEF PartialEnds, DriveEnds, CommitBegins
<1>2. /\ state = "REFRESHING" /\ t.execute_requested /\ t.committed /\ staged
      /\ full_first => clean_active
  BY <1>1 DEF CardInv, StateInv, Holding
<1>3. t.format = "mono"
  BY <1>1, <1>2 DEF IsGray, CardInv, CleanInv, TransferInv, SessionOK, TransferType
<1>4. clean_active => clean_phase = 4
  BY DEF CardInv, LoopTypes, CLEAN_PHASE_TARGET
<1>5. CurrentImage = buf /\ buf \in adrift /\ buf \in Image
  BY <1>1, <1>4 DEF CurrentImage, CardInv, DriftInv, TransferInv, SessionOK
<1>6. /\ TransferInv' /\ StoreInv' /\ HoldingInv'
      /\ UNCHANGED <<committed, prepared, header>>
  BY <1>1, SettledStep
<1>7. LoopTypes'
  BY <1>1 DEF CardInv, LoopTypes
<1>8. StateInv' /\ GrayInv'
  BY <1>1, <1>2, <1>3 DEF StateInv, GrayInv, IsGray, Holding
<1>9. CleanInv'
  BY <1>1, <1>2, <1>4, <1>6 DEF CardInv, CleanInv, committed_format
<1>10. clean_active => AllShow(buf)'
  <2>1. ASSUME clean_active, NEW i \in Strip
        PROVE  panel'[i] = <<"mono", buf[i]>>
    <3>1. PreviousImage = AllWhite /\ ~ full_clean_step
      BY <1>4, <2>1 DEF PreviousImage, full_clean_step
    <3>2. CASE i \in Driven
      BY <1>1, <1>5, <3>2, PanelSettled DEF Shade
    <3>3. CASE i \notin Driven
      <4>1. buf[i] = "W"
        BY <1>1, <1>5, <3>1, <3>3 DEF Driven, AllWhite
      <4>2. QED
        BY <1>1, <1>4, <2>1, <3>3, <4>1, PanelSettled DEF CardInv, CycleInv
    <3>4. QED
      BY <3>2, <3>3
  <2>2. QED
    BY <1>1, <2>1 DEF AllShow
<1>11. CycleInv'
  BY <1>1, <1>2, <1>10 DEF CardInv, CycleInv
<1>12. ASSUME ~ clean_active, adrift = {buf} PROVE AllShow(buf)'
  <2>1. committed_format # "gray"
    BY <1>2, <1>3, <1>12 DEF CardInv, CleanInv
  <2>2. Driven = {i \in Strip : Base[i] # buf[i]}
    BY <1>1, <1>5, <1>12 DEF Driven, full_clean_step, PreviousImage, Base
  <2>3. ASSUME NEW i \in Strip PROVE panel'[i] = <<"mono", buf[i]>>
    <3>1. CASE i \in Driven
      BY <1>1, <1>5, <3>1, PanelSettled DEF Shade
    <3>2. CASE i \notin Driven
      <4>1. panel'[i] = panel[i] /\ Base[i] = buf[i]
        BY <1>1, <2>2, <3>2, PanelSettled
      <4>2. \/ panel[i] \in {<<"mono", Base[i]>>, <<"mono", buf[i]>>}
            \/ panel[i] = Unsettled /\ Base[i] # buf[i]
        BY <1>5, <1>12, <2>1 DEF CardInv, DriftInv
      <4>3. QED
        BY <4>1, <4>2
    <3>3. QED
      BY <3>1, <3>2
  <2>4. QED
    BY <1>1, <2>3 DEF AllShow
<1>13. DriftInv'
  <2>1. Base' = Base /\ committed_format' = committed_format /\ CurrentImage' = CurrentImage
    BY <1>1, <1>6 DEF Base, committed_format, CurrentImage
  <2>2. adrift # {} /\ adrift \subseteq Image
    BY <1>5 DEF CardInv, DriftInv
  <2>3. adrift = {buf} => AllShow(buf)'
    BY <1>10, <1>12
  <2>4. QED
    BY <1>1, <1>5, <2>1, <2>2, <2>3, PanelSettled, OneImageStrip DEF DriftInv
<1>14. QED
  BY <1>6, <1>7, <1>8, <1>9, <1>11, <1>13 DEF CardInv

LEMMA GrayBandEndsStep ==
  ASSUME CardInv, GrayBandEnds
  PROVE  CardInv'
<1>1. /\ pc = "drive" /\ IsGray /\ DriveEnds /\ gray_rows' = gray_rows + 1
      /\ UNCHANGED <<t, buf, staged, clean_active, clean_phase, full_first, ack_read,
                     pause, host, brownout, adrift>>
      /\ IF gray_rows' < ImageSize THEN ChargeAgain ELSE CommitBegins
  BY DEF GrayBandEnds, DriveEnds
<1>2. /\ state = "REFRESHING" /\ t.execute_requested /\ t.committed /\ staged
      /\ t.format = "gray" /\ ~ clean_active /\ ~ full_first
  BY <1>1 DEF CardInv, StateInv, Holding, IsGray, CleanInv
<1>3. /\ gray_rows \in Nat /\ gray_rows < ImageSize /\ ImageSize \in Nat
      /\ gray_rows' \in 0 .. ImageSize /\ (~ (gray_rows' < ImageSize) => gray_rows' = ImageSize)
  <2>1. gray_rows \in 0 .. ImageSize /\ gray_rows < ImageSize
    BY <1>1 DEF CardInv, LoopTypes, GrayInv
  <2>2. QED
    BY <1>1, <2>1, Sizes
<1>4. /\ PlaneZeroPending(t.tid) /\ Image \subseteq adrift
      /\ header \in StorableFrame
  <2>1. PlaneZeroPending(t.tid) /\ Image \subseteq adrift
    BY <1>1 DEF CardInv, GrayInv
  <2>2. QED
    BY <2>1, KeptFrames DEF CardInv, StoreInv, PlaneZeroPending, pending_format
<1>5. /\ TransferInv' /\ StoreInv' /\ HoldingInv'
      /\ pc' \in {"loop", "commit"}
      /\ state' = IF pc' = "loop" THEN "CHARGING" ELSE "REFRESHING"
      /\ UNCHANGED <<committed, prepared, header>>
  BY <1>1, SettledStep
<1>6. LoopTypes'
  BY <1>1, <1>3, <1>5 DEF CardInv, LoopTypes, AppState
<1>7. StateInv'
  BY <1>1, <1>2, <1>5 DEF StateInv, Holding
<1>8. CleanInv'
  BY <1>1, <1>2, <1>5 DEF CardInv, CleanInv, committed_format
<1>9. GrayInv'
  <2>1. ASSUME NEW i \in 1 .. gray_rows'
        PROVE  panel'[i] = <<"gray", header.image[i], buf[i]>>
    <3>1. i \in Strip
      BY <1>3, <2>1 DEF Strip
    <3>2. CASE i = gray_rows + 1
      <4>1. i \in Driven
        BY <1>1, <3>2 DEF Driven
      <4>2. QED
        BY <1>1, <3>1, <4>1, PanelSettled DEF Shade
    <3>3. CASE i # gray_rows + 1
      <4>1. i \notin Driven /\ i \in 1 .. gray_rows /\ gray_rows > 0
        BY <1>1, <1>3, <2>1, <3>3 DEF Driven
      <4>2. panel[i] = <<"gray", header.image[i], buf[i]>>
        BY <1>2, <4>1 DEF CardInv, GrayInv
      <4>3. QED
        BY <1>1, <3>1, <4>1, <4>2, PanelSettled
    <3>4. QED
      BY <3>2, <3>3
  <2>2. pc' = "commit" => gray_rows' = ImageSize
    BY <1>1, <1>3 DEF ChargeAgain
  <2>3. PlaneZeroPending(t.tid)'
    BY <1>1, <1>4, <1>5 DEF PlaneZeroPending, pending_format, pending_tid
  <2>4. QED
    BY <1>1, <1>2, <1>4, <1>5, <2>1, <2>2, <2>3 DEF GrayInv
<1>10. CycleInv'
  BY <1>1, <1>2 DEF CardInv, CycleInv, CleanInv
<1>11. DriftInv'
  <2>1. /\ \A x : adrift # {x}
        /\ adrift # {} /\ adrift \subseteq Image
    BY <1>4, TwoImages DEF CardInv, DriftInv
  <2>2. IsGray'
    BY <1>1 DEF IsGray
  <2>3. QED
    BY <1>1, <2>1, <2>2, PanelSettled DEF DriftInv
<1>12. QED
  BY <1>5, <1>6, <1>7, <1>8, <1>9, <1>10, <1>11 DEF CardInv

-----------------------------------------------------------------------------
(* The frame is put on record.                                             *)

LEMMA RecordedStep ==
  ASSUME CardInv, Recorded, clean_active' = FALSE, clean_phase' = 0,
         gray_rows' \in 0 .. ImageSize, t.format = "gray" => gray_rows' = 0,
         committed'.format = t.format, DriftInv'
  PROVE  CardInv'
<1> USE DEF Recorded, Store!Promote
<1>1. prepared \in Kept /\ prepared # NoFrame /\ committed' = prepared
  BY DEF CardInv, StoreInv
<1>2. TransferInv'
  BY DEF CardInv, TransferInv
<1>3. StoreInv'
  BY <1>1 DEF CardInv, StoreInv
<1>4. LoopTypes'
  <2>1. staged' \in BOOLEAN /\ clean_active' \in BOOLEAN /\ full_first' \in BOOLEAN
    BY Zenon
  <2>2. clean_phase' \in 0 .. 4
    OBVIOUS
  <2>3. QED
    BY <2>1, <2>2 DEF CardInv, LoopTypes, AppState
<1>5. StateInv' /\ HoldingInv' /\ CycleInv'
  BY DEF StateInv, HoldingInv, CycleInv, Holding
<1>6. CleanInv'
  BY <1>1 DEF CleanInv, committed_format
<1>7. GrayInv'
  BY DEF GrayInv
<1>8. QED
  BY <1>2, <1>3, <1>4, <1>5, <1>6, <1>7 DEF CardInv

LEMMA PartialRecordedStep ==
  ASSUME CardInv, PartialRecorded
  PROVE  CardInv'
<1>1. /\ ~ IsGray /\ Recorded /\ clean_active' = FALSE /\ clean_phase' = 0
      /\ gray_rows' = gray_rows
      /\ adrift' = IF clean_active \/ adrift = {buf} THEN {} ELSE adrift
  BY DEF PartialRecorded
<1>2. /\ pc = "commit" /\ prepared # NoFrame /\ committed' = prepared /\ panel' = panel
      /\ pc' = "loop"
  BY <1>1 DEF Recorded, Store!Promote, CardInv, StoreInv
<1>3. /\ prepared.image = buf /\ prepared.format = "mono" /\ t.format = "mono"
      /\ buf \in adrift /\ (adrift = {buf} => AllShow(buf))
  BY <1>1, <1>2, AtCommit
<1>4. DriftInv'
  <2>1. adrift' = {} => \A i \in Strip : Shows(i, committed)'
    <3>1. clean_active => AllShow(buf)
      BY <1>2 DEF CardInv, CycleInv
    <3>2. adrift' = {} => AllShow(buf)
      BY <1>1, <1>3, <3>1
    <3>3. QED
      BY <1>2, <1>3, <3>2 DEF Shows, AllShow
  <2>2. \A x : adrift' # {x}
    <3>1. ASSUME NEW x, adrift' = {x} PROVE FALSE
      <4>1. adrift = {x} /\ adrift # {buf}
        BY <1>1, <3>1
      <4>2. QED
        BY <1>3, <4>1
    <3>2. QED
      BY <3>1
  <2>3. panel' \in PanelType /\ adrift' \subseteq Image
    BY <1>1, <1>2 DEF CardInv, DriftInv
  <2>4. QED
    BY <1>2, <2>1, <2>2, <2>3 DEF DriftInv
<1>5. gray_rows' \in 0 .. ImageSize
  BY <1>1 DEF CardInv, LoopTypes
<1>6. QED
  BY <1>1, <1>2, <1>3, <1>4, <1>5, RecordedStep

LEMMA GrayRecordedStep ==
  ASSUME CardInv, GrayRecorded
  PROVE  CardInv'
<1>1. /\ IsGray /\ Recorded /\ gray_rows' = 0 /\ adrift' = {}
      /\ clean_active' = clean_active /\ clean_phase' = clean_phase
  BY DEF GrayRecorded
<1>2. /\ pc = "commit" /\ prepared # NoFrame /\ committed' = prepared /\ panel' = panel
      /\ pc' = "loop"
  BY <1>1 DEF Recorded, Store!Promote, CardInv, StoreInv
<1>3. prepared.format = "gray" /\ header = prepared
  BY <1>1, <1>2, AtCommit
<1>4. /\ t.format = "gray" /\ clean_active' = FALSE /\ clean_phase' = 0
      /\ gray_rows = ImageSize
  BY <1>1, <1>2 DEF IsGray, CardInv, LoopTypes, CleanInv, GrayInv
<1>5. \A i \in Strip : Shows(i, committed)'
  <2>1. ASSUME NEW i \in Strip PROVE Shows(i, committed)'
    <3>1. buf[i] \in {"W", "B"}
      BY DEF CardInv, TransferInv, SessionOK, Image
    <3>2. panel[i] = <<"gray", header.image[i], buf[i]>>
      BY <1>4, Sizes DEF CardInv, GrayInv, Strip
    <3>3. QED
      BY <1>2, <1>3, <3>1, <3>2 DEF Shows
  <2>2. QED
    BY <2>1
<1>6. DriftInv'
  <2>1. panel' \in PanelType /\ adrift' \subseteq Image
    BY <1>1, <1>2 DEF CardInv, DriftInv
  <2>2. \A x : adrift' # {x}
    BY <1>1
  <2>3. QED
    BY <1>2, <1>5, <2>1, <2>2 DEF DriftInv
<1>7. QED
  BY <1>1, <1>2, <1>3, <1>4, <1>6, Sizes, RecordedStep

-----------------------------------------------------------------------------
(* Every step.                                                             *)

LEMMA CardKeeps ==
  ASSUME CardInv, [Next]_vars
  PROVE  CardInv'
<1>1. CASE UNCHANGED vars
  <2>1. LoopTypes'
    BY <1>1 DEF CardInv, LoopTypes, vars, loopVars
  <2>2. QED
    BY <1>1, <2>1, QuietStep DEF vars
<1>2. CASE NdefPause
  <2>1. LoopTypes'
    BY <1>2 DEF NdefPause, CardInv, LoopTypes, loopVars
  <2>2. QED
    BY <1>2, <2>1, QuietStep DEF NdefPause
<1>3. CASE ChargeTimesOut \/ AckTimesOut \/ BrownoutStops
  <2>1. pc = "loop" /\ StopWithError /\ UNCHANGED storeVars
    BY <1>3 DEF ChargeTimesOut, AckTimesOut, BrownoutStops, Running
  <2>2. ~ committing /\ pc # "stage"
    BY <2>1 DEF CardInv, StoreInv
  <2>3. QED
    BY <2>1, <2>2, StopStep
<1>4. CASE DriveFails
  <2>1. ~ committing /\ pc # "stage"
    BY <1>4 DEF DriveFails, CardInv, StoreInv
  <2>2. QED
    BY <1>4, <2>1, StopStep DEF DriveFails
<1>5. CASE PartialEnds
  BY <1>5, PhaseEndsStep, LastPhaseEndsStep
<1>6. CASE AckIsRead
  <2>1. LoopTypes'
    BY <1>6 DEF AckIsRead, CardInv, LoopTypes, loopVars
  <2>2. QED
    BY <1>6, <2>1, QuietStep DEF AckIsRead
<1>7. CASE HandleOther
  <2>1. LoopTypes'
    BY <1>7 DEF HandleOther, AnswerOnly, Answer, CardInv, LoopTypes, loopVars
  <2>2. QED
    BY <1>7, <2>1, QuietStep DEF HandleOther, AnswerOnly
<1>8. CASE HandleNdefWritePrepare
  <2>1. LoopTypes'
    BY <1>8 DEF HandleNdefWritePrepare, Answer, CardInv, LoopTypes, loopVars
  <2>2. QED
    BY <1>8, <2>1, QuietStep DEF HandleNdefWritePrepare
<1>9. CASE PhoneReads
  <2>1. LoopTypes'
    BY <1>9 DEF PhoneReads, CardInv, LoopTypes, loopVars
  <2>2. QED
    BY <1>9, <2>1, QuietStep DEF PhoneReads
<1>10. CASE Brownout
  <2>1. LoopTypes'
    BY <1>10 DEF Brownout, CardInv, LoopTypes, loopVars
  <2>2. QED
    BY <1>10, <2>1, QuietStep DEF Brownout
<1>11. QED
  BY <1>1, <1>2, <1>3, <1>4, <1>5, <1>6, <1>7, <1>8, <1>9, <1>10, MessageStep,
     PhoneFrames, BecomesReadyStep, StageBeginsStep, StageWritesStep, StageSucceedsStep, StageFailsStep,
     RefreshStep, GrayBandEndsStep, PartialRecordedStep, GrayRecordedStep, CommitFailsStep,
     PowerCycleStep
  DEF Next, Card, CommitSucceeds

(* Whatever a phone sends and whenever checks fail or power does, the card  *)
(* keeps its invariant: what is staged, prepared and on record are whole    *)
(* pictures, and the panel is where the refreshes so far can have left it.  *)
THEOREM CardInductive == Spec => []CardInv
<1>1. Init => CardInv
  BY InitStep
<1>2. CardInv /\ [Next]_vars => CardInv'
  BY CardKeeps
<1>3. QED
  BY <1>1, <1>2, PTL DEF Spec

-----------------------------------------------------------------------------
(* What the invariant says of the card.                                    *)

(* Every variable has its type; the phase of a clean cycle and the count of  *)
(* gray bands stay within their range.                                     *)
THEOREM CardTypeOK == Spec => []TypeOK
<1>1. CardInv => TypeOK
  <2>1. SUFFICES ASSUME CardInv PROVE TypeOK
    OBVIOUS
  <2>2. t.seq \in 0 .. SeqModulus - 1 /\ t.off \in 0 .. ImageSize /\ buf \in Image
    BY <2>1 DEF CardInv, TransferInv, SessionOK, TransferType
  <2>3. Store!RegTypeOK
    BY <2>1 DEF CardInv, StoreInv, Kept, Store!RegTypeOK
  <2>4. adrift \subseteq Image /\ panel \in PanelType
    BY <2>1 DEF CardInv, DriftInv
  <2>5. LoopTypes
    BY <2>1 DEF CardInv
  <2>6. QED
    BY <2>2, <2>3, <2>4, <2>5 DEF TypeOK, LoopTypes, PanelType
<1>2. QED
  BY <1>1, CardInductive, PTL

(* When a refresh is complete the panel shows the frame on record, if every  *)
(* refresh cut short before was of the same picture, or the completed one   *)
(* was a clean cycle or gray.                                              *)
THEOREM RecordIsAlwaysShown == Spec => []RecordIsShown
<1>1. CardInv => RecordIsShown
  BY DEF CardInv, DriftInv, RecordIsShown
<1>2. QED
  BY <1>1, CardInductive, PTL

(* No mixture of pictures reaches the Flash: what is prepared or on record   *)
(* is a whole picture that a phone sent, under its own transfer id.         *)
THEOREM RecordWasAlwaysSent == Spec => []RecordWasSent
<1>1. CardInv => RecordWasSent
  BY DEF CardInv, StoreInv, Kept, RecordWasSent
<1>2. QED
  BY <1>1, CardInductive, PTL

(* A card that reports READY has the picture in its buffer in Flash, so that *)
(* a power cut before the EXECUTE loses nothing.                           *)
THEOREM ReadyIsAlwaysDurable == Spec => []ReadyIsDurable
<1>1. CardInv => ReadyIsDurable
  BY DEF CardInv, StateInv, HoldingInv, Holding, SecondPlane, ReadyIsDurable
<1>2. QED
  BY <1>1, CardInductive, PTL

(* An EXECUTE with the transfer id, sequence number and offset that a ready  *)
(* card reports is accepted, and never taken for a repetition.              *)
THEOREM ReadyAlwaysAcceptsExecute == Spec => []ReadyAcceptsExecute
<1>1. CardInv => ReadyAcceptsExecute
  <2> DEFINE f == [type |-> "EXECUTE", tid |-> t.tid, seq |-> t.seq, off |-> t.off,
                   body |-> <<>>]
  <2>1. SUFFICES ASSUME CardInv, state = "READY"
                 PROVE  nc_transfer_apply(t, buf, f).result = "EXECUTE"
    BY DEF ReadyAcceptsExecute
  <2>2. t.committed /\ t.active
    BY <2>1 DEF CardInv, StateInv, Holding, TransferInv, SessionOK
  <2>3. t.seq \in 0 .. SeqModulus - 1 /\ (t.last.type # "NONE" => t.seq = (t.last.seq + 1) % SeqModulus)
    BY <2>1 DEF CardInv, TransferInv, SessionOK, TransferType
  <2>4. \A n \in 0 .. SeqModulus - 1 : n # (n + 1) % SeqModulus
    BY DEF SeqModulus
  <2>5. ~ is_duplicate(t, f)
    BY <2>3, <2>4 DEF is_duplicate, remember
  <2>6. nc_transfer_apply(t, buf, f) = ApplyInSession(t, buf, f)
    BY DEF nc_transfer_apply
  <2>7. ApplyInSession(t, buf, f) = ApplyExecute(t, buf, f)
    BY <2>2, <2>5 DEF ApplyInSession
  <2>8. QED
    BY <2>2, <2>6, <2>7 DEF ApplyExecute, Replied
<1>2. QED
  BY <1>1, CardInductive, PTL

(* The panel is driven only for a transfer whose EXECUTE was accepted; the   *)
(* target of a mono refresh is the frame its commit will record, and a gray *)
(* one joins the two planes of one picture.                                *)
THEOREM RefreshIsAlwaysOfOnePicture == Spec => []RefreshIsOfOnePicture
<1>1. CardInv => RefreshIsOfOnePicture
  <2>1. SUFFICES ASSUME CardInv, pc = "drive"
                 PROVE  /\ t.committed /\ t.execute_requested
                        /\ IF IsGray
                           THEN \E p \in Picture :
                                    /\ p.tid = t.tid /\ p.format = "gray"
                                    /\ header.image = p.planes[1] /\ buf = p.planes[2]
                           ELSE prepared # NoFrame /\ prepared.tid = t.tid /\ prepared.image = buf
    BY DEF RefreshIsOfOnePicture
  <2>2. state = "REFRESHING" /\ staged /\ t.committed /\ t.execute_requested
    BY <2>1 DEF CardInv, StateInv, Holding
  <2>3. CASE IsGray
    <3>1. t.format = "gray" /\ t.plane = 1 /\ t.crc # NoCrc /\ buf = t.crc /\ Announced(t)
      BY <2>1, <2>2, <2>3 DEF IsGray, CardInv, TransferInv, SessionOK, HoldingInv, Holding,
                              SecondPlane
    <3>2. PICK q \in Picture : \E k \in DOMAIN q.planes :
              q.format = "gray" /\ q.tid = t.tid /\ t.crc = q.planes[k] /\ t.plane = k - 1
      BY <3>1 DEF Announced
    <3>3. q.planes \in [{1, 2} -> Image]
      BY <3>2, PictureAssumption
    <3>4. buf = q.planes[2]
      BY <3>1, <3>2, <3>3
    <3>5. header.format = "gray" /\ header.tid = t.tid /\ header \in Kept
      BY <2>1, <2>3, FrameAssumption DEF CardInv, GrayInv, StoreInv, PlaneZeroPending,
                                         pending_format, pending_tid
    <3>6. PictureOf(header) # {}
      BY <3>5 DEF Kept, FactoryFrame
    <3>7. PICK p \in Picture :
              /\ p.tid = header.tid
              /\ header.image = IF p.format = "pattern" THEN PatternImage(p.pattern) ELSE p.planes[1]
              /\ header.format = IF p.format = "gray" THEN "gray" ELSE "mono"
      BY <3>6 DEF PictureOf
    <3>8. p.format = "gray" /\ header.image = p.planes[1] /\ p.tid = t.tid
      BY <3>5, <3>7
    <3>9. p = q
      BY <3>2, <3>8, PictureAssumption
    <3>10. QED
      BY <2>2, <2>3, <3>4, <3>8, <3>9
  <2>4. CASE ~ IsGray
    <3>1. ~ SecondPlane
      BY <2>1, <2>4 DEF SecondPlane, IsGray, CardInv, CleanInv
    <3>2. QED
      BY <2>1, <2>2, <2>4, <3>1 DEF CardInv, HoldingInv, Holding
  <2>5. QED
    BY <2>3, <2>4
<1>2. QED
  BY <1>1, CardInductive, PTL
=============================================================================
