-------------------------- MODULE ExecuteLink_proofs --------------------------
(***************************************************************************)
(* Proof that the coordinator and the card's firmware agree on the refresh, *)
(* for every set of pictures, any number of jobs, transfers, sessions and   *)
(* faults: the field is held while the target of a job is refreshed, and    *)
(* success means that this transfer is on record and, after a clean cycle,  *)
(* on the panel.  The card keeps the invariant of CardFirmware_proofs,      *)
(* whatever the coordinator and the other phone send it.                    *)
(***************************************************************************)
EXTENDS ExecuteLink, CardFirmware_proofs

Own == 1 .. WorkLimit

-----------------------------------------------------------------------------
(* The invariant.                                                          *)

Acking == state \in {"EXECUTE_ACK", "REFRESHING"}

\* The card refreshes the panel, or goes on doing so with the next phase.
Refreshes == Acking \/ (state = "CHARGING" /\ clean_active)

\* ... with the work of the job.
UnderWay == t.tid = job.work.id /\ Refreshes

WorkType ==
    [id : Nat, batch : BOOLEAN, gray : BOOLEAN, started : BOOLEAN, committed : BOOLEAN,
     seq : Nat, off : Nat, high : Nat, executeSent : BOOLEAN,
     executeAcknowledged : BOOLEAN, refreshMayBeActive : BOOLEAN]
JobType == [clean : BOOLEAN, recovery : BOOLEAN, work : WorkType]

Place == {"away", "status", "upload", "ready", "execute", "confirm"}

\* The coordinator's types, and what can be in the mailbox together.
MailInv ==
    /\ job \in JobType
    /\ at \in Place
    /\ waiting \in BOOLEAN
    /\ at = "away" => ~ waiting
    /\ nextID \in Nat \ {0}
    /\ request \in WireFrame \cup {NoRequest, StatusFrame}
    /\ reply # NoReply =>
           /\ reply.seq \in Nat /\ reply.off \in Nat /\ reply.gray \in BOOLEAN
           /\ reply.state # "REFRESHING"
           /\ request = NoRequest
    /\ host = "empty" <=> reply = NoReply

Frames == {committed, prepared, header, staging}

\* A transfer id of the job is of one work only, wherever it has got to.
IdInv ==
    /\ job.work.id < nextID /\ job.work.id \in Own \cup {0}
    /\ job = NoJob \/ job.work = NoWork \/ job.work.id # 0
    /\ at # "away" => job # NoJob
    /\ at \in {"upload", "ready", "execute", "confirm"} => job.work.id \in Own
    /\ request # NoRequest =>
           /\ request.tid < nextID
           /\ request.type # "STATUS" => request.tid \in Own
    /\ t.tid \in Own => t.tid < nextID
    /\ \A f \in Frames \cap Kept : f.tid \in Own => f.tid < nextID
    /\ t.tid \in Own \cup {0} => t.format # "gray"
    /\ t.tid = 0 => ~ Acking /\ ~ clean_active

\* While a refresh may be under way the coordinator knows.
FieldInv ==
    /\ UnderWay => job.work.executeSent /\ job.work.refreshMayBeActive
    /\ request.type = "EXECUTE" /\ request.tid = job.work.id =>
           job.work.executeSent /\ job.work.refreshMayBeActive
    /\ at \in {"away", "status"} /\ job.work.executeSent => job.recovery
    /\ at = "upload" => ~ job.work.executeSent
    /\ at \in {"upload", "ready"} \/ (at = "execute" /\ ~ waiting) =>
           request.type # "EXECUTE" /\ ~ UnderWay /\ state # "EXECUTE_ACK"
    /\ at = "execute" /\ waiting /\ request # NoRequest =>
           /\ request.type = "EXECUTE" /\ request.tid = job.work.id
           /\ ~ UnderWay /\ state # "EXECUTE_ACK"
    /\ at = "confirm" \/ (at = "execute" /\ waiting) => job.work.refreshMayBeActive

Answered == waiting /\ reply # NoReply

\* What an answer still says of the card when the coordinator reads it.
AnswerInv ==
    Answered =>
        /\ reply.state \in {"RECEIVING", "READY", "COMPLETE", "ERROR", "BOOT"} => ~ UnderWay
        /\ reply.state # "EXECUTE_ACK" => state # "EXECUTE_ACK"
        /\ at \in {"upload", "ready"} => reply.state # "EXECUTE_ACK"
        /\ at = "execute" /\ (reply.rejected \/ reply.error # "NONE") =>
               ~ UnderWay /\ reply.state # "EXECUTE_ACK"
        /\ at = "execute" /\ reply.deferred => ~ UnderWay /\ state # "EXECUTE_ACK"

\* What the coordinator makes of the answer to an EXECUTE.
Accepts(r) == ~ r.rejected /\ r.error = "NONE" /\ ~ r.deferred

\* A card that stops while it is asked for confirmation says why.
ErrorInv ==
    /\ at = "confirm" => request \in {NoRequest, StatusFrame}
    /\ state = "ERROR" /\ (at = "confirm" \/ (Answered /\ at = "execute" /\ Accepts(reply)))
           => current_error # "NONE"
    /\ Answered /\ at = "confirm" /\ reply.state = "ERROR" => reply.error # "NONE"

\* CardInv is the card's, the rest relates the two.
LinkInv == CardInv /\ MailInv /\ IdInv /\ FieldInv /\ AnswerInv /\ ErrorInv

-----------------------------------------------------------------------------
(* Frames and pictures of the job.                                         *)

\* Frames of the card's store that bear an id of the job are its target.
LEMMA KeptOwn ==
  ASSUME NEW f \in Kept
  PROVE  /\ f.tid \in Nat
         /\ f.tid \in Own \cup {0} => f.format = "mono"
         /\ f.tid \in Own => f.image = Target
<1>1. f.tid \in Nat /\ (f = FactoryFrame \/ PictureOf(f) # {})
  BY DEF Kept, StorableFrame
<1>2. 0 \notin Own
  BY LinkAssumption DEF Own
<1>3. CASE f = FactoryFrame
  BY <1>1, <1>2, <1>3 DEF FactoryFrame
<1>4. CASE PictureOf(f) # {}
  <2>1. PICK p \in Picture :
          /\ p.tid = f.tid
          /\ f.image = IF p.format = "pattern" THEN PatternImage(p.pattern) ELSE p.planes[1]
          /\ f.format = IF p.format = "gray" THEN "gray" ELSE "mono"
    BY <1>4 DEF PictureOf
  <2>2. p.tid # 0 /\ (p.tid \in Own => p.format = "mono" /\ p.planes[1] = Target)
    BY LinkAssumption DEF Own
  <2>3. QED
    BY <1>1, <2>1, <2>2
<1>5. QED
  BY <1>1, <1>3, <1>4

\* What a picture of the job's ids is.
LEMMA OwnPicture ==
  ASSUME NEW id \in Own, NEW batch \in BOOLEAN
  PROVE  \E p \in Picture :
             p.tid = id /\ p.clean = batch /\ p.format = "mono" /\ p.planes[1] = Target
                        /\ p.planes \in [{1} -> Image]
  BY LinkAssumption, PictureAssumption DEF Own

LEMMA WireFrameFields ==
  ASSUME NEW f \in WireFrame
  PROVE  /\ f.type \in {"START", "DATA", "COMMIT", "EXECUTE", "PATTERN"}
         /\ f.tid \in Nat \ {0}
         /\ \E p \in Picture : p.tid = f.tid
         /\ f.type = "START" => f.body.format \in {"mono", "gray"} /\ f.body.clean \in BOOLEAN
         /\ f.type = "START" /\ f.tid \in Own => f.body.format = "mono"
<1>1. PICK p \in Picture :
           \/ StartOf(f, p) \/ DataOf(f, p) \/ EmptyOf(f, p)
           \/ p.format = "pattern" /\ f = PatternFrame(p)
  BY FrameKinds
<1>2. p.tid \in Nat \ {0} /\ p.clean \in BOOLEAN /\ (p.tid \in Own => p.format = "mono")
  BY PictureAssumption, LinkAssumption DEF Own
<1>3. CASE StartOf(f, p)
  <2>1. PICK k : f = StartFrame(p, k)
    BY <1>3 DEF StartOf
  <2>2. f.type = "START" /\ f.tid = p.tid /\ f.body.format = p.format /\ f.body.clean = p.clean
    BY <2>1 DEF StartFrame
  <2>3. QED
    BY <1>2, <1>3, <2>2 DEF StartOf
<1>4. CASE DataOf(f, p)
  BY <1>2, <1>4 DEF DataOf, SessionFrame
<1>5. CASE EmptyOf(f, p)
  BY <1>2, <1>5 DEF EmptyOf, SessionFrame
<1>6. CASE f = PatternFrame(p)
  BY <1>2, <1>6 DEF PatternFrame
<1>7. QED
  BY <1>1, <1>3, <1>4, <1>5, <1>6

\* Another phone sends nothing under an id of the job.
LEMMA OtherFrames ==
  ASSUME NEW f \in PhoneFrame, f.tid \in {p.tid : p \in Others}
  PROVE  f.tid \notin Own
  BY LinkAssumption DEF Own

-----------------------------------------------------------------------------
(* What the card does by itself.                                           *)

LEMMA RunEffect ==
  ASSUME CardInv, Card \/ Brownout
  PROVE  /\ t' = t /\ host' = host
         /\ state' = "EXECUTE_ACK" => state = "EXECUTE_ACK"
         /\ clean_active' => clean_active
         /\ t.format # "gray" /\ Refreshes' => Refreshes
         /\ Frames' \subseteq Frames \cup {FrameToStage, NoFrame, TornHeader}
<1> USE DEF loopVars, panelVars, storeVars, Frames, Refreshes, Acking
<1>1. CASE NdefPause \/ BecomesReady \/ AckIsRead \/ Brownout
  BY <1>1 DEF NdefPause, BecomesReady, AckIsRead, Brownout
<1>2. CASE ChargeTimesOut \/ DriveFails \/ AckTimesOut \/ BrownoutStops
  BY <1>2 DEF ChargeTimesOut, DriveFails, AckTimesOut, BrownoutStops, StopWithError
<1>3. CASE StageBegins \/ StageWrites \/ StageSucceeds
  BY <1>3 DEF StageBegins, StageWrites, StageSucceeds, Store!Begin, Store!Disturb,
              Store!Overwrite, Store!Land
<1>4. CASE StageFails
  BY <1>4 DEF StageFails, StopWithError, Store!Fail, Store!Overwrite
<1>5. CASE RefreshContinues \/ QuietIsOver
  <2>1. RefreshRefused \/ \E images : StartDriving(images)
    BY <1>5 DEF RefreshContinues, QuietIsOver, Refresh, refresh_partial, refresh_gray4
  <2>2. t.format # "gray" => Refreshes
    BY <1>5 DEF RefreshContinues, QuietIsOver, IsGray
  <2>3. QED
    BY <2>1, <2>2 DEF RefreshRefused, StopWithError, StartDriving
<1>6. CASE PartialEnds \/ GrayBandEnds
  <2>1. state = "REFRESHING"
    BY <1>6 DEF PartialEnds, GrayBandEnds, DriveEnds, CardInv, StateInv
  <2>2. QED
    BY <1>6, <2>1 DEF PartialEnds, GrayBandEnds, DriveEnds, ChargeAgain, CommitBegins,
                      Store!Commit
<1>7. CASE CommitSucceeds
  BY <1>7 DEF CommitSucceeds, PartialRecorded, GrayRecorded, Recorded, Store!Promote
<1>8. CASE CommitFails
  BY <1>8 DEF CommitFails, StopWithError, Store!Spoil
<1>9. QED
  BY <1>1, <1>2, <1>3, <1>4, <1>5, <1>6, <1>7, <1>8 DEF Card

\* After a power cut nothing is under way, and the transfer is of a frame in Flash.
LEMMA PowerEffect ==
  ASSUME CardInv, PowerCycle
  PROVE  /\ Frames' \subseteq Frames \cup {NoFrame}
         /\ host' = "empty" /\ ~ Refreshes' /\ ~ Acking' /\ ~ clean_active'
         /\ \/ t' = ResetTransfer
            \/ /\ prepared' \in Kept
               /\ t'.tid = prepared'.tid /\ t'.format = prepared'.format
               /\ t'.clean = prepared'.clean
            \/ /\ prepared' = NoFrame /\ committed' \in Kept /\ state' = "COMPLETE"
               /\ t'.tid = committed'.tid /\ t'.format = committed'.format /\ t'.crc = NoCrc
               /\ t'.clean = FALSE
<1>1. Frames' \subseteq Frames \cup {NoFrame}
  BY DEF PowerCycle, Store!PowerCycle, Frames
<1>2. host' = "empty" /\ state' \in {"RECEIVING", "CHARGING", "COMPLETE"} /\ clean_active' = FALSE
  BY DEF PowerCycle, Boot
<1>3. committed' \in Kept \cup {NoFrame} /\ prepared' \in Kept \cup {NoFrame}
  <2>1. CardInv'
    BY CardKeeps DEF Next
  <2>2. QED
    BY <2>1 DEF CardInv, StoreInv
<1>4. \A f, n, executed :
        /\ Resumed(f, n, executed).tid = f.tid /\ Resumed(f, n, executed).format = f.format
        /\ Resumed(f, n, executed).crc = NoCrc
        /\ Resumed(f, n, executed).clean = (~ executed /\ f.clean)
  BY DEF Resumed, ResetTransfer
<1>5. \A f \in Kept : f.clean \in BOOLEAN
  BY DEF Kept, StorableFrame
<1>6. CASE prepared' # NoFrame
  <2>1. t' = Resumed(prepared', prepared'.seq, FALSE)
    BY <1>6 DEF PowerCycle, Boot
  <2>2. prepared' \in Kept
    BY <1>3, <1>6
  <2>3. /\ t'.tid = prepared'.tid /\ t'.format = prepared'.format
        /\ t'.clean = (~ FALSE /\ prepared'.clean)
    BY <1>4, <2>1, Zenon
  <2>4. t'.clean = prepared'.clean
    BY <1>5, <2>2, <2>3
  <2>5. ~ Refreshes' /\ ~ Acking'
    BY <1>2 DEF Refreshes, Acking
  <2>6. QED
    BY <1>1, <1>2, <2>2, <2>3, <2>4, <2>5
<1>7. CASE prepared' = NoFrame /\ committed' = NoFrame
  <2>1. t' = ResetTransfer
    BY <1>7 DEF PowerCycle, Boot
  <2>2. QED
    BY <1>1, <1>2, <2>1 DEF Refreshes, Acking
<1>8. CASE prepared' = NoFrame /\ committed' # NoFrame
  <2>1. PICK n : t' = Resumed(committed', n, TRUE)
    BY <1>8 DEF PowerCycle, Boot
  <2>2. state' = "COMPLETE"
    BY <1>8 DEF PowerCycle, Boot
  <2>3. /\ t'.tid = committed'.tid /\ t'.format = committed'.format /\ t'.crc = NoCrc
        /\ t'.clean = (~ TRUE /\ committed'.clean)
    BY <1>4, <2>1, Zenon
  <2>4. QED
    BY <1>1, <1>2, <1>3, <1>8, <2>2, <2>3 DEF Refreshes, Acking
<1>9. QED
  BY <1>6, <1>7, <1>8

-----------------------------------------------------------------------------
(* What a frame makes the card do, and what it answers.                    *)

Untouched == UNCHANGED <<t, state, clean_active>>

\* A session is opened, or again; a transfer that was there before is not resumed.
Reopens(f) ==
    /\ f.type \in {"START", "PATTERN"}
    /\ state' \in {"RECEIVING", "CHARGING"} /\ clean_active' = FALSE
    /\ \/ t' = t /\ t.last.type = "START"
       \/ /\ t'.tid = f.tid
          /\ t'.format = "gray" => f.type = "START" /\ f.body.format = "gray"
          /\ f.type = "START" => t'.clean = f.body.clean

\* The session goes on, or its last chunk is in.
Advances ==
    /\ SameSession(t', t)
    /\ \/ UNCHANGED <<state, clean_active>> /\ ~ t.committed
       \/ state' = "CHARGING" /\ clean_active' = FALSE /\ t.crc # NoCrc

\* The refresh is asked for, and its acknowledgement published or not.
Orders(f) ==
    /\ f.type = "EXECUTE" /\ f.tid = t.tid
    /\ state = "READY"
    /\ SameSession(t', t)
    /\ state' = "EXECUTE_ACK" \/ (state' = "ERROR" /\ host' = "empty")

LEMMA StartResult ==
  ASSUME NEW f, f.type = "START", NEW r, r = nc_transfer_apply(t, buf, f)
  PROVE  \/ r.result = "REJECTED"
         \/ /\ r.result \in {"DUPLICATE", "ACCEPTED"} /\ r.error = "NONE"
            /\ \/ r.t = t /\ t.last.type = "START"
               \/ /\ r.t.tid = f.tid /\ r.t.format = f.body.format /\ r.t.clean = f.body.clean
                  /\ r.t.crc = f.body.crc
<1>1. r = ApplyStart(t, buf, f)
  BY DEF nc_transfer_apply
<1> DEFINE new == [ResetTransfer EXCEPT
               !.active = TRUE, !.tid = f.tid, !.seq = 1, !.crc = f.body.crc,
               !.clean = f.body.clean, !.format = f.body.format,
               !.plane = IF f.body.format = "gray" THEN f.body.plane ELSE 0,
               !.last = remember(f)]
<1>2. \/ r.result = "REJECTED"
      \/ /\ r.result \in {"DUPLICATE", "ACCEPTED"} /\ r.error = "NONE"
         /\ (r.t = t /\ t.last.type = "START") \/ r.t = new
  BY <1>1 DEF ApplyStart, Reject, Replied, is_duplicate
<1>3. /\ new.tid = f.tid /\ new.format = f.body.format /\ new.clean = f.body.clean
      /\ new.crc = f.body.crc
  BY DEF ResetTransfer
<1>4. QED
  BY <1>2, <1>3

LEMMA PatternResult ==
  ASSUME NEW f, f.type = "PATTERN", NEW r, r = nc_transfer_apply(t, buf, f)
  PROVE  \/ r.result = "REJECTED"
         \/ r.result = "DUPLICATE" /\ r.error = "NONE" /\ r.t = t
         \/ /\ r.result = "PATTERN" /\ r.error = "NONE"
            /\ r.t.tid = f.tid /\ r.t.format = "mono" /\ r.t.last.type = "PATTERN"
<1>1. r = ApplyPattern(t, buf, f)
  BY DEF nc_transfer_apply
<1> DEFINE new == [ResetTransfer EXCEPT
               !.active = TRUE, !.committed = TRUE, !.tid = f.tid, !.seq = 1,
               !.off = ImageSize, !.pattern = f.body, !.format = "mono",
               !.last = remember(f)]
<1>2. \/ r.result = "REJECTED"
      \/ r.result = "DUPLICATE" /\ r.error = "NONE" /\ r.t = t
      \/ r.result = "PATTERN" /\ r.error = "NONE" /\ r.t = new
  BY <1>1 DEF ApplyPattern, Reject, Replied
<1>3. new.tid = f.tid /\ new.format = "mono" /\ new.last.type = "PATTERN"
  BY DEF ResetTransfer, remember
<1>4. QED
  BY <1>2, <1>3

\* A frame of a session that is not rejected is of the active one.
LEMMA SessionResult ==
  ASSUME CardInv, NEW f, f.type \in {"DATA", "COMMIT", "EXECUTE"},
         NEW r, r = nc_transfer_apply(t, buf, f)
  PROVE  \/ r.result = "REJECTED"
         \/ /\ f.tid = t.tid /\ r.error = "NONE"
            /\ r.t = t \/ (r.result # "DUPLICATE" /\ r.t.last = remember(f))
<1>1. r = ApplyInSession(t, buf, f) /\ DOMAIN t = DOMAIN ResetTransfer
  BY DEF nc_transfer_apply, CardInv, TransferInv, SessionOK, TransferType
<1>2. Advanced(t, f).last = remember(f) /\ DOMAIN Advanced(t, f) = DOMAIN t
  BY <1>1 DEF Advanced, ResetTransfer
<1>3. /\ \A n : [Advanced(t, f) EXCEPT !.off = n].last = remember(f)
      /\ [Advanced(t, f) EXCEPT !.committed = TRUE].last = remember(f)
      /\ [Advanced(t, f) EXCEPT !.execute_requested = TRUE].last = remember(f)
  BY <1>1, <1>2 DEF ResetTransfer
<1> DEFINE Taking(a) == /\ a.result \in {"ACCEPTED", "COMMITTED", "EXECUTE"}
                        /\ a.error = "NONE" /\ a.t.last = remember(f)
<1>4. ApplyData(t, buf, f).result = "REJECTED" \/ Taking(ApplyData(t, buf, f))
  BY <1>3 DEF ApplyData, Reject, Replied
<1>5. ApplyCommit(t, buf, f).result = "REJECTED" \/ Taking(ApplyCommit(t, buf, f))
  BY <1>3 DEF ApplyCommit, Reject, Replied
<1>6. ApplyExecute(t, buf, f).result = "REJECTED" \/ Taking(ApplyExecute(t, buf, f))
  BY <1>3 DEF ApplyExecute, Reject, Replied
<1>7. \/ r.result = "REJECTED"
      \/ /\ f.tid = t.tid
         /\ \/ r.result = "DUPLICATE" /\ r.error = "NONE" /\ r.t = t
            \/ r \in {ApplyData(t, buf, f), ApplyCommit(t, buf, f), ApplyExecute(t, buf, f)}
  BY <1>1 DEF ApplyInSession, Reject, Replied
<1>8. QED
  BY <1>4, <1>5, <1>6, <1>7

LEMMA MessageKinds ==
  ASSUME CardInv, NEW f \in WireFrame, HandleMessage(f)
  PROVE  Untouched \/ Reopens(f) \/ Advances \/ Orders(f)
<1> DEFINE r == nc_transfer_apply(t, buf, f)
<1> HIDE DEF r
<1> USE DEF loopVars
<1>1. \/ \E answer \in {"ack", "error"} : AnswerOnly(answer)
      \/ r.result # "REJECTED" /\ Applied(f, r) /\ ~ ExecuteWhileCharging(f) /\ ~ RefusedFirst(f)
  BY DEF HandleMessage, r
<1>2. CASE \E answer \in {"ack", "error"} : AnswerOnly(answer)
  BY <1>2 DEF AnswerOnly, Untouched
<1>3. CASE /\ r.result # "REJECTED" /\ Applied(f, r)
           /\ ~ ExecuteWhileCharging(f) /\ ~ RefusedFirst(f)
  <2>1. t' = r.t /\ r = nc_transfer_apply(t, buf, f) /\ TransferInv
    BY <1>3 DEF Applied, r, CardInv
  <2>2. PICK p \in Picture :
           \/ StartOf(f, p) \/ DataOf(f, p) \/ EmptyOf(f, p)
           \/ p.format = "pattern" /\ f = PatternFrame(p)
    BY FrameKinds
  <2>3. CASE StartOf(f, p)
    <3>1. f.type = "START"
      BY <2>3 DEF StartOf, StartFrame
    <3>2. /\ r.result \in {"DUPLICATE", "ACCEPTED"}
          /\ \/ r.t = t /\ t.last.type = "START"
             \/ r.t.tid = f.tid /\ r.t.format = f.body.format /\ r.t.clean = f.body.clean
      BY <1>3, <2>1, <3>1, StartResult
    <3>3. AfterStart(r)
      BY <1>3, <3>1, <3>2 DEF Applied
    <3>4. QED
      BY <2>1, <3>1, <3>2, <3>3 DEF AfterStart, Reopens
  <2>4. CASE f = PatternFrame(p)
    <3>1. f.type = "PATTERN"
      BY <2>4 DEF PatternFrame
    <3>2. \/ r.result = "DUPLICATE" /\ r.t = t
          \/ r.result = "PATTERN" /\ r.t.tid = f.tid /\ r.t.format = "mono"
      BY <1>3, <2>1, <3>1, PatternResult
    <3>3. CASE r.result = "DUPLICATE"
      BY <1>3, <2>1, <3>1, <3>2, <3>3 DEF Applied, Untouched
    <3>4. CASE r.result = "PATTERN"
      <4>1. AfterCommit(r)
        BY <1>3, <3>1, <3>4 DEF Applied
      <4>2. QED
        BY <2>1, <3>1, <3>2, <3>4, <4>1 DEF AfterCommit, Reopens
    <3>5. QED
      BY <3>2, <3>3, <3>4
  <2>5. CASE DataOf(f, p)
    <3>1. f.type = "DATA"
      BY <2>5 DEF DataOf, SessionFrame
    <3>2. \/ r.result = "DUPLICATE" /\ r.t = t
          \/ r.result = "ACCEPTED" /\ SameSession(r.t, t) /\ ~ t.committed
      BY <1>3, <2>1, <2>5, DataApplied DEF Fills
    <3>3. UNCHANGED <<state, clean_active>>
      BY <1>3, <3>1, <3>2 DEF Applied
    <3>4. QED
      BY <2>1, <3>2, <3>3 DEF Untouched, Advances
  <2>6. CASE EmptyOf(f, p) /\ f.type = "COMMIT"
    <3>1. \/ r.result = "DUPLICATE" /\ r.t = t
          \/ r.result = "COMMITTED" /\ SameSession(r.t, t) /\ t.crc # NoCrc
      BY <1>3, <2>1, <2>6, CommitApplied DEF Commits
    <3>2. CASE r.result = "DUPLICATE"
      BY <1>3, <2>1, <2>6, <3>1, <3>2 DEF Applied, Untouched
    <3>3. CASE r.result = "COMMITTED"
      <4>1. AfterCommit(r)
        BY <1>3, <2>6, <3>3 DEF Applied
      <4>2. QED
        BY <2>1, <3>1, <3>3, <4>1 DEF AfterCommit, Advances
    <3>4. QED
      BY <3>1, <3>2, <3>3
  <2>7. CASE EmptyOf(f, p) /\ f.type = "EXECUTE"
    <3>1. state = "READY" /\ (t.format = "gray" => t.plane = 1)
      BY <1>3, <2>7 DEF RefusedFirst
    <3>2. \/ r.result = "DUPLICATE" /\ r.t = t
          \/ r.result = "EXECUTE" /\ SameSession(r.t, t)
      BY <1>3, <2>1, <2>7, <3>1, ExecuteApplied DEF Executes
    <3>3. f.tid = t.tid
      BY <1>3, <2>1, <2>7, SessionResult
    <3>4. CASE r.result = "DUPLICATE"
      BY <1>3, <2>1, <2>7, <3>2, <3>4 DEF Applied, Untouched
    <3>5. CASE r.result = "EXECUTE"
      <4>1. AfterExecute(r)
        BY <1>3, <2>7, <3>5 DEF Applied
      <4>2. QED
        BY <2>1, <2>7, <3>1, <3>2, <3>3, <3>5, <4>1 DEF AfterExecute, Orders
    <3>6. QED
      BY <3>2, <3>4, <3>5
  <2>8. EmptyOf(f, p) => f.type \in {"COMMIT", "EXECUTE"}
    BY DEF EmptyOf, SessionFrame
  <2>9. QED
    BY <2>2, <2>3, <2>4, <2>5, <2>6, <2>7, <2>8
<1>4. QED
  BY <1>1, <1>2, <1>3

\* A frame that the card reads leaves the store alone.
LEMMA FrameEffect ==
  ASSUME CardInv, NEW f \in WireFrame \cup {StatusFrame}, HandleFrame(f)
  PROVE  /\ CardInv'
         /\ Frames' = Frames /\ host = "empty" /\ pc' = "loop"
         /\ UNCHANGED storeVars /\ adrift' = adrift
         /\ Untouched \/ (f \in WireFrame /\ (Reopens(f) \/ Advances \/ Orders(f)))
<1>1. CASE f = StatusFrame
  <2>1. f.type = "STATUS"
    BY <1>1 DEF StatusFrame
  <2>2. HandleOther
    BY <2>1 DEF HandleFrame
  <2>3. CardInv'
    BY <2>2, CardKeeps DEF Next
  <2>4. QED
    BY <2>2, <2>3 DEF HandleOther, Listening, AnswerOnly, Untouched, storeVars, panelVars,
                      loopVars, Frames
<1>2. CASE f \in WireFrame
  <2>1. f.type # "STATUS"
    BY <1>2, WireFrameFields
  <2>2. HandleMessage(f)
    BY <2>1 DEF HandleFrame
  <2>3. /\ UNCHANGED <<pc, storeVars, panelVars>> /\ Listening
    BY <2>2 DEF HandleMessage
  <2>4. QED
    BY <1>2, <2>2, <2>3, MessageStep, MessageKinds DEF Listening, storeVars, panelVars, Frames
<1>3. QED
  BY <1>1, <1>2

LEMMA ReplyFields ==
  ASSUME CardInv, NEW f \in WireFrame \cup {StatusFrame}, HandleFrame(f)
  PROVE  /\ host' = "empty" <=> reply' = NoReply
         /\ reply' # NoReply =>
                /\ reply'.seq \in Nat /\ reply'.off \in Nat /\ reply'.gray \in BOOLEAN
                /\ reply'.state = state' /\ reply'.state # "REFRESHING"
                /\ reply'.type = f.type
<1>1. f.type # "NONE"
  BY WireFrameFields DEF StatusFrame
<1>2. /\ host' = "empty" => reply' = NoReply
      /\ host' # "empty" => \E result, error : reply' = ReplyTo(f, result, error)
  BY DEF HandleFrame
<1>3. \A result, error :
        /\ ReplyTo(f, result, error).type = f.type
        /\ ReplyTo(f, result, error).state = state'
        /\ ReplyTo(f, result, error).seq = t'.seq /\ ReplyTo(f, result, error).off = t'.off
        /\ ReplyTo(f, result, error).gray = ("gray" \in {committed_format, pending_format})
  BY DEF ReplyTo
<1>4. CardInv' /\ pc' = "loop"
  BY FrameEffect
<1>5. t'.seq \in Nat /\ t'.off \in Nat /\ state' # "REFRESHING"
  <2>1. t'.seq \in 0 .. SeqModulus - 1 /\ t'.off \in 0 .. ImageSize
    BY <1>4 DEF CardInv, TransferInv, SessionOK, TransferType
  <2>2. ImageSize \in Nat /\ SeqModulus \in Nat
    BY PictureAssumption, SeqNumbers
  <2>3. state' # "REFRESHING"
    BY <1>4 DEF CardInv, StateInv
  <2>4. QED
    BY <2>1, <2>2, <2>3
<1>6. NoReply.type = "NONE"
  BY DEF NoReply
<1>7. CASE host' = "empty"
  BY <1>2, <1>7
<1>8. CASE host' # "empty"
  <2>1. PICK result, error : reply' = ReplyTo(f, result, error)
    BY <1>2, <1>8
  <2>2. reply'.type = f.type /\ reply'.state = state' /\ reply'.seq = t'.seq
        /\ reply'.off = t'.off /\ reply'.gray = ("gray" \in {committed_format, pending_format})
    BY <1>3, <2>1
  <2>3. reply' # NoReply
    BY <1>1, <1>6, <2>2
  <2>4. reply'.gray \in BOOLEAN
    BY <2>2
  <2>5. QED
    BY <1>5, <1>8, <2>2, <2>3, <2>4
<1>9. QED
  BY <1>7, <1>8

LEMMA ExecuteReply ==
  ASSUME CardInv, NEW f \in WireFrame, f.type = "EXECUTE", HandleFrame(f), reply' # NoReply
  PROVE  \/ Untouched /\ ~ Accepts(reply')
         \/ /\ Accepts(reply') /\ f.tid = t.tid /\ state = "READY" /\ SameSession(t', t)
            /\ state' \in {"READY", "EXECUTE_ACK"}
<1> DEFINE r == nc_transfer_apply(t, buf, f)
<1> HIDE DEF r
<1> USE DEF loopVars
<1>1. HandleMessage(f) /\ host' # "empty"
  BY ReplyFields DEF HandleFrame
<1>2. CASE ExecuteWhileCharging(f)
  <2>1. Untouched /\ state = "CHARGING"
    BY <1>1, <1>2 DEF HandleMessage, AnswerOnly, Untouched, ExecuteWhileCharging
  <2>2. PICK error : reply' = ReplyTo(f, "STATUS_ONLY", error)
    BY <1>1, <1>2 DEF HandleFrame
  <2>3. reply'.deferred = (state' = "CHARGING")
    BY <2>2 DEF ReplyTo
  <2>4. reply'.deferred
    BY <2>1, <2>3 DEF Untouched
  <2>5. QED
    BY <2>1, <2>4 DEF Accepts
<1>3. CASE RefusedFirst(f) /\ ~ ExecuteWhileCharging(f)
  <2>1. Untouched
    BY <1>1, <1>3 DEF HandleMessage, AnswerOnly, Untouched
  <2>2. reply' = ReplyTo(f, "REJECTED", "NOT_COMMITTED")
    BY <1>1, <1>3 DEF HandleFrame
  <2>3. reply'.rejected = TRUE
    BY <2>2 DEF ReplyTo
  <2>4. QED
    BY <2>1, <2>3 DEF Accepts
<1>4. CASE ~ RefusedFirst(f) /\ ~ ExecuteWhileCharging(f)
  <2>1. /\ reply' = ReplyTo(f, r.result, r.error)
        /\ r.error = "NONE" => current_error' = "NONE"
    BY <1>1, <1>4 DEF HandleFrame, r
  <2>2. CASE r.result = "REJECTED"
    <3>1. Untouched
      BY <1>1, <1>4, <2>2 DEF HandleMessage, AnswerOnly, Untouched, r
    <3>2. reply'.rejected = TRUE
      BY <2>1, <2>2 DEF ReplyTo
    <3>3. QED
      BY <3>1, <3>2 DEF Accepts
  <2>3. CASE r.result # "REJECTED"
    <3>1. r = nc_transfer_apply(t, buf, f) /\ TransferInv
      BY DEF r, CardInv
    <3>2. f.tid = t.tid /\ r.error = "NONE"
      BY <2>3, <3>1, SessionResult
    <3>3. state = "READY" /\ (t.format = "gray" => t.plane = 1)
      BY <1>4 DEF RefusedFirst
    <3>4. PICK p \in Picture : EmptyOf(f, p)
      <4>1. PICK p \in Picture :
               \/ StartOf(f, p) \/ DataOf(f, p) \/ EmptyOf(f, p)
               \/ p.format = "pattern" /\ f = PatternFrame(p)
        BY FrameKinds
      <4>2. QED
        BY <4>1 DEF StartOf, StartFrame, DataOf, SessionFrame, PatternFrame
    <3>5. \/ r.result = "DUPLICATE" /\ r.t = t
          \/ r.result = "EXECUTE" /\ SameSession(r.t, t)
      BY <2>3, <3>1, <3>3, <3>4, ExecuteApplied DEF Executes
    <3>6. t' = r.t
      BY <1>1, <1>4, <2>3 DEF HandleMessage, Applied, r
    <3>7. SameSession(t', t)
      BY <3>5, <3>6 DEF SameSession
    <3>8. reply'.rejected = FALSE /\ reply'.deferred = FALSE /\ reply'.error = "NONE"
      BY <2>1, <3>2, <3>5 DEF ReplyTo
    <3>9. state' \in {"READY", "EXECUTE_ACK"}
      <4>1. Applied(f, r)
        BY <1>1, <1>4, <2>3 DEF HandleMessage, r
      <4>2. CASE r.result = "DUPLICATE"
        BY <3>3, <4>1, <4>2 DEF Applied
      <4>3. CASE r.result = "EXECUTE"
        <5>1. AfterExecute(r)
          BY <4>1, <4>3 DEF Applied
        <5>2. QED
          BY <1>1, <5>1 DEF AfterExecute
      <4>4. QED
        BY <3>5, <4>2, <4>3
    <3>10. QED
      BY <3>2, <3>3, <3>7, <3>8, <3>9 DEF Accepts
  <2>4. QED
    BY <2>2, <2>3
<1>5. QED
  BY <1>2, <1>3, <1>4

-----------------------------------------------------------------------------
(* The card's steps.                                                       *)

\* Types and ids that no step of the card touches.
LEMMA Numbers ==
  /\ Own \subseteq Nat /\ 0 \notin Own
  /\ \A id \in Own : id # 0
  BY LinkAssumption DEF Own

LEMMA NoFrames ==
  /\ NoFrame \notin Kept /\ TornHeader \notin Kept
  /\ NoRequest \notin WireFrame /\ StatusFrame \notin WireFrame /\ StatusFrame # NoRequest
  /\ NoRequest.type = "NONE" /\ StatusFrame.type = "STATUS" /\ StatusFrame.tid = 0
<1>1. NoRequest.type = "NONE" /\ StatusFrame.type = "STATUS" /\ StatusFrame.tid = 0
  BY DEF NoRequest, StatusFrame
<1>2. \A f \in WireFrame : f.type \in {"START", "DATA", "COMMIT", "EXECUTE", "PATTERN"}
  BY WireFrameFields
<1>3. NoFrame \notin Kept /\ TornHeader \notin Kept
  BY FrameAssumption DEF Kept
<1>4. QED
  BY <1>1, <1>2, <1>3

LEMMA CardRunsKeep ==
  ASSUME LinkInv, CardStep \/ CardBrownout
  PROVE  LinkInv'
<1>1. /\ Card \/ Brownout
      /\ UNCHANGED <<request, reply, job, nextID, at, waiting, outcome>>
  BY DEF CardStep, CardRuns, CardBrownout, coordinator
<1>2. CardInv' /\ CardInv
  BY <1>1, CardKeeps DEF Next, LinkInv
<1>3. /\ t' = t /\ host' = host
      /\ state' = "EXECUTE_ACK" => state = "EXECUTE_ACK"
      /\ clean_active' => clean_active
      /\ t.format # "gray" /\ Refreshes' => Refreshes
      /\ Frames' \subseteq Frames \cup {FrameToStage, NoFrame, TornHeader}
  BY <1>1, <1>2, RunEffect
<1>4. MailInv'
  BY <1>1, <1>3 DEF LinkInv, MailInv
<1>5. t.tid \in Own \cup {0} => t.format # "gray"
  BY DEF LinkInv, IdInv
<1>6. UnderWay' => UnderWay
  BY <1>1, <1>3, <1>5 DEF LinkInv, IdInv, UnderWay
<1>7. IdInv'
  <2>1. \A f \in Frames' \cap Kept : f.tid \in Own => f.tid < nextID
    <3>1. FrameToStage.tid = t.tid
      BY DEF FrameToStage
    <3>2. QED
      BY <1>3, <3>1, NoFrames DEF LinkInv, IdInv
  <2>2. t.tid = 0 => ~ Acking' /\ ~ clean_active'
    <3>1. t.tid = 0 => ~ Acking /\ ~ clean_active /\ t.format # "gray"
      BY DEF LinkInv, IdInv
    <3>2. t.tid = 0 => ~ Refreshes
      BY <3>1 DEF Refreshes
    <3>3. QED
      BY <1>3, <3>1, <3>2 DEF Refreshes
  <2>3. QED
    BY <1>1, <1>3, <2>1, <2>2 DEF LinkInv, IdInv
<1>8. FieldInv'
  BY <1>1, <1>3, <1>6 DEF LinkInv, FieldInv
<1>9. AnswerInv'
  BY <1>1, <1>3, <1>6 DEF LinkInv, AnswerInv, Answered
<1>10. ErrorInv'
  <2>1. state' = "ERROR" => current_error' = "FAULT" \/ (state = "ERROR" /\ current_error' = current_error)
    BY DEF CardStep, CardRuns, Stops, CardBrownout, Brownout
  <2>2. QED
    BY <1>1, <2>1 DEF LinkInv, ErrorInv, Answered, Accepts
<1>11. QED
  BY <1>2, <1>4, <1>7, <1>8, <1>9, <1>10 DEF LinkInv

LEMMA PowerKeeps ==
  ASSUME LinkInv, CardLosesPower
  PROVE  LinkInv'
<1>1. /\ PowerCycle
      /\ UNCHANGED <<job, nextID, at, waiting, outcome>>
      /\ request' = NoRequest /\ reply' = NoReply
  BY DEF CardLosesPower, coordinator
<1>2. CardInv' /\ CardInv
  BY <1>1, CardKeeps DEF Next, LinkInv
<1>3. /\ Frames' \subseteq Frames \cup {NoFrame}
      /\ host' = "empty" /\ ~ Refreshes' /\ ~ Acking' /\ ~ clean_active'
      /\ \/ t' = ResetTransfer
         \/ \E f \in Frames' \cap Kept : t'.tid = f.tid /\ t'.format = f.format
  BY <1>1, <1>2, PowerEffect DEF Frames
<1>4. MailInv'
  BY <1>1, <1>3 DEF LinkInv, MailInv
<1>5. \A f \in Frames' \cap Kept : f.tid \in Own => f.tid < nextID
  BY <1>3, NoFrames DEF LinkInv, IdInv
<1>6. /\ t'.tid \in Own => t'.tid < nextID
      /\ t'.tid \in Own \cup {0} => t'.format # "gray"
  <2>1. CASE t' = ResetTransfer
    <3>1. t'.tid = 0 /\ t'.format = "none"
      BY <2>1 DEF ResetTransfer
    <3>2. QED
      BY <3>1, Numbers
  <2>2. CASE \E f \in Frames' \cap Kept : t'.tid = f.tid /\ t'.format = f.format
    <3>1. PICK f \in Frames' \cap Kept : t'.tid = f.tid /\ t'.format = f.format
      BY <2>2
    <3>2. f.tid \in Own \cup {0} => f.format = "mono"
      BY KeptOwn
    <3>3. QED
      BY <1>5, <3>1, <3>2
  <2>3. QED
    BY <1>3, <2>1, <2>2
<1>7. IdInv'
  BY <1>1, <1>3, <1>5, <1>6 DEF LinkInv, IdInv
<1>8. ~ UnderWay' /\ state' # "EXECUTE_ACK"
  BY <1>3 DEF UnderWay, Acking
<1>9. FieldInv'
  BY <1>1, <1>8, NoFrames DEF LinkInv, FieldInv
<1>10. AnswerInv'
  BY <1>1 DEF AnswerInv, Answered
<1>11. ErrorInv'
  <2>1. state' # "ERROR"
    BY <1>1 DEF PowerCycle, Boot
  <2>2. QED
    BY <1>1, <2>1 DEF ErrorInv, Answered
<1>12. QED
  BY <1>2, <1>4, <1>7, <1>9, <1>10, <1>11 DEF LinkInv

\* What any frame, of this phone or the other, does to the ids.
LEMMA FrameIds ==
  ASSUME LinkInv, NEW f \in WireFrame \cup {StatusFrame}, HandleFrame(f),
         f.tid \in Own => f.tid < nextID
  PROVE  /\ t'.tid \in Own => t'.tid < nextID
         /\ \A g \in Frames' \cap Kept : g.tid \in Own => g.tid < nextID
         /\ t'.tid \in Own \cup {0} => t'.format # "gray"
         /\ t'.tid = 0 => ~ Acking' /\ ~ clean_active'
         /\ state' = "EXECUTE_ACK" => state = "EXECUTE_ACK" \/ f.type = "EXECUTE"
         /\ Refreshes' => \/ Refreshes /\ t'.tid = t.tid
                          \/ f.type = "EXECUTE" /\ f.tid = t.tid /\ t'.tid = t.tid
<1>1. /\ Frames' = Frames
      /\ Untouched \/ (f \in WireFrame /\ (Reopens(f) \/ Advances \/ Orders(f)))
  BY FrameEffect DEF LinkInv
<1>2. /\ t.tid \in Own => t.tid < nextID
      /\ \A g \in Frames' \cap Kept : g.tid \in Own => g.tid < nextID
      /\ t.tid \in Own \cup {0} => t.format # "gray"
      /\ t.tid = 0 => ~ Acking /\ ~ clean_active
  BY <1>1 DEF LinkInv, IdInv
<1>3. CASE Untouched
  BY <1>2, <1>3 DEF Untouched, Acking, Refreshes
<1>4. CASE f \in WireFrame /\ Reopens(f)
  <2>1. /\ f.tid # 0
        /\ f.type = "START" /\ f.tid \in Own => f.body.format = "mono"
    BY <1>4, WireFrameFields
  <2>2. ~ Acking' /\ ~ Refreshes' /\ state' # "EXECUTE_ACK" /\ ~ clean_active'
    BY <1>4 DEF Reopens, Acking, Refreshes
  <2>3. t'.tid \in Own \cup {0} => t'.format # "gray"
    BY <1>2, <1>4, <2>1 DEF Reopens
  <2>4. t'.tid \in Own => t'.tid < nextID
    BY <1>2, <1>4 DEF Reopens
  <2>5. QED
    BY <1>2, <2>2, <2>3, <2>4
<1>5. CASE Advances
  <2>1. t'.tid = t.tid /\ t'.format = t.format
    BY <1>5 DEF Advances, SameSession
  <2>2. UNCHANGED <<state, clean_active>> \/ (state' = "CHARGING" /\ clean_active' = FALSE)
    BY <1>5 DEF Advances
  <2>3. QED
    BY <1>2, <2>1, <2>2 DEF Acking, Refreshes
<1>6. CASE f \in WireFrame /\ Orders(f)
  <2>1. t'.tid = t.tid /\ t'.format = t.format /\ f.tid = t.tid /\ f.type = "EXECUTE"
    BY <1>6 DEF Orders, SameSession
  <2>2. f.tid # 0
    BY <1>6, WireFrameFields
  <2>3. QED
    BY <1>2, <2>1, <2>2
<1>7. QED
  BY <1>1, <1>3, <1>4, <1>5, <1>6

LEMMA CardReadsKeeps ==
  ASSUME LinkInv, CardReads
  PROVE  LinkInv'
<1>1. /\ HandleFrame(request) /\ request' = NoRequest
      /\ UNCHANGED <<job, nextID, at, waiting, outcome>>
      /\ request \in WireFrame \cup {StatusFrame}
  BY DEF CardReads, coordinator, LinkInv, MailInv
<1>2. CardInv /\ CardInv' /\ host = "empty"
  BY <1>1, FrameEffect DEF LinkInv
<1>3. /\ host' = "empty" <=> reply' = NoReply
      /\ reply' # NoReply =>
             /\ reply'.seq \in Nat /\ reply'.off \in Nat /\ reply'.gray \in BOOLEAN
             /\ reply'.state = state' /\ reply'.state # "REFRESHING"
  BY <1>1, <1>2, ReplyFields
<1>4. MailInv'
  BY <1>1, <1>3 DEF LinkInv, MailInv
<1>5. request.tid \in Own => request.tid < nextID
  BY <1>1, NoFrames DEF LinkInv, IdInv
<1>6. /\ t'.tid \in Own => t'.tid < nextID
      /\ \A g \in Frames' \cap Kept : g.tid \in Own => g.tid < nextID
      /\ t'.tid \in Own \cup {0} => t'.format # "gray"
      /\ t'.tid = 0 => ~ Acking' /\ ~ clean_active'
      /\ state' = "EXECUTE_ACK" => state = "EXECUTE_ACK" \/ request.type = "EXECUTE"
      /\ Refreshes' => \/ Refreshes /\ t'.tid = t.tid
                       \/ request.type = "EXECUTE" /\ request.tid = t.tid /\ t'.tid = t.tid
  BY <1>1, <1>5, FrameIds
<1>7. IdInv'
  BY <1>1, <1>6 DEF LinkInv, IdInv
<1>8. UnderWay' => UnderWay \/ (request.type = "EXECUTE" /\ request.tid = job.work.id)
  BY <1>1, <1>6 DEF UnderWay
<1>9. FieldInv'
  <2>1. request'.type # "EXECUTE"
    BY <1>1, NoFrames
  <2>2. UnderWay' => job.work.executeSent /\ job.work.refreshMayBeActive
    BY <1>8 DEF LinkInv, FieldInv
  <2>3. at \in {"upload", "ready"} \/ (at = "execute" /\ ~ waiting) =>
           ~ UnderWay' /\ state' # "EXECUTE_ACK"
    BY <1>6, <1>8 DEF LinkInv, FieldInv
  <2>4. QED
    BY <1>1, <2>1, <2>2, <2>3 DEF LinkInv, FieldInv
<1>10. AnswerInv'
  <2>1. SUFFICES ASSUME waiting, reply' # NoReply
                 PROVE  AnswerInv'
    BY <1>1 DEF AnswerInv, Answered
  <2>2. reply'.state = state'
    BY <1>3, <2>1
  <2>3. reply'.state \in {"RECEIVING", "READY", "COMPLETE", "ERROR", "BOOT"} => ~ UnderWay'
    BY <2>2 DEF UnderWay, Refreshes, Acking
  <2>4. at \in {"upload", "ready"} => reply'.state # "EXECUTE_ACK"
    BY <1>6, <2>2 DEF LinkInv, FieldInv
  <2>5. at = "execute" => (~ Accepts(reply') => ~ UnderWay' /\ state' # "EXECUTE_ACK")
    <3>1. SUFFICES ASSUME at = "execute"
                   PROVE  ~ Accepts(reply') => ~ UnderWay' /\ state' # "EXECUTE_ACK"
      OBVIOUS
    <3>2. request.type = "EXECUTE" /\ ~ UnderWay /\ state # "EXECUTE_ACK"
      BY <2>1, <3>1 DEF LinkInv, FieldInv, CardReads
    <3>3. request \in WireFrame
      BY <1>1, <3>2, NoFrames
    <3>4. Untouched \/ Accepts(reply')
      BY <1>1, <1>2, <2>1, <3>2, <3>3, ExecuteReply
    <3>5. QED
      BY <1>1, <3>2, <3>4 DEF Untouched, UnderWay, Refreshes, Acking
  <2>6. QED
    BY <1>1, <2>2, <2>3, <2>4, <2>5 DEF AnswerInv, Answered, Accepts
<1>11. ErrorInv'
  <2>1. CASE at = "confirm"
    <3>1. request = StatusFrame
      BY <1>1, <2>1, NoFrames DEF LinkInv, ErrorInv
    <3>2. ~ ExecuteWhileCharging(request) /\ request.type = "STATUS"
      BY <3>1, NoFrames DEF ExecuteWhileCharging
    <3>3. state' = state
      BY <1>1, <3>2 DEF HandleFrame, HandleOther, AnswerOnly
    <3>4. state = "ERROR" => current_error # "NONE" /\ current_error' = current_error
      BY <1>1, <2>1, <3>2 DEF HandleFrame, LinkInv, ErrorInv
    <3>5. state = "ERROR" /\ reply' # NoReply => reply'.error # "NONE"
      <4>1. SUFFICES ASSUME state = "ERROR", reply' # NoReply
                     PROVE  reply'.error # "NONE"
        OBVIOUS
      <4>2. reply' = ReplyTo(request, "STATUS_ONLY", current_error)
        BY <1>1, <3>2, <4>1 DEF HandleFrame
      <4>3. QED
        BY <3>4, <4>1, <4>2 DEF ReplyTo
    <3>6. QED
      BY <1>1, <1>3, <2>1, <3>3, <3>4, <3>5 DEF ErrorInv, Answered
  <2>2. CASE at = "execute"
    <3>1. SUFFICES ASSUME waiting, reply' # NoReply, Accepts(reply'), state' = "ERROR"
                   PROVE  FALSE
      BY <1>1, <2>2 DEF ErrorInv, Answered, Accepts
    <3>2. request.type = "EXECUTE" /\ request \in WireFrame
      BY <1>1, <2>2, <3>1, NoFrames DEF LinkInv, FieldInv, CardReads
    <3>3. QED
      BY <1>1, <1>2, <3>1, <3>2, ExecuteReply
  <2>3. CASE at \notin {"confirm", "execute"}
    BY <1>1, <2>3 DEF ErrorInv
  <2>4. QED
    BY <2>1, <2>2, <2>3
<1>12. QED
  BY <1>2, <1>4, <1>7, <1>9, <1>10, <1>11 DEF LinkInv

-----------------------------------------------------------------------------
(* The other phone, between runs.                                          *)

LEMMA OtherPhoneKeeps ==
  ASSUME LinkInv, OtherPhone
  PROVE  LinkInv'
<1>1. at = "away" /\ ~ waiting /\ request = NoRequest /\ request' = NoRequest
  BY DEF OtherPhone, LinkInv, MailInv
<1>2. request'.type = "NONE"
  BY <1>1, NoFrames
<1>3. CASE PhoneReads /\ reply' = NoReply /\ UNCHANGED coordinator
  <2>1. CardInv' /\ host' = "empty" /\ UNCHANGED <<t, state, clean_active, storeVars>>
    BY <1>3, CardKeeps DEF Next, LinkInv, PhoneReads, loopVars
  <2>2. Frames' = Frames
    BY <2>1 DEF Frames, storeVars
  <2>3. MailInv'
    BY <1>1, <1>3, <2>1 DEF LinkInv, MailInv, coordinator
  <2>4. IdInv'
    BY <1>1, <1>3, <2>1, <2>2 DEF LinkInv, IdInv, coordinator, Acking
  <2>5. FieldInv'
    BY <1>1, <1>2, <1>3, <2>1 DEF LinkInv, FieldInv, coordinator, UnderWay, Refreshes, Acking
  <2>6. AnswerInv'
    BY <1>1, <1>3 DEF AnswerInv, Answered, coordinator
  <2>7. ErrorInv'
    BY <1>1, <1>3 DEF ErrorInv, Answered, coordinator
  <2>8. QED
    BY <2>1, <2>3, <2>4, <2>5, <2>6, <2>7 DEF LinkInv
<1>4. CASE \E f \in PhoneFrame :
              f.tid \in {p.tid : p \in Others} /\ HandleFrame(f) /\ UNCHANGED coordinator
  <2>1. PICK f \in PhoneFrame :
              f.tid \in {p.tid : p \in Others} /\ HandleFrame(f) /\ UNCHANGED coordinator
    BY <1>4
  <2>2. f \in WireFrame /\ f.tid \notin Own /\ f.tid # 0
    BY <2>1, PhoneFrames, OtherFrames, WireFrameFields
  <2>3. CardInv' /\ CardInv
    BY <2>1, <2>2, FrameEffect DEF LinkInv
  <2>4. /\ host' = "empty" <=> reply' = NoReply
        /\ reply' # NoReply =>
               /\ reply'.seq \in Nat /\ reply'.off \in Nat /\ reply'.gray \in BOOLEAN
               /\ reply'.state # "REFRESHING"
    BY <2>1, <2>2, <2>3, ReplyFields
  <2>5. MailInv'
    BY <1>1, <2>1, <2>4 DEF LinkInv, MailInv, coordinator
  <2>6. /\ t'.tid \in Own => t'.tid < nextID
        /\ \A g \in Frames' \cap Kept : g.tid \in Own => g.tid < nextID
        /\ t'.tid \in Own \cup {0} => t'.format # "gray"
        /\ t'.tid = 0 => ~ Acking' /\ ~ clean_active'
        /\ Refreshes' => \/ Refreshes /\ t'.tid = t.tid
                         \/ f.type = "EXECUTE" /\ f.tid = t.tid /\ t'.tid = t.tid
    BY <2>1, <2>2, FrameIds
  <2>7. IdInv'
    BY <1>1, <2>1, <2>6 DEF LinkInv, IdInv, coordinator
  <2>8. UnderWay' => UnderWay
    BY <2>1, <2>2, <2>6 DEF UnderWay, LinkInv, IdInv, coordinator
  <2>9. FieldInv'
    BY <1>1, <1>2, <2>1, <2>8 DEF LinkInv, FieldInv, coordinator
  <2>10. AnswerInv'
    BY <1>1, <2>1 DEF AnswerInv, Answered, coordinator
  <2>11. ErrorInv'
    BY <1>1, <2>1 DEF ErrorInv, Answered, coordinator
  <2>12. QED
    BY <2>3, <2>5, <2>7, <2>9, <2>10, <2>11 DEF LinkInv
<1>5. QED
  BY <1>3, <1>4 DEF OtherPhone

-----------------------------------------------------------------------------
(* What the coordinator does with an answer, or without one.               *)

\* The card stands still but for its mailbox, which is left alone or emptied.
Still ==
    /\ CardInv'
    /\ UNCHANGED <<t, state, staged, clean_active, storeVars, panelVars, current_error,
                   request>>
    /\ (host' = "empty" /\ reply' = NoReply) \/ UNCHANGED <<host, reply>>

LEMMA PhoneStill ==
  ASSUME LinkInv,
         \/ PhoneReads /\ reply' = NoReply /\ UNCHANGED <<request, current_error>>
         \/ UNCHANGED <<card, mailbox>>
  PROVE  Still
<1>1. CASE PhoneReads /\ reply' = NoReply /\ UNCHANGED <<request, current_error>>
  BY <1>1, CardKeeps DEF Next, LinkInv, PhoneReads, loopVars, Still
<1>2. CASE UNCHANGED <<card, mailbox>>
  BY <1>2, CardKeeps DEF LinkInv, card, mailbox, loopVars, vars, Still
<1>3. QED
  BY <1>1, <1>2

\* An EXECUTE of the job's work waits to be read by the card.
OrderSent == request.type = "EXECUTE" /\ request.tid = job.work.id

\* The work is carried on, dropped, or replaced by one with an id never used.
Follows ==
    \/ job'.work.id = 0
    \/ job'.work.id = nextID /\ nextID \in Own
    \/ /\ job'.work.id = job.work.id
       /\ \/ job'.work.executeSent = job.work.executeSent
             /\ job'.work.refreshMayBeActive = job.work.refreshMayBeActive
          \/ ~ UnderWay /\ ~ OrderSent

LEMMA Settles ==
  ASSUME LinkInv, Still, Follows,
         waiting' = FALSE, at' \in Place, job' \in JobType,
         nextID' \in Nat, nextID <= nextID', job'.work.id < nextID',
         job'.work.id \in Own \cup {0},
         job' = NoJob \/ job'.work = NoWork \/ job'.work.id # 0,
         at' # "away" => job' # NoJob,
         at' \in {"upload", "ready", "execute", "confirm"} => job'.work.id \in Own,
         at' \in {"away", "status"} /\ job'.work.executeSent => job'.recovery,
         at' = "upload" => ~ job'.work.executeSent,
         at' \in {"upload", "ready", "execute"} =>
             request.type # "EXECUTE" /\ ~ UnderWay' /\ state # "EXECUTE_ACK",
         at' = "confirm" =>
             /\ job'.work.refreshMayBeActive
             /\ request \in {NoRequest, StatusFrame}
             /\ state = "ERROR" => current_error # "NONE"
  PROVE  LinkInv'
<1>1. /\ UNCHANGED <<t, state, clean_active, storeVars, current_error, request>> /\ CardInv'
      /\ Frames' = Frames
      /\ (host' = "empty" /\ reply' = NoReply) \/ UNCHANGED <<host, reply>>
  BY DEF Still, storeVars, Frames
<1>2. nextID \in Nat \ {0} /\ Own \subseteq Nat /\ 0 \notin Own
  BY Numbers DEF LinkInv, MailInv
<1>3. MailInv'
  <2>1. /\ request' \in WireFrame \cup {NoRequest, StatusFrame}
        /\ nextID' \in Nat \ {0}
    BY <1>1, <1>2 DEF LinkInv, MailInv
  <2>2. /\ host' = "empty" <=> reply' = NoReply
        /\ reply' # NoReply =>
               /\ reply'.seq \in Nat /\ reply'.off \in Nat /\ reply'.gray \in BOOLEAN
               /\ reply'.state # "REFRESHING"
               /\ request' = NoRequest
    <3>1. CASE host' = "empty" /\ reply' = NoReply
      BY <3>1
    <3>2. CASE UNCHANGED <<host, reply>>
      BY <1>1, <3>2 DEF LinkInv, MailInv
    <3>3. QED
      BY <1>1, <3>1, <3>2
  <2>3. QED
    BY <2>1, <2>2 DEF MailInv
<1>4. IdInv'
  <2>0. \A id \in Own : id < nextID => id < nextID'
    BY <1>2
  <2>1. request # NoRequest => request.tid < nextID'
    <3>1. request # NoRequest => request.tid \in Nat /\ request.tid < nextID
      BY NoFrames, WireFrameFields DEF LinkInv, MailInv, IdInv
    <3>2. QED
      BY <1>2, <3>1
  <2>2. t.tid \in Own => t.tid < nextID'
    BY <2>0 DEF LinkInv, IdInv
  <2>3. \A f \in Frames \cap Kept : f.tid \in Own => f.tid < nextID'
    BY <2>0 DEF LinkInv, IdInv
  <2>4. /\ request # NoRequest => (request.type # "STATUS" => request.tid \in Own)
        /\ t.tid \in Own \cup {0} => t.format # "gray"
        /\ t.tid = 0 => ~ Acking' /\ ~ clean_active
    BY <1>1 DEF LinkInv, IdInv, Acking
  <2>5. QED
    BY <1>1, <2>1, <2>2, <2>3, <2>4 DEF IdInv
<1>5. FieldInv'
  <2>1. /\ UnderWay' => t.tid = job'.work.id /\ Refreshes
        /\ t.tid = job.work.id /\ Refreshes => UnderWay
    BY <1>1 DEF UnderWay, Refreshes, Acking
  <2>2. UnderWay' \/ (request.type = "EXECUTE" /\ request.tid = job'.work.id)
           => job'.work.executeSent /\ job'.work.refreshMayBeActive
    <3>1. CASE job'.work.id = 0
      <4>1. ~ UnderWay'
        BY <2>1, <3>1 DEF LinkInv, IdInv, Refreshes
      <4>2. request.type = "EXECUTE" => request.tid # 0
        BY <1>2, NoFrames DEF LinkInv, IdInv
      <4>3. QED
        BY <3>1, <4>1, <4>2
    <3>2. CASE job'.work.id = nextID /\ nextID \in Own
      <4>1. ~ UnderWay'
        BY <1>2, <2>1, <3>2 DEF LinkInv, IdInv
      <4>2. request.type = "EXECUTE" => request.tid # nextID
        BY <1>2, <3>2, NoFrames DEF LinkInv, IdInv
      <4>3. QED
        BY <3>2, <4>1, <4>2
    <3>3. CASE /\ job'.work.id = job.work.id
               /\ job'.work.executeSent = job.work.executeSent
               /\ job'.work.refreshMayBeActive = job.work.refreshMayBeActive
      BY <2>1, <3>3 DEF LinkInv, FieldInv
    <3>4. CASE job'.work.id = job.work.id /\ ~ UnderWay /\ ~ OrderSent
      BY <2>1, <3>4 DEF OrderSent
    <3>5. QED
      BY <3>1, <3>2, <3>3, <3>4 DEF Follows
  <2>3. QED
    BY <1>1, <2>2 DEF FieldInv
<1>6. AnswerInv'
  BY DEF AnswerInv, Answered
<1>7. ErrorInv'
  BY <1>1 DEF ErrorInv, Answered
<1>8. QED
  BY <1>1, <1>3, <1>4, <1>5, <1>6, <1>7 DEF LinkInv

\* A run can end with its job, or with a job whose refresh is known not to be
\* active, or without the work.
LEMMA RunEnds ==
  ASSUME LinkInv, Still, InRun, NEW result, NEW j,
         \/ j \in {job, Forget(job), Forget(Inactive(job))}
         \/ /\ j = Inactive(job) /\ at \in {"execute", "confirm"}
            /\ ~ UnderWay /\ ~ OrderSent,
         Ended(result, j)
  PROVE  LinkInv'
<1>1. /\ job \in JobType /\ job # NoJob /\ nextID \in Nat \ {0}
      /\ job.work.id \in Own \cup {0} /\ job.work.id < nextID
      /\ job.work = NoWork \/ job.work.id # 0
  BY DEF LinkInv, MailInv, IdInv, InRun
<1>2. NoWork \in WorkType /\ NoWork.id = 0 /\ ~ NoWork.executeSent
  BY DEF NoWork, Work, WorkType
<1>3. job' = [j EXCEPT !.recovery = TRUE]
  BY DEF Ended
<1>4. /\ waiting' = FALSE /\ at' = "away" /\ at' \in Place
      /\ nextID' \in Nat /\ nextID <= nextID' /\ nextID' = nextID
  BY <1>1 DEF Ended, Place
<1>5. CASE j = job
  <2>1. job' \in JobType /\ job'.recovery /\ job'.work = job.work
    BY <1>1, <1>3, <1>5 DEF JobType
  <2>2. Follows
    BY <2>1 DEF Follows
  <2>3. QED
    BY <1>1, <1>4, <2>1, <2>2, Settles
<1>6. CASE j \in {Forget(job), Forget(Inactive(job))}
  <2>1. job' \in JobType /\ job'.recovery /\ job'.work = NoWork
    BY <1>1, <1>2, <1>3, <1>6 DEF JobType, WorkType, Forget, Inactive
  <2>2. Follows
    BY <1>2, <2>1 DEF Follows
  <2>3. job'.work.id = 0 /\ 0 < nextID
    BY <1>1, <1>2, <2>1
  <2>4. QED
    BY <1>4, <2>1, <2>2, <2>3, Settles
<1>7. CASE /\ j = Inactive(job) /\ at \in {"execute", "confirm"}
           /\ ~ UnderWay /\ ~ OrderSent
  <2>1. /\ job' \in JobType /\ job'.recovery
        /\ job'.work = [job.work EXCEPT !.refreshMayBeActive = FALSE]
    BY <1>1, <1>3, <1>7 DEF JobType, WorkType, Inactive
  <2>2. job'.work.id = job.work.id
    BY <1>1, <2>1 DEF JobType, WorkType
  <2>3. job.work.id # 0
    BY <1>7, Numbers DEF LinkInv, IdInv
  <2>4. Follows
    BY <1>7, <2>2 DEF Follows
  <2>5. QED
    BY <1>1, <1>4, <2>1, <2>2, <2>3, <2>4, Settles
<1>8. QED
  BY <1>5, <1>6, <1>7

\* The ways in which a run ends before its time.
LEMMA Endings ==
  ASSUME NEW j
  PROVE  /\ NeedResume(j) \/ HoldField(j) \/ Throw(j) => \E result : Ended(result, j)
         /\ Inconsistent(j) => \E result : Ended(result, j) \/ Ended(result, Forget(j))
BY DEF NeedResume, HoldField, Throw, Inconsistent

-----------------------------------------------------------------------------
(* What the coordinator sends.                                             *)

\* The frames of a work are frames of a picture of its id.
LEMMA WorkFrames ==
  ASSUME LinkInv, job.work.id \in Own
  PROVE  /\ \A type \in {"COMMIT", "EXECUTE"} :
                [type |-> type, tid |-> job.work.id, seq |-> job.work.seq,
                 off |-> job.work.off, body |-> <<>>] \in WireFrame
         /\ LET f == UploadFrame(job.work) IN
            /\ f \in WireFrame /\ f.type \in {"START", "DATA", "COMMIT"}
            /\ f.tid = job.work.id /\ f.seq \in Nat /\ f.off \in Nat
            /\ f.type = "START" => f.body.clean = job.work.batch
<1>1. /\ job.work.batch \in BOOLEAN /\ job.work.seq \in Nat /\ job.work.off \in Nat
      /\ job.work.started \in BOOLEAN
  BY DEF LinkInv, MailInv, JobType, WorkType
<1>2. PICK p \in Picture :
         /\ p.tid = job.work.id /\ p.clean = job.work.batch /\ p.format = "mono"
         /\ p.planes[1] = Target /\ p.planes \in [{1} -> Image]
  BY <1>1, OwnPicture
<1>3. \A type \in {"COMMIT", "EXECUTE"} :
          [type |-> type, tid |-> job.work.id, seq |-> job.work.seq,
           off |-> job.work.off, body |-> <<>>] \in WireFrame
  <2>1. \A type \in {"COMMIT", "EXECUTE"} :
            SessionFrame(type, p, job.work.seq, job.work.off, <<>>) \in WireFrame
    BY <1>1 DEF WireFrame
  <2>2. QED
    BY <1>2, <2>1 DEF SessionFrame
<1> DEFINE f == UploadFrame(job.work)
<1>4. CASE ~ job.work.started
  <2>1. f = [type |-> "START", tid |-> job.work.id, seq |-> 0, off |-> 0,
             body |-> [format |-> "mono", plane |-> 1, clean |-> job.work.batch,
                       crc |-> Target]]
    BY <1>4 DEF UploadFrame
  <2>2. f = StartFrame(p, 1)
    BY <1>2, <2>1 DEF StartFrame
  <2>3. 1 \in DOMAIN p.planes
    BY <1>2
  <2>4. f \in WireFrame
    BY <1>2, <2>2, <2>3 DEF WireFrame
  <2>5. f.type = "START" /\ f.tid = job.work.id /\ f.seq = 0 /\ f.off = 0
        /\ f.body.clean = job.work.batch
    BY <2>1
  <2>6. QED
    BY <1>3, <2>4, <2>5
<1>5. CASE job.work.started /\ job.work.off < ImageSize
  <2>1. f = SessionFrame("DATA", p, job.work.seq, job.work.off, <<Target[job.work.off + 1]>>)
    BY <1>2, <1>5 DEF UploadFrame, SessionFrame
  <2>2. Target[job.work.off + 1] \in {"W", "B"}
    <3>1. Target \in [1 .. ImageSize -> {"W", "B"}] /\ ImageSize \in Nat
      BY LinkAssumption, PictureAssumption DEF Image, Strip
    <3>2. QED
      BY <1>1, <1>5, <3>1
  <2>3. f \in WireFrame
    <3>1. <<Target[job.work.off + 1]>> \in Seq({"W", "B"})
      BY <2>2
    <3>2. \A body \in Seq({"W", "B"}) :
              SessionFrame("DATA", p, job.work.seq, job.work.off, body) \in WireFrame
      BY <1>1 DEF WireFrame
    <3>3. QED
      BY <2>1, <3>1, <3>2
  <2>4. QED
    BY <1>1, <1>2, <1>3, <2>1, <2>3 DEF SessionFrame
<1>6. CASE job.work.started /\ ~ (job.work.off < ImageSize)
  <2>1. f = [type |-> "COMMIT", tid |-> job.work.id, seq |-> job.work.seq,
             off |-> job.work.off, body |-> <<>>]
    BY <1>6 DEF UploadFrame
  <2>2. QED
    BY <1>1, <1>3, <2>1
<1>7. QED
  BY <1>4, <1>5, <1>6

\* While its answer is awaited the frame tells what the run is doing.
LEMMA SendKeeps ==
  ASSUME LinkInv, InRun, NEW frame \in WireFrame \cup {StatusFrame}, Send(frame),
         job' \in JobType, job'.work.id = job.work.id, job'.recovery = job.recovery,
         job' = job \/ job.work.id \in Own,
         frame = StatusFrame \/ (frame.tid = job.work.id /\ job.work.id \in Own),
         \/ at \in {"status", "ready", "confirm"} /\ frame = StatusFrame /\ job' = job
         \/ /\ at = "upload" /\ frame.type \in {"START", "DATA", "COMMIT"}
            /\ job'.work.executeSent = job.work.executeSent
            /\ job'.work.refreshMayBeActive = job.work.refreshMayBeActive
         \/ /\ at = "execute" /\ frame.type = "EXECUTE" /\ frame.tid = job.work.id
            /\ job'.work.executeSent /\ job'.work.refreshMayBeActive
  PROVE  LinkInv'
<1>1. /\ UNCHANGED <<t, state, clean_active, storeVars, reply, host, nextID, at>>
      /\ request' = frame /\ waiting' = TRUE
      /\ host = "empty" /\ ~ waiting
  BY DEF Send, card, loopVars
<1>2. CardInv' /\ Frames' = Frames
  BY <1>1, CardKeeps DEF LinkInv, Send, card, loopVars, vars, storeVars, Frames
<1>3. reply = NoReply
  BY <1>1 DEF LinkInv, MailInv
<1>4. MailInv'
  BY <1>1, <1>3 DEF LinkInv, MailInv, InRun
<1>5. frame # NoRequest /\ (frame.type = "STATUS" => frame.tid = 0)
      /\ frame.tid \in {0, job.work.id}
      /\ (frame.type # "STATUS" => frame.tid \in Own)
  BY NoFrames, WireFrameFields
<1>6. IdInv'
  <2>1. 0 < nextID
    BY DEF LinkInv, MailInv
  <2>2. job' # NoJob
    <3>1. NoJob.work.id = 0
      BY DEF NoJob, Work
    <3>2. QED
      BY <3>1, Numbers DEF LinkInv, IdInv, InRun
  <2>3. job' = job \/ job'.work.id # 0
    BY Numbers
  <2>4. QED
    BY <1>1, <1>2, <1>5, <2>1, <2>2, <2>3 DEF LinkInv, IdInv, InRun, Acking
<1>7. UnderWay' <=> UnderWay
  BY <1>1 DEF UnderWay, Refreshes, Acking
<1>8. FieldInv'
  <2>1. at \in {"upload", "ready", "execute"} => ~ UnderWay /\ state # "EXECUTE_ACK"
    BY <1>1 DEF LinkInv, FieldInv
  <2>2. CASE at \in {"status", "ready", "confirm"} /\ frame = StatusFrame /\ job' = job
    <3>1. frame.type # "EXECUTE"
      BY <2>2, NoFrames
    <3>2. QED
      BY <1>1, <1>7, <2>1, <2>2, <3>1 DEF LinkInv, FieldInv
  <2>3. CASE /\ at = "upload" /\ frame.type \in {"START", "DATA", "COMMIT"}
             /\ job'.work.executeSent = job.work.executeSent
             /\ job'.work.refreshMayBeActive = job.work.refreshMayBeActive
    BY <1>1, <1>7, <2>1, <2>3 DEF LinkInv, FieldInv
  <2>4. CASE /\ at = "execute" /\ frame.type = "EXECUTE" /\ frame.tid = job.work.id
             /\ job'.work.executeSent /\ job'.work.refreshMayBeActive
    BY <1>1, <1>7, <2>1, <2>4 DEF LinkInv, FieldInv
  <2>5. QED
    BY <2>2, <2>3, <2>4
<1>9. AnswerInv'
  BY <1>1, <1>3 DEF AnswerInv, Answered
<1>10. ErrorInv'
  <2>1. state' = state /\ current_error' = current_error
    BY DEF Send, card
  <2>2. at = "confirm" => frame = StatusFrame
    OBVIOUS
  <2>3. QED
    BY <1>1, <1>3, <2>1, <2>2 DEF LinkInv, ErrorInv, Answered
<1>11. QED
  BY <1>2, <1>4, <1>6, <1>8, <1>9, <1>10 DEF LinkInv

LEMMA SendsKeep ==
  ASSUME LinkInv, AskStatus \/ SendUpload \/ AskReady \/ SendExecute \/ AskConfirm
  PROVE  LinkInv'
<1>1. job \in JobType
  BY DEF LinkInv, MailInv
<1>2. CASE AskStatus \/ AskReady \/ AskConfirm
  BY <1>1, <1>2, SendKeeps DEF AskStatus, AskReady, AskConfirm, InRun
<1>3. CASE SendUpload
  <2> DEFINE f == UploadFrame(job.work)
  <2>1. at = "upload" /\ Send(f) /\ job.work.id \in Own
    BY <1>3 DEF SendUpload, LinkInv, IdInv
  <2>2. /\ f \in WireFrame /\ f.type \in {"START", "DATA", "COMMIT"}
        /\ f.tid = job.work.id /\ f.seq \in Nat /\ f.off \in Nat
    BY <2>1, WorkFrames
  <2>3. job' = IF f.type = "DATA"
               THEN [job EXCEPT !.work.high = IF f.off + 1 > @ THEN f.off + 1 ELSE @]
               ELSE [job EXCEPT !.work.seq = f.seq, !.work.off = f.off]
    BY <1>3 DEF SendUpload
  <2> HIDE DEF f
  <2>4. /\ job' \in JobType /\ job'.work.id = job.work.id /\ job'.recovery = job.recovery
        /\ job'.work.executeSent = job.work.executeSent
        /\ job'.work.refreshMayBeActive = job.work.refreshMayBeActive
    <3>1. CASE f.type = "DATA"
      <4>1. PICK high \in Nat : job' = [job EXCEPT !.work.high = high]
        <5>1. job.work.high \in Nat /\ f.off + 1 \in Nat
          BY <1>1, <2>2 DEF JobType, WorkType
        <5>2. QED
          BY <2>3, <3>1, <5>1
      <4>2. QED
        BY <1>1, <4>1 DEF JobType, WorkType
    <3>2. CASE f.type # "DATA"
      BY <1>1, <2>2, <2>3, <3>2 DEF JobType, WorkType
    <3>3. QED
      BY <3>1, <3>2
  <2>5. QED
    BY <2>1, <2>2, <2>4, SendKeeps DEF InRun
<1>4. CASE SendExecute
  <2> DEFINE f == [type |-> "EXECUTE", tid |-> job.work.id, seq |-> job.work.seq,
                   off |-> job.work.off, body |-> <<>>]
  <2>1. /\ at = "execute" /\ Send(f) /\ job.work.id \in Own
        /\ job' = [job EXCEPT !.work.executeSent = TRUE, !.work.refreshMayBeActive = TRUE]
    BY <1>4 DEF SendExecute, LinkInv, IdInv
  <2>2. f \in WireFrame /\ f.type = "EXECUTE" /\ f.tid = job.work.id
    BY <2>1, WorkFrames
  <2> HIDE DEF f
  <2>3. /\ job' \in JobType /\ job'.work.id = job.work.id /\ job'.recovery = job.recovery
        /\ job'.work.executeSent /\ job'.work.refreshMayBeActive
    BY <1>1, <2>1 DEF JobType, WorkType
  <2>4. QED
    BY <2>1, <2>2, <2>3, SendKeeps DEF InRun
<1>5. QED
  BY <1>2, <1>3, <1>4

-----------------------------------------------------------------------------
(* What the coordinator makes of an answer.                                *)

\* When it reads an answer nothing of its own is on the way to the card.
LEMMA Reads ==
  ASSUME LinkInv, InRun, waiting, PhoneReads, reply' = NoReply,
         UNCHANGED <<request, current_error>>
  PROVE  /\ Still /\ Answered
         /\ request = NoRequest /\ request.type # "EXECUTE" /\ ~ OrderSent
         /\ reply.seq \in Nat /\ reply.off \in Nat /\ reply.gray \in BOOLEAN
         /\ UNCHANGED <<t, state, clean_active>>
<1>1. Still /\ UNCHANGED <<t, state, clean_active>>
  BY PhoneStill DEF Still
<1>2. reply # NoReply
  BY DEF PhoneReads, LinkInv, MailInv
<1>3. request = NoRequest /\ reply.seq \in Nat /\ reply.off \in Nat /\ reply.gray \in BOOLEAN
  BY <1>2 DEF LinkInv, MailInv
<1>4. QED
  BY <1>1, <1>2, <1>3, NoFrames DEF Answered, OrderSent

\* The run goes on with the same work.
LEMMA GoesOn ==
  ASSUME LinkInv, Still, InRun, request = NoRequest, job.work.id \in Own,
         NEW place \in {"upload", "ready", "execute", "confirm"}, NEW j \in JobType,
         j.recovery = job.recovery, j.work.id = job.work.id,
         \/ j.work.executeSent = job.work.executeSent
            /\ j.work.refreshMayBeActive = job.work.refreshMayBeActive
         \/ ~ UnderWay,
         place = "upload" => ~ j.work.executeSent,
         place # "confirm" => ~ UnderWay /\ state # "EXECUTE_ACK",
         place = "confirm" =>
             j.work.refreshMayBeActive /\ (state = "ERROR" => current_error # "NONE"),
         Proceed(place, j)
  PROVE  LinkInv'
<1>1. /\ at' = place /\ waiting' = FALSE /\ job' = j /\ nextID' = nextID
      /\ at' \in Place
  BY DEF Proceed, Place
<1>2. ~ OrderSent /\ request.type # "EXECUTE"
  BY NoFrames DEF OrderSent
<1>3. Follows
  BY <1>1, <1>2 DEF Follows
<1>4. UnderWay' => UnderWay
  BY <1>1 DEF Still, UnderWay, Refreshes, Acking
<1>5. nextID \in Nat /\ job.work.id < nextID /\ job.work.id # 0
  BY Numbers DEF LinkInv, MailInv, IdInv
<1>6. job' # NoJob
  BY <1>1, <1>5 DEF NoJob, Work
<1>7. nextID' \in Nat /\ nextID <= nextID'
  BY <1>1, <1>5
<1>8. QED
  BY <1>1, <1>2, <1>3, <1>4, <1>5, <1>6, <1>7, Settles

\* The work of a first STATUS is the old one, whose EXECUTE was not sent, or new.
LEMMA PlannedWork ==
  ASSUME NEW j \in JobType, NEW ack, ack.gray \in BOOLEAN, nextID \in Nat
  PROVE  LET planned == Planned(j, ack) IN
         /\ planned \in JobType /\ planned.recovery = j.recovery
         /\ j.clean => planned.clean
         /\ \/ /\ planned.work = j.work /\ j.work # NoWork /\ planned.clean = j.clean
               /\ ~ (j.recovery /\ j.work.executeSent)
            \/ \E batch \in BOOLEAN :
                   planned.work = Work(nextID, batch, ack.gray) /\ planned.clean = batch
<1>1. NoWork \in WorkType
  BY DEF NoWork, Work, WorkType
<1>2. \A k \in JobType : Forget(k) \in JobType /\ Forget(k).work = NoWork
                            /\ Forget(k).recovery = k.recovery /\ Forget(k).clean
  BY <1>1 DEF Forget, JobType
<1> DEFINE a == Recovered(j)
           b == Cleaned(a, ack)
           c == Lost(b, ack)
           d == IF c.work = NoWork \/ Usable(c.work, ack) THEN c ELSE Forget(c)
<1>3. /\ a \in JobType /\ a.recovery = j.recovery /\ (j.clean => a.clean)
      /\ a = j \/ a.work = NoWork
      /\ a.work = NoWork \/ (a.work = j.work /\ ~ (j.recovery /\ j.work.executeSent))
  BY <1>2 DEF Recovered
<1> HIDE DEF a
<1>4. /\ b \in JobType /\ b.recovery = a.recovery /\ b.work = a.work
      /\ a.clean => b.clean
      /\ ack.state # "ERROR" /\ a.work # NoWork => b.clean = a.clean
  BY <1>3 DEF Cleaned, JobType
<1> HIDE DEF b
<1>5. c \in JobType /\ c.recovery = b.recovery /\ c.work \in {NoWork, b.work}
      /\ c.clean = b.clean
  BY <1>1, <1>4 DEF Lost, JobType
<1> HIDE DEF c
<1>6. /\ d \in JobType /\ d.recovery = c.recovery /\ d.work \in {NoWork, c.work}
      /\ c.clean => d.clean
      /\ d.work # NoWork => d = c /\ ack.state # "ERROR"
  BY <1>2, <1>5 DEF Usable
<1> HIDE DEF d
<1>7. Planned(j, ack) = IF d.work # NoWork THEN d
                        ELSE [d EXCEPT !.work = Work(nextID, d.clean, ack.gray)]
  BY DEF Planned, a, b, c, d
<1>8. CASE d.work # NoWork
  BY <1>3, <1>4, <1>5, <1>6, <1>7, <1>8
<1>9. CASE d.work = NoWork
  <2>1. d.clean \in BOOLEAN
    BY <1>6 DEF JobType
  <2>2. Work(nextID, d.clean, ack.gray) \in WorkType
    BY <2>1 DEF Work, WorkType
  <2>3. Planned(j, ack) = [d EXCEPT !.work = Work(nextID, d.clean, ack.gray)]
    BY <1>7, <1>9
  <2>4. /\ Planned(j, ack) \in JobType /\ Planned(j, ack).recovery = d.recovery
        /\ Planned(j, ack).work = Work(nextID, d.clean, ack.gray)
        /\ Planned(j, ack).clean = d.clean
    BY <1>6, <2>2, <2>3 DEF JobType
  <2>5. QED
    BY <1>3, <1>4, <1>5, <1>6, <2>1, <2>4
<1>10. QED
  BY <1>8, <1>9

LEMMA FirstStatusKeeps ==
  ASSUME LinkInv, Receive("status", FirstStatus)
  PROVE  LinkInv'
<1>1. /\ at = "status" /\ InRun /\ waiting /\ PhoneReads /\ reply' = NoReply
      /\ UNCHANGED <<request, current_error>> /\ FirstStatus(reply)
  BY DEF Receive, InRun
<1>2. /\ Still /\ Answered /\ request = NoRequest /\ request.type # "EXECUTE"
      /\ ~ OrderSent /\ reply.gray \in BOOLEAN /\ UNCHANGED <<t, state, clean_active>>
  BY <1>1, Reads
<1>3. CASE reply.state \in {"EXECUTE_ACK", "REFRESHING"}
  <2>1. HoldField(job)
    BY <1>1, <1>3 DEF FirstStatus
  <2>2. QED
    BY <1>1, <1>2, <2>1, Endings, RunEnds
<1>4. CASE reply.state \notin {"EXECUTE_ACK", "REFRESHING"}
  <2> DEFINE planned == Planned(job, reply)
  <2> HIDE DEF planned
  <2>1. /\ planned.work.id <= WorkLimit
        /\ at' = IF planned.work.committed THEN "ready" ELSE "upload"
        /\ waiting' = FALSE
        /\ job' = planned
        /\ nextID' = IF planned.work.id = nextID THEN nextID + 1 ELSE nextID
    BY <1>1, <1>4 DEF FirstStatus, planned
  <2>2. job \in JobType /\ nextID \in Nat \ {0} /\ job # NoJob /\ job.work.id < nextID
        /\ job.work.id \in Own \cup {0} /\ (job.work = NoWork \/ job.work.id # 0)
    BY <1>1 DEF LinkInv, MailInv, IdInv
  <2>3. /\ planned \in JobType /\ planned.recovery = job.recovery
        /\ \/ /\ planned.work = job.work /\ job.work # NoWork
              /\ ~ (job.recovery /\ job.work.executeSent)
           \/ \E batch \in BOOLEAN : planned.work = Work(nextID, batch, reply.gray)
    BY <1>2, <2>2, PlannedWork DEF planned
  <2>4. state # "EXECUTE_ACK"
    BY <1>2, <1>4 DEF LinkInv, AnswerInv
  <2>5. at' \in {"upload", "ready"} /\ at' \in Place
    BY <2>1 DEF Place
  <2>6. CASE planned.work = job.work /\ job.work # NoWork /\ ~ (job.recovery /\ job.work.executeSent)
    <3>1. ~ job.work.executeSent
      BY <1>1, <2>6 DEF LinkInv, FieldInv
    <3>2. ~ UnderWay'
      BY <1>2, <2>1, <2>6, <3>1 DEF LinkInv, FieldInv, UnderWay, Refreshes, Acking
    <3>3. job.work.id \in Own /\ job.work.id # 0
      BY <2>2, <2>6
    <3>4. nextID' = nextID /\ job' # NoJob
      BY <2>1, <2>2, <2>6, <3>3 DEF NoJob, Work
    <3>5. Follows
      BY <2>1, <2>6 DEF Follows
    <3>6. nextID' \in Nat /\ nextID <= nextID' /\ job'.work.id < nextID'
      BY <2>1, <2>2, <2>6, <3>4
    <3>7. QED
      BY <1>2, <2>1, <2>3, <2>4, <2>5, <2>6, <3>1, <3>2, <3>3, <3>4, <3>5, <3>6, Settles
  <2>7. CASE \E batch \in BOOLEAN : planned.work = Work(nextID, batch, reply.gray)
    <3>1. /\ planned.work.id = nextID /\ planned.work.executeSent = FALSE
          /\ planned.work.committed = FALSE
      BY <2>7 DEF Work
    <3>2. nextID \in Own /\ nextID # 0 /\ nextID' = nextID + 1 /\ at' = "upload"
      BY <2>1, <2>2, <3>1, LinkAssumption DEF Own
    <3>3. job' # NoJob
      BY <2>1, <3>1, <3>2 DEF NoJob, Work
    <3>4. ~ UnderWay'
      <4>1. t.tid # nextID
        BY <2>2, <3>2 DEF LinkInv, IdInv
      <4>2. QED
        BY <1>2, <2>1, <3>1, <4>1 DEF UnderWay
    <3>5. Follows
      BY <2>1, <3>1, <3>2 DEF Follows
    <3>6. nextID' \in Nat /\ nextID <= nextID' /\ job'.work.id < nextID'
      BY <2>1, <2>2, <3>1, <3>2
    <3>7. QED
      BY <1>2, <2>1, <2>3, <2>4, <2>5, <3>1, <3>2, <3>3, <3>4, <3>5, <3>6, Settles
  <2>8. QED
    BY <2>3, <2>6, <2>7
<1>5. QED
  BY <1>3, <1>4

LEMMA UploadedKeeps ==
  ASSUME LinkInv, Receive("upload", Uploaded)
  PROVE  LinkInv'
<1>1. /\ at = "upload" /\ InRun /\ waiting /\ PhoneReads /\ reply' = NoReply
      /\ UNCHANGED <<request, current_error>> /\ Uploaded(reply)
  BY DEF Receive, InRun
<1>2. /\ Still /\ request = NoRequest /\ reply.seq \in Nat /\ reply.off \in Nat
  BY <1>1, Reads
<1>3. /\ job \in JobType /\ job.work.id \in Own
      /\ ~ job.work.executeSent /\ ~ UnderWay /\ state # "EXECUTE_ACK"
  BY <1>1 DEF LinkInv, MailInv, IdInv, FieldInv
<1>4. \/ Throw(job) \/ Inconsistent(job)
      \/ Proceed("upload", [job EXCEPT !.work.started = FALSE, !.work.high = 0])
      \/ Proceed("upload", [job EXCEPT !.work.seq = reply.seq, !.work.off = reply.off])
      \/ LET w == [job.work EXCEPT !.started = TRUE, !.seq = reply.seq, !.off = reply.off,
                                   !.committed = reply.type = "COMMIT"]
         IN  Proceed(IF w.committed THEN "ready" ELSE "upload", [job EXCEPT !.work = w])
  BY <1>1 DEF Uploaded
<1>5. CASE Throw(job) \/ Inconsistent(job)
  BY <1>1, <1>2, <1>5, Endings, RunEnds
<1>6. CASE Proceed("upload", [job EXCEPT !.work.started = FALSE, !.work.high = 0])
  <2> DEFINE j == [job EXCEPT !.work.started = FALSE, !.work.high = 0]
  <2>1. /\ j \in JobType /\ j.recovery = job.recovery /\ j.work.id = job.work.id
        /\ j.work.executeSent = job.work.executeSent
        /\ j.work.refreshMayBeActive = job.work.refreshMayBeActive
    BY <1>3 DEF JobType, WorkType
  <2>2. Proceed("upload", j)
    BY <1>6
  <2> HIDE DEF j
  <2>3. QED
    BY <1>1, <1>2, <1>3, <2>1, <2>2, GoesOn
<1>7. CASE Proceed("upload", [job EXCEPT !.work.seq = reply.seq, !.work.off = reply.off])
  <2> DEFINE j == [job EXCEPT !.work.seq = reply.seq, !.work.off = reply.off]
  <2>1. /\ j \in JobType /\ j.recovery = job.recovery /\ j.work.id = job.work.id
        /\ j.work.executeSent = job.work.executeSent
        /\ j.work.refreshMayBeActive = job.work.refreshMayBeActive
    BY <1>2, <1>3 DEF JobType, WorkType
  <2>2. Proceed("upload", j)
    BY <1>7
  <2> HIDE DEF j
  <2>3. QED
    BY <1>1, <1>2, <1>3, <2>1, <2>2, GoesOn
<1>8. CASE LET w == [job.work EXCEPT !.started = TRUE, !.seq = reply.seq, !.off = reply.off,
                                     !.committed = reply.type = "COMMIT"]
           IN  Proceed(IF w.committed THEN "ready" ELSE "upload", [job EXCEPT !.work = w])
  <2> DEFINE w == [job.work EXCEPT !.started = TRUE, !.seq = reply.seq, !.off = reply.off,
                                   !.committed = reply.type = "COMMIT"]
             j == [job EXCEPT !.work = w]
             place == IF w.committed THEN "ready" ELSE "upload"
  <2>1. /\ w \in WorkType /\ w.id = job.work.id
        /\ w.executeSent = job.work.executeSent
        /\ w.refreshMayBeActive = job.work.refreshMayBeActive
    BY <1>2, <1>3 DEF JobType, WorkType
  <2>2. place \in {"upload", "ready"} /\ Proceed(place, j)
    BY <1>8
  <2> HIDE DEF w, place
  <2>3. j \in JobType /\ j.recovery = job.recovery /\ j.work = w
    BY <1>3, <2>1 DEF JobType
  <2> HIDE DEF j
  <2>4. QED
    BY <1>1, <1>2, <1>3, <2>1, <2>2, <2>3, GoesOn
<1>9. QED
  BY <1>4, <1>5, <1>6, <1>7, <1>8

LEMMA ReadySeenKeeps ==
  ASSUME LinkInv, Receive("ready", ReadySeen)
  PROVE  LinkInv'
<1>1. /\ at = "ready" /\ InRun /\ waiting /\ PhoneReads /\ reply' = NoReply
      /\ UNCHANGED <<request, current_error>> /\ ReadySeen(reply)
  BY DEF Receive, InRun
<1>2. Still /\ request = NoRequest
  BY <1>1, Reads
<1>3. job \in JobType /\ job.work.id \in Own /\ ~ UnderWay /\ state # "EXECUTE_ACK"
  BY <1>1 DEF LinkInv, MailInv, IdInv, FieldInv
<1>4. \/ Throw(job) \/ Inconsistent(job)
      \/ Proceed("execute", job) \/ Proceed("ready", job)
  BY <1>1 DEF ReadySeen
<1>5. CASE Throw(job) \/ Inconsistent(job)
  BY <1>1, <1>2, <1>5, Endings, RunEnds
<1>6. CASE Proceed("execute", job) \/ Proceed("ready", job)
  BY <1>1, <1>2, <1>3, <1>6, GoesOn
<1>7. QED
  BY <1>4, <1>5, <1>6

LEMMA ExecutedKeeps ==
  ASSUME LinkInv, Receive("execute", Executed)
  PROVE  LinkInv'
<1>1. /\ at = "execute" /\ InRun /\ waiting /\ PhoneReads /\ reply' = NoReply
      /\ UNCHANGED <<request, current_error>> /\ Executed(reply)
  BY DEF Receive, InRun
<1>2. /\ Still /\ Answered /\ request = NoRequest /\ ~ OrderSent
      /\ reply.seq \in Nat /\ reply.off \in Nat
  BY <1>1, Reads
<1>3. job \in JobType /\ job.work.id \in Own /\ job.work.refreshMayBeActive
  BY <1>1 DEF LinkInv, MailInv, IdInv, FieldInv
<1>4. CASE reply.deferred /\ reply.error = "NONE"
  <2>1. Proceed("ready", Inactive(job))
    BY <1>1, <1>4 DEF Executed
  <2>2. ~ UnderWay /\ state # "EXECUTE_ACK"
    BY <1>1, <1>2, <1>4 DEF LinkInv, AnswerInv
  <2>3. /\ Inactive(job) \in JobType /\ Inactive(job).recovery = job.recovery
        /\ Inactive(job).work.id = job.work.id
    BY <1>3 DEF Inactive, JobType, WorkType
  <2>4. QED
    BY <1>1, <1>2, <1>3, <2>1, <2>2, <2>3, GoesOn
<1>5. CASE ~ (reply.deferred /\ reply.error = "NONE") /\ (reply.rejected \/ reply.error # "NONE")
  <2>1. Throw(Inactive(job))
    BY <1>1, <1>5 DEF Executed
  <2>2. ~ UnderWay
    BY <1>1, <1>2, <1>5 DEF LinkInv, AnswerInv
  <2>3. QED
    BY <1>1, <1>2, <2>1, <2>2, Endings, RunEnds
<1>6. CASE Accepts(reply)
  <2> DEFINE j == [job EXCEPT !.work.executeAcknowledged = TRUE,
                              !.work.seq = reply.seq, !.work.off = reply.off]
  <2>1. Proceed("confirm", j)
    BY <1>1, <1>6 DEF Executed, Accepts
  <2>2. /\ j \in JobType /\ j.recovery = job.recovery /\ j.work.id = job.work.id
        /\ j.work.executeSent = job.work.executeSent
        /\ j.work.refreshMayBeActive = job.work.refreshMayBeActive
    BY <1>2, <1>3 DEF JobType, WorkType
  <2> HIDE DEF j
  <2>3. state = "ERROR" => current_error # "NONE"
    BY <1>1, <1>2, <1>6 DEF LinkInv, ErrorInv
  <2>4. QED
    BY <1>1, <1>2, <1>3, <2>1, <2>2, <2>3, GoesOn
<1>7. QED
  BY <1>4, <1>5, <1>6 DEF Accepts

LEMMA ConfirmedKeeps ==
  ASSUME LinkInv, Receive("confirm", Confirmed)
  PROVE  LinkInv'
<1>1. /\ at = "confirm" /\ InRun /\ waiting /\ PhoneReads /\ reply' = NoReply
      /\ UNCHANGED <<request, current_error>> /\ Confirmed(reply)
  BY DEF Receive, InRun
<1>2. /\ Still /\ Answered /\ request = NoRequest /\ ~ OrderSent
  BY <1>1, Reads
<1>3. job \in JobType /\ job.work.id \in Own /\ job.work.refreshMayBeActive
  BY <1>1 DEF LinkInv, MailInv, IdInv, FieldInv
<1>4. /\ reply.state \in {"RECEIVING", "READY", "COMPLETE", "ERROR", "BOOT"} => ~ UnderWay
      /\ reply.state # "EXECUTE_ACK" => state # "EXECUTE_ACK"
  BY <1>2 DEF LinkInv, AnswerInv
<1>5. /\ Inactive(job) \in JobType /\ Inactive(job).recovery = job.recovery
      /\ Inactive(job).work.id = job.work.id
      /\ Inactive(Inactive(job)) = Inactive(job)
  BY <1>3 DEF Inactive, JobType, WorkType
<1> DEFINE j == IF reply.state \in {"ERROR", "BOOT", "RECEIVING"} THEN Inactive(job) ELSE job
<1>6. \/ Throw(j) \/ Inconsistent(j)
      \/ reply.state \in {"COMPLETE", "READY"} /\ Inconsistent(Inactive(job))
      \/ Completed
      \/ reply.state = "READY" /\ Proceed("execute", Inactive(job))
      \/ /\ reply.state \notin {"BOOT", "RECEIVING"} /\ reply.error = "NONE"
         /\ Proceed("confirm", j)
  BY <1>1 DEF Confirmed
<1>7. CASE Throw(j) \/ Inconsistent(j)
  <2>1. j = job \/ (j = Inactive(job) /\ ~ UnderWay)
    BY <1>4
  <2> HIDE DEF j
  <2>2. QED
    BY <1>1, <1>2, <1>7, <2>1, Endings, RunEnds
<1>8. CASE reply.state \in {"COMPLETE", "READY"} /\ Inconsistent(Inactive(job))
  BY <1>1, <1>2, <1>4, <1>8, Endings, RunEnds
<1>9. CASE Completed
  <2>1. /\ NoJob \in JobType /\ NoJob.work.id = 0 /\ NoJob.work.executeSent = FALSE
    BY DEF NoJob, Work, JobType, WorkType
  <2>2. /\ at' = "away" /\ at' \in Place /\ waiting' = FALSE /\ job' = NoJob
        /\ nextID' = nextID
    BY <1>9 DEF Completed, Place
  <2>3. nextID' \in Nat /\ nextID <= nextID' /\ 0 < nextID'
    BY <2>2 DEF LinkInv, MailInv
  <2>4. Follows
    BY <2>1, <2>2 DEF Follows
  <2>5. QED
    BY <1>2, <2>1, <2>2, <2>3, <2>4, Settles
<1>10. CASE reply.state = "READY" /\ Proceed("execute", Inactive(job))
  BY <1>1, <1>2, <1>3, <1>4, <1>5, <1>10, GoesOn
<1>11. CASE /\ reply.state \notin {"BOOT", "RECEIVING"} /\ reply.error = "NONE"
            /\ Proceed("confirm", j)
  <2>1. reply.state # "ERROR" /\ (state = "ERROR" => current_error # "NONE")
    BY <1>1, <1>2, <1>11 DEF LinkInv, ErrorInv
  <2>2. Proceed("confirm", job)
    BY <1>11, <2>1
  <2>3. QED
    BY <1>1, <1>2, <1>3, <2>1, <2>2, GoesOn
<1>12. QED
  BY <1>6, <1>7, <1>8, <1>9, <1>10, <1>11

-----------------------------------------------------------------------------
(* The coordinator's other steps.                                          *)

LEMMA DropReplyKeeps ==
  ASSUME LinkInv, DropReply
  PROVE  LinkInv'
<1>1. /\ InRun /\ ~ waiting /\ PhoneReads /\ reply' = NoReply
      /\ UNCHANGED <<request, current_error, job, nextID, at, waiting>>
  BY DEF DropReply, coordinator
<1>2. Still /\ UNCHANGED <<t, state, clean_active>>
  BY <1>1, PhoneStill DEF Still
<1>3. /\ job \in JobType /\ at \in Place /\ nextID \in Nat /\ nextID <= nextID
      /\ waiting = FALSE
  BY <1>1 DEF LinkInv, MailInv
<1>4. UnderWay' => UnderWay
  BY <1>1, <1>2 DEF UnderWay, Refreshes, Acking
<1>5. Follows
  BY <1>1 DEF Follows
<1>6. /\ at = "confirm" => /\ job.work.refreshMayBeActive
                           /\ request \in {NoRequest, StatusFrame}
                           /\ state = "ERROR" => current_error # "NONE"
      /\ at \in {"upload", "ready", "execute"} =>
             request.type # "EXECUTE" /\ ~ UnderWay' /\ state # "EXECUTE_ACK"
  BY <1>1, <1>4 DEF LinkInv, FieldInv, ErrorInv
<1>7. /\ job.work.id < nextID /\ job.work.id \in Own \cup {0}
      /\ job = NoJob \/ job.work = NoWork \/ job.work.id # 0
      /\ at # "away" => job # NoJob
      /\ at \in {"upload", "ready", "execute", "confirm"} => job.work.id \in Own
      /\ at \in {"away", "status"} /\ job.work.executeSent => job.recovery
      /\ at = "upload" => ~ job.work.executeSent
  BY DEF LinkInv, IdInv, FieldInv
<1>8. QED
  BY <1>1, <1>2, <1>3, <1>5, <1>6, <1>7, Settles

LEMMA ExchangeFailsKeeps ==
  ASSUME LinkInv, ExchangeFails
  PROVE  LinkInv'
<1>1. InRun /\ UNCHANGED <<card, mailbox>>
  BY DEF ExchangeFails
<1>2. Still /\ UNCHANGED <<t, state, clean_active>>
  BY <1>1, PhoneStill DEF Still
<1>3. CASE Throw(job)
  BY <1>1, <1>2, <1>3, Endings, RunEnds
<1>4. CASE waiting /\ SentAgain /\ Proceed(at, job)
  <2>1. at \in {"confirm", "upload"} /\ at' = at /\ job' = job /\ nextID' = nextID
        /\ waiting' = FALSE
    BY <1>4 DEF SentAgain, Proceed
  <2>2. job \in JobType /\ at \in Place /\ nextID \in Nat /\ nextID <= nextID
    BY DEF LinkInv, MailInv
  <2>3. UnderWay' => UnderWay
    BY <1>2, <2>1 DEF UnderWay, Refreshes, Acking
  <2>4. Follows
    BY <2>1 DEF Follows
  <2>5. /\ at = "confirm" => /\ job.work.refreshMayBeActive
                             /\ request \in {NoRequest, StatusFrame}
                             /\ state = "ERROR" => current_error # "NONE"
        /\ at = "upload" => /\ request.type # "EXECUTE" /\ ~ UnderWay'
                            /\ state # "EXECUTE_ACK" /\ ~ job.work.executeSent
    BY <2>3 DEF LinkInv, FieldInv, ErrorInv
  <2>6. /\ job.work.id < nextID /\ job.work.id \in Own /\ job # NoJob
        /\ job = NoJob \/ job.work = NoWork \/ job.work.id # 0
    BY <1>1, <2>1 DEF LinkInv, IdInv, InRun
  <2>7. QED
    BY <1>2, <2>1, <2>2, <2>4, <2>5, <2>6, Settles
<1>5. QED
  BY <1>3, <1>4 DEF ExchangeFails

LEMMA RecoveryEndsKeeps ==
  ASSUME LinkInv, RecoveryEnds
  PROVE  LinkInv'
<1>1. /\ InRun /\ waiting /\ PhoneReads /\ reply' = NoReply
      /\ UNCHANGED <<request, current_error>>
      /\ Throw(job) \/ Inconsistent(job)
  BY DEF RecoveryEnds, InRun
<1>2. Still
  BY <1>1, Reads
<1>3. QED
  BY <1>1, <1>2, Endings, RunEnds

LEMMA OutOfTimeKeeps ==
  ASSUME LinkInv, OutOfTime
  PROVE  LinkInv'
<1>1. /\ InRun /\ UNCHANGED <<card, mailbox>>
      /\ NeedResume(job) \/ Throw(job) \/ HoldField(job)
  BY DEF OutOfTime
<1>2. Still
  BY <1>1, PhoneStill
<1>3. QED
  BY <1>1, <1>2, Endings, RunEnds

LEMMA UserKeeps ==
  ASSUME LinkInv, Prepare \/ Scan
  PROVE  LinkInv'
<1>1. at = "away" /\ UNCHANGED <<card, mailbox, nextID, waiting>>
  BY DEF Prepare, Scan
<1>2. Still
  BY <1>1, PhoneStill
<1>3. nextID \in Nat \ {0} /\ job \in JobType /\ waiting = FALSE
  BY <1>1 DEF LinkInv, MailInv
<1>4. CASE Prepare
  <2>1. PICK clean \in BOOLEAN : job' = Job(clean)
    BY <1>4 DEF Prepare
  <2>2. /\ job' \in JobType /\ job'.work = NoWork /\ job'.work.id = 0
        /\ job'.work.executeSent = FALSE
    BY <2>1 DEF Job, NoWork, Work, JobType, WorkType
  <2>3. at' = "away" /\ at' \in Place
    BY <1>1, <1>4 DEF Prepare, Place
  <2>4. nextID' \in Nat /\ nextID <= nextID' /\ 0 < nextID' /\ waiting' = FALSE
    BY <1>1, <1>3
  <2>5. Follows
    BY <2>2 DEF Follows
  <2>6. QED
    BY <1>2, <2>2, <2>3, <2>4, <2>5, Settles
<1>5. CASE Scan
  <2>1. job # NoJob /\ job' = job /\ at' = "status" /\ at' \in Place
    BY <1>5 DEF Scan, Place
  <2>2. nextID' = nextID /\ nextID' \in Nat /\ nextID <= nextID' /\ waiting' = FALSE
    BY <1>1, <1>3
  <2>3. Follows
    BY <2>1 DEF Follows
  <2>4. /\ job.work.id < nextID /\ job.work.id \in Own \cup {0}
        /\ job = NoJob \/ job.work = NoWork \/ job.work.id # 0
        /\ job.work.executeSent => job.recovery
    BY <1>1 DEF LinkInv, IdInv, FieldInv
  <2>5. QED
    BY <1>2, <1>3, <2>1, <2>2, <2>3, <2>4, Settles
<1>6. QED
  BY <1>4, <1>5

-----------------------------------------------------------------------------
(* The invariant holds.                                                    *)

LEMMA LinkInitStep ==
  ASSUME LinkInit
  PROVE  LinkInv
<1>1. /\ Init /\ request = NoRequest /\ reply = NoReply /\ job = NoJob /\ nextID = 1
      /\ at = "away" /\ waiting = FALSE
  BY DEF LinkInit
<1>2. CardInv
  BY <1>1, InitStep
<1>3. /\ NoJob \in JobType /\ NoJob.work.id = 0 /\ NoJob.work.executeSent = FALSE
  BY DEF NoJob, Work, JobType, WorkType
<1>4. MailInv
  <2>1. job \in JobType /\ at \in Place /\ waiting \in BOOLEAN /\ nextID \in Nat \ {0}
    <3>1. job \in JobType /\ waiting \in BOOLEAN
      BY <1>1, <1>3, Zenon
    <3>2. at \in Place /\ nextID \in Nat \ {0}
      BY <1>1 DEF Place
    <3>3. QED
      BY <3>1, <3>2
  <2>2. host = "empty"
    BY <1>1 DEF Init
  <2>3. QED
    BY <1>1, <2>1, <2>2 DEF MailInv
<1>5. t.tid = 0 /\ t.format # "gray" /\ ~ Acking /\ ~ clean_active /\ ~ Refreshes
  BY <1>1 DEF Init, ResetTransfer, Resumed, FactoryFrame, Acking, Refreshes
<1>6. \A f \in Frames \cap Kept : f.tid = 0
  BY <1>1, NoFrames DEF Init, Frames, FactoryFrame
<1>7. IdInv
  BY <1>1, <1>3, <1>5, <1>6, Numbers DEF IdInv
<1>8. FieldInv
  BY <1>1, <1>3, <1>5, NoFrames DEF FieldInv, UnderWay
<1>9. AnswerInv /\ ErrorInv
  BY <1>1 DEF AnswerInv, ErrorInv, Answered
<1>10. QED
  BY <1>2, <1>4, <1>7, <1>8, <1>9 DEF LinkInv

LEMMA LinkIdle ==
  ASSUME LinkInv, UNCHANGED linkVars
  PROVE  LinkInv'
<1>1. UNCHANGED <<vars, request, reply, current_error, job, nextID, at, waiting>>
  BY DEF linkVars, coordinator
<1>2. CardInv' /\ Frames' = Frames
  BY <1>1, CardKeeps DEF LinkInv, vars, storeVars, Frames
<1>3. UNCHANGED <<t, state, host, clean_active>>
  BY <1>1 DEF vars, loopVars
<1>4. MailInv' /\ IdInv'
  BY <1>1, <1>2, <1>3 DEF LinkInv, MailInv, IdInv, Acking
<1>5. FieldInv' /\ AnswerInv' /\ ErrorInv'
  BY <1>1, <1>3 DEF LinkInv, FieldInv, AnswerInv, ErrorInv, Answered, Accepts, UnderWay,
                    Refreshes, Acking
<1>6. QED
  BY <1>2, <1>4, <1>5 DEF LinkInv

LEMMA LinkKeeps ==
  ASSUME LinkInv, [LinkNext]_linkVars
  PROVE  LinkInv'
BY CardRunsKeep, PowerKeeps, CardReadsKeeps, OtherPhoneKeeps, SendsKeep, FirstStatusKeeps,
   UploadedKeeps, ReadySeenKeeps, ExecutedKeeps, ConfirmedKeeps, DropReplyKeeps,
   ExchangeFailsKeeps, RecoveryEndsKeeps, OutOfTimeKeeps, UserKeeps, LinkIdle
DEF LinkNext, Coordinator

(* Whatever the card, the coordinator, the other phone and the field do, the *)
(* coordinator's view of the card holds: the ids of its works are never used *)
(* twice, it knows when an EXECUTE of its own may have started a refresh,    *)
(* and an answer tells the truth about what is under way when it is read.    *)
THEOREM LinkedInductive == LinkSpec => []LinkInv
<1>1. LinkInit => LinkInv
  BY LinkInitStep
<1>2. LinkInv /\ [LinkNext]_linkVars => LinkInv'
  BY LinkKeeps
<1>3. QED
  BY <1>1, <1>2, PTL DEF LinkSpec

-----------------------------------------------------------------------------
(* The field is held.                                                      *)

FieldHeld ==
    InRun /\ at' = "away" /\ outcome' # "holdField" /\ (t.tid = job.work.id \/ Told)
        => ~ Acking

\* Only these steps end a run.
LEMMA RunEnders ==
  ASSUME LinkNext, InRun, at' = "away"
  PROVE  \/ ExchangeFails \/ RecoveryEnds \/ OutOfTime
         \/ Receive("status", FirstStatus) \/ Receive("upload", Uploaded)
         \/ Receive("ready", ReadySeen) \/ Receive("execute", Executed)
         \/ Receive("confirm", Confirmed)
BY DEF LinkNext, Coordinator, InRun, Prepare, Scan, AskStatus, SendUpload, AskReady,
       SendExecute, AskConfirm, Send, DropReply, CardReads, CardStep, CardRuns,
       CardLosesPower, CardBrownout, OtherPhone, coordinator

\* Nothing is thrown with the field released while the refresh may be active.
LEMMA ThrowHolds ==
  ASSUME NEW j, Throw(j) \/ Inconsistent(j), outcome' # "holdField"
  PROVE  ~ j.work.refreshMayBeActive
BY DEF Throw, Inconsistent, Ended, Forget, NoWork, Work

LEMMA FieldHeldStep ==
  ASSUME LinkInv, LinkNext
  PROVE  FieldHeld
<1>1. SUFFICES ASSUME InRun, at' = "away", outcome' # "holdField", t.tid = job.work.id \/ Told
               PROVE  ~ Acking
  BY DEF FieldHeld
<1>2. Told => Answered
  BY DEF Told, Answered
<1>3. SUFFICES ~ UnderWay /\ ~ Told
  BY <1>1 DEF UnderWay, Refreshes
<1>4. reply # NoReply => reply.state # "REFRESHING"
  BY DEF LinkInv, MailInv
<1>5. Told => reply.state \in {"EXECUTE_ACK"}
  BY <1>4 DEF Told
<1>6. ~ job.work.refreshMayBeActive => ~ UnderWay
  BY DEF LinkInv, FieldInv
<1>7. CASE ExchangeFails
  <2>1. host' = host
    BY <1>7 DEF ExchangeFails, mailbox
  <2>2. ~ Told
    BY <2>1 DEF Told, LinkInv, MailInv
  <2>3. Throw(job)
    BY <1>1, <1>7 DEF ExchangeFails, Proceed, InRun
  <2>4. QED
    BY <1>1, <1>6, <2>2, <2>3, ThrowHolds
<1>8. CASE OutOfTime
  <2>1. ~ Told
    BY <1>8 DEF OutOfTime, Told
  <2>2. CASE at \in {"upload", "ready", "execute"}
    BY <1>8, <2>1, <2>2 DEF OutOfTime, LinkInv, FieldInv
  <2>3. CASE at = "confirm" /\ HoldField(job)
    BY <1>1, <2>3 DEF HoldField, Ended
  <2>4. QED
    BY <1>8, <2>2, <2>3 DEF OutOfTime
<1>9. CASE RecoveryEnds \/ Receive("upload", Uploaded) \/ Receive("ready", ReadySeen)
  <2>1. at \in {"upload", "ready"}
    BY <1>9 DEF RecoveryEnds, Receive
  <2>2. QED
    BY <1>2, <1>5, <2>1 DEF LinkInv, FieldInv, AnswerInv
<1>10. CASE Receive("status", FirstStatus)
  <2>1. at = "status" /\ waiting /\ FirstStatus(reply) /\ reply # NoReply
    BY <1>10 DEF Receive, PhoneReads, LinkInv, MailInv
  <2>2. FALSE
    BY <1>1, <2>1 DEF FirstStatus, HoldField, Ended
  <2>3. QED
    BY <2>2
<1>11. CASE Receive("execute", Executed)
  <2>1. at = "execute" /\ waiting /\ Executed(reply) /\ reply # NoReply
    BY <1>11 DEF Receive, PhoneReads, LinkInv, MailInv
  <2>2. Answered
    BY <2>1 DEF Answered
  <2>3. reply.rejected \/ reply.error # "NONE"
    BY <1>1, <2>1 DEF Executed, Proceed
  <2>4. QED
    BY <1>5, <2>1, <2>2, <2>3 DEF LinkInv, AnswerInv
<1>12. CASE Receive("confirm", Confirmed)
  <2>1. at = "confirm" /\ waiting /\ Confirmed(reply) /\ reply # NoReply
    BY <1>12 DEF Receive, PhoneReads, LinkInv, MailInv
  <2>2. Answered /\ job.work.refreshMayBeActive
    BY <2>1 DEF Answered, LinkInv, FieldInv
  <2>3. reply.state \in {"RECEIVING", "READY", "COMPLETE", "ERROR", "BOOT"} => ~ UnderWay /\ ~ Told
    BY <1>5, <2>2 DEF LinkInv, AnswerInv
  <2>4. SUFFICES ASSUME reply.state \notin {"RECEIVING", "READY", "COMPLETE", "ERROR", "BOOT"}
                 PROVE  FALSE
    BY <2>3
  <2>5. Throw(job) \/ Inconsistent(job)
    BY <1>1, <2>1, <2>4 DEF Confirmed, Proceed
  <2>6. QED
    BY <1>1, <2>2, <2>5, ThrowHolds
<1>13. QED
  BY <1>1, <1>7, <1>8, <1>9, <1>10, <1>11, <1>12, RunEnders

(* Whichever way a run ends, the user is told to leave the phone where it is *)
(* as long as the target of the job is being refreshed, or the card said in  *)
(* the answer just read that it refreshes another.                          *)
THEOREM FieldIsAlwaysHeld == LinkSpec => FieldHeldDuringRefresh
<1>1. LinkInv /\ [LinkNext]_linkVars =>
          [InRun /\ at' = "away" /\ outcome' # "holdField" /\ (t.tid = job.work.id \/ Told)
               => state \notin {"EXECUTE_ACK", "REFRESHING"}]_linkVars
  BY FieldHeldStep DEF FieldHeld, Acking
<1>2. QED
  BY <1>1, LinkedInductive, PTL DEF LinkSpec, FieldHeldDuringRefresh

-----------------------------------------------------------------------------
(* What success means, while the card keeps its power during a run.         *)

\* The picture of the transfer is on record, and nothing else waits.
OnRecord ==
    /\ committed # NoFrame /\ prepared = NoFrame /\ committed.tid = t.tid
    /\ t.clean => adrift = {}

\* A transfer with cleaning is refreshed in a clean cycle, and COMPLETE is true.
OutcomeInv ==
    /\ Acking /\ t.clean => clean_active
    /\ state = "COMPLETE" => OnRecord
    /\ t.last.type = "START" => t.crc # NoCrc

\* What bears a transfer id is to be refreshed in a clean cycle, wherever it has
\* got to, until it is complete: the record does not tell how it was made.
Cleans(id) ==
    /\ t.tid = id => t.clean \/ (t.crc = NoCrc /\ state \in {"COMPLETE", "ERROR"})
    /\ request.type = "START" /\ request.tid = id => request.body.clean
    /\ \A f \in {prepared, staging} \cap Kept : f.tid = id => f.clean

\* The transfer of a work with cleaning is one.
CleanWorkInv == job.work.batch /\ job.work.id \in Own => Cleans(job.work.id)

OwnTransfer == t.tid = job.work.id /\ (job.work.batch => t.clean)

\* Once its EXECUTE is accepted the transfer on the card is the work's.
ConfirmInv ==
    /\ at = "confirm" => OwnTransfer
    /\ Answered /\ at = "execute" /\ Accepts(reply) => OwnTransfer
    /\ Answered /\ at = "confirm" /\ reply.state = "COMPLETE" =>
           state \in {"COMPLETE", "ERROR"} /\ OnRecord

\* WorkInv holds whatever resets the card, ConfirmInv needs the card to keep its
\* power during a run.
WorkInv == LinkInv /\ OutcomeInv /\ CleanWorkInv
RecordInv == WorkInv /\ ConfirmInv

-----------------------------------------------------------------------------
(* The card's side of it.                                                  *)

LEMMA Rests ==
  ASSUME CardInv, Card \/ Brownout, state \in {"COMPLETE", "ERROR", "RECEIVING"}
  PROVE  state' \in {state, "ERROR"} /\ UNCHANGED <<storeVars, panelVars>>
<1>1. pc = "loop"
  BY DEF CardInv, StateInv, StoreInv, LoopTypes
<1>2. CASE NdefPause \/ Brownout
  BY <1>2 DEF NdefPause, Brownout
<1>3. CASE BrownoutStops
  BY <1>3 DEF BrownoutStops, StopWithError
<1>4. QED
  BY <1>1, <1>2, <1>3
  DEF Card, ChargeTimesOut, BecomesReady, StageBegins, StageWrites, StageSucceeds,
      StageFails, RefreshContinues, QuietIsOver, PartialEnds, GrayBandEnds, DriveEnds,
      DriveFails, CommitSucceeds, PartialRecorded, GrayRecorded, Recorded, CommitFails,
      AckIsRead, AckTimesOut

\* Completion puts the transfer on record.
LEMMA CommitOutcome ==
  ASSUME CardInv, OutcomeInv, CommitSucceeds
  PROVE  OnRecord' /\ state' = "COMPLETE" /\ UNCHANGED t
<1>1. /\ pc = "commit" /\ Store!Promote /\ state' = "COMPLETE" /\ t' = t
      /\ adrift' = {} \/ (~ IsGray /\ ~ clean_active)
  BY DEF CommitSucceeds, PartialRecorded, GrayRecorded, Recorded
<1>2. state = "REFRESHING" /\ prepared # NoFrame /\ header = prepared /\ prepared \in Kept
  BY <1>1 DEF CardInv, StateInv, StoreInv, Store!Promote
<1>3. staged /\ t.committed
  BY <1>2 DEF CardInv, StateInv, Holding
<1>4. prepared.tid = t.tid
  <2>1. CASE IsGray
    <3>1. PlaneZeroPending(t.tid)
      BY <1>1, <2>1 DEF CardInv, GrayInv
    <3>2. prepared \notin {NoFrame, TornHeader}
      BY <1>2, KeptFrames
    <3>3. QED
      BY <1>2, <3>1, <3>2 DEF PlaneZeroPending, pending_tid
  <2>2. CASE ~ IsGray /\ t.format = "gray"
    BY <1>2, <2>2 DEF IsGray, CardInv, CleanInv
  <2>3. CASE ~ IsGray /\ t.format # "gray"
    BY <1>2, <1>3, <2>3 DEF CardInv, HoldingInv, Holding, SecondPlane
  <2>4. QED
    BY <2>1, <2>2, <2>3
<1>5. t.clean => adrift' = {}
  BY <1>1, <1>2 DEF OutcomeInv, Acking
<1>6. committed' = prepared /\ prepared' = NoFrame
  BY <1>1 DEF Store!Promote
<1>7. QED
  BY <1>1, <1>2, <1>4, <1>5, <1>6 DEF OnRecord

\* Refreshing goes on as it began.
LEMMA RunAcking ==
  ASSUME CardInv, Card \/ Brownout, Acking', t.clean
  PROVE  clean_active' = clean_active /\ (Acking \/ clean_active)
<1> USE DEF loopVars, Acking
<1>1. t.format = "mono"
  BY DEF CardInv, TransferInv, SessionOK
<1>2. CASE NdefPause \/ AckIsRead \/ Brownout \/ StageWrites
  BY <1>2 DEF NdefPause, AckIsRead, Brownout, StageWrites
<1>3. CASE \/ ChargeTimesOut \/ BecomesReady \/ StageFails \/ DriveFails \/ AckTimesOut
           \/ BrownoutStops \/ CommitFails
  BY <1>3 DEF ChargeTimesOut, BecomesReady, StageFails, DriveFails, AckTimesOut,
              BrownoutStops, CommitFails, StopWithError
<1>4. CASE StageBegins \/ StageSucceeds
  BY <1>4 DEF StageBegins, StageSucceeds
<1>5. CASE RefreshContinues \/ QuietIsOver
  <2>1. RefreshRefused \/ \E images : StartDriving(images)
    BY <1>5 DEF RefreshContinues, QuietIsOver, Refresh, refresh_partial, refresh_gray4
  <2>2. Acking \/ clean_active
    BY <1>1, <1>5 DEF RefreshContinues, QuietIsOver, IsGray
  <2>3. QED
    BY <2>1, <2>2 DEF RefreshRefused, StopWithError, StartDriving
<1>6. CASE PartialEnds \/ GrayBandEnds
  BY <1>6 DEF PartialEnds, GrayBandEnds, DriveEnds, CardInv, StateInv
<1>7. CASE CommitSucceeds
  BY <1>7 DEF CommitSucceeds, PartialRecorded, GrayRecorded, Recorded
<1>8. QED
  BY <1>2, <1>3, <1>4, <1>5, <1>6, <1>7 DEF Card

LEMMA RunOutcome ==
  ASSUME CardInv, OutcomeInv, Card \/ Brownout
  PROVE  OutcomeInv'
<1>1. t' = t
  BY RunEffect
<1>2. Acking' /\ t.clean => clean_active'
  BY RunAcking DEF OutcomeInv
<1>3. state' = "COMPLETE" => OnRecord'
  <2>1. CASE state \in {"COMPLETE", "ERROR"}
    BY <1>1, <2>1, Rests DEF OutcomeInv, OnRecord, storeVars, panelVars
  <2>2. CASE CommitSucceeds
    BY <2>2, CommitOutcome
  <2>3. CASE state \notin {"COMPLETE", "ERROR"} /\ ~ CommitSucceeds
    <3>1. CASE \/ NdefPause \/ Brownout \/ AckIsRead \/ StageWrites \/ StageBegins
               \/ StageSucceeds
      BY <2>3, <3>1 DEF NdefPause, Brownout, AckIsRead, StageWrites, StageBegins, StageSucceeds
    <3>2. CASE \/ ChargeTimesOut \/ BecomesReady \/ StageFails \/ DriveFails \/ AckTimesOut
               \/ BrownoutStops \/ CommitFails
      BY <3>2 DEF ChargeTimesOut, BecomesReady, StageFails, DriveFails, AckTimesOut,
                  BrownoutStops, CommitFails, StopWithError
    <3>3. CASE RefreshContinues \/ QuietIsOver
      BY <3>3 DEF RefreshContinues, QuietIsOver, Refresh, refresh_partial, refresh_gray4,
                  RefreshRefused, StopWithError, StartDriving
    <3>4. CASE PartialEnds \/ GrayBandEnds
      BY <2>3, <3>4 DEF PartialEnds, GrayBandEnds, ChargeAgain, CommitBegins
    <3>5. QED
      BY <2>3, <3>1, <3>2, <3>3, <3>4 DEF Card
  <2>4. QED
    BY <2>1, <2>2, <2>3
<1>4. t.last.type = "START" => t.crc # NoCrc
  BY DEF OutcomeInv
<1>5. QED
  BY <1>1, <1>2, <1>3, <1>4 DEF OutcomeInv

LEMMA PowerOutcome ==
  ASSUME CardInv, PowerCycle
  PROVE  OutcomeInv'
<1>1. ~ Acking'
  BY PowerEffect
<1>2. t'.last.type # "START"
  <2>1. ResetTransfer.last.type # "START"
    BY DEF ResetTransfer, NothingRemembered
  <2>2. \A f, n, executed : Resumed(f, n, executed).last.type # "START"
    BY DEF Resumed, ResetTransfer, NothingRemembered
  <2>3. t' = ResetTransfer \/ \E f, n, executed : t' = Resumed(f, n, executed)
    BY DEF PowerCycle, Boot
  <2>4. QED
    BY <2>1, <2>2, <2>3
<1>3. state' = "COMPLETE" => OnRecord'
  <2>1. SUFFICES ASSUME state' = "COMPLETE"
                 PROVE  OnRecord'
    OBVIOUS
  <2>2. prepared' = NoFrame /\ committed' # NoFrame
    BY <2>1 DEF PowerCycle, Boot
  <2>3. t'.tid = committed'.tid /\ t'.clean = (~ TRUE /\ committed'.clean)
    <3>1. \A f, n, executed :
            /\ Resumed(f, n, executed).tid = f.tid
            /\ Resumed(f, n, executed).clean = (~ executed /\ f.clean)
      BY DEF Resumed, ResetTransfer
    <3>2. PICK n : t' = Resumed(committed', n, TRUE)
      BY <2>2 DEF PowerCycle, Boot
    <3>3. QED
      BY <3>1, <3>2, Zenon
  <2>4. QED
    BY <2>2, <2>3 DEF OnRecord
<1>4. QED
  BY <1>1, <1>2, <1>3 DEF OutcomeInv

\* The last frame remembered is the last one taken.
LEMMA FrameSeen ==
  ASSUME CardInv, NEW f \in WireFrame, HandleMessage(f),
         t.last.type = "START" => t.crc # NoCrc
  PROVE  t'.last.type = "START" => t'.crc # NoCrc
<1> DEFINE r == nc_transfer_apply(t, buf, f)
<1>1. t' = t \/ (r.result # "REJECTED" /\ t' = r.t)
  BY DEF HandleMessage, AnswerOnly, Applied
<1>2. r = nc_transfer_apply(t, buf, f)
  OBVIOUS
<1> HIDE DEF r
<1>3. PICK p \in Picture :
           \/ StartOf(f, p) \/ DataOf(f, p) \/ EmptyOf(f, p)
           \/ p.format = "pattern" /\ f = PatternFrame(p)
  BY FrameKinds
<1>4. SUFFICES ASSUME r.result # "REJECTED", t' = r.t
               PROVE  t' = t \/ (t'.last.type = "START" => t'.crc # NoCrc)
  BY <1>1
<1>5. CASE StartOf(f, p)
  <2>1. PICK k \in DOMAIN p.planes : p.planes[k] \in Image /\ f = StartFrame(p, k)
    BY <1>5 DEF StartOf
  <2>2. f.type = "START" /\ f.body.crc = p.planes[k]
    BY <2>1 DEF StartFrame
  <2>3. f.body.crc # NoCrc
    BY <2>1, <2>2, PictureAssumption DEF Image, Strip, NoCrc
  <2>4. r.t = t \/ r.t.crc = f.body.crc
    BY <1>2, <1>4, <2>2, StartResult
  <2>5. QED
    BY <1>4, <2>3, <2>4
<1>6. CASE f = PatternFrame(p)
  <2>1. f.type = "PATTERN"
    BY <1>6 DEF PatternFrame
  <2>2. r.t = t \/ r.t.last.type = "PATTERN"
    BY <1>2, <1>4, <2>1, PatternResult
  <2>3. QED
    BY <1>4, <2>2
<1>7. CASE DataOf(f, p) \/ EmptyOf(f, p)
  <2>1. f.type \in {"DATA", "COMMIT", "EXECUTE"}
    BY <1>7 DEF DataOf, EmptyOf, SessionFrame
  <2>2. r.t = t \/ r.t.last = remember(f)
    BY <1>2, <1>4, <2>1, SessionResult
  <2>3. remember(f).type = f.type
    BY DEF remember
  <2>4. QED
    BY <1>4, <2>1, <2>2, <2>3
<1>8. QED
  BY <1>3, <1>5, <1>6, <1>7

\* An accepted EXECUTE of a transfer with cleaning begins a clean cycle.
LEMMA OrderCleans ==
  ASSUME CardInv, NEW f \in WireFrame, HandleMessage(f), state # "EXECUTE_ACK",
         state' = "EXECUTE_ACK", t'.clean
  PROVE  clean_active'
<1> DEFINE r == nc_transfer_apply(t, buf, f)
<1>1. /\ t' = r.t
      /\ CASE f.type = "START"                       -> AfterStart(r)
           [] r.result \in {"COMMITTED", "PATTERN"}  -> AfterCommit(r)
           [] r.result = "EXECUTE"                   -> AfterExecute(r)
           [] OTHER -> state' = state
  BY DEF HandleMessage, Applied, AnswerOnly
<1> HIDE DEF r
<1>2. f.type = "EXECUTE"
  BY MessageKinds DEF Untouched, Reopens, Advances, Orders
<1>3. CASE r.result \in {"COMMITTED", "PATTERN"}
  BY <1>1, <1>2, <1>3 DEF AfterCommit
<1>4. CASE r.result = "EXECUTE"
  <2>1. AfterExecute(r)
    BY <1>1, <1>2, <1>4
  <2>2. clean_active' = (clean_active \/ (r.t.clean \/ full_first)) /\ r.t.clean
    BY <1>1, <2>1 DEF AfterExecute
  <2>3. QED
    BY <2>2
<1>5. CASE r.result \notin {"COMMITTED", "PATTERN", "EXECUTE"}
  BY <1>1, <1>2, <1>5
<1>6. QED
  BY <1>3, <1>4, <1>5

LEMMA FrameOutcome ==
  ASSUME CardInv, OutcomeInv, NEW f \in WireFrame \cup {StatusFrame}, HandleFrame(f)
  PROVE  OutcomeInv'
<1>1. /\ UNCHANGED storeVars /\ adrift' = adrift
      /\ Untouched \/ (f \in WireFrame /\ (Reopens(f) \/ Advances \/ Orders(f)))
  BY FrameEffect
<1>2. UNCHANGED <<committed, prepared>>
  BY <1>1 DEF storeVars
<1>3. CASE Untouched
  BY <1>1, <1>2, <1>3 DEF Untouched, OutcomeInv, OnRecord, Acking
<1>4. CASE f \in WireFrame /\ (Reopens(f) \/ Advances \/ Orders(f))
  <2>1. f.type # "STATUS"
    BY <1>4, WireFrameFields
  <2>2. HandleMessage(f)
    BY <2>1 DEF HandleFrame
  <2>3. t'.last.type = "START" => t'.crc # NoCrc
    BY <1>4, <2>2, FrameSeen DEF OutcomeInv
  <2>4. CASE Reopens(f)
    BY <2>3, <2>4 DEF Reopens, OutcomeInv, Acking
  <2>5. CASE Advances
    <3>1. t'.clean = t.clean /\ t'.tid = t.tid
      BY <2>5 DEF Advances, SameSession
    <3>2. QED
      BY <1>1, <1>2, <2>3, <2>5, <3>1 DEF Advances, OutcomeInv, OnRecord, Acking
  <2>6. CASE Orders(f)
    <3>1. state = "READY" /\ state' \in {"EXECUTE_ACK", "ERROR"}
      BY <2>6 DEF Orders
    <3>2. state' = "EXECUTE_ACK" /\ t'.clean => clean_active'
      BY <1>4, <2>2, <3>1, OrderCleans
    <3>3. QED
      BY <2>3, <3>1, <3>2 DEF OutcomeInv, Acking
  <2>7. QED
    BY <1>4, <2>4, <2>5, <2>6
<1>5. QED
  BY <1>1, <1>3, <1>4

-----------------------------------------------------------------------------
(* A transfer with cleaning stays one.                                     *)

\* What the card prepares is the transfer it has.
LEMMA RunStages ==
  ASSUME CardInv, Card \/ Brownout
  PROVE  \A f \in {prepared', staging'} :
             f \in {prepared, staging, NoFrame} \/ (f = FrameToStage /\ state = "CHARGING")
<1> USE DEF storeVars
<1>1. CASE NdefPause \/ BecomesReady \/ AckIsRead \/ Brownout
  BY <1>1 DEF NdefPause, BecomesReady, AckIsRead, Brownout
<1>2. CASE ChargeTimesOut \/ DriveFails \/ AckTimesOut \/ BrownoutStops
  BY <1>2 DEF ChargeTimesOut, DriveFails, AckTimesOut, BrownoutStops
<1>3. CASE StageBegins \/ StageWrites \/ StageSucceeds \/ StageFails
  BY <1>3 DEF StageBegins, StageWrites, StageSucceeds, StageFails, Store!Begin,
              Store!Disturb, Store!Overwrite, Store!Land, Store!Fail
<1>4. CASE RefreshContinues \/ QuietIsOver
  BY <1>4 DEF RefreshContinues, QuietIsOver, Refresh, refresh_partial, refresh_gray4,
              RefreshRefused, StartDriving
<1>5. CASE PartialEnds \/ GrayBandEnds
  BY <1>5 DEF PartialEnds, GrayBandEnds, ChargeAgain, CommitBegins, Store!Commit
<1>6. CASE CommitSucceeds
  BY <1>6 DEF CommitSucceeds, PartialRecorded, GrayRecorded, Recorded, Store!Promote
<1>7. CASE CommitFails
  BY <1>7 DEF CommitFails, Store!Spoil
<1>8. QED
  BY <1>1, <1>2, <1>3, <1>4, <1>5, <1>6, <1>7 DEF Card

LEMMA RunCleans ==
  ASSUME CardInv, Card \/ Brownout, request' = request, NEW id \in Own, Cleans(id)
  PROVE  Cleans(id)'
<1>1. t' = t
  BY RunEffect
<1>2. t.tid = id => t.clean \/ (t.crc = NoCrc /\ state' \in {"COMPLETE", "ERROR"})
  BY Rests DEF Cleans
<1>3. ASSUME NEW f \in {prepared', staging'} \cap Kept, f.tid = id
      PROVE  f.clean
  <2>1. CASE f \in {prepared, staging}
    BY <1>3, <2>1 DEF Cleans
  <2>2. CASE f = FrameToStage /\ state = "CHARGING"
    <3>1. f.tid = t.tid /\ f.clean = t.clean
      BY <2>2 DEF FrameToStage
    <3>2. t.clean
      BY <1>3, <2>2, <3>1 DEF Cleans
    <3>3. QED
      BY <3>1, <3>2
  <2>3. QED
    BY <1>3, <2>1, <2>2, RunStages, NoFrames
<1>4. QED
  BY <1>1, <1>2, <1>3 DEF Cleans

LEMMA PowerCleans ==
  ASSUME CardInv, PowerCycle, request' = NoRequest, NEW id \in Own, Cleans(id)
  PROVE  Cleans(id)'
<1>1. prepared' \in {prepared, staging, NoFrame} /\ staging' = NoFrame
  BY DEF PowerCycle, Store!PowerCycle
<1>2. \A f \in {prepared', staging'} \cap Kept : f.tid = id => f.clean
  BY <1>1, NoFrames DEF Cleans
<1>3. t'.tid = id => t'.clean \/ (t'.crc = NoCrc /\ state' \in {"COMPLETE", "ERROR"})
  <2>1. CASE t' = ResetTransfer
    BY <2>1, Numbers DEF ResetTransfer
  <2>2. CASE prepared' \in Kept /\ t'.tid = prepared'.tid /\ t'.clean = prepared'.clean
    <3>1. t'.tid = id => prepared'.clean
      BY <1>2, <2>2
    <3>2. QED
      BY <2>2, <3>1, Zenon
  <2>3. CASE state' = "COMPLETE" /\ t'.crc = NoCrc
    BY <2>3
  <2>4. QED
    BY <2>1, <2>2, <2>3, PowerEffect
<1>4. request'.type # "START"
  BY NoFrames
<1>5. QED
  BY <1>2, <1>3, <1>4 DEF Cleans

\* A PATTERN is never of the job.
LEMMA PatternIsForeign ==
  ASSUME NEW f \in WireFrame, f.type = "PATTERN"
  PROVE  f.tid \notin Own
<1>1. PICK p \in Picture :
           \/ StartOf(f, p) \/ DataOf(f, p) \/ EmptyOf(f, p)
           \/ p.format = "pattern" /\ f = PatternFrame(p)
  BY FrameKinds
<1>2. p.format = "pattern" /\ f = PatternFrame(p)
  BY <1>1 DEF StartOf, StartFrame, DataOf, EmptyOf, SessionFrame
<1>3. QED
  BY <1>2, LinkAssumption DEF PatternFrame, Own

LEMMA FrameCleans ==
  ASSUME CardInv, OutcomeInv, NEW f \in WireFrame \cup {StatusFrame}, HandleFrame(f),
         request' \in {request, NoRequest}, NEW id \in Own, Cleans(id),
         f.type = "START" /\ f.tid = id => f.body.clean
  PROVE  Cleans(id)'
<1>1. /\ UNCHANGED storeVars
      /\ Untouched \/ (f \in WireFrame /\ (Reopens(f) \/ Advances \/ Orders(f)))
  BY FrameEffect
<1>2. \A g \in {prepared', staging'} \cap Kept : g.tid = id => g.clean
  BY <1>1 DEF storeVars, Cleans
<1>3. request'.type = "START" /\ request'.tid = id => request'.body.clean
  BY NoFrames DEF Cleans
<1>4. t'.tid = id => t'.clean \/ (t'.crc = NoCrc /\ state' \in {"COMPLETE", "ERROR"})
  <2>1. CASE Untouched
    BY <2>1 DEF Untouched, Cleans
  <2>2. CASE f \in WireFrame /\ Reopens(f)
    <3>1. CASE t' = t /\ t.last.type = "START"
      BY <3>1 DEF OutcomeInv, Cleans
    <3>2. CASE t'.tid = f.tid /\ (f.type = "START" => t'.clean = f.body.clean)
      <4>1. t'.tid = id => f.type = "START" /\ f.body.clean
        BY <2>2, <3>2, PatternIsForeign DEF Reopens
      <4>2. QED
        BY <3>2, <4>1, Zenon
    <3>3. QED
      BY <2>2, <3>1, <3>2 DEF Reopens
  <2>3. CASE Advances
    <3>1. t'.tid = t.tid /\ t'.clean = t.clean /\ t'.crc = t.crc
      BY <2>3 DEF Advances, SameSession
    <3>2. t.tid = id => t.clean \/ (t.crc = NoCrc /\ state' \in {"COMPLETE", "ERROR"})
      BY <2>3 DEF Advances, Cleans
    <3>3. QED
      BY <3>1, <3>2, Zenon
  <2>4. CASE Orders(f)
    <3>1. t'.tid = t.tid /\ t'.clean = t.clean /\ state = "READY"
      BY <2>4 DEF Orders, SameSession
    <3>2. t.tid = id => t.clean
      BY <3>1 DEF Cleans
    <3>3. QED
      BY <3>1, <3>2, Zenon
  <2>5. QED
    BY <1>1, <2>1, <2>2, <2>3, <2>4
<1>5. QED
  BY <1>2, <1>3, <1>4 DEF Cleans

\* Nothing bears the next id yet.
LEMMA NextIsUnused ==
  ASSUME LinkInv, nextID \in Own
  PROVE  Cleans(nextID)
<1>1. nextID \in Nat
  BY DEF LinkInv, MailInv
<1>2. t.tid # nextID /\ \A f \in Frames \cap Kept : f.tid # nextID
  BY <1>1 DEF LinkInv, IdInv
<1>3. request = NoRequest \/ request.tid # nextID
  BY <1>1 DEF LinkInv, IdInv
<1>4. QED
  BY <1>2, <1>3, NoFrames DEF Cleans, Frames

-----------------------------------------------------------------------------
(* The card's steps, and the other phone's.                                *)

\* The coordinator does nothing.
JobSame == UNCHANGED <<job, nextID, at, waiting, outcome>>

LEMMA RunRecords ==
  ASSUME WorkInv, CardStep \/ CardBrownout
  PROVE  OutcomeInv' /\ CleanWorkInv' /\ (ConfirmInv => ConfirmInv')
<1>1. CardInv /\ (Card \/ Brownout) /\ JobSame /\ UNCHANGED <<request, reply>>
  BY DEF WorkInv, LinkInv, CardStep, CardRuns, CardBrownout, coordinator, JobSame
<1>2. OutcomeInv'
  BY <1>1, RunOutcome DEF WorkInv
<1>3. CleanWorkInv'
  BY <1>1, RunCleans DEF WorkInv, CleanWorkInv, JobSame
<1>4. t' = t
  BY <1>1, RunEffect
<1>5. state \in {"COMPLETE", "ERROR"} /\ OnRecord =>
          state' \in {"COMPLETE", "ERROR"} /\ OnRecord'
  BY <1>1, <1>4, Rests DEF OnRecord, storeVars, panelVars
<1>6. ConfirmInv => ConfirmInv'
  BY <1>1, <1>4, <1>5 DEF ConfirmInv, OwnTransfer, Answered, Accepts, JobSame
<1>7. QED
  BY <1>2, <1>3, <1>6

LEMMA PowerRecords ==
  ASSUME WorkInv, CardLosesPower
  PROVE  OutcomeInv' /\ CleanWorkInv' /\ (~ Resets => ConfirmInv')
<1>1. /\ CardInv /\ PowerCycle /\ JobSame /\ request' = NoRequest
      /\ ~ Resets => at = "away"
  BY DEF WorkInv, LinkInv, CardLosesPower, coordinator, JobSame
<1>2. CleanWorkInv'
  BY <1>1, PowerCleans DEF WorkInv, CleanWorkInv, JobSame
<1>3. ~ Resets => ConfirmInv'
  BY <1>1 DEF ConfirmInv, JobSame
<1>4. QED
  BY <1>1, <1>2, <1>3, PowerOutcome

LEMMA ReadRecords ==
  ASSUME WorkInv, CardReads
  PROVE  OutcomeInv' /\ CleanWorkInv' /\ (ConfirmInv => ConfirmInv')
<1>1. /\ CardInv /\ OutcomeInv /\ request # NoRequest /\ HandleFrame(request)
      /\ request' = NoRequest /\ JobSame
      /\ request \in WireFrame \cup {StatusFrame}
  BY DEF WorkInv, LinkInv, MailInv, CardReads, coordinator, JobSame
<1>2. OutcomeInv'
  BY <1>1, FrameOutcome
<1>3. CleanWorkInv'
  <2>1. ASSUME job.work.batch, job.work.id \in Own
        PROVE  Cleans(job.work.id)'
    <3>1. Cleans(job.work.id)
      BY <2>1 DEF WorkInv, CleanWorkInv
    <3>2. request.type = "START" /\ request.tid = job.work.id => request.body.clean
      BY <3>1 DEF Cleans
    <3>3. \A id \in Own : id = job.work.id => Cleans(id)'
      BY <1>1, <3>1, <3>2, FrameCleans
    <3>4. QED
      BY <1>1, <2>1, <3>3 DEF JobSame, Cleans
  <2>2. QED
    BY <1>1, <2>1 DEF CleanWorkInv, JobSame
<1>4. at = "confirm" => UNCHANGED <<t, state>>
  <2>1. at = "confirm" => request = StatusFrame
    BY <1>1 DEF WorkInv, LinkInv, ErrorInv
  <2>2. QED
    BY <1>1, <2>1, FrameEffect, NoFrames DEF Untouched
<1>5. ConfirmInv /\ at = "confirm" => OwnTransfer'
  BY <1>1, <1>4 DEF ConfirmInv, OwnTransfer, JobSame
<1>6. Answered' /\ at = "execute" /\ Accepts(reply') => OwnTransfer'
  <2>1. SUFFICES ASSUME Answered', at = "execute", Accepts(reply')
                 PROVE  OwnTransfer'
    OBVIOUS
  <2>2. waiting /\ reply' # NoReply
    BY <1>1, <2>1 DEF Answered, JobSame
  <2>3. request.type = "EXECUTE" /\ request.tid = job.work.id /\ job.work.id \in Own
    BY <1>1, <2>1, <2>2 DEF WorkInv, LinkInv, FieldInv, IdInv
  <2>4. request \in WireFrame
    BY <1>1, <2>3, NoFrames
  <2>5. request.tid = t.tid /\ state = "READY" /\ SameSession(t', t)
    BY <1>1, <2>1, <2>2, <2>3, <2>4, ExecuteReply
  <2>6. job.work.batch => t.clean
    BY <2>3, <2>5 DEF WorkInv, CleanWorkInv, Cleans
  <2>7. t'.tid = t.tid /\ t'.clean = t.clean
    BY <2>5 DEF SameSession
  <2>8. QED
    BY <1>1, <2>3, <2>5, <2>6, <2>7, Zenon DEF OwnTransfer, JobSame
<1>7. Answered' /\ at = "confirm" /\ reply'.state = "COMPLETE" => state' = "COMPLETE"
  BY <1>1, ReplyFields DEF Answered
<1>8. ConfirmInv => ConfirmInv'
  BY <1>1, <1>2, <1>5, <1>6, <1>7 DEF ConfirmInv, OutcomeInv, JobSame
<1>9. QED
  BY <1>2, <1>3, <1>8

\* A step that leaves the card as it was.
LEMMA StillRecords ==
  ASSUME WorkInv, Still
  PROVE  OutcomeInv' /\ \A id \in Own : Cleans(id) => Cleans(id)'
<1>1. UNCHANGED <<t, state, clean_active, request, committed, prepared, staging, adrift>>
  BY DEF Still, storeVars, panelVars
<1>2. QED
  BY <1>1 DEF WorkInv, OutcomeInv, OnRecord, Acking, Cleans

LEMMA OtherRecords ==
  ASSUME WorkInv, OtherPhone
  PROVE  OutcomeInv' /\ CleanWorkInv' /\ (ConfirmInv => ConfirmInv')
<1>1. JobSame /\ at = "away" /\ request = NoRequest /\ request' = NoRequest
  BY DEF OtherPhone, coordinator, JobSame
<1>2. ConfirmInv'
  <2>1. at' = "away"
    BY <1>1 DEF JobSame
  <2>2. QED
    BY <2>1 DEF ConfirmInv
<1>3. CASE PhoneReads /\ reply' = NoReply /\ current_error' = current_error
  <2>1. Still
    BY <1>1, <1>3, PhoneStill DEF WorkInv
  <2>2. QED
    BY <1>1, <1>2, <2>1, StillRecords DEF WorkInv, CleanWorkInv, JobSame
<1>4. CASE \E f \in PhoneFrame : f.tid \in {p.tid : p \in Others} /\ HandleFrame(f)
  <2>1. PICK f \in PhoneFrame : f.tid \in {p.tid : p \in Others} /\ HandleFrame(f)
    BY <1>4
  <2>2. f \in WireFrame /\ f.tid \notin Own
    BY <2>1, OtherFrames, PhoneFrames
  <2>3. CardInv /\ OutcomeInv
    BY DEF WorkInv, LinkInv
  <2>4. OutcomeInv'
    BY <2>1, <2>2, <2>3, FrameOutcome
  <2>5. \A id \in Own : Cleans(id) => Cleans(id)'
    BY <1>1, <2>1, <2>2, <2>3, FrameCleans
  <2>6. QED
    BY <1>1, <1>2, <2>4, <2>5 DEF WorkInv, CleanWorkInv, JobSame
<1>5. QED
  BY <1>3, <1>4 DEF OtherPhone

-----------------------------------------------------------------------------
(* The coordinator's steps.                                                *)

\* The work goes on, is given up, or is a new one.
Kin(j) ==
    /\ job.clean => j.clean
    /\ \/ j.work.id = 0
       \/ j.work.id = nextID /\ j.work.batch = j.clean
       \/ /\ j.work.id = job.work.id /\ j.work.batch = job.work.batch
          /\ j.clean = job.clean

LEMMA SendRecords ==
  ASSUME WorkInv, AskStatus \/ SendUpload \/ AskReady \/ SendExecute \/ AskConfirm
  PROVE  OutcomeInv' /\ CleanWorkInv' /\ (ConfirmInv => ConfirmInv')
<1>1. PICK frame :
         /\ Send(frame)
         /\ \/ frame = StatusFrame /\ job' = job
            \/ at = "upload" /\ frame = UploadFrame(job.work)
            \/ at = "execute" /\ frame.type = "EXECUTE"
  BY DEF AskStatus, SendUpload, AskReady, SendExecute, AskConfirm
<1>2. /\ UNCHANGED <<t, state, clean_active, storeVars, panelVars, reply, host, at>>
      /\ request' = frame /\ host = "empty"
  BY <1>1 DEF Send, card, loopVars
<1>3. reply' = NoReply
  BY <1>2 DEF WorkInv, LinkInv, MailInv
<1>4. job'.work.id = job.work.id /\ job'.work.batch = job.work.batch
  <2>1. job \in JobType
    BY DEF WorkInv, LinkInv, MailInv
  <2>2. CASE AskStatus \/ AskReady \/ AskConfirm
    BY <2>2 DEF AskStatus, AskReady, AskConfirm
  <2>3. CASE SendExecute
    BY <2>1, <2>3 DEF SendExecute, JobType, WorkType
  <2>4. CASE SendUpload
    BY <2>1, <2>4 DEF SendUpload, JobType, WorkType
  <2>5. QED
    BY <2>2, <2>3, <2>4
<1>5. UNCHANGED <<committed, prepared, staging, adrift>>
  BY <1>2 DEF storeVars, panelVars
<1>6. OutcomeInv'
  BY <1>2, <1>5 DEF WorkInv, OutcomeInv, OnRecord, Acking
<1>7. ConfirmInv => ConfirmInv'
  BY <1>2, <1>3, <1>4 DEF ConfirmInv, OwnTransfer, Answered
<1>8. job.work.batch /\ job.work.id \in Own /\ frame.type = "START" => frame.body.clean
  <2>1. CASE frame = StatusFrame
    BY <2>1, NoFrames
  <2>2. CASE frame = UploadFrame(job.work)
    BY <2>2, WorkFrames DEF WorkInv
  <2>3. QED
    BY <1>1, <2>1, <2>2
<1>9. CleanWorkInv'
  BY <1>2, <1>4, <1>5, <1>8 DEF WorkInv, CleanWorkInv, Cleans
<1>10. QED
  BY <1>6, <1>7, <1>9

\* Only a run that waits for a confirmation, or just had its EXECUTE accepted,
\* waits for one.
LEMMA KinKeeps ==
  ASSUME WorkInv, Still, waiting' = FALSE, job'.work.id = 0 \/ Kin(job'),
         at' = "confirm" =>
             /\ job'.work.id = job.work.id /\ job'.work.batch = job.work.batch
             /\ at = "confirm" \/ (at = "execute" /\ Answered /\ Accepts(reply))
  PROVE  OutcomeInv' /\ CleanWorkInv' /\ (ConfirmInv => ConfirmInv')
<1>1. t' = t
  BY DEF Still
<1>2. ConfirmInv /\ at' = "confirm" => OwnTransfer'
  BY <1>1 DEF ConfirmInv, OwnTransfer
<1>3. ConfirmInv => ConfirmInv'
  BY <1>2 DEF ConfirmInv, Answered
<1>4. CleanWorkInv'
  <2>1. SUFFICES ASSUME NEW id \in Own, id = job'.work.id, job'.work.batch
                 PROVE  Cleans(id)'
    BY DEF CleanWorkInv, Cleans
  <2>2. Cleans(id)
    BY <2>1, NextIsUnused, Numbers DEF Kin, WorkInv, CleanWorkInv
  <2>3. UNCHANGED <<t, state, request, prepared, staging>>
    BY DEF Still, storeVars
  <2>4. QED
    BY <2>2, <2>3 DEF Cleans
<1>5. QED
  BY <1>3, <1>4, StillRecords

LEMMA EndKin ==
  ASSUME NEW j \in JobType, Kin(j),
         Throw(j) \/ Inconsistent(j) \/ NeedResume(j) \/ HoldField(j)
  PROVE  Kin(job') /\ at' = "away" /\ waiting' = FALSE
<1>1. PICK k : (k = j \/ k = Forget(j)) /\ job' = [k EXCEPT !.recovery = TRUE]
                 /\ at' = "away" /\ waiting' = FALSE
  BY DEF Throw, Inconsistent, NeedResume, HoldField, Ended
<1>2. LET e == [j EXCEPT !.recovery = TRUE] IN e.work = j.work /\ e.clean = j.clean
  BY DEF JobType
<1>3. LET e == [Forget(j) EXCEPT !.recovery = TRUE]
      IN  e.work = NoWork /\ e.clean = TRUE /\ NoWork.id = 0
  BY DEF JobType, Forget, NoWork, Work
<1>4. QED
  BY <1>1, <1>2, <1>3 DEF Kin

LEMMA InactiveKin ==
  ASSUME NEW j \in JobType
  PROVE  /\ Inactive(j) \in JobType /\ Inactive(j).clean = j.clean
         /\ Inactive(j).work.id = j.work.id /\ Inactive(j).work.batch = j.work.batch
BY DEF Inactive, JobType, WorkType

\* What the step made of the job and where it goes.
Goes ==
    /\ Still /\ waiting' = FALSE
    /\ \/ Prepare /\ job'.work.id = 0
       \/ /\ job # NoJob /\ (UNCHANGED budget \/ Spend("faults"))
          /\ (job' = NoJob /\ job'.work.id = 0) \/ Kin(job')
    /\ at' = "confirm" =>
           /\ job'.work.id = job.work.id /\ job'.work.batch = job.work.batch
           /\ at = "confirm" \/ (at = "execute" /\ Answered /\ Accepts(reply))

LEMMA AnswersGo ==
  ASSUME WorkInv,
         \/ Receive("status", FirstStatus) \/ Receive("upload", Uploaded)
         \/ Receive("ready", ReadySeen) \/ Receive("execute", Executed)
         \/ Receive("confirm", Confirmed) \/ RecoveryEnds
  PROVE  Goes
<1>1. /\ InRun /\ waiting /\ PhoneReads /\ reply' = NoReply
      /\ UNCHANGED <<request, current_error>> /\ LinkInv
      /\ UNCHANGED budget \/ Spend("faults")
  BY DEF Receive, RecoveryEnds, InRun, WorkInv
<1>2. /\ Still /\ Answered /\ reply.gray \in BOOLEAN
      /\ job # NoJob /\ (UNCHANGED budget \/ Spend("faults"))
  BY <1>1, Reads DEF InRun, LinkInv, IdInv
<1>3. job \in JobType /\ nextID \in Nat /\ Kin(job)
  BY <1>1 DEF LinkInv, MailInv, Kin
<1>4. Inactive(job) \in JobType /\ Kin(Inactive(job))
  BY <1>3, InactiveKin DEF Kin
<1>5. \A j \in {job, Inactive(job)} : Throw(j) \/ Inconsistent(j) => Goes
  BY <1>2, <1>3, <1>4, EndKin DEF Goes
<1>6. \A place, j :
          /\ Proceed(place, j) /\ j.work.id = job.work.id /\ j.work.batch = job.work.batch
          /\ j.clean = job.clean
          /\ place = "confirm" => at = "confirm" \/ (at = "execute" /\ Accepts(reply))
          => Goes
  BY <1>2 DEF Goes, Proceed, Kin
<1>7. CASE Receive("status", FirstStatus)
  <2>1. FirstStatus(reply)
    BY <1>7 DEF Receive
  <2>2. CASE HoldField(job)
    BY <1>2, <1>3, <2>2, EndKin DEF Goes
  <2>3. CASE /\ job' = Planned(job, reply) /\ waiting' = FALSE
             /\ at' = IF job'.work.committed THEN "ready" ELSE "upload"
    <3>1. /\ job.clean => job'.clean
          /\ \/ job'.work = job.work /\ job'.clean = job.clean
             \/ \E batch \in BOOLEAN :
                    job'.work = Work(nextID, batch, reply.gray) /\ job'.clean = batch
      BY <1>2, <1>3, <2>3, PlannedWork
    <3>2. \A batch : LET w == Work(nextID, batch, reply.gray)
                    IN  w.id = nextID /\ w.batch = batch
      BY DEF Work
    <3>3. Kin(job')
      BY <3>1, <3>2 DEF Kin
    <3>4. QED
      BY <1>2, <2>3, <3>3 DEF Goes
  <2>4. QED
    BY <2>1, <2>2, <2>3 DEF FirstStatus
<1>8. CASE Receive("upload", Uploaded)
  <2>1. Uploaded(reply)
    BY <1>8 DEF Receive
  <2> DEFINE back == [job EXCEPT !.work.started = FALSE, !.work.high = 0]
             moved == [job EXCEPT !.work.seq = reply.seq, !.work.off = reply.off]
             w == [job.work EXCEPT !.started = TRUE, !.seq = reply.seq, !.off = reply.off,
                                   !.committed = reply.type = "COMMIT"]
             on == [job EXCEPT !.work = w]
  <2>2. \A j \in {back, moved, on} :
            /\ j.work.id = job.work.id /\ j.work.batch = job.work.batch
            /\ j.clean = job.clean
    <3>1. job.work \in WorkType
      BY <1>3 DEF JobType
    <3>2. w.id = job.work.id /\ w.batch = job.work.batch
      BY <3>1 DEF WorkType
    <3>3. on.work = w /\ on.clean = job.clean
      BY <1>3 DEF JobType
    <3>4. back.work.id = job.work.id /\ back.work.batch = job.work.batch
          /\ back.clean = job.clean
      BY <1>3 DEF JobType, WorkType
    <3>5. moved.work.id = job.work.id /\ moved.work.batch = job.work.batch
          /\ moved.clean = job.clean
      BY <1>3 DEF JobType, WorkType
    <3>6. QED
      BY <3>2, <3>3, <3>4, <3>5
  <2>3. \/ Throw(job) \/ Inconsistent(job)
        \/ \E place \in {"upload", "ready"}, j \in {back, moved, on} : Proceed(place, j)
    BY <2>1 DEF Uploaded
  <2> HIDE DEF back, moved, w, on
  <2>4. QED
    BY <1>5, <1>6, <2>2, <2>3
<1>9. CASE Receive("ready", ReadySeen)
  <2>1. ReadySeen(reply)
    BY <1>9 DEF Receive
  <2>2. QED
    BY <1>5, <1>6, <2>1 DEF ReadySeen
<1>10. CASE Receive("execute", Executed)
  <2>1. Executed(reply) /\ at = "execute"
    BY <1>10 DEF Receive
  <2> DEFINE on == [job EXCEPT !.work.executeAcknowledged = TRUE,
                              !.work.seq = reply.seq, !.work.off = reply.off]
  <2>2. \A j \in {Inactive(job), on} :
            /\ j.work.id = job.work.id /\ j.work.batch = job.work.batch
            /\ j.clean = job.clean
    <3>1. on.work.id = job.work.id /\ on.work.batch = job.work.batch
          /\ on.clean = job.clean
      BY <1>3 DEF JobType, WorkType
    <3>2. QED
      BY <1>3, <3>1, InactiveKin
  <2>3. \/ Throw(Inactive(job)) \/ Proceed("ready", Inactive(job))
        \/ Proceed("confirm", on) /\ Accepts(reply)
    BY <2>1 DEF Executed, Accepts
  <2> HIDE DEF on
  <2>4. QED
    BY <1>5, <1>6, <2>1, <2>2, <2>3
<1>11. CASE Receive("confirm", Confirmed)
  <2>1. Confirmed(reply) /\ at = "confirm"
    BY <1>11 DEF Receive
  <2> DEFINE j == IF reply.state \in {"ERROR", "BOOT", "RECEIVING"} THEN Inactive(job)
                  ELSE job
  <2>2. j \in JobType /\ j.work.id = job.work.id /\ j.work.batch = job.work.batch
        /\ j.clean = job.clean
    BY <1>3, InactiveKin
  <2>3. /\ Inactive(j) \in JobType
        /\ Inactive(j).work.id = job.work.id /\ Inactive(j).work.batch = job.work.batch
        /\ Inactive(j).clean = job.clean
    BY <2>2, InactiveKin
  <2>4. \/ Completed
        \/ Proceed("confirm", j) \/ Proceed("execute", Inactive(j))
        \/ \E k \in {j, Inactive(j)} : Throw(k) \/ Inconsistent(k)
    BY <2>1 DEF Confirmed
  <2> HIDE DEF j
  <2>5. CASE Completed
    <3>1. job' = NoJob /\ job'.work.id = 0 /\ at' = "away" /\ waiting' = FALSE
      BY <2>5 DEF Completed, NoJob, Work
    <3>2. QED
      BY <1>2, <3>1 DEF Goes
  <2>6. CASE Proceed("confirm", j) \/ Proceed("execute", Inactive(j))
    BY <1>6, <2>1, <2>2, <2>3, <2>6
  <2>7. CASE \E k \in {j, Inactive(j)} : Throw(k) \/ Inconsistent(k)
    <3>1. \A k \in {j, Inactive(j)} : k \in JobType /\ Kin(k)
      BY <2>2, <2>3 DEF Kin
    <3>2. QED
      BY <1>2, <2>7, <3>1, EndKin DEF Goes
  <2>8. QED
    BY <2>4, <2>5, <2>6, <2>7
<1>12. CASE RecoveryEnds
  BY <1>5, <1>12 DEF RecoveryEnds
<1>13. QED
  BY <1>7, <1>8, <1>9, <1>10, <1>11, <1>12

LEMMA OthersGo ==
  ASSUME WorkInv, DropReply \/ ExchangeFails \/ OutOfTime \/ Prepare \/ Scan
  PROVE  Goes
<1>1. LinkInv /\ job \in JobType /\ Kin(job) /\ (~ waiting => waiting = FALSE)
  BY DEF WorkInv, LinkInv, MailInv, Kin
<1>2. Still
  BY <1>1, PhoneStill DEF DropReply, ExchangeFails, OutOfTime, Prepare, Scan
<1>3. DropReply \/ ExchangeFails \/ OutOfTime \/ Scan
          => job # NoJob /\ (UNCHANGED budget \/ Spend("faults"))
  BY <1>1 DEF DropReply, ExchangeFails, OutOfTime, Scan, InRun, LinkInv, IdInv, Counted
<1>4. CASE DropReply \/ Scan
  <2>1. waiting' = FALSE /\ job' = job /\ (at' = "confirm" => at = "confirm")
    BY <1>1, <1>4 DEF DropReply, Scan, coordinator, LinkInv, MailInv
  <2>2. QED
    BY <1>1, <1>2, <1>3, <1>4, <2>1 DEF Goes, Kin
<1>5. CASE Prepare
  <2>1. waiting' = FALSE /\ at' = "away"
    BY <1>1, <1>5 DEF Prepare, LinkInv, MailInv
  <2>2. job'.work.id = 0
    BY <1>5 DEF Prepare, Job, NoWork, Work
  <2>3. QED
    BY <1>2, <1>5, <2>1, <2>2 DEF Goes
<1>6. CASE ExchangeFails \/ OutOfTime
  <2>1. \/ Throw(job) \/ NeedResume(job) \/ HoldField(job)
        \/ Proceed(at, job)
    BY <1>6 DEF ExchangeFails, OutOfTime
  <2>2. CASE Proceed(at, job)
    BY <1>1, <1>2, <1>3, <1>6, <2>2 DEF Goes, Proceed, Kin
  <2>3. QED
    BY <1>1, <1>2, <1>3, <1>6, <2>1, <2>2, EndKin DEF Goes
<1>7. QED
  BY <1>4, <1>5, <1>6

-----------------------------------------------------------------------------
(* Success.                                                                *)

LEMMA RecordInit ==
  ASSUME LinkInit
  PROVE  RecordInv
<1>1. LinkInv
  BY LinkInitStep
<1>2. Init /\ at = "away" /\ waiting = FALSE /\ job.work.id = 0
  BY DEF LinkInit, NoJob, Work
<1>3. OutcomeInv
  <2>1. adrift = {} /\ prepared = NoFrame /\ ~ Acking /\ t.last.type # "START"
    BY <1>2 DEF Init, Acking, Resumed, ResetTransfer, NothingRemembered
  <2>2. state = "COMPLETE" => committed # NoFrame /\ committed.tid = t.tid
    BY <1>2 DEF Init, Resumed, ResetTransfer
  <2>3. QED
    BY <2>1, <2>2 DEF OutcomeInv, OnRecord
<1>4. CleanWorkInv
  BY <1>2, Numbers DEF CleanWorkInv
<1>5. ConfirmInv
  BY <1>2 DEF ConfirmInv, Answered
<1>6. QED
  BY <1>1, <1>3, <1>4, <1>5 DEF RecordInv, WorkInv

LEMMA RecordIdle ==
  ASSUME WorkInv, UNCHANGED linkVars
  PROVE  OutcomeInv' /\ CleanWorkInv' /\ (ConfirmInv => ConfirmInv')
<1>1. UNCHANGED <<t, state, clean_active, committed, prepared, staging, adrift, request,
                  reply, job, at, waiting>>
  BY DEF linkVars, coordinator, vars, loopVars, storeVars, panelVars
<1>2. QED
  BY <1>1 DEF WorkInv, OutcomeInv, CleanWorkInv, Cleans, ConfirmInv, OwnTransfer, OnRecord,
              Acking, Answered, Accepts

LEMMA WorkKeeps ==
  ASSUME WorkInv, [LinkNext]_linkVars
  PROVE  WorkInv' /\ (~ Resets /\ ConfirmInv => ConfirmInv')
<1>1. LinkInv'
  BY LinkKeeps DEF WorkInv
<1>2. OutcomeInv' /\ CleanWorkInv' /\ (~ Resets /\ ConfirmInv => ConfirmInv')
  <2>1. CASE Goes
    BY <2>1, KinKeeps DEF Goes
  <2>2. QED
    BY <2>1, RunRecords, PowerRecords, ReadRecords, OtherRecords, SendRecords, AnswersGo,
       OthersGo, RecordIdle
    DEF LinkNext, Coordinator
<1>3. QED
  BY <1>1, <1>2 DEF WorkInv

(* As long as the card keeps its power while a phone holds it, a run that     *)
(* waits for a confirmation waits for its own transfer, which is one with    *)
(* cleaning when the job is, and an answer that says COMPLETE is about a     *)
(* transfer on record.                                                       *)
THEOREM RecordInductive == ~ Resets /\ LinkSpec => []RecordInv
<1>1. LinkInit => RecordInv
  BY RecordInit
<1>2. ASSUME ~ Resets
      PROVE  LinkSpec => []RecordInv
  <2>1. RecordInv /\ [LinkNext]_linkVars => RecordInv'
    BY <1>2, WorkKeeps DEF RecordInv
  <2>2. QED
    BY <1>1, <2>1, PTL DEF LinkSpec
<1>3. QED
  BY <1>2

\* Only a confirmation completes a job.
LEMMA Completers ==
  ASSUME LinkNext, Completes
  PROVE  Receive("confirm", Confirmed) /\ reply.state = "COMPLETE"
<1>1. \A result, j : Ended(result, j) => outcome' = result
  BY DEF Ended
<1>2. \A j : /\ Throw(j) \/ Inconsistent(j) \/ NeedResume(j) \/ HoldField(j)
             => outcome' # "completed"
  BY <1>1 DEF Throw, Inconsistent, NeedResume, HoldField
<1>3. \A place, j : Proceed(place, j) => outcome' = outcome
  BY DEF Proceed
<1>4. ~ ExchangeFails /\ ~ OutOfTime /\ ~ RecoveryEnds
  BY <1>2, <1>3 DEF ExchangeFails, OutOfTime, RecoveryEnds, Completes
<1>5. ~ Prepare /\ ~ Scan /\ ~ DropReply /\ ~ CardReads /\ ~ CardStep /\ ~ CardLosesPower
      /\ ~ CardBrownout /\ ~ OtherPhone
  BY DEF Prepare, Scan, DropReply, CardReads, CardStep, CardRuns, CardLosesPower,
         CardBrownout, OtherPhone, coordinator, Completes
<1>6. ~ AskStatus /\ ~ SendUpload /\ ~ AskReady /\ ~ SendExecute /\ ~ AskConfirm
  BY DEF AskStatus, SendUpload, AskReady, SendExecute, AskConfirm, Send, Completes
<1>7. ~ Receive("status", FirstStatus)
  BY <1>2 DEF Receive, FirstStatus, Completes
<1>8. ~ Receive("upload", Uploaded) /\ ~ Receive("ready", ReadySeen)
      /\ ~ Receive("execute", Executed)
  BY <1>2, <1>3 DEF Receive, Uploaded, ReadySeen, Executed, Completes
<1>9. Receive("confirm", Confirmed)
  BY <1>4, <1>5, <1>6, <1>7, <1>8 DEF LinkNext, Coordinator
<1>10. reply.state = "COMPLETE"
  <2>1. Confirmed(reply)
    BY <1>9 DEF Receive
  <2>2. QED
    BY <1>2, <1>3, <2>1 DEF Confirmed, Completes
<1>11. QED
  BY <1>9, <1>10

\* What is true of the card when success is reported.
LEMMA CompletionIsTrue ==
  ASSUME RecordInv, LinkNext, Completes
  PROVE  /\ OnRecord /\ OwnTransfer
         /\ committed.image = Target /\ committed.format = "mono"
<1>1. at = "confirm" /\ waiting /\ PhoneReads /\ reply.state = "COMPLETE"
  BY Completers DEF Receive
<1>2. Answered
  BY <1>1 DEF Answered, PhoneReads, RecordInv, WorkInv, LinkInv, MailInv
<1>3. OnRecord /\ OwnTransfer
  BY <1>1, <1>2 DEF RecordInv, ConfirmInv
<1>4. job.work.id \in Own
  BY <1>1 DEF RecordInv, WorkInv, LinkInv, IdInv
<1>5. committed \in Kept /\ committed.tid = job.work.id
  BY <1>3 DEF OnRecord, OwnTransfer, RecordInv, WorkInv, LinkInv, CardInv, StoreInv
<1>6. QED
  BY <1>3, <1>4, <1>5, KeptOwn

(* When the coordinator reports success the card has the target on record,   *)
(* under the transfer id this work was given, and nothing else prepared:     *)
(* the COMPLETE of another picture, or of an earlier transfer, is never      *)
(* taken for it, whatever sessions and replies were lost on the way.         *)
THEOREM CompletedIsAlwaysRecorded == ~ Resets /\ LinkSpec => CompletedIsRecorded
<1>1. RecordInv /\ [LinkNext]_linkVars =>
          [Completes => /\ committed # NoFrame
                        /\ committed.tid = job.work.id
                        /\ committed.image = Target
                        /\ prepared = NoFrame]_linkVars
  BY CompletionIsTrue DEF OnRecord, OwnTransfer
<1>2. QED
  BY <1>1, RecordInductive, PTL DEF LinkSpec, CompletedIsRecorded

LEMMA CleanedStep ==
  ASSUME RecordInv, LinkNext, Completes, job.work.batch
  PROVE  TargetIsShown
<1>1. committed # NoFrame /\ adrift = {} /\ committed.image = Target /\ committed.format = "mono"
  BY CompletionIsTrue DEF OnRecord, OwnTransfer
<1>2. \A i \in Strip : Shows(i, committed)
  BY <1>1 DEF RecordInv, WorkInv, LinkInv, CardInv, DriftInv
<1>3. QED
  BY <1>1, <1>2 DEF Shows, TargetIsShown

(* ... and after an upload with cleaning every strip of the panel shows the   *)
(* target, whatever refreshes of other jobs and phones were cut short before.*)
THEOREM CleanedIsAlwaysShown == ~ Resets /\ LinkSpec => CleanedIsShown
<1>1. RecordInv /\ [LinkNext]_linkVars =>
          [Completes /\ job.work.batch => TargetIsShown]_linkVars
  BY CleanedStep
<1>2. QED
  BY <1>1, RecordInductive, PTL DEF LinkSpec, CleanedIsShown

-----------------------------------------------------------------------------
(* Without cleaning: one job, and no other phone.                          *)

\* All that the card holds is of the job, or from the factory.
AloneIds ==
    /\ t.tid \in Own \cup {0}
    /\ \A f \in Frames \cap Kept : f.tid \in Own \cup {0}

\* No transfer with cleaning is or was on its way, and the panel has been driven
\* toward nothing but the target.
Uncleaned ==
    /\ ~ t.clean /\ ~ clean_active
    /\ request.type = "START" => ~ request.body.clean
    /\ \A f \in {prepared, staging} \cap Kept : ~ f.clean
    /\ adrift \subseteq {Target}

\* A job that is not to be cleaned never was: what a run left half done is repeated
\* with cleaning, and the job stays so.
JobsInv ==
    /\ budget = [jobs |-> budget.jobs, others |-> 0, faults |-> budget.faults]
    /\ budget.jobs = 0 \/ (budget.jobs = 1 /\ job = NoJob)
    /\ (IF job = NoJob THEN budget.jobs = 1 ELSE ~ job.clean) => Uncleaned
    /\ job # NoJob /\ job.work.id # 0 => job.work.batch = job.clean

\* The work is prepared on the card, or shown.
InHand ==
    /\ t.tid = job.work.id /\ staged
    /\ prepared # NoFrame /\ prepared.tid = job.work.id
    /\ state \in {"CHARGING", "READY", "EXECUTE_ACK", "REFRESHING", "ERROR"}

Settled ==
    /\ TargetIsShown /\ prepared = NoFrame
    /\ state \in {"COMPLETE", "ERROR", "RECEIVING"}

Waits == at = "confirm" \/ (at = "execute" /\ Answered /\ Accepts(reply))

\* From the acceptance of its EXECUTE on.
ShownInv ==
    /\ Waits => InHand \/ Settled
    /\ at = "confirm" /\ Answered /\ reply.state = "COMPLETE" => Settled

AloneInv == WorkInv /\ AloneIds /\ JobsInv /\ ShownInv

-----------------------------------------------------------------------------
LEMMA AloneMono ==
  ASSUME WorkInv, AloneIds
  PROVE  t.format # "gray" /\ ~ IsGray /\ ~ full_first
<1>1. t.format # "gray"
  BY DEF WorkInv, LinkInv, IdInv, AloneIds
<1>2. committed_format # "gray"
  <2>1. committed \in Kept \cup {NoFrame}
    BY DEF WorkInv, LinkInv, CardInv, StoreInv
  <2>2. committed \in Kept => committed.format = "mono"
    BY KeptOwn DEF AloneIds, Frames
  <2>3. QED
    BY <2>1, <2>2 DEF committed_format
<1>3. QED
  BY <1>1, <1>2 DEF IsGray, WorkInv, LinkInv, CardInv, CleanInv

\* Without cleaning the panel is driven toward the target.
LEMMA QuietTarget ==
  ASSUME WorkInv, AloneIds, ~ clean_active, Acking
  PROVE  CurrentImage = Target
<1>1. CardInv /\ staged /\ state \in Holding
  BY DEF WorkInv, LinkInv, CardInv, StateInv, Acking, Holding
<1>2. ~ SecondPlane
  BY AloneMono DEF SecondPlane
<1>3. prepared # NoFrame /\ prepared.tid = t.tid /\ prepared.image = buf
  BY <1>1, <1>2 DEF CardInv, HoldingInv
<1>4. prepared \in Kept
  BY <1>1, <1>3 DEF CardInv, StoreInv
<1>5. t.tid \in Own
  BY DEF WorkInv, LinkInv, IdInv, AloneIds
<1>6. buf = Target
  BY <1>3, <1>4, <1>5, KeptOwn
<1>7. QED
  BY <1>6 DEF CurrentImage

LEMMA RunUncleaned ==
  ASSUME WorkInv, AloneIds, Uncleaned, Card \/ Brownout, request' = request
  PROVE  Uncleaned'
<1>1. CardInv
  BY DEF WorkInv, LinkInv
<1>2. t' = t /\ ~ clean_active'
  BY <1>1, RunEffect DEF Uncleaned
<1>3. ASSUME NEW f \in {prepared', staging'} \cap Kept
      PROVE  ~ f.clean
  <2>1. f \in {prepared, staging} \/ f = FrameToStage
    BY <1>1, <1>3, RunStages, NoFrames
  <2>2. FrameToStage.clean = t.clean
    BY DEF FrameToStage
  <2>3. QED
    BY <1>3, <2>1, <2>2 DEF Uncleaned
<1>4. adrift' \subseteq {Target}
  <2>1. CASE QuietIsOver
    <3>1. Acking /\ ~ IsGray /\ ~ clean_active
      BY <2>1, AloneMono DEF QuietIsOver, Acking, Uncleaned
    <3>2. RefreshRefused \/ StartDriving({Target})
      BY <2>1, <3>1, QuietTarget DEF QuietIsOver, Refresh, refresh_partial
    <3>3. adrift' = adrift \/ adrift' = adrift \cup {Target}
      BY <3>2 DEF RefreshRefused, StopWithError, panelVars, StartDriving
    <3>4. QED
      BY <3>3 DEF Uncleaned
  <2>2. ~ RefreshContinues
    BY AloneMono DEF RefreshContinues, Uncleaned
  <2>3. CASE CommitSucceeds
    BY <2>3 DEF CommitSucceeds, PartialRecorded, GrayRecorded, Uncleaned
  <2>4. CASE PartialEnds \/ GrayBandEnds
    BY <2>4 DEF PartialEnds, GrayBandEnds, DriveEnds, Uncleaned
  <2>5. CASE \/ NdefPause \/ BecomesReady \/ StageBegins \/ StageWrites \/ StageSucceeds
             \/ AckIsRead \/ Brownout
    BY <2>5 DEF NdefPause, BecomesReady, StageBegins, StageWrites, StageSucceeds, AckIsRead,
                Brownout, panelVars, Uncleaned
  <2>6. CASE \/ ChargeTimesOut \/ StageFails \/ DriveFails \/ CommitFails \/ AckTimesOut
             \/ BrownoutStops
    BY <2>6 DEF ChargeTimesOut, StageFails, DriveFails, CommitFails, AckTimesOut,
                BrownoutStops, StopWithError, panelVars, Uncleaned
  <2>7. QED
    BY <2>1, <2>2, <2>3, <2>4, <2>5, <2>6 DEF Card
<1>5. QED
  BY <1>2, <1>3, <1>4 DEF Uncleaned

LEMMA PowerUncleaned ==
  ASSUME CardInv, Uncleaned, PowerCycle, request' = NoRequest
  PROVE  Uncleaned'
<1>1. prepared' \in {prepared, staging, NoFrame} /\ staging' = NoFrame /\ adrift' = adrift
  BY DEF PowerCycle, Store!PowerCycle, panelVars
<1>2. \A f \in {prepared', staging'} \cap Kept : ~ f.clean
  BY <1>1, NoFrames DEF Uncleaned
<1>3. ~ t'.clean
  <2>1. ~ ResetTransfer.clean
    BY DEF ResetTransfer
  <2>2. prepared' \in Kept => ~ prepared'.clean
    BY <1>2
  <2>3. QED
    BY <2>1, <2>2, PowerEffect
<1>4. ~ clean_active'
  BY PowerEffect
<1>5. QED
  BY <1>1, <1>2, <1>3, <1>4, NoFrames DEF Uncleaned

\* A frame of the job changes whose transfer it is, and whether it is with cleaning,
\* only to what the job asks for.
LEMMA ReadAlone ==
  ASSUME WorkInv, AloneIds, CardReads
  PROVE  AloneIds' /\ (Uncleaned => Uncleaned')
<1>1. /\ CardInv /\ request # NoRequest /\ HandleFrame(request) /\ request' = NoRequest
      /\ request \in WireFrame \cup {StatusFrame}
      /\ request.type # "STATUS" => request.tid \in Own
  BY DEF WorkInv, LinkInv, MailInv, IdInv, CardReads
<1>2. /\ Frames' = Frames /\ UNCHANGED storeVars /\ adrift' = adrift
      /\ \/ Untouched
         \/ request \in WireFrame /\ (Reopens(request) \/ Advances \/ Orders(request))
  BY <1>1, FrameEffect
<1>3. t'.tid \in Own \cup {0} /\ (Uncleaned => ~ t'.clean)
  <2>1. CASE Untouched
    BY <2>1 DEF Untouched, AloneIds, Uncleaned
  <2>2. CASE request \in WireFrame /\ Reopens(request)
    <3>1. request.type = "START" /\ request.tid \in Own
      BY <1>1, <2>2, PatternIsForeign DEF Reopens
    <3>2. t' = t \/ (t'.tid = request.tid /\ t'.clean = request.body.clean)
      BY <2>2, <3>1 DEF Reopens
    <3>3. QED
      BY <3>1, <3>2 DEF AloneIds, Uncleaned
  <2>3. CASE Advances \/ Orders(request)
    <3>1. t'.tid = t.tid /\ t'.clean = t.clean
      BY <2>3 DEF Advances, Orders, SameSession
    <3>2. QED
      BY <3>1 DEF AloneIds, Uncleaned
  <2>4. QED
    BY <1>2, <2>1, <2>2, <2>3
<1>4. AloneIds'
  BY <1>2, <1>3 DEF AloneIds
<1>5. clean_active' => clean_active \/ t'.clean \/ full_first
  <2>1. CASE request = StatusFrame
    BY <1>2, <2>1, NoFrames DEF Untouched
  <2>2. CASE request \in WireFrame
    <3>1. HandleMessage(request)
      BY <1>1, <2>2, WireFrameFields DEF HandleFrame
    <3>2. TransferInv
      BY <1>1 DEF CardInv
    <3>3. \/ UNCHANGED <<t, buf, state, staged, loopVars, ack_read>>
          \/ Started \/ Received \/ Taken \/ Patterned \/ Asked
      BY <2>2, <3>1, <3>2, MessageEffect
    <3>4. QED
      BY <3>3 DEF Started, Received, Taken, Patterned, Asked, loopVars
  <2>3. QED
    BY <1>1, <2>1, <2>2
<1>6. Uncleaned => Uncleaned'
  <2>1. SUFFICES ASSUME Uncleaned
                 PROVE  Uncleaned'
    OBVIOUS
  <2>2. ~ t'.clean /\ ~ clean_active'
    BY <1>3, <1>5, <2>1, AloneMono DEF Uncleaned
  <2>3. \A f \in {prepared', staging'} \cap Kept : ~ f.clean
    BY <1>2, <2>1 DEF Uncleaned, storeVars
  <2>4. QED
    BY <1>1, <1>2, <2>1, <2>2, <2>3, NoFrames DEF Uncleaned
<1>7. QED
  BY <1>4, <1>6

LEMMA RunIds ==
  ASSUME CardInv, AloneIds, Card \/ Brownout
  PROVE  AloneIds'
<1>1. t' = t /\ Frames' \subseteq Frames \cup {FrameToStage, NoFrame, TornHeader}
  BY RunEffect
<1>2. FrameToStage.tid = t.tid
  BY DEF FrameToStage
<1>3. QED
  BY <1>1, <1>2, NoFrames DEF AloneIds

LEMMA PowerIds ==
  ASSUME CardInv, AloneIds, PowerCycle
  PROVE  AloneIds'
<1>1. Frames' \subseteq Frames \cup {NoFrame}
  BY PowerEffect
<1>2. \A f \in Frames' \cap Kept : f.tid \in Own \cup {0}
  BY <1>1, NoFrames DEF AloneIds
<1>3. ResetTransfer.tid = 0
  BY DEF ResetTransfer
<1>4. {committed', prepared'} \subseteq Frames'
  BY DEF Frames
<1>5. t'.tid \in Own \cup {0}
  BY <1>2, <1>3, <1>4, PowerEffect
<1>6. QED
  BY <1>2, <1>5 DEF AloneIds

-----------------------------------------------------------------------------
(* What is prepared gets shown.                                            *)

\* At the end of a refresh of the work the panel shows its image.
LEMMA CommitShows ==
  ASSUME WorkInv, AloneIds, JobsInv, at \in {"execute", "confirm"}, InHand, pc = "commit"
  PROVE  TargetIsShown
<1>1. CardInv /\ job.work.id \in Own /\ job # NoJob
  BY DEF WorkInv, LinkInv, IdInv
<1>2. prepared \in Kept /\ prepared.image = Target
  BY <1>1, KeptOwn DEF InHand, CardInv, StoreInv
<1>3. buf = Target /\ adrift # {} /\ (adrift = {buf} => AllShow(buf))
  BY <1>1, <1>2, AtCommit, AloneMono DEF InHand
<1>4. CASE clean_active
  <2>1. AllShow(Target)
    BY <1>1, <1>3, <1>4 DEF CardInv, CycleInv
  <2>2. QED
    BY <2>1 DEF AllShow, TargetIsShown
<1>5. CASE ~ clean_active
  <2>1. state = "REFRESHING"
    BY <1>1 DEF CardInv, StateInv
  <2>2. ~ t.clean
    BY <1>5, <2>1 DEF WorkInv, OutcomeInv, Acking
  <2>3. ~ job.work.batch
    BY <1>1, <2>1, <2>2 DEF WorkInv, CleanWorkInv, Cleans, InHand
  <2>4. ~ job.clean
    BY <1>1, <2>3, Numbers DEF JobsInv
  <2>5. adrift \subseteq {Target}
    BY <1>1, <2>4 DEF JobsInv, Uncleaned
  <2>6. adrift = {buf}
    BY <1>3, <2>5
  <2>7. QED
    BY <1>3, <2>6 DEF AllShow, TargetIsShown
<1>6. QED
  BY <1>4, <1>5

LEMMA HandKept ==
  ASSUME WorkInv, AloneIds, JobsInv, at \in {"execute", "confirm"}, InHand,
         Card \/ Brownout, job' = job
  PROVE  InHand' \/ Settled'
<1> USE DEF storeVars
<1>1. CardInv /\ t' = t
  BY RunEffect DEF WorkInv, LinkInv
<1>2. pc # "stage" /\ staged
  BY <1>1 DEF CardInv, StateInv, InHand
<1>3. CASE NdefPause \/ BecomesReady \/ AckIsRead \/ Brownout
  BY <1>1, <1>3 DEF NdefPause, BecomesReady, AckIsRead, Brownout, InHand
<1>4. CASE ChargeTimesOut \/ DriveFails \/ AckTimesOut \/ BrownoutStops
  BY <1>1, <1>4 DEF ChargeTimesOut, DriveFails, AckTimesOut, BrownoutStops, StopWithError,
                    InHand
<1>5. ~ StageBegins /\ ~ StageWrites /\ ~ StageSucceeds /\ ~ StageFails
  <2>1. ~ StageBegins
    BY <1>2 DEF StageBegins
  <2>2. StageWrites \/ StageSucceeds => pc = "stage"
    BY DEF StageWrites, StageSucceeds
  <2>3. StageFails => pc = "stage"
    BY DEF StageFails
  <2>4. QED
    BY <1>2, <2>1, <2>2, <2>3
<1>6. CASE RefreshContinues \/ QuietIsOver
  <2>1. RefreshRefused \/ \E images : StartDriving(images)
    BY <1>6 DEF RefreshContinues, QuietIsOver, Refresh, refresh_partial, refresh_gray4
  <2>2. QED
    BY <1>1, <2>1 DEF RefreshRefused, StopWithError, StartDriving, InHand
<1>7. CASE PartialEnds \/ GrayBandEnds
  <2>1. staged' = staged /\ (ChargeAgain \/ CommitBegins)
    BY <1>7 DEF PartialEnds, GrayBandEnds, DriveEnds
  <2>2. prepared' = prepared /\ state' \in {state, "CHARGING"}
    BY <2>1 DEF ChargeAgain, CommitBegins, Store!Commit
  <2>3. QED
    BY <1>1, <2>1, <2>2 DEF InHand
<1>8. CASE CommitSucceeds
  <2>1. pc = "commit" /\ prepared' = NoFrame /\ panel' = panel /\ state' = "COMPLETE"
    BY <1>8 DEF CommitSucceeds, PartialRecorded, GrayRecorded, Recorded, Store!Promote
  <2>2. QED
    BY <2>1, CommitShows DEF Settled, TargetIsShown
<1>9. CASE CommitFails
  <2>1. /\ pc = "commit" /\ prepared' \in {prepared, NoFrame} /\ panel' = panel
        /\ state' = "ERROR" /\ staged' = staged
    BY <1>9 DEF CommitFails, StopWithError, Store!Spoil, panelVars
  <2>2. QED
    BY <1>1, <2>1, CommitShows DEF InHand, Settled, TargetIsShown
<1>10. QED
  BY <1>3, <1>4, <1>5, <1>6, <1>7, <1>8, <1>9 DEF Card

LEMMA RunShown ==
  ASSUME WorkInv, AloneIds, JobsInv, ShownInv, Card \/ Brownout, JobSame, reply' = reply
  PROVE  ShownInv'
<1>1. CardInv
  BY DEF WorkInv, LinkInv
<1>2. Settled => Settled'
  BY <1>1, Rests DEF Settled, TargetIsShown, storeVars, panelVars
<1>3. Waits /\ InHand => InHand' \/ Settled'
  BY HandKept DEF Waits, JobSame
<1>4. Waits' => Waits
  BY DEF Waits, JobSame, Answered, Accepts
<1>5. QED
  BY <1>2, <1>3, <1>4 DEF ShownInv, JobSame, Answered

\* A power cut leaves the picture prepared, or comes when it is shown.
LEMMA PowerShown ==
  ASSUME WorkInv, AloneIds, JobsInv, ShownInv, PowerCycle, JobSame, reply' = NoReply
  PROVE  ShownInv'
<1>1. CardInv /\ ~ Answered'
  BY DEF WorkInv, LinkInv, Answered
<1>2. SUFFICES ASSUME at = "confirm"
               PROVE  InHand' \/ Settled'
  BY <1>1 DEF ShownInv, Waits, JobSame
<1>3. InHand \/ Settled
  BY <1>2 DEF ShownInv, Waits
<1>4. pc # "stage"
  BY <1>1, <1>3 DEF CardInv, StateInv, InHand, Settled
<1>5. staging = NoFrame
  BY <1>1, <1>4 DEF CardInv, StoreInv
<1>6. panel' = panel /\ (prepared' = NoFrame => state' \in {"RECEIVING", "COMPLETE"})
  BY DEF PowerCycle, Boot, panelVars
<1>7. \/ prepared' = prepared
      \/ committing /\ prepared' = NoFrame
  BY <1>5 DEF PowerCycle, Store!PowerCycle
<1>8. committing => pc = "commit" /\ prepared # NoFrame
  BY <1>1 DEF CardInv, StoreInv
<1>9. CASE Settled
  BY <1>6, <1>7, <1>8, <1>9 DEF Settled, TargetIsShown
<1>10. CASE InHand /\ prepared' = prepared
  <2>1. prepared \in Kept /\ prepared.tid = job.work.id /\ job.work.id \in Own
    BY <1>1, <1>2, <1>10 DEF InHand, CardInv, StoreInv, WorkInv, LinkInv, IdInv
  <2>2. prepared.format = "mono" /\ prepared' # NoFrame
    BY <1>10, <2>1, KeptOwn, NoFrames
  <2>3. StoreScanned /\ Boot
    BY <1>1, PowerCycleStore DEF PowerCycle
  <2>4. t'.tid = prepared'.tid /\ t'.format = prepared'.format /\ staged' = TRUE
        /\ (t'.format # "gray" => state' = "CHARGING")
    BY <2>2, <2>3, BootSession
  <2>5. QED
    BY <1>10, <2>1, <2>2, <2>4 DEF InHand, JobSame
<1>11. CASE InHand /\ committing /\ prepared' = NoFrame
  <2>1. TargetIsShown
    BY <1>2, <1>8, <1>11, CommitShows
  <2>2. QED
    BY <1>6, <1>11, <2>1 DEF Settled, TargetIsShown
<1>12. QED
  BY <1>3, <1>7, <1>9, <1>10, <1>11

LEMMA ReadShown ==
  ASSUME WorkInv, AloneIds, JobsInv, ShownInv, CardReads, WorkInv', AloneIds'
  PROVE  ShownInv'
<1>1. /\ CardInv /\ request # NoRequest /\ HandleFrame(request) /\ JobSame
      /\ request \in WireFrame \cup {StatusFrame}
  BY DEF WorkInv, LinkInv, MailInv, CardReads, coordinator, JobSame
<1>2. ASSUME at = "confirm"
      PROVE  ShownInv'
  <2>1. request = StatusFrame
    BY <1>1, <1>2 DEF WorkInv, LinkInv, ErrorInv
  <2>2. HandleOther
    BY <1>1, <2>1, NoFrames DEF HandleFrame
  <2>3. UNCHANGED <<t, state, staged, storeVars, panelVars>>
    BY <2>2 DEF HandleOther, AnswerOnly
  <2>4. (InHand => InHand') /\ (Settled => Settled')
    BY <1>1, <2>3 DEF InHand, Settled, TargetIsShown, JobSame, storeVars, panelVars
  <2>5. Answered' /\ reply'.state = "COMPLETE" => state' = "COMPLETE"
    BY <1>1, ReplyFields DEF Answered
  <2>6. InHand \/ Settled
    BY <1>2 DEF ShownInv, Waits
  <2>7. QED
    BY <2>4, <2>5, <2>6 DEF ShownInv, InHand
<1>3. ASSUME at = "execute"
      PROVE  ShownInv'
  <2>1. SUFFICES ASSUME waiting, reply' # NoReply, Accepts(reply')
                 PROVE  InHand'
    BY <1>1, <1>3 DEF ShownInv, Waits, Answered, JobSame
  <2>2. request.type = "EXECUTE" /\ request.tid = job.work.id /\ job.work.id \in Own
    BY <1>1, <1>3, <2>1 DEF WorkInv, LinkInv, FieldInv, IdInv
  <2>3. request \in WireFrame
    BY <1>1, <2>2, NoFrames
  <2>4. /\ request.tid = t.tid /\ SameSession(t', t)
        /\ state' \in {"READY", "EXECUTE_ACK"}
    BY <1>1, <2>1, <2>2, <2>3, ExecuteReply
  <2>5. t'.tid = job.work.id
    BY <2>2, <2>4 DEF SameSession
  <2>6. CardInv' /\ ~ SecondPlane'
    BY AloneMono DEF WorkInv, LinkInv, SecondPlane, AloneIds, IdInv
  <2>7. staged' /\ prepared' # NoFrame /\ prepared'.tid = t'.tid
    BY <2>4, <2>6 DEF CardInv, StateInv, HoldingInv, Holding
  <2>8. QED
    BY <1>1, <2>4, <2>5, <2>7 DEF InHand, JobSame
<1>4. ASSUME at \notin {"execute", "confirm"}
      PROVE  ShownInv'
  BY <1>1, <1>4 DEF ShownInv, Waits, JobSame
<1>5. QED
  BY <1>2, <1>3, <1>4

-----------------------------------------------------------------------------
(* The job, and the bounds.                                                *)

LEMMA JobsKeep ==
  ASSUME JobsInv, UNCHANGED budget \/ Spend("faults"),
         job' = job \/ (job # NoJob /\ (job' = NoJob \/ Kin(job'))),
         job' \in JobType, job \in JobType, nextID # 0,
         /\ Uncleaned
         /\ IF job = NoJob THEN budget.jobs = 1 ELSE ~ job.clean
         => Uncleaned'
  PROVE  JobsInv'
<1>1. /\ budget' = [jobs |-> budget'.jobs, others |-> 0, faults |-> budget'.faults]
      /\ budget'.jobs = budget.jobs
  <2>1. budget = [jobs |-> budget.jobs, others |-> 0, faults |-> budget.faults]
    BY DEF JobsInv
  <2>2. QED
    BY <2>1 DEF Spend
<1>2. CASE job' = job
  BY <1>1, <1>2 DEF JobsInv
<1>3. CASE job # NoJob /\ job' = NoJob
  BY <1>1, <1>3 DEF JobsInv
<1>4. CASE job # NoJob /\ Kin(job')
  <2>1. budget.jobs = 0
    BY <1>4 DEF JobsInv
  <2>2. ~ job'.clean => ~ job.clean
    BY <1>4 DEF Kin
  <2>3. job'.work.id # 0 => job'.work.batch = job'.clean
    BY <1>4 DEF Kin, JobsInv
  <2>4. QED
    BY <1>1, <1>4, <2>1, <2>2, <2>3 DEF JobsInv
<1>5. QED
  BY <1>2, <1>3, <1>4

LEMMA SameJob ==
  ASSUME WorkInv, JobsInv, JobSame, UNCHANGED budget \/ Spend("faults"),
         Uncleaned => Uncleaned'
  PROVE  JobsInv'
<1>1. job \in JobType /\ nextID # 0 /\ job' = job
  BY DEF WorkInv, LinkInv, MailInv, JobSame
<1>2. QED
  BY <1>1, JobsKeep

-----------------------------------------------------------------------------
(* The steps.                                                              *)

LEMMA CardAlone ==
  ASSUME AloneInv, CardStep \/ CardBrownout
  PROVE  AloneIds' /\ JobsInv' /\ ShownInv'
<1>1. /\ WorkInv /\ CardInv /\ (Card \/ Brownout) /\ JobSame /\ UNCHANGED <<request, reply>>
      /\ UNCHANGED budget \/ Spend("faults")
  BY DEF AloneInv, WorkInv, LinkInv, CardStep, CardRuns, CardBrownout, coordinator, JobSame,
         Counted
<1>2. AloneIds'
  BY <1>1, RunIds DEF AloneInv
<1>3. JobsInv'
  BY <1>1, RunUncleaned, SameJob DEF AloneInv
<1>4. ShownInv'
  BY <1>1, RunShown DEF AloneInv
<1>5. QED
  BY <1>2, <1>3, <1>4

LEMMA PowerAlone ==
  ASSUME AloneInv, CardLosesPower
  PROVE  AloneIds' /\ JobsInv' /\ ShownInv'
<1>1. /\ WorkInv /\ CardInv /\ PowerCycle /\ JobSame
      /\ request' = NoRequest /\ reply' = NoReply
      /\ UNCHANGED budget \/ Spend("faults")
  BY DEF AloneInv, WorkInv, LinkInv, CardLosesPower, coordinator, JobSame, Counted
<1>2. AloneIds'
  BY <1>1, PowerIds DEF AloneInv
<1>3. JobsInv'
  BY <1>1, PowerUncleaned, SameJob DEF AloneInv
<1>4. ShownInv'
  BY <1>1, PowerShown DEF AloneInv
<1>5. QED
  BY <1>2, <1>3, <1>4

LEMMA ReadsAlone ==
  ASSUME AloneInv, CardReads, WorkInv'
  PROVE  AloneIds' /\ JobsInv' /\ ShownInv'
<1>1. WorkInv /\ JobSame /\ (UNCHANGED budget \/ Spend("faults"))
  BY DEF AloneInv, CardReads, coordinator, JobSame, Counted
<1>2. AloneIds' /\ (Uncleaned => Uncleaned')
  BY <1>1, ReadAlone DEF AloneInv
<1>3. JobsInv'
  BY <1>1, <1>2, SameJob DEF AloneInv
<1>4. ShownInv'
  BY <1>1, <1>2, ReadShown DEF AloneInv
<1>5. QED
  BY <1>2, <1>3, <1>4

\* A step that leaves the card as it was.
LEMMA StillAlone ==
  ASSUME AloneInv, Still
  PROVE  /\ AloneIds' /\ (Uncleaned => Uncleaned')
         /\ Settled => Settled'
         /\ job'.work.id = job.work.id /\ InHand => InHand'
<1>1. UNCHANGED <<t, state, staged, clean_active, request, storeVars, panelVars>>
  BY DEF Still
<1>2. UNCHANGED <<committed, prepared, header, staging, panel, adrift>>
  BY <1>1 DEF storeVars, panelVars
<1>3. QED
  BY <1>1, <1>2 DEF AloneInv, AloneIds, Frames, Uncleaned, Settled, TargetIsShown, InHand

LEMMA OtherAlone ==
  ASSUME AloneInv, OtherPhone
  PROVE  AloneIds' /\ JobsInv' /\ ShownInv'
<1>1. /\ WorkInv /\ LinkInv /\ at = "away" /\ PhoneReads /\ reply' = NoReply /\ JobSame
      /\ UNCHANGED <<request, current_error, budget>>
  <2>1. ~ (budget.others > 0)
    <3>1. budget = [jobs |-> budget.jobs, others |-> 0, faults |-> budget.faults]
      BY DEF AloneInv, JobsInv
    <3>2. budget.others = 0
      BY <3>1
    <3>3. QED
      BY <3>2
  <2>2. QED
    BY <2>1 DEF AloneInv, WorkInv, OtherPhone, coordinator, JobSame
<1>2. Still
  BY <1>1, PhoneStill
<1>3. JobsInv'
  BY <1>1, <1>2, StillAlone, SameJob DEF AloneInv
<1>4. ShownInv'
  BY <1>1 DEF ShownInv, Waits, JobSame
<1>5. QED
  BY <1>2, <1>3, <1>4, StillAlone

LEMMA SendAlone ==
  ASSUME AloneInv, AskStatus \/ SendUpload \/ AskReady \/ SendExecute \/ AskConfirm,
         WorkInv'
  PROVE  AloneIds' /\ JobsInv' /\ ShownInv'
<1>1. PICK frame :
         /\ Send(frame)
         /\ \/ frame = StatusFrame /\ job' = job
            \/ at = "upload" /\ frame = UploadFrame(job.work)
            \/ at = "execute" /\ frame.type = "EXECUTE"
  BY DEF AskStatus, SendUpload, AskReady, SendExecute, AskConfirm
<1>2. /\ UNCHANGED <<t, state, staged, clean_active, storeVars, panelVars, reply, at, budget>>
      /\ request' = frame /\ host = "empty"
  BY <1>1 DEF Send, card, loopVars
<1>3. UNCHANGED <<committed, prepared, header, staging, panel, adrift>>
  BY <1>2 DEF storeVars, panelVars
<1>4. /\ job \in JobType /\ job' \in JobType /\ reply' = NoReply /\ nextID # 0
      /\ job # NoJob /\ LinkInv
  BY <1>2 DEF AloneInv, WorkInv, LinkInv, MailInv, IdInv, AskStatus, SendUpload, AskReady,
              SendExecute, AskConfirm
<1>5. /\ job'.work.id = job.work.id /\ job'.work.batch = job.work.batch
      /\ job'.clean = job.clean
  <2>1. CASE AskStatus \/ AskReady \/ AskConfirm
    BY <2>1 DEF AskStatus, AskReady, AskConfirm
  <2>2. CASE SendExecute
    BY <1>4, <2>2 DEF SendExecute, JobType, WorkType
  <2>3. CASE SendUpload
    BY <1>4, <2>3 DEF SendUpload, JobType, WorkType
  <2>4. QED
    BY <2>1, <2>2, <2>3
<1>6. AloneIds'
  BY <1>2, <1>3 DEF AloneInv, AloneIds, Frames
<1>7. ~ job.clean /\ Uncleaned => Uncleaned'
  <2>1. SUFFICES ASSUME ~ job.clean, Uncleaned, frame.type = "START"
                 PROVE  ~ frame.body.clean
    BY <1>2, <1>3 DEF Uncleaned
  <2>2. at = "upload" /\ frame = UploadFrame(job.work)
    BY <1>1, <2>1, NoFrames
  <2>3. job.work.id \in Own
    BY <1>4, <2>2 DEF LinkInv, IdInv
  <2>4. frame.body.clean = job.work.batch
    BY <1>4, <2>1, <2>2, <2>3, WorkFrames
  <2>5. job.work.batch = job.clean
    BY <1>4, <2>3, Numbers DEF AloneInv, JobsInv
  <2>6. QED
    BY <2>1, <2>4, <2>5
<1>8. JobsInv'
  BY <1>2, <1>4, <1>5, <1>7, JobsKeep DEF AloneInv, Kin
<1>9. ShownInv'
  <2>1. ~ Answered'
    BY <1>4 DEF Answered
  <2>2. (InHand => InHand') /\ (Settled => Settled')
    BY <1>2, <1>3, <1>5 DEF InHand, Settled, TargetIsShown
  <2>3. QED
    BY <1>2, <2>1, <2>2 DEF AloneInv, ShownInv, Waits
<1>10. QED
  BY <1>6, <1>8, <1>9

LEMMA GoesAlone ==
  ASSUME AloneInv, Goes, WorkInv'
  PROVE  AloneIds' /\ JobsInv' /\ ShownInv'
<1>1. Still /\ waiting' = FALSE /\ job \in JobType /\ job' \in JobType /\ nextID # 0
  BY DEF Goes, AloneInv, WorkInv, LinkInv, MailInv
<1>2. JobsInv'
  <2>1. CASE Prepare /\ job'.work.id = 0
    <3>1. \E n : budget = [jobs |-> budget.jobs, others |-> 0, faults |-> n]
      BY DEF AloneInv, JobsInv
    <3>2. budget.jobs = 1 /\ job = NoJob
      BY <2>1 DEF Prepare, Spend, AloneInv, JobsInv
    <3>3. PICK n : budget = [jobs |-> 1, others |-> 0, faults |-> n]
      BY <3>1, <3>2
    <3>4. budget' = [budget EXCEPT !["jobs"] = budget["jobs"] - 1]
      BY <2>1 DEF Prepare, Spend
    <3>5. budget' = [jobs |-> 0, others |-> 0, faults |-> n]
      <4>1. budget["jobs"] = 1
        BY <3>3
      <4>2. budget' = [budget EXCEPT !["jobs"] = 0]
        BY <3>4, <4>1
      <4>3. QED
        BY <3>3, <4>2
    <3>6. Uncleaned'
      BY <1>1, <3>2, StillAlone DEF AloneInv, JobsInv
    <3>7. QED
      BY <2>1, <3>5, <3>6 DEF JobsInv
  <2>2. CASE /\ job # NoJob /\ (UNCHANGED budget \/ Spend("faults"))
             /\ (job' = NoJob /\ job'.work.id = 0) \/ Kin(job')
    BY <1>1, <2>2, StillAlone, JobsKeep DEF AloneInv
  <2>3. QED
    BY <2>1, <2>2 DEF Goes
<1>3. ShownInv'
  <2>1. ~ Answered'
    BY <1>1 DEF Answered
  <2>2. at' = "confirm" => Waits /\ job'.work.id = job.work.id
    BY DEF Goes, Waits
  <2>3. QED
    BY <1>1, <2>1, <2>2, StillAlone DEF AloneInv, ShownInv, Waits
<1>4. QED
  BY <1>1, <1>2, <1>3, StillAlone

LEMMA AloneInit ==
  ASSUME OtherLimit = 0, JobLimit = 1, LinkInit
  PROVE  AloneInv
<1>1. WorkInv
  BY RecordInit DEF RecordInv
<1>2. /\ Init /\ at = "away" /\ waiting = FALSE /\ job = NoJob /\ request = NoRequest
      /\ budget = [jobs |-> 1, others |-> 0, faults |-> FaultLimit]
  BY DEF LinkInit
<1>3. \A f, n : Resumed(f, n, TRUE).tid = f.tid /\ ~ Resumed(f, n, TRUE).clean
  BY DEF Resumed, ResetTransfer
<1>4. /\ committed \in {NoFrame, FactoryFrame} /\ FactoryFrame.tid = 0
      /\ prepared = NoFrame /\ header = NoFrame /\ staging = NoFrame
      /\ adrift = {} /\ clean_active = FALSE
  BY <1>2 DEF Init, FactoryFrame
<1>5. t.tid = 0 /\ ~ t.clean
  <2>1. t = ResetTransfer \/ t = Resumed(FactoryFrame, 1, TRUE)
    BY <1>2 DEF Init
  <2>2. ResetTransfer.tid = 0 /\ ~ ResetTransfer.clean
    BY DEF ResetTransfer
  <2>3. QED
    BY <1>3, <1>4, <2>1, <2>2
<1>6. AloneIds
  BY <1>4, <1>5, NoFrames DEF AloneIds, Frames
<1>7. Uncleaned
  BY <1>2, <1>4, <1>5, NoFrames DEF Uncleaned
<1>8. JobsInv
  BY <1>2, <1>7 DEF JobsInv
<1>9. ShownInv
  BY <1>2 DEF ShownInv, Waits
<1>10. QED
  BY <1>1, <1>6, <1>8, <1>9 DEF AloneInv

LEMMA AloneIdle ==
  ASSUME AloneInv, UNCHANGED linkVars
  PROVE  AloneIds' /\ JobsInv' /\ ShownInv'
<1>1. UNCHANGED <<t, state, staged, clean_active, committed, prepared, header, staging, panel,
                  adrift, request, reply, job, at, waiting, budget>>
  BY DEF linkVars, coordinator, vars, loopVars, storeVars, panelVars
<1>2. AloneIds' /\ (Uncleaned' <=> Uncleaned)
  BY <1>1 DEF AloneInv, AloneIds, Frames, Uncleaned
<1>3. JobsInv'
  BY <1>1, <1>2 DEF AloneInv, JobsInv
<1>4. ShownInv'
  BY <1>1 DEF AloneInv, ShownInv, Waits, InHand, Settled, TargetIsShown, Answered, Accepts
<1>5. QED
  BY <1>2, <1>3, <1>4

LEMMA AloneKeeps ==
  ASSUME AloneInv, [LinkNext]_linkVars
  PROVE  AloneInv'
<1>1. WorkInv /\ WorkInv'
  BY WorkKeeps DEF AloneInv
<1>2. AloneIds' /\ JobsInv' /\ ShownInv'
  <2>1. CASE Goes
    BY <1>1, <2>1, GoesAlone
  <2>2. QED
    BY <1>1, <2>1, CardAlone, PowerAlone, ReadsAlone, OtherAlone, SendAlone, AnswersGo,
       OthersGo, AloneIdle
    DEF LinkNext, Coordinator
<1>3. QED
  BY <1>1, <1>2 DEF AloneInv

(* With one job and no other phone, whatever resets the card, what was to be  *)
(* refreshed is still prepared on the card, or the panel shows it, from the   *)
(* acceptance of the EXECUTE on; and the refresh starts from a panel that     *)
(* nothing but the target was ever driven on, or is a clean cycle.           *)
THEOREM AloneInductive == OtherLimit = 0 /\ JobLimit = 1 /\ LinkSpec => []AloneInv
<1>1. AloneInv /\ [LinkNext]_linkVars => AloneInv'
  BY AloneKeeps
<1>2. OtherLimit = 0 /\ JobLimit = 1 /\ LinkInit => AloneInv
  BY AloneInit
<1>3. CASE OtherLimit = 0 /\ JobLimit = 1
  <2>1. LinkInit => AloneInv
    BY <1>2, <1>3
  <2>2. LinkSpec => []AloneInv
    BY <1>1, <2>1, PTL DEF LinkSpec
  <2>3. QED
    BY <2>2
<1>4. QED
  BY <1>3

LEMMA ShownStep ==
  ASSUME AloneInv, LinkNext, Completes
  PROVE  TargetIsShown
<1>1. at = "confirm" /\ waiting /\ PhoneReads /\ reply.state = "COMPLETE"
  BY Completers DEF Receive
<1>2. Answered
  BY <1>1 DEF Answered, PhoneReads, AloneInv, WorkInv, LinkInv, MailInv
<1>3. Settled
  BY <1>1, <1>2 DEF AloneInv, ShownInv
<1>4. QED
  BY <1>3 DEF Settled, TargetIsShown

(* So the success of a job the card serves alone, cleaned or not and with    *)
(* power cut at any point, means that every strip of the panel shows it.    *)
THEOREM CompletedIsAlwaysShown ==
  OtherLimit = 0 /\ JobLimit = 1 /\ LinkSpec => CompletedIsShown
<1>1. AloneInv /\ [LinkNext]_linkVars => [Completes => TargetIsShown]_linkVars
  BY ShownStep
<1>2. QED
  BY <1>1, AloneInductive, PTL DEF LinkSpec, CompletedIsShown
=============================================================================
