----------------------------- MODULE TransferLink -----------------------------
(***************************************************************************)
(* An upload: the phone's side of START, DATA and COMMIT (the iOS           *)
(* TransferCoordinator), the one-slot mailbox of the ST25DV between the    *)
(* two, and the card's side, nc_transfer_apply.                            *)
(*                                                                         *)
(* An exchange can fail anywhere: the frame is read late, the reply is     *)
(* never published, is read late or is lost on the way to the phone.  The  *)
(* field can be lost at any time, which stops the card; a prepared image   *)
(* comes back from Flash.  A run is one NFC session; the phone keeps its    *)
(* work and starts another run.                                            *)
(*                                                                         *)
(* After COMMIT the card is charging or ready, which this module calls     *)
(* CHARGING: the phone's upload does not distinguish them.                 *)
(***************************************************************************)
EXTENDS NCTransfer

CONSTANTS
    Picture,        \* pictures the user may prepare
    None,           \* no message, no work, nothing stored
    TransferID,     \* transfer ids (nonzero; 2^16 - 1 of them in the code)
    PrepareLimit,   \* bound: times the user prepares another picture
    LateLimit,      \* bound: replies that come too late
    PowerLossLimit  \* bound: losses of the field

VARIABLES
    t, buf,         \* card RAM: transfer, image_buffer
    state,          \* card: current_state, "RECEIVING" or "CHARGING"
    outbox,         \* card: the reply send_reply is trying to publish
    stored,         \* card Flash: the prepared frame
    rf, host,       \* mailbox: the message of the phone, of the card
    run,            \* phone: "off", "status", "upload" or "done"
    picture, clean, \* phone: the job's picture and cleanRequired
    work,           \* phone: job.work
    sent,           \* phone: the frame whose reply it waits for
    recoveryCount,  \* phone: restarts and resynchronisations in this run
    prepared,       \* count against PrepareLimit
    lates,          \* count against LateLimit
    losses          \* count against PowerLossLimit

cardVars == <<t, buf, state, outbox, stored>>
phoneVars == <<run, picture, clean, work, sent, recoveryCount>>
linkVars == <<cardVars, rf, host, phoneVars, prepared, lates, losses>>

Chunk == Picture \X (1 .. ImageSize)
Image(p) == [i \in 1 .. ImageSize |-> <<p, i>>]
BlankImage == [i \in 1 .. ImageSize |-> None]

(* The phone's work: its transfer, and how far it knows it has come.        *)
Work == [id : TransferID, clean : BOOLEAN, started : BOOLEAN, committed : BOOLEAN,
         seq : 0 .. ImageSize + 2, off : 0 .. ImageSize,
         highestSentOffset : 0 .. ImageSize]

(* An image is not empty and its frames do not use up the sequence numbers; *)
(* there are ids enough for a new one to be unknown to the card, its Flash  *)
(* and the mailbox.                                                        *)
ASSUME LinkAssumption ==
    /\ ImageSize \in Nat \ {0}
    /\ ImageSize + 2 < SeqModulus
    /\ TransferID \subseteq Nat \ {0}
    /\ \A a, b, c, d, e \in TransferID \cup {0} : TransferID \ {a, b, c, d, e} # {}
    /\ None \notin Work

-----------------------------------------------------------------------------
(* The card.                                                               *)

CardReply(f, r, st) ==
    [type |-> f.type, tid |-> f.tid, seq |-> f.seq, error |-> r.error, state |-> st,
     eseq |-> r.t.seq, eoff |-> r.t.off, pending |-> stored # None]

(* handle_message reads a frame, applies it and composes the reply.         *)
CardHandle ==
    /\ rf # None
    /\ outbox = None
    /\ LET r == nc_transfer_apply(t, buf, rf)
           st == IF rf.type = "START" /\ r.result # "REJECTED" THEN "RECEIVING"
                 ELSE IF r.result = "COMMITTED" THEN "CHARGING"
                 ELSE state
       IN  /\ t' = r.t
           /\ buf' = r.buf
           /\ state' = st
           /\ outbox' = CardReply(rf, r, st)
    /\ rf' = None
    /\ UNCHANGED <<stored, host, phoneVars, prepared, lates, losses>>

(* st25dv_write_host_message, refused while a message waits either way.     *)
CardPublish ==
    /\ outbox # None
    /\ rf = None
    /\ host = None
    /\ host' = outbox
    /\ outbox' = None
    /\ UNCHANGED <<t, buf, state, stored, rf, phoneVars, prepared, lates, losses>>

(* After twenty attempts the reply is dropped; the transfer stays as it is. *)
CardGivesUp ==
    /\ outbox # None
    /\ outbox' = None
    /\ UNCHANGED <<t, buf, state, stored, rf, host, phoneVars, prepared, lates, losses>>

(* Charged: the image is staged in Flash.                                  *)
CardStage ==
    /\ state = "CHARGING"
    /\ outbox = None
    /\ stored' = [tid |-> t.tid, seq |-> t.seq, clean |-> t.clean, image |-> buf]
    /\ stored' # stored
    /\ UNCHANGED <<t, buf, state, outbox, rf, host, phoneVars, prepared, lates, losses>>

(* app_init: a prepared frame is resumed, without its duplicate cache.      *)
Resumed(s) ==
    [ResetTransfer EXCEPT
        !.active = TRUE, !.committed = TRUE, !.tid = s.tid, !.seq = s.seq,
        !.off = ImageSize, !.clean = s.clean, !.format = "mono"]

(* The field is lost, with whatever the mailbox held, and found again.      *)
PowerLoss ==
    /\ losses < PowerLossLimit
    /\ losses' = losses + 1
    /\ IF stored = None
       THEN t' = ResetTransfer /\ buf' = BlankImage /\ state' = "RECEIVING"
       ELSE t' = Resumed(stored) /\ buf' = stored.image /\ state' = "CHARGING"
    /\ outbox' = None
    /\ rf' = None
    /\ host' = None
    /\ sent' = None
    /\ run' = IF run = "done" THEN "done" ELSE "off"
    /\ UNCHANGED <<stored, picture, clean, work, recoveryCount, prepared, lates>>

-----------------------------------------------------------------------------
(* The phone.                                                              *)

(* Mutant: the work of the previous job is kept.                           *)
PrepareKeepsWork(p, c) ==
    /\ run \in {"off", "done"}
    /\ prepared < PrepareLimit
    /\ prepared' = prepared + 1
    /\ run' = "off"
    /\ picture' = p
    /\ clean' = c
    /\ UNCHANGED <<cardVars, rf, host, work, sent, recoveryCount, lates, losses>>

(* The user prepares a picture: a new job, without work.                   *)
PhonePrepare(p, c) ==
    /\ run \in {"off", "done"}
    /\ prepared < PrepareLimit
    /\ prepared' = prepared + 1
    /\ run' = "off"
    /\ picture' = p
    /\ clean' = c
    /\ work' = None
    /\ UNCHANGED <<cardVars, rf, host, sent, recoveryCount, lates, losses>>

(* TransferCoordinator.run begins.                                         *)
PhoneScan ==
    /\ run = "off"
    /\ run' = "status"
    /\ recoveryCount' = 0
    /\ UNCHANGED <<cardVars, rf, host, picture, clean, work, sent, prepared, lates, losses>>

MessageID(m) == IF m = None THEN 0 ELSE m.tid

(* allocateID counts from a random number, so that an id comes back after   *)
(* 65,535 others.  Here it is any one no longer known to anybody.           *)
FreshID ==
    CHOOSE id \in TransferID \ {t.tid, MessageID(stored), MessageID(outbox),
                                 MessageID(rf), MessageID(host)} : TRUE

makeWork == [id |-> FreshID, clean |-> clean, started |-> FALSE, committed |-> FALSE,
             seq |-> 0, off |-> 0, highestSentOffset |-> 0]

(* The frame the run sends next.                                           *)
NextFrame ==
    LET Frame(type, seq, off, body) ==
            [type |-> type, tid |-> work.id, seq |-> seq, off |-> off, body |-> body]
    IN  IF run = "status"
        THEN [type |-> "STATUS", tid |-> 0, seq |-> 0, off |-> 0, body |-> <<>>]
        ELSE IF ~ work.started
        THEN Frame("START", 0, 0, [format |-> "mono", plane |-> 1, clean |-> work.clean,
                                   crc |-> Image(picture)])
        ELSE IF work.off < ImageSize
        THEN Frame("DATA", work.seq, work.off, <<Image(picture)[work.off + 1]>>)
        ELSE Frame("COMMIT", work.seq, work.off, <<>>)

InExchange == run \in {"status", "upload"}

(* ST25Mailbox.exchange writes the frame to a free mailbox.                *)
PhoneSend ==
    /\ InExchange
    /\ sent = None
    /\ rf = None
    /\ host = None
    /\ sent' = NextFrame
    /\ rf' = NextFrame
    /\ work' = IF NextFrame.type = "DATA" /\ work.off + 1 > work.highestSentOffset
               THEN [work EXCEPT !.highestSentOffset = work.off + 1] ELSE work
    /\ UNCHANGED <<cardVars, host, run, picture, clean, recoveryCount,
                   prepared, lates, losses>>

(* The checks of NCAck's initialiser.                                      *)
Matches(ack, f) ==
    /\ ack.type = f.type /\ ack.tid = f.tid /\ ack.seq = f.seq
    /\ ack.error = "NONE" =>
           CASE f.type = "START"  -> ack.eseq = 1 /\ ack.eoff = 0
             [] f.type = "DATA"   -> ack.eseq = f.seq + 1 /\ ack.eoff = f.off + Len(f.body)
             [] f.type = "COMMIT" -> ack.eseq = f.seq + 1 /\ ack.eoff = f.off
             [] OTHER             -> TRUE

DropWork == work' = None /\ clean' = TRUE

RunFails == run' = "off" /\ UNCHANGED recoveryCount

(* The reply to STATUS that opens a run.  A card that is past COMMIT when   *)
(* this phone is not may hold any target: the upload starts afresh.  It     *)
(* asks for a clean then, and when the card has a frame prepared.           *)
HandleStatus(ack) ==
    /\ LET stale == work # None /\ ack.state = "CHARGING"
           c == clean \/ stale \/ (work = None /\ ack.pending)
       IN  IF work = None \/ stale
           THEN work' = [makeWork EXCEPT !.clean = c] /\ clean' = c
           ELSE UNCHANGED <<work, clean>>
    /\ run' = "upload"
    /\ UNCHANGED recoveryCount

(* Mutant: the restart is not bounded.                                     *)
RestartForEver ==
    /\ recoveryCount' = recoveryCount + 1
    /\ work' = [work EXCEPT !.started = FALSE, !.highestSentOffset = 0]
    /\ UNCHANGED <<run, clean>>

(* Mutant: the frame is repeated without a new START.                      *)
RestartWithoutStart ==
    IF recoveryCount < 2
    THEN recoveryCount' = recoveryCount + 1 /\ UNCHANGED <<work, run, clean>>
    ELSE RunFails /\ UNCHANGED <<work, clean>>

(* The card does not know this transfer: start it again, twice at most.     *)
HandleUnknownTransfer ==
    IF recoveryCount < 2
    THEN /\ recoveryCount' = recoveryCount + 1
         /\ work' = [work EXCEPT !.started = FALSE, !.highestSentOffset = 0]
         /\ UNCHANGED <<run, clean>>
    ELSE RunFails /\ UNCHANGED <<work, clean>>

(* The card is elsewhere in this transfer: follow it, to a place already    *)
(* sent; otherwise give the work up.                                       *)
HandleWrongPlace(ack) ==
    IF /\ recoveryCount < 3
       /\ ack.state = "RECEIVING"
       /\ ack.eoff <= work.highestSentOffset
       /\ ack.eseq = 1 + ack.eoff
    THEN /\ recoveryCount' = recoveryCount + 1
         /\ work' = [work EXCEPT !.seq = ack.eseq, !.off = ack.eoff]
         /\ UNCHANGED <<run, clean>>
    ELSE RunFails /\ DropWork

HandleProgress(f, ack) ==
    /\ work' = [work EXCEPT !.started = TRUE, !.seq = ack.eseq, !.off = ack.eoff,
                            !.committed = f.type = "COMMIT"]
    /\ run' = IF f.type = "COMMIT" THEN "done" ELSE "upload"
    /\ UNCHANGED <<recoveryCount, clean>>

Handle(f, ack) ==
    IF f.type = "STATUS" THEN HandleStatus(ack)
    ELSE IF ack.error = "TRANSFER_ID" THEN HandleUnknownTransfer
    ELSE IF ack.error \in {"SEQUENCE", "OFFSET"} THEN HandleWrongPlace(ack)
    ELSE IF ack.error # "NONE" THEN RunFails /\ UNCHANGED <<work, clean>>
    ELSE HandleProgress(f, ack)

(* RetryingDataMailbox repeats DATA alone; any other failure ends the run.  *)
ExchangeFails(f) ==
    /\ sent' = None
    /\ run' \in IF f.type = "DATA" THEN {"upload", "off"} ELSE {"off"}
    /\ UNCHANGED <<picture, clean, work, recoveryCount>>

(* The reply the phone waits for is read.                                  *)
PhoneReceive ==
    /\ sent # None
    /\ host # None
    /\ Matches(host, sent)
    /\ Handle(sent, host)
    /\ host' = None
    /\ sent' = None
    /\ UNCHANGED <<cardVars, rf, picture, prepared, lates, losses>>

(* The reply is lost between the mailbox and the phone, or is another's.    *)
PhoneMisses ==
    /\ sent # None
    /\ host # None
    /\ host' = None
    /\ ExchangeFails(sent)
    /\ UNCHANGED <<cardVars, rf, prepared, lates, losses>>

(* No reply comes: the frame or the reply was dropped.  The wait of 1.5 s    *)
(* is long enough for a frame that is still on its way to be answered.      *)
PhoneTimesOut ==
    /\ sent # None
    /\ rf = None /\ outbox = None /\ host = None
    /\ ExchangeFails(sent)
    /\ UNCHANGED <<cardVars, rf, host, prepared, lates, losses>>

(* The session ends, or the wait does, with the answer still on its way.    *)
PhoneLeavesEarly ==
    /\ sent # None
    /\ rf # None \/ outbox # None \/ host # None
    /\ lates < LateLimit
    /\ lates' = lates + 1
    /\ ExchangeFails(sent)
    /\ UNCHANGED <<cardVars, rf, host, prepared, losses>>

(* The mailbox is not free in time: the phone's last frame is still in it.  *)
PhoneFindsBusy ==
    /\ InExchange
    /\ sent = None
    /\ rf # None
    /\ ExchangeFails(NextFrame)
    /\ UNCHANGED <<cardVars, rf, host, prepared, lates, losses>>

(* A late reply occupies the mailbox before the next frame is written: it   *)
(* is read, and taken only if it is the reply to this very DATA frame.      *)
PhoneDrains ==
    /\ InExchange
    /\ sent = None
    /\ host # None
    /\ host' = None
    /\ IF NextFrame.type = "DATA" /\ Matches(host, NextFrame)
       THEN Handle(NextFrame, host)
       ELSE UNCHANGED <<run, clean, work, recoveryCount>>
    /\ UNCHANGED <<cardVars, rf, picture, sent, prepared, lates, losses>>

-----------------------------------------------------------------------------
Init ==
    /\ t = ResetTransfer
    /\ buf = BlankImage
    /\ state = "RECEIVING"
    /\ outbox = None
    /\ stored = None
    /\ rf = None
    /\ host = None
    /\ run = "off"
    /\ picture \in Picture
    /\ clean \in BOOLEAN
    /\ work = None
    /\ sent = None
    /\ recoveryCount = 0
    /\ prepared = 0
    /\ lates = 0
    /\ losses = 0

Next ==
    \/ CardHandle
    \/ CardPublish
    \/ CardGivesUp
    \/ CardStage
    \/ PowerLoss
    \/ \E p \in Picture, c \in BOOLEAN : PhonePrepare(p, c)
    \/ PhoneScan
    \/ PhoneSend
    \/ PhoneReceive
    \/ PhoneMisses
    \/ PhoneTimesOut
    \/ PhoneLeavesEarly
    \/ PhoneFindsBusy
    \/ PhoneDrains

Spec == Init /\ [][Next]_linkVars

(* Fairness of an upload: the card and the app run, their waits end, the   *)
(* user scans again after a failed session, and no kind of exchange     *)
(* fails for ever: its replies are published, and read, some of the time.   *)
Exchange == {"STATUS", "START", "DATA", "COMMIT"}

Fairness ==
    /\ WF_linkVars(CardHandle)
    /\ WF_linkVars(CardGivesUp)
    /\ WF_linkVars(PhoneScan)
    /\ WF_linkVars(PhoneSend)
    /\ WF_linkVars(PhoneDrains)
    /\ WF_linkVars(PhoneTimesOut)
    /\ \A type \in Exchange : SF_linkVars(CardPublish /\ outbox.type = type)
    /\ \A type \in Exchange : SF_linkVars(PhoneReceive /\ sent.type = type)

FairSpec == Spec /\ Fairness

-----------------------------------------------------------------------------
MessageOK(m) == m = None \/ m.type \in Exchange

TypeOK ==
    /\ t.active \in BOOLEAN /\ t.committed \in BOOLEAN
    /\ t.tid \in TransferID \cup {0}
    /\ t.seq \in 0 .. ImageSize + 2
    /\ t.off \in 0 .. ImageSize
    /\ buf \in [1 .. ImageSize -> Chunk \cup {None}]
    /\ state \in {"RECEIVING", "CHARGING"}
    /\ MessageOK(outbox) /\ MessageOK(rf) /\ MessageOK(host) /\ MessageOK(sent)
    /\ run \in {"off", "status", "upload", "done"}
    /\ picture \in Picture
    /\ clean \in BOOLEAN
    /\ work \in Work \cup {None}
    /\ recoveryCount \in 0 .. 3

(* Every DATA is applied once and in its place, however often it is sent:   *)
(* the buffer holds, up to the offset the card expects next, the image that *)
(* START announced, and all of it once the transfer is committed            *)
(* (PROTOCOL.md, transfer rules 2 to 4).                                   *)
BufferHoldsAnnounced ==
    t.active /\ t.crc # NoCrc =>
        /\ SubSeq(buf, 1, t.off) = SubSeq(t.crc, 1, t.off)
        /\ t.committed => buf = t.crc

(* A card in the phone's transfer is where the phone thinks it is, or one   *)
(* frame further: the frame whose reply the phone has not had.  The phone   *)
(* can therefore always go on by repeating its last frame.                  *)
AtMostOneFrameAhead ==
    work # None /\ work.started /\ t.active /\ t.tid = work.id =>
        \/ t.seq = work.seq /\ t.off = work.off
        \/ t.seq = work.seq + 1 /\ t.off = work.off + 1
        \/ t.seq = work.seq + 1 /\ t.off = work.off /\ t.off = ImageSize /\ t.committed

(* Whatever is lost, late or repeated, this phone is refused for one reason *)
(* only, a card that does not know its transfer: never for a sequence       *)
(* number, an offset, a length or a CRC.                                   *)
OnlyUnknownTransferRefused ==
    host # None => host.error \in {"NONE", "TRANSFER_ID"}

(* The upload the phone reports as accepted is the one the card committed:  *)
(* its picture, under its transfer id.                                     *)
ConfirmedImageIsCommitted ==
    [][run # "done" /\ run' = "done" =>
           t.committed /\ t.tid = work.id /\ buf = Image(picture)]_linkVars

(* The picture is accepted in the end, if the exchanges can succeed and the *)
(* user leaves it at the first (a second START of the same image is refused *)
(* under its new transfer id, which StartDiscardsSession is about).         *)
UploadCompletes == [](prepared = 0) => <>(run = "done")

(* PROTOCOL.md, transfer rule 1: START discards the existing session.  (The *)
(* code answers DUPLICATE and keeps the old transfer id if the metadata are *)
(* those of a START that has not been followed by DATA.)                   *)
StartDiscardsSession ==
    [][CardHandle /\ rf.type = "START" /\ outbox'.error = "NONE" =>
           t'.tid = rf.tid]_linkVars
=============================================================================
