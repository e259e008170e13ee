----------------------------- MODULE CardFirmware -----------------------------
(***************************************************************************)
(* The release firmware of firmware/Core/Src/app.c: the transfer protocol   *)
(* (NCTransfer) and the display store (the register DisplayRegister, which  *)
(* DisplayStore implements) driven by the main loop, and what the loop does *)
(* to the panel.                                                           *)
(*                                                                         *)
(* Each branch of app_process is an action, and a call that takes long (a   *)
(* stage, a refresh, a commit) is several, with a power cut possible        *)
(* between any two steps.  A phone may send any frame of any picture at any *)
(* time the mailbox is free.  Time is abstracted: the gate of               *)
(* wait_charge_ready may open or time out whenever it is awaited, and       *)
(* every check of VDD or of the panel may fail.  Which error code is        *)
(* reported (current_error) is left out: it is never read back to decide    *)
(* anything but its own value.                                             *)
(*                                                                         *)
(* An image is a sequence of strips, and a chunk of a transfer is a strip:  *)
(* "W" or "B" in a mono image or in one plane of a gray one.  A gray        *)
(* picture is refreshed one strip at a time.                               *)
(***************************************************************************)
EXTENDS NCTransfer

CONSTANTS
    Picture,      \* what a phone may send: [tid, format, clean, planes, pattern]
    NoFrame,
    TornHeader,
    SeqLimit      \* bound: sequence numbers a phone uses

Strip == 1 .. ImageSize
Image == [Strip -> {"W", "B"}]

(* A gray picture has two planes, a mono one has one, a built-in pattern    *)
(* has none, only its number.  The planes of a gray picture are matched by  *)
(* its transfer id alone, so that no two gray pictures may share one.       *)
ASSUME PictureAssumption ==
    /\ ImageSize \in Nat \ {0}
    /\ SeqLimit \in Nat /\ SeqLimit < SeqModulus
    /\ \A p \in Picture :
           /\ p.tid \in Nat /\ p.pattern \in Nat /\ p.clean \in BOOLEAN
           /\ p.format \in {"mono", "gray", "pattern"}
           /\ p.clean => p.format = "mono"
           /\ p.pattern # 0 => p.format = "pattern"
           /\ p.format = "mono" => p.planes \in [{1} -> Image]
           /\ p.format = "gray" => p.planes \in [{1, 2} -> Image]
    /\ \A p, q \in Picture :
           p.format = "gray" /\ q.format = "gray" /\ p.tid = q.tid => p = q

AllWhite == [i \in Strip |-> "W"]
AllBlack == [i \in Strip |-> "B"]

(* What the store records with an image.                                   *)
StorableFrame ==
    [image : Image, tid : Nat, seq : Nat, pattern : Nat, clean : BOOLEAN,
     format : {"mono", "gray"}]

ASSUME FrameAssumption ==
    /\ NoFrame \notin StorableFrame /\ TornHeader \notin StorableFrame
    /\ NoFrame # TornHeader

(* The frame stored with the picture a board leaves the factory with.       *)
FactoryFrame ==
    [image |-> AllBlack, tid |-> 0, seq |-> 0, pattern |-> 0, clean |-> FALSE,
     format |-> "mono"]

VARIABLES
    t,             \* transfer
    buf,           \* image_buffer
    state,         \* current_state
    staged,        \* target_staged
    clean_active,  \* batch_clean_active
    clean_phase,   \* 0 none, 1 white, 2 black, 3 white again, 4 target
    full_first,    \* force_full_clean_first
    gray_rows,     \* gray4_completed_rows, in strips
    ack_read,      \* execute_ack_was_read
    pause,         \* "none", "requested" or "paused" for a write of the NDEF record
    pc,            \* "loop", or the blocking call: "stage", "drive", "commit"
    committed, prepared, header, staging, committing,   \* the display store
    host,          \* the reply in the mailbox: "empty", "ack" or "error"
    brownout,      \* board_brownout_detected(), latched until reset
    panel,         \* what each strip of the panel shows
    adrift         \* history: the images that refreshes have driven the panel toward
                   \* since it last showed the frame on record

loopVars == <<clean_active, clean_phase, full_first, gray_rows>>
storeVars == <<committed, prepared, header, staging, committing>>
panelVars == <<panel, adrift>>
vars == <<t, buf, state, staged, loopVars, ack_read, pause, pc, storeVars, host, brownout,
          panelVars>>

Store == INSTANCE DisplayRegister WITH Frame <- StorableFrame

-----------------------------------------------------------------------------
(* The store's getters.                                                    *)

committed_format == IF committed = NoFrame THEN "none" ELSE committed.format
pending_format == IF header \in {NoFrame, TornHeader} THEN "none" ELSE header.format
pending_tid == IF header \in {NoFrame, TornHeader} THEN 0 ELSE header.tid

PlaneZeroPending(id) == pending_format = "gray" /\ pending_tid = id

-----------------------------------------------------------------------------
(* Boot: app_init, once the store has been scanned (its variables primed).  *)

(* Mutant: the transfer taken up again is not marked committed.             *)
ResumedUncommitted(f, seq, executed) ==
    [ResetTransfer EXCEPT
        !.active = TRUE, !.execute_requested = executed, !.tid = f.tid, !.seq = seq,
        !.off = ImageSize, !.format = f.format]

(* The transfer as it stood when frame f was stored.                         *)
Resumed(f, seq, executed) ==
    [ResetTransfer EXCEPT
        !.active = TRUE, !.committed = TRUE, !.execute_requested = executed,
        !.tid = f.tid, !.seq = seq, !.off = ImageSize,
        !.pattern = f.pattern, !.format = f.format,
        !.plane = IF executed /\ f.format = "gray" THEN 1 ELSE 0,
        !.clean = ~ executed /\ f.clean]

(* A prepared frame is taken up again, or the frame on record is reported   *)
(* as complete, or the card waits for a first picture.                     *)
Boot ==
    /\ IF prepared' # NoFrame
       THEN /\ t' = Resumed(prepared', prepared'.seq, FALSE)
            /\ state' = IF pending_format' = "gray" THEN "RECEIVING" ELSE "CHARGING"
            /\ buf' = IF pending_format' = "gray" THEN AllBlack ELSE prepared'.image
            /\ full_first' = (pending_format' = "mono" /\ committed_format' = "gray")
       ELSE /\ t' = IF committed' = NoFrame THEN ResetTransfer
                    ELSE Resumed(committed', (committed'.seq + 1) % SeqModulus, TRUE)
            /\ state' = IF committed' = NoFrame THEN "RECEIVING" ELSE "COMPLETE"
            /\ buf' = AllBlack
            /\ full_first' = FALSE
    /\ staged' = (prepared' # NoFrame)
    /\ clean_active' = FALSE
    /\ clean_phase' = 0
    /\ gray_rows' = 0
    /\ ack_read' = FALSE
    /\ pause' = "none"
    /\ pc' = "loop"
    /\ host' = "empty"
    /\ brownout' = FALSE

(* A provisioned board shows the frame it has on record; one that never was *)
(* is taken to be white.                                                   *)
Init ==
    /\ committed \in {NoFrame, FactoryFrame}
    /\ prepared = NoFrame /\ header = NoFrame /\ staging = NoFrame /\ committing = FALSE
    /\ t = IF committed = NoFrame THEN ResetTransfer ELSE Resumed(FactoryFrame, 1, TRUE)
    /\ state = IF committed = NoFrame THEN "RECEIVING" ELSE "COMPLETE"
    /\ buf = AllBlack
    /\ staged = FALSE /\ clean_active = FALSE /\ clean_phase = 0
    /\ full_first = FALSE /\ gray_rows = 0 /\ ack_read = FALSE
    /\ pause = "none" /\ pc = "loop" /\ host = "empty" /\ brownout = FALSE
    /\ panel = [i \in Strip |-> <<"mono", IF committed = NoFrame THEN "W" ELSE "B">>]
    /\ adrift = {}

(* Power fails, in whatever the card is doing, and returns.                 *)
PowerCycle ==
    /\ Store!PowerCycle
    /\ Boot
    /\ UNCHANGED panelVars

-----------------------------------------------------------------------------
(* handle_message.                                                         *)

(* The mailbox holds one message, a frame or a reply: a frame can arrive    *)
(* when no reply waits in it, and the loop reads it unless it is paused.    *)
Listening == pc = "loop" /\ ~ brownout /\ pause = "none" /\ host = "empty"

(* Publishing a reply may fail.                                            *)
Answer(reply) == host' \in {"empty", reply}

(* A frame with no effect but its answer.                                  *)
AnswerOnly(reply) ==
    /\ Answer(reply)
    /\ UNCHANGED <<t, buf, state, staged, loopVars, ack_read>>

(* An EXECUTE too early is answered with the status.                        *)
ExecuteWhileCharging(f) == f.type = "EXECUTE" /\ t.committed /\ state = "CHARGING"

(* Frames that app.c refuses before the transfer sees them.                 *)
RefusedFirst(f) ==
    \/ /\ f.type = "EXECUTE" /\ ~ ExecuteWhileCharging(f)
       /\ state # "READY" \/ (t.format = "gray" /\ t.plane # 1)
    \/ /\ f.type = "START" /\ f.body.format = "gray" /\ f.body.plane = 1
       /\ ~ PlaneZeroPending(f.tid)

(* Mutant: the card goes on with what it was doing.                         *)
StartKeepsState(r) ==
    /\ buf' = r.buf
    /\ staged' = (r.t.format = "gray" /\ r.t.plane = 1)
    /\ clean_active' = FALSE
    /\ clean_phase' = 0
    /\ full_first' = (r.t.format = "mono" /\ committed_format = "gray")
    /\ gray_rows' = 0
    /\ Answer("ack")
    /\ UNCHANGED <<state, ack_read>>

(* START, repeated or not: the card is ready to receive.                    *)
AfterStart(r) ==
    /\ buf' = r.buf
    /\ staged' = (r.t.format = "gray" /\ r.t.plane = 1)
    /\ clean_active' = FALSE
    /\ clean_phase' = 0
    /\ full_first' = (r.t.format = "mono" /\ committed_format = "gray")
    /\ gray_rows' = 0
    /\ state' = "RECEIVING"
    /\ Answer("ack")
    /\ UNCHANGED ack_read

(* fixed_image_make_pattern.                                               *)
PatternImage(n) ==
    CASE n = 3 -> AllBlack
      [] n = 4 -> AllWhite
      [] OTHER -> [i \in Strip |-> IF i % 2 = 1 THEN "W" ELSE "B"]

(* A whole picture is in: charge.                                          *)
AfterCommit(r) ==
    /\ buf' = IF r.result = "PATTERN" THEN PatternImage(r.t.pattern) ELSE r.buf
    /\ staged' = (r.t.format = "gray" /\ r.t.plane = 1)
    /\ clean_active' = FALSE
    /\ clean_phase' = 0
    /\ full_first' = IF r.result = "PATTERN" THEN committed_format = "gray" ELSE full_first
    /\ state' = "CHARGING"
    /\ Answer("ack")
    /\ UNCHANGED <<gray_rows, ack_read>>

(* EXECUTE: its ACK is the synchronisation point of the refresh, so that    *)
(* failing to publish it is an error.                                      *)
AfterExecute(r) ==
    LET cleaning == r.t.clean \/ full_first
    IN  /\ buf' = r.buf
        /\ gray_rows' = IF r.t.format = "gray" THEN 0 ELSE gray_rows
        /\ clean_active' = (clean_active \/ cleaning)
        /\ clean_phase' = IF cleaning THEN 1 ELSE clean_phase
        /\ \/ state' = "EXECUTE_ACK" /\ host' = "ack" /\ ack_read' = FALSE
           \/ state' = "ERROR" /\ host' = "empty" /\ UNCHANGED ack_read
        /\ UNCHANGED <<staged, full_first>>

Applied(f, r) ==
    /\ t' = r.t
    /\ CASE f.type = "START"                       -> AfterStart(r)
         [] r.result \in {"COMMITTED", "PATTERN"}  -> AfterCommit(r)
         [] r.result = "EXECUTE"                   -> AfterExecute(r)
         [] OTHER -> /\ buf' = r.buf
                     /\ Answer("ack")
                     /\ UNCHANGED <<state, staged, loopVars, ack_read>>

HandleMessage(f) ==
    LET r == nc_transfer_apply(t, buf, f)
    IN  /\ Listening
        /\ CASE ExecuteWhileCharging(f)  -> AnswerOnly("ack")
             [] RefusedFirst(f)          -> AnswerOnly("error")
             [] OTHER -> IF r.result = "REJECTED" THEN AnswerOnly("error") ELSE Applied(f, r)
        /\ UNCHANGED <<pause, pc, storeVars, brownout, panelVars>>

(* STATUS, or a message that does not parse.                               *)
HandleOther ==
    /\ Listening
    /\ AnswerOnly("ack") \/ AnswerOnly("error")
    /\ UNCHANGED <<pause, pc, storeVars, brownout, panelVars>>

(* NDEF_WRITE_PREPARE: the phone asks for the mailbox to be left alone.     *)
HandleNdefWritePrepare ==
    /\ Listening
    /\ IF state \in {"REFRESHING", "EXECUTE_ACK"}
       THEN Answer("error") /\ UNCHANGED pause
       ELSE \/ host' = "ack" /\ pause' = "requested"
            \/ host' = "empty" /\ UNCHANGED pause
    /\ UNCHANGED <<t, buf, state, staged, loopVars, ack_read, pc, storeVars, brownout, panelVars>>

(* The loop stops the mailbox once the ACK has been read, and goes on when  *)
(* the phone has enabled it again.                                         *)
NdefPause ==
    /\ pc = "loop" /\ ~ brownout
    /\ \/ pause = "requested" /\ host = "empty" /\ pause' = "paused"
       \/ pause = "paused" /\ pause' = "none"
    /\ UNCHANGED <<t, buf, state, staged, loopVars, ack_read, pc, storeVars, host, brownout,
                   panelVars>>

(* The phone reads the reply.                                              *)
PhoneReads ==
    /\ host # "empty"
    /\ host' = "empty"
    /\ UNCHANGED <<t, buf, state, staged, loopVars, ack_read, pause, pc, storeVars, brownout,
                   panelVars>>

-----------------------------------------------------------------------------
(* app_process: charging and staging.                                      *)

Running == pc = "loop" /\ ~ brownout /\ pause = "none"

(* set_error, from wherever it is called.                                  *)
StopWithError ==
    /\ state' = "ERROR"
    /\ pc' = "loop"
    /\ UNCHANGED <<t, buf, staged, loopVars, ack_read, pause, host, brownout, panelVars>>

ChargeTimesOut ==
    /\ Running
    /\ state = "CHARGING"
    /\ StopWithError
    /\ UNCHANGED storeVars

FrameToStage ==
    [image |-> buf, tid |-> t.tid, seq |-> t.seq, pattern |-> t.pattern,
     clean |-> t.clean, format |-> t.format]

StageBegins ==
    /\ Running
    /\ state = "CHARGING"
    /\ ~ staged
    /\ Store!Begin(FrameToStage)
    /\ pc' = "stage"
    /\ UNCHANGED <<t, buf, state, staged, loopVars, ack_read, pause, host, brownout, panelVars>>

StageWrites ==
    /\ pc = "stage"
    /\ Store!Disturb
    /\ UNCHANGED <<t, buf, state, staged, loopVars, ack_read, pause, pc, host, brownout,
                   panelVars>>

StageSucceeds ==
    /\ pc = "stage"
    /\ Store!Land
    /\ staged' = TRUE
    /\ pc' = "loop"
    /\ UNCHANGED <<t, buf, state, loopVars, ack_read, pause, host, brownout, panelVars>>

(* Mutant: the result of display_store_stage is not looked at.              *)
StageErrorIgnored ==
    /\ pc = "stage"
    /\ Store!Fail
    /\ staged' = TRUE
    /\ pc' = "loop"
    /\ UNCHANGED <<t, buf, state, loopVars, ack_read, pause, host, brownout, panelVars>>

StageFails ==
    /\ pc = "stage"
    /\ Store!Fail
    /\ StopWithError

(* Charged, with a refresh still to be asked for.                          *)
BecomesReady ==
    /\ Running
    /\ state = "CHARGING"
    /\ staged /\ ~ clean_active
    /\ ~ (t.format = "gray" /\ t.execute_requested /\ gray_rows < ImageSize)
    /\ state' = "READY"
    /\ UNCHANGED <<t, buf, staged, loopVars, ack_read, pause, pc, storeVars, host, brownout,
                   panelVars>>

-----------------------------------------------------------------------------
(* refresh_partial and refresh_gray4.                                      *)

(* Mutant: every phase of a clean cycle starts from the frame on record.     *)
BaselineIsTheRecord == IF committed_format = "mono" THEN committed.image ELSE AllWhite

(* write_previous_for_refresh, write_current_for_refresh.                  *)
PreviousImage ==
    IF clean_active /\ clean_phase \in {2, 4} THEN AllWhite
    ELSE IF clean_active /\ clean_phase = 3 THEN AllBlack
    ELSE IF committed_format = "mono" THEN committed.image ELSE AllWhite

CurrentImage ==
    IF clean_active /\ clean_phase \in {1, 3} THEN AllWhite
    ELSE IF clean_active /\ clean_phase = 2 THEN AllBlack ELSE buf

full_clean_step == full_first /\ clean_active /\ clean_phase = 1

IsGray == t.format = "gray" /\ ~ clean_active

(* The strips a refresh drives: where the images differ, all of them in a   *)
(* full update, the next band of a gray one.                               *)
Driven ==
    IF IsGray THEN {gray_rows + 1}
    ELSE IF full_clean_step THEN Strip
    ELSE {i \in Strip : PreviousImage[i] # CurrentImage[i]}

(* What a strip shows when the waveform has run to its end, and until then. *)
Shade(i) ==
    IF IsGray THEN <<"gray", header.image[i], buf[i]>> ELSE <<"mono", CurrentImage[i]>>
Unsettled == <<"unsettled">>

(* The waveform starts; IMAGES are the images it drives the panel toward.   *)
StartDriving(images) ==
    /\ pc' = "drive"
    /\ state' = "REFRESHING"
    /\ panel' = [i \in Strip |-> IF i \in Driven THEN Unsettled ELSE panel[i]]
    /\ adrift' = adrift \cup images
    /\ UNCHANGED <<t, buf, staged, loopVars, ack_read, pause, storeVars, host, brownout>>

(* A check of VDD, of the brownout latch or of the panel fails.             *)
RefreshRefused == StopWithError /\ UNCHANGED storeVars

refresh_partial == RefreshRefused \/ StartDriving({CurrentImage})

(* A gray refresh first looks for its plane 0.                              *)
refresh_gray4 == RefreshRefused \/ (PlaneZeroPending(t.tid) /\ StartDriving(Image))

Refresh == IF IsGray THEN refresh_gray4 ELSE refresh_partial

(* The next phase of a clean cycle, the next band of a gray picture.        *)
RefreshContinues ==
    /\ Running
    /\ state = "CHARGING"
    /\ staged
    /\ clean_active \/ (IsGray /\ t.execute_requested /\ gray_rows < ImageSize)
    /\ Refresh

(* Mutants: one phase too many, and a cycle that does not advance.           *)
OnePhaseMore == 5
SamePhase == clean_phase

CLEAN_PHASE_TARGET == 4
NextPhase == clean_phase + 1

(* The waveform runs to its end.                                           *)
DriveEnds ==
    /\ pc = "drive"
    /\ ~ brownout
    /\ panel' = [i \in Strip |-> IF i \in Driven THEN Shade(i) ELSE panel[i]]
    /\ UNCHANGED <<t, buf, staged, clean_active, full_first, ack_read, pause, host, brownout,
                   adrift>>

ChargeAgain ==
    /\ state' = "CHARGING"
    /\ pc' = "loop"
    /\ UNCHANGED storeVars

(* The record is next; there may be none to make.                          *)
CommitBegins ==
    /\ pc' = "commit"
    /\ IF prepared = NoFrame THEN UNCHANGED storeVars ELSE Store!Commit
    /\ UNCHANGED state

PartialEnds ==
    /\ DriveEnds
    /\ ~ IsGray
    /\ \/ /\ clean_active /\ clean_phase < CLEAN_PHASE_TARGET
          /\ ChargeAgain
          /\ clean_phase' = NextPhase
       \/ /\ ~ (clean_active /\ clean_phase < CLEAN_PHASE_TARGET)
          /\ CommitBegins
          /\ UNCHANGED clean_phase
    /\ UNCHANGED gray_rows

GrayBandEnds ==
    /\ DriveEnds
    /\ IsGray
    /\ gray_rows' = gray_rows + 1
    /\ IF gray_rows' < ImageSize THEN ChargeAgain ELSE CommitBegins
    /\ UNCHANGED clean_phase

DriveFails ==
    /\ pc = "drive"
    /\ StopWithError
    /\ UNCHANGED storeVars

(* display_store_commit returns TRUE: the refresh is complete.              *)
Recorded ==
    /\ pc = "commit"
    /\ Store!Promote
    /\ state' = "COMPLETE"
    /\ pc' = "loop"
    /\ staged' = FALSE
    /\ full_first' = FALSE
    /\ UNCHANGED <<t, buf, ack_read, pause, host, brownout, panel>>

(* A clean cycle leaves nothing of what was shown before; a partial refresh *)
(* does if the panel was not where its baseline says.                      *)
PartialRecorded ==
    /\ ~ IsGray
    /\ Recorded
    /\ clean_active' = FALSE
    /\ clean_phase' = 0
    /\ adrift' = IF clean_active \/ adrift = {buf} THEN {} ELSE adrift
    /\ UNCHANGED gray_rows

GrayRecorded ==
    /\ IsGray
    /\ Recorded
    /\ gray_rows' = 0
    /\ adrift' = {}
    /\ UNCHANGED <<clean_active, clean_phase>>

CommitSucceeds == PartialRecorded \/ GrayRecorded

(* The slot does not validate, or its marker is not written.                *)
CommitFails ==
    /\ pc = "commit"
    /\ Store!Spoil \/ (~ committing /\ UNCHANGED storeVars)
    /\ StopWithError

-----------------------------------------------------------------------------
(* app_process: the acknowledgement of EXECUTE, and brownout.               *)

AckIsRead ==
    /\ Running
    /\ state = "EXECUTE_ACK"
    /\ ~ ack_read
    /\ host = "empty"
    /\ ack_read' = TRUE
    /\ UNCHANGED <<t, buf, state, staged, loopVars, pause, pc, storeVars, host, brownout,
                   panelVars>>

QuietIsOver ==
    /\ Running
    /\ state = "EXECUTE_ACK"
    /\ ack_read
    /\ Refresh

AckTimesOut ==
    /\ Running
    /\ state = "EXECUTE_ACK"
    /\ ~ ack_read
    /\ StopWithError
    /\ UNCHANGED storeVars

(* The interrupt handler latches a brownout at any moment.                  *)
Brownout ==
    /\ ~ brownout
    /\ brownout' = TRUE
    /\ UNCHANGED <<t, buf, state, staged, loopVars, ack_read, pause, pc, storeVars, host,
                   panelVars>>

BrownoutStops ==
    /\ pc = "loop" /\ brownout
    /\ state # "ERROR"
    /\ StopWithError
    /\ UNCHANGED storeVars

-----------------------------------------------------------------------------
(* The frames a phone may send.  It may send the planes of a gray picture   *)
(* in the wrong session.                                                   *)

StartFrame(p, k) ==
    [type |-> "START", tid |-> p.tid, seq |-> 0, off |-> 0,
     body |-> [format |-> p.format, plane |-> IF p.format = "gray" THEN k - 1 ELSE 1,
               clean |-> p.clean, crc |-> p.planes[k]]]

PatternFrame(p) ==
    [type |-> "PATTERN", tid |-> p.tid, seq |-> 0, off |-> 0, body |-> p.pattern]

SessionFrame(type, p, n, off, body) ==
    [type |-> type, tid |-> p.tid, seq |-> n, off |-> off, body |-> body]

PhoneFrame ==
    UNION {LET Built == p.format = "pattern"
           IN  (IF Built THEN {PatternFrame(p)} ELSE {StartFrame(p, k) : k \in DOMAIN p.planes})
               \cup {SessionFrame("DATA", p, 1, 0, p.planes[k]) :
                         k \in IF Built THEN {} ELSE DOMAIN p.planes}
               \cup {SessionFrame(type, p, n, ImageSize, <<>>) :
                         type \in {"COMMIT", "EXECUTE"}, n \in 1 .. SeqLimit}
           : p \in Picture}

Card ==
    \/ NdefPause
    \/ ChargeTimesOut \/ BecomesReady
    \/ StageBegins \/ StageWrites \/ StageSucceeds \/ StageFails
    \/ RefreshContinues \/ PartialEnds \/ GrayBandEnds \/ DriveFails
    \/ CommitSucceeds \/ CommitFails
    \/ AckIsRead \/ QuietIsOver \/ AckTimesOut
    \/ BrownoutStops

Next ==
    \/ Card
    \/ \E f \in PhoneFrame : HandleMessage(f)
    \/ HandleOther
    \/ HandleNdefWritePrepare
    \/ PhoneReads
    \/ Brownout
    \/ PowerCycle

Spec == Init /\ [][Next]_vars

(* The loop runs again and again, so a step of its own that stays possible  *)
(* is taken: the waits it polls for have timeouts, and the calls it makes   *)
(* return.  Nothing is assumed of the phone, of the field or of StageWrites *)
(* and NdefPause.                                                          *)
Progress ==
    \/ ChargeTimesOut \/ StageBegins \/ BecomesReady \/ RefreshContinues
    \/ StageSucceeds \/ StageFails
    \/ PartialEnds \/ GrayBandEnds \/ DriveFails
    \/ CommitSucceeds \/ CommitFails
    \/ AckIsRead \/ QuietIsOver \/ AckTimesOut
    \/ BrownoutStops

FairSpec == Spec /\ WF_vars(Progress)

-----------------------------------------------------------------------------
(* app_state_t; APP_STATE_BOOT does not outlast app_init.                    *)
AppState ==
    {"RECEIVING", "CHARGING", "READY", "EXECUTE_ACK", "REFRESHING", "COMPLETE", "ERROR"}

(* Every variable has its type; the phase of a clean cycle and the count of  *)
(* gray bands stay within their range.                                     *)
TypeOK ==
    /\ t.seq \in 0 .. SeqModulus - 1 /\ t.off \in 0 .. ImageSize
    /\ buf \in Image
    /\ state \in AppState
    /\ staged \in BOOLEAN /\ clean_active \in BOOLEAN /\ full_first \in BOOLEAN
    /\ clean_phase \in 0 .. 4
    /\ gray_rows \in 0 .. ImageSize
    /\ ack_read \in BOOLEAN
    /\ pause \in {"none", "requested", "paused"}
    /\ pc \in {"loop", "stage", "drive", "commit"}
    /\ Store!RegTypeOK
    /\ host \in {"empty", "ack", "error"}
    /\ brownout \in BOOLEAN
    /\ panel \in [Strip -> {Unsettled} \cup {<<"mono", c>> : c \in {"W", "B"}}
                       \cup {<<"gray", b, c>> : b \in {"W", "B"}, c \in {"W", "B"}}]
    /\ adrift \subseteq Image

(* What strip i shows is what frame f, or a board with none, stands for.    *)
Shows(i, f) ==
    IF f = NoFrame THEN panel[i] = <<"mono", "W">>
    ELSE IF f.format = "mono" THEN panel[i] = <<"mono", f.image[i]>>
    ELSE \E b \in {"W", "B"} : panel[i] = <<"gray", f.image[i], b>>

(* A completed refresh leaves the panel showing the frame on record, however *)
(* many refreshes were cut short before it, provided that they were of the  *)
(* same picture or that the completed one was a clean cycle or gray:        *)
(* repeating old -> target heals an interrupted partial refresh, and a      *)
(* clean cycle started again from white heals anything (PRODUCT_DESIGN.md).  *)
RecordIsShown ==
    state = "COMPLETE" /\ adrift = {} => \A i \in Strip : Shows(i, committed)

(* The pictures a stored frame can be of.                                  *)
PictureOf(f) ==
    {p \in Picture :
        /\ p.tid = f.tid /\ p.clean = f.clean /\ p.pattern = f.pattern
        /\ f.image = IF p.format = "pattern" THEN PatternImage(p.pattern) ELSE p.planes[1]
        /\ f.format = IF p.format = "gray" THEN "gray" ELSE "mono"}

(* No mixture of pictures ever reaches the Flash: what is prepared or on     *)
(* record is one whole picture that a phone sent, under its own transfer    *)
(* id, although the buffer it is staged from is received into long before.  *)
RecordWasSent ==
    \A f \in {committed, prepared} : f \in {NoFrame, FactoryFrame} \/ PictureOf(f) # {}

(* READY is a promise that survives a power cut: the picture in the buffer   *)
(* is in Flash, under the transfer id the phone was told (PROTOCOL.md rules *)
(* 8 and 9).  The second plane of a gray picture is not kept.              *)
ReadyIsDurable ==
    state \in {"READY", "EXECUTE_ACK"} /\ (t.format = "gray" => t.plane = 0)
        => prepared # NoFrame /\ prepared.tid = t.tid /\ prepared.image = buf

(* The phone can always act on READY: an EXECUTE with the transfer id,       *)
(* sequence number and offset the card reports is accepted, also when the   *)
(* card took the transfer up again after a power cut.                      *)
ReadyAcceptsExecute ==
    state = "READY" /\ (t.format = "gray" => t.plane = 1)
        => LET f == [type |-> "EXECUTE", tid |-> t.tid, seq |-> t.seq, off |-> t.off,
                     body |-> <<>>]
           IN  nc_transfer_apply(t, buf, f).result = "EXECUTE"

(* The panel is driven only for a transfer whose EXECUTE was accepted, from  *)
(* planes that belong together: the target of a mono refresh is the frame   *)
(* that its commit will put on record, and a gray one joins the two planes  *)
(* of one picture although they were received in separate sessions.        *)
RefreshIsOfOnePicture ==
    pc = "drive" =>
        /\ t.committed /\ t.execute_requested
        /\ IF IsGray
           THEN \E p \in Picture : /\ p.tid = t.tid /\ p.format = "gray"
                                   /\ header.image = p.planes[1] /\ buf = p.planes[2]
           ELSE prepared # NoFrame /\ prepared.tid = t.tid /\ prepared.image = buf

(* A card that charges or refreshes gets somewhere, through every phase of a *)
(* clean cycle and every band of a gray picture, once power stays: it ends  *)
(* ready, complete or in error unless the phone keeps it from running.      *)
Busy == state \in {"CHARGING", "EXECUTE_ACK", "REFRESHING"}

BusySettles == <>[][~ PowerCycle]_vars => (Busy ~> ~ Busy \/ pause # "none")
=============================================================================
