------------------------------ MODULE ExecuteLink ------------------------------
(***************************************************************************)
(* The iOS coordinator (TransferCoordinator.swift) with the card's firmware  *)
(* (CardFirmware): one job, to show an image, over as many NFC sessions as   *)
(* it takes, from the first STATUS of each to the STATUS that confirms the   *)
(* refresh.                                                                  *)
(*                                                                           *)
(* A frame and its reply pass through the card's mailbox.  Replies carry what *)
(* the coordinator looks at: the state, the error (with current_error, which *)
(* CardFirmware leaves out), the position and the capabilities.  The card    *)
(* reads a frame and publishes the reply in one step, so that a reply the    *)
(* phone no longer waits for is found, and dropped, before the next frame is *)
(* written; TransferLink has the replies that come in between, and the       *)
(* bounds of the upload's own recovery.  Deadlines and bounds on retries are *)
(* left out: a run may give up wherever the code may, and a session may be   *)
(* lost at any time.  Jobs are images; the card supports batch cleaning and  *)
(* the hardware profile allows every route.  The transfer id that a first    *)
(* STATUS uses up is left out.                                               *)
(***************************************************************************)
EXTENDS CardFirmware

CONSTANTS
    Target,        \* the image of the job
    Others,        \* pictures of another phone
    WorkLimit,     \* bound: transfer ids the coordinator allocates
    JobLimit,      \* bound: times the user prepares the job
    Resets,        \* whether the card may lose power while the phone stays
    OtherLimit,    \* bound: frames of the other phone
    FaultLimit     \* bound: power cuts, errors of the card, lost replies and
                   \* sessions, and exchanges given up

(* The ids of the job are its own, and a START with any of them, for a batch *)
(* clean or not, is a START of a picture of the card's phones.              *)
ASSUME LinkAssumption ==
    /\ Target \in Image /\ Others \subseteq Picture
    /\ Resets \in BOOLEAN /\ WorkLimit \in Nat
    /\ \A id \in 1 .. WorkLimit, batch \in BOOLEAN :
           \E p \in Picture : p.tid = id /\ p.clean = batch
    /\ \A p \in Picture :
           /\ p.tid # 0
           /\ p.tid \in 1 .. WorkLimit => p.format = "mono" /\ p.planes[1] = Target
    /\ \A p \in Others : p.tid \notin 1 .. WorkLimit

VARIABLES
    request,        \* the frame in the mailbox
    reply,          \* the reply in the mailbox, when host says there is one
    current_error,
    job,
    nextID,
    at,             \* where the run is, "away" between runs
    waiting,        \* for the reply to request
    outcome,        \* of the last run
    budget          \* what the bounds leave: jobs, others, faults

coordinator == <<job, nextID, at, waiting, outcome>>
mailbox == <<request, reply, host>>
card == <<t, buf, state, staged, loopVars, ack_read, pause, pc, storeVars, brownout,
          panelVars, current_error>>
linkVars == <<vars, request, reply, current_error, coordinator, budget>>

NoRequest == [type |-> "NONE"]
NoReply == [type |-> "NONE"]
StatusFrame == [type |-> "STATUS", tid |-> 0, seq |-> 0, off |-> 0, body |-> <<>>]

Work(id, batch, gray) ==
    [id |-> id, batch |-> batch, gray |-> gray, started |-> FALSE,
     committed |-> FALSE, seq |-> 0, off |-> 0, high |-> 0,
     executeSent |-> FALSE, executeAcknowledged |-> FALSE,
     refreshMayBeActive |-> FALSE]
NoWork == Work(0, FALSE, FALSE)
Job(clean) == [clean |-> clean, recovery |-> FALSE, work |-> NoWork]
NoJob == [clean |-> FALSE, recovery |-> FALSE, work |-> Work(0, TRUE, TRUE)]

LinkInit ==
    /\ Init
    /\ request = NoRequest /\ reply = NoReply
    /\ current_error = "NONE"
    /\ job = NoJob
    /\ nextID = 1
    /\ at = "away"
    /\ waiting = FALSE
    /\ outcome = "none"
    /\ budget = [jobs |-> JobLimit, others |-> OtherLimit, faults |-> FaultLimit]

Spend(kind) ==
    /\ budget[kind] > 0
    /\ budget' = [budget EXCEPT ![kind] = @ - 1]

\* A failure of the card, counted as a fault, or no failure.
Counted(failure) == IF failure THEN Spend("faults") ELSE UNCHANGED budget

-----------------------------------------------------------------------------
(* The card. *)

Stops == state' = "ERROR" /\ state # "ERROR"

CardRuns(Step) ==
    /\ Step
    /\ current_error' = IF Stops THEN "FAULT" ELSE current_error
    /\ Counted(Stops)
    /\ UNCHANGED <<request, reply, coordinator>>

CardStep == CardRuns(Card)

(* The card lives on the field of the phone: power goes with the phone, and  *)
(* it may dip while the phone stays.  The fault that led to a brownout is     *)
(* counted.                                                                  *)
CardLosesPower ==
    /\ at = "away" \/ Resets
    /\ PowerCycle
    /\ Counted(~ brownout)
    /\ current_error' = "NONE"
    /\ request' = NoRequest
    /\ reply' = NoReply
    /\ UNCHANGED coordinator

CardBrownout ==
    /\ Brownout
    /\ Spend("faults")
    /\ UNCHANGED <<request, reply, current_error, coordinator>>

(* What send_reply puts into a reply to frame f.                             *)
ReplyTo(f, result, error) ==
    [type     |-> f.type,
     rejected |-> result = "REJECTED",
     deferred |-> result = "STATUS_ONLY" /\ state' = "CHARGING",
     state    |-> state',
     error    |-> IF error # "NONE" THEN error ELSE current_error',
     seq      |-> t'.seq,
     off      |-> t'.off,
     pending  |-> prepared # NoFrame,
     cleaning |-> clean_active',
     gray     |-> "gray" \in {committed_format, pending_format}]

(* handle_message with the reply it publishes, or fails to.  An NFC_IO error *)
(* is forgotten when the next message is read.                               *)
HandleFrame(f) ==
    LET status == f.type = "STATUS" \/ ExecuteWhileCharging(f)
        refused == f.type # "STATUS" /\ RefusedFirst(f)
        r == nc_transfer_apply(t, buf, f)
        error == IF current_error = "NFC_IO" /\ state # "ERROR" THEN "NONE"
                 ELSE current_error
    IN  /\ IF f.type = "STATUS" THEN HandleOther /\ host' # "error" ELSE HandleMessage(f)
        /\ current_error' = IF status \/ refused THEN error
                            ELSE IF host' = "empty" /\ r.error = "NONE" THEN "NFC_IO"
                            ELSE r.error
        /\ reply' = IF host' = "empty" THEN NoReply
                    ELSE IF status THEN ReplyTo(f, "STATUS_ONLY", error)
                    ELSE IF refused THEN ReplyTo(f, "REJECTED", "NOT_COMMITTED")
                    ELSE ReplyTo(f, r.result, r.error)

CardReads ==
    /\ request # NoRequest
    /\ HandleFrame(request)
    /\ Counted(host' = "empty")
    /\ request' = NoRequest
    /\ UNCHANGED coordinator

(* Another phone, between the sessions of this one.                          *)
OtherPhone ==
    /\ at = "away" /\ request = NoRequest
    /\ \/ /\ budget.others > 0
          /\ \E f \in PhoneFrame :
                 /\ f.tid \in {p.tid : p \in Others}
                 /\ f.type \in {"COMMIT", "EXECUTE"} => f.seq = t.seq
                 /\ HandleFrame(f)
                 /\ host' # "empty"
          /\ Spend("others")
          /\ UNCHANGED coordinator
       \/ /\ PhoneReads
          /\ reply' = NoReply
          /\ UNCHANGED <<current_error, coordinator, budget>>
    /\ UNCHANGED request

-----------------------------------------------------------------------------
(* How a run ends.                                                           *)

Forget(j) == [j EXCEPT !.work = NoWork, !.clean = TRUE]

Ended(result, j) ==
    /\ at' = "away"
    /\ waiting' = FALSE
    /\ outcome' = result
    /\ job' = [j EXCEPT !.recovery = TRUE]
    /\ UNCHANGED nextID

NeedResume(j) == Ended("resumeNeeded", j)
HoldField(j) == Ended("holdField", j)

(* Any other error: the field is held while a refresh may be active.         *)
Throw(j) == Ended(IF j.work.refreshMayBeActive THEN "holdField" ELSE "failed", j)

(* inconsistentAcknowledgement and firmwareRestarted.                        *)
Inconsistent(j) ==
    Throw(IF j.work.refreshMayBeActive \/ j.work.executeSent THEN j ELSE Forget(j))

InRun == at # "away"

-----------------------------------------------------------------------------
(* Exchanges (ST25Mailbox.exchange).                                         *)

Send(frame) ==
    /\ ~waiting
    /\ request = NoRequest /\ host = "empty"
    /\ request' = frame
    /\ waiting' = TRUE
    /\ UNCHANGED <<card, reply, host, nextID, at, outcome, budget>>

\* A reply to an earlier frame is read and dropped.
DropReply ==
    /\ InRun /\ ~waiting
    /\ PhoneReads
    /\ reply' = NoReply
    /\ UNCHANGED <<request, current_error, coordinator, budget>>

(* The reply is read; Then says what the run does with it.                   *)
Receive(place, Then(_)) ==
    /\ at = place /\ waiting
    /\ PhoneReads
    /\ reply' = NoReply
    /\ Then(reply)
    /\ UNCHANGED <<request, current_error, budget>>

Proceed(place, j) ==
    /\ at' = place
    /\ waiting' = FALSE
    /\ job' = j
    /\ UNCHANGED <<nextID, outcome>>

\* The frame will not be answered: the fault that cost its reply is counted.
Unanswered == waiting /\ (brownout \/ (request = NoRequest /\ host = "empty"))

\* A DATA (RetryingDataMailbox), or the STATUS of confirmRefreshStatus.
SentAgain ==
    at = "confirm" \/ (at = "upload" /\ job.work.started /\ job.work.off < ImageSize)

(* No reply in time, the mailbox in use, or the connection lost.             *)
ExchangeFails ==
    /\ InRun
    /\ Counted(~ Unanswered)
    /\ \/ Throw(job)
       \/ waiting /\ SentAgain /\ Proceed(at, job)
    /\ UNCHANGED <<card, mailbox>>

(* What is left of the session, which is long when it begins, is too short   *)
(* for the next step, or the card takes too long to charge or to refresh.    *)
OutOfTime ==
    /\ InRun /\ ~ waiting
    /\ Spend("faults")
    /\ \/ at \in {"upload", "ready", "execute"} /\ NeedResume(job)
       \/ at = "ready" /\ Throw(job)
       \/ at = "confirm" /\ HoldField(job)
    /\ UNCHANGED <<card, mailbox>>

-----------------------------------------------------------------------------
(* The user prepares the job, and brings the phone to the card.              *)

Prepare ==
    /\ at = "away"
    /\ Spend("jobs")
    /\ \E clean \in BOOLEAN : job' = Job(clean)
    /\ outcome' = "none"
    /\ UNCHANGED <<card, mailbox, nextID, at, waiting>>

Scan ==
    /\ at = "away"
    /\ job # NoJob
    /\ at' = "status"
    /\ UNCHANGED <<card, mailbox, job, nextID, waiting, outcome, budget>>

AskStatus == at = "status" /\ Send(StatusFrame) /\ UNCHANGED job

(* Mutant: a run does not replay a target whose EXECUTE was sent.           *)
MutantRecovered(j) == j

(* After a reconnection nothing proves that an EXECUTE completed: repeat the *)
(* target, with cleaning.                                                    *)
Recovered(j) == IF j.recovery /\ j.work.executeSent THEN Forget(j) ELSE j

Cleaned(j, ack) ==
    [j EXCEPT !.clean = @ \/ ack.state = "ERROR" \/ (ack.pending /\ j.work = NoWork)]

\* A card that is idle or complete has lost an upload that had not finished.
Lost(j, ack) ==
    IF ~j.work.executeSent /\ ack.state \in {"BOOT", "COMPLETE"}
    THEN [j EXCEPT !.work = NoWork] ELSE j

(* Mutant: a work the card may have lost is gone on with.                   *)
MutantUsable(w, ack) == w # NoWork

(* The work can go on from what the card reports.                            *)
Usable(w, ack) ==
    /\ w # NoWork
    /\ ~(ack.state = "RECEIVING" /\ w.committed)
    /\ ack.state # "ERROR"
    /\ ack.state \in {"CHARGING", "READY"} =>
           w.committed /\ ack.seq = w.seq /\ ack.off = w.off
    /\ ack.gray => w.gray

Planned(j, ack) ==
    LET known == Lost(Cleaned(Recovered(j), ack), ack)
        kept == IF known.work = NoWork \/ Usable(known.work, ack) THEN known
                ELSE Forget(known)
    IN  IF kept.work # NoWork THEN kept
        ELSE [kept EXCEPT !.work = Work(nextID, kept.clean, ack.gray)]

FirstStatus(ack) ==
    IF ack.state \in {"EXECUTE_ACK", "REFRESHING"} THEN HoldField(job)
    ELSE LET planned == Planned(job, ack) IN
         /\ planned.work.id <= WorkLimit
         /\ at' = IF planned.work.committed THEN "ready" ELSE "upload"
         /\ waiting' = FALSE
         /\ job' = planned
         /\ nextID' = IF planned.work.id = nextID THEN nextID + 1 ELSE nextID
         /\ UNCHANGED outcome

-----------------------------------------------------------------------------
(* perform: the upload.                                                      *)

UploadFrame(w) ==
    LET Frame(type, body) ==
            [type |-> type, tid |-> w.id, seq |-> w.seq, off |-> w.off, body |-> body]
    IN  IF ~w.started
        THEN [Frame("START", [format |-> "mono", plane |-> 1, clean |-> w.batch,
                              crc |-> Target])
                 EXCEPT !.seq = 0, !.off = 0]
        ELSE IF w.off < ImageSize THEN Frame("DATA", <<Target[w.off + 1]>>)
        ELSE Frame("COMMIT", <<>>)

SendUpload ==
    /\ at = "upload"
    /\ LET f == UploadFrame(job.work) IN
       /\ Send(f)
       /\ job' = IF f.type = "DATA"
                 THEN [job EXCEPT !.work.high = IF f.off + 1 > @ THEN f.off + 1 ELSE @]
                 ELSE [job EXCEPT !.work.seq = f.seq, !.work.off = f.off]

Uploaded(ack) ==
    IF ack.error = "TRANSFER_ID"
    THEN Proceed("upload", [job EXCEPT !.work.started = FALSE, !.work.high = 0])
    ELSE IF ack.error \in {"SEQUENCE", "OFFSET"}
    THEN IF ack.state = "RECEIVING" /\ ack.off <= job.work.high /\ ack.seq = ack.off + 1
         THEN Proceed("upload", [job EXCEPT !.work.seq = ack.seq, !.work.off = ack.off])
         ELSE Inconsistent(job)
    ELSE IF ack.rejected \/ ack.error # "NONE" THEN Throw(job)
    ELSE LET w == [job.work EXCEPT !.started = TRUE, !.seq = ack.seq, !.off = ack.off,
                                   !.committed = ack.type = "COMMIT"]
         IN  Proceed(IF w.committed THEN "ready" ELSE "upload", [job EXCEPT !.work = w])

(* The limits on the recovery of an upload are reached.                      *)
RecoveryEnds ==
    /\ at = "upload" /\ waiting
    /\ PhoneReads
    /\ reply' = NoReply
    /\ Spend("faults")
    /\ \/ reply.error = "TRANSFER_ID" /\ Throw(job)
       \/ reply.error \in {"SEQUENCE", "OFFSET"} /\ Inconsistent(job)
    /\ UNCHANGED <<request, current_error>>

-----------------------------------------------------------------------------
(* waitReady, and EXECUTE.                                                   *)

AskReady == at = "ready" /\ Send(StatusFrame) /\ UNCHANGED job

ReadySeen(ack) ==
    IF ack.rejected \/ ack.error # "NONE" THEN Throw(job)
    ELSE IF ack.seq # job.work.seq \/ ack.off # job.work.off THEN Inconsistent(job)
    ELSE IF ack.state = "READY" THEN Proceed("execute", job)
    ELSE IF ack.state = "CHARGING" THEN Proceed("ready", job)
    ELSE Inconsistent(job)

(* Mutant: the refresh is not taken to be active before the ACK.            *)
MutantSendExecute ==
    /\ at = "execute"
    /\ Send([type |-> "EXECUTE", tid |-> job.work.id, seq |-> job.work.seq,
             off |-> job.work.off, body |-> <<>>])
    /\ job' = [job EXCEPT !.work.executeSent = TRUE]

(* What is to be remembered if the exchange fails is set before it begins.   *)
SendExecute ==
    /\ at = "execute"
    /\ Send([type |-> "EXECUTE", tid |-> job.work.id, seq |-> job.work.seq,
             off |-> job.work.off, body |-> <<>>])
    /\ job' = [job EXCEPT !.work.executeSent = TRUE, !.work.refreshMayBeActive = TRUE]

Inactive(j) == [j EXCEPT !.work.refreshMayBeActive = FALSE]

Executed(ack) ==
    IF ack.deferred /\ ack.error = "NONE"
    THEN Proceed("ready", Inactive(job))
    ELSE IF ack.rejected \/ ack.error # "NONE" THEN Throw(Inactive(job))
    ELSE Proceed("confirm", [job EXCEPT !.work.executeAcknowledged = TRUE,
                                        !.work.seq = ack.seq, !.work.off = ack.off])

-----------------------------------------------------------------------------
(* The refresh is confirmed.                                                 *)

AskConfirm == at = "confirm" /\ Send(StatusFrame) /\ UNCHANGED job

Completed ==
    /\ at' = "away"
    /\ waiting' = FALSE
    /\ outcome' = "completed"
    /\ job' = NoJob
    /\ UNCHANGED nextID

Confirmed(ack) ==
    LET j == IF ack.state \in {"ERROR", "BOOT", "RECEIVING"} THEN Inactive(job) ELSE job IN
    IF ack.rejected \/ ack.error # "NONE" THEN Throw(j)
    ELSE IF ack.seq # j.work.seq \/ ack.off # j.work.off
    THEN Inconsistent(IF ack.state = "COMPLETE" THEN Inactive(j) ELSE j)
    ELSE IF ack.state = "COMPLETE" /\ j.work.executeAcknowledged THEN Completed
    ELSE IF ack.state \in {"BOOT", "RECEIVING"} THEN Inconsistent(j)
    ELSE IF ack.state = "READY"
    THEN IF j.work.batch \/ ack.cleaning
         THEN Proceed("execute", Inactive(j))
         ELSE Inconsistent(Inactive(j))
    ELSE Proceed("confirm", j)

-----------------------------------------------------------------------------
Coordinator ==
    \/ AskStatus \/ SendUpload \/ AskReady \/ SendExecute \/ AskConfirm
    \/ DropReply
    \/ Receive("status", FirstStatus) \/ Receive("upload", Uploaded)
    \/ Receive("ready", ReadySeen) \/ Receive("execute", Executed)
    \/ Receive("confirm", Confirmed)

LinkNext ==
    \/ Prepare \/ Scan \/ Coordinator \/ ExchangeFails \/ RecoveryEnds \/ OutOfTime
    \/ CardReads \/ CardStep \/ CardLosesPower \/ CardBrownout \/ OtherPhone

LinkSpec == LinkInit /\ [][LinkNext]_linkVars

(* The user brings the phone back until the job is done, and the run goes on; *)
(* the loop of the card comes round between two frames, which the phone      *)
(* sends seconds apart; a card stopped by a brownout loses its power one of  *)
(* the times that the phone goes.                                            *)
FairLinkSpec ==
    /\ LinkSpec
    /\ WF_linkVars(Scan) /\ WF_linkVars(Coordinator)
    /\ WF_linkVars(Unanswered /\ ExchangeFails)
    /\ WF_linkVars(CardReads) /\ SF_linkVars(CardRuns(Progress))
    /\ SF_linkVars(brownout /\ CardLosesPower)

-----------------------------------------------------------------------------

Completes == outcome # "completed" /\ outcome' = "completed"

(* No retry goes wrong for ever: a job that the user keeps bringing back is   *)
(* completed once the faults are over.  The coordinator takes care not to    *)
(* "retain a position that will reject forever on every user rescan".        *)
JobCompletes == job # NoJob ~> outcome = "completed"

(* When the coordinator reports completion the card has the image of the job *)
(* on record, from the transfer this run executed, and nothing else waiting. *)
CompletedIsRecorded ==
    [][Completes => /\ committed # NoFrame
                    /\ committed.tid = job.work.id
                    /\ committed.image = Target
                    /\ prepared = NoFrame]_linkVars

(* "Never promote that old COMPLETE into success for this new target": the    *)
(* image on record is the target.                                            *)
OldCompleteIsNotSuccess ==
    [][Completes => committed # NoFrame /\ committed.image = Target]_linkVars

TargetIsShown == \A i \in Strip : panel[i] = <<"mono", Target[i]>>

(* ... and the panel shows it, if the job was uploaded with cleaning, which   *)
(* is the default, whatever other jobs and phones had left half done.        *)
CleanedIsShown == [][Completes /\ job.work.batch => TargetIsShown]_linkVars

(* Without cleaning too, as long as the card serves one job only: what the    *)
(* job itself leaves half done it repeats with cleaning.                     *)
CompletedIsShown == [][Completes => TargetIsShown]_linkVars

(* The field stays as long as the target of the job is being refreshed, or   *)
(* the card says that it refreshes another, whichever way the run ends.      *)
Told ==
    /\ waiting /\ reply # NoReply /\ host' = "empty"
    /\ reply.state \in {"EXECUTE_ACK", "REFRESHING"}

FieldHeldDuringRefresh ==
    [][InRun /\ at' = "away" /\ outcome' # "holdField" /\ (t.tid = job.work.id \/ Told)
           => state \notin {"EXECUTE_ACK", "REFRESHING"}]_linkVars
=============================================================================
