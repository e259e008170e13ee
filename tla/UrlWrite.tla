------------------------------- MODULE UrlWrite -------------------------------
(***************************************************************************)
(* Setting and clearing the URL of a card from the iOS app: URLWriter and   *)
(* its journal on disk, the sessions NFCService starts around it, the pause *)
(* of the card's mailbox (app.c) and the EEPROM that readers see.           *)
(*                                                                         *)
(* Blocks of the EEPROM hold what they mean: nothing, the capability        *)
(* container, a message TLV of length 0, the length and the first bytes of  *)
(* a message, or a part of its body.  The operation stands for its message. *)
(* An exception can come out of every step on the card, with the step done  *)
(* or not, and of every step on the disk; the session can be lost, the app  *)
(* killed and the card restarted at any time.  A block and the journal's    *)
(* file are written as a whole.  How iOS writes a message to a formatted    *)
(* card is outside the repository: when it fails it may leave the old       *)
(* message, the new one, none, or one whose TLV cannot be read.             *)
(*                                                                         *)
(* Left out: deadlines (a run may fail wherever they end it), capacities,   *)
(* journals edited by hand, the detection of a card again within a session, *)
(* which is another session for the writer, what image and status sessions  *)
(* do beyond the mailbox, and the card's own retry when enabling the        *)
(* mailbox at boot fails (Booted has it enabled).                           *)
(***************************************************************************)
EXTENDS Naturals

CONSTANTS
    Card,        \* UIDs
    None,        \* no journal, no card
    Factory,     \* the cards whose EEPROM is blank at first
    Protected,   \* the sets of cards that may be protected
    Last,        \* the last block of a message
    FaultLimit,  \* bound: failed steps, lost sessions, restarts
    OtherLimit   \* bound: messages other phones write

VARIABLES
    memory,            \* the EEPROM of each card
    locked,            \* the cards whose blocks are protected
    mcu,               \* each card's mailbox and its pause
    journal,           \* url-write-journal.json
    pendingWrite,      \* what "resume" would start: "none", "transfer" or an operation
    retainedTransfer,  \* an image job is kept
    session,           \* the NFC session and the locals of URLWriter.write
    faults,            \* count against FaultLimit
    others             \* count against OtherLimit

service == <<journal, pendingWrite, retainedTransfer>>
vars == <<memory, locked, mcu, service, session, faults, others>>

Operation == {"set", "clear"}
Content == Operation \cup {"other"}
Block == 0 .. Last

(* URLWriteJournal: the card, the operation and whether it has a plan.       *)
Journal == [uid : Card, op : Operation, plan : BOOLEAN]

ASSUME UrlAssumption ==
    /\ Last \in Nat /\ Last >= 2
    /\ Factory \subseteq Card /\ Protected \subseteq SUBSET Card
    /\ None \notin Card \cup Journal

-----------------------------------------------------------------------------
(* The EEPROM.                                                             *)

Cell(kind, of) == [kind |-> kind, of |-> of]
Zero == Cell("zero", "none")
CC == Cell("cc", "none")
Empty == Cell("empty", "none")
Torn == Cell("torn", "none")
Head(m) == Cell("head", m)
Body(m) == Cell("body", m)

Blank == [b \in Block |-> Zero]
Whole(m) == [b \in Block |-> IF b = 0 THEN CC ELSE IF b = 1 THEN Head(m) ELSE Body(m)]

Formatted(e) == e[0] = CC

(* type5NDEF would return bytes that nobody wrote as a message: block 1 is   *)
(* parsed, and what it leads to is not the body it announces.               *)
Garbage(e) ==
    /\ Formatted(e)
    /\ e[1] \notin {Empty, Torn}
    /\ e[1] # Zero \/ \E b \in 2 .. Last : e[b] # Zero
    /\ \A m \in Content : e # Whole(m)

(* The ordered plan for a blank card: container, length 0, body, length.     *)
PlanLength == Last + 2

(* Mutant: the length is written with the container, before the body.        *)
LengthFirst(m) ==
    [k \in 1 .. PlanLength |->
        CASE k = 1 -> [block |-> 0, cell |-> CC]
          [] k = 2 -> [block |-> 1, cell |-> Head(m)]
          [] k > 2 /\ k < PlanLength -> [block |-> k - 1, cell |-> Body(m)]
          [] OTHER -> [block |-> 1, cell |-> Head(m)]]

blankType5WritePlan(m) ==
    [k \in 1 .. PlanLength |->
        CASE k = 1 -> [block |-> 0, cell |-> CC]
          [] k = 2 -> [block |-> 1, cell |-> Empty]
          [] k > 2 /\ k < PlanLength -> [block |-> k - 1, cell |-> Body(m)]
          [] OTHER -> [block |-> 1, cell |-> Head(m)]]

(* Mutant: a replay does not look at what the card holds.                    *)
ReplayAnyway(e, m) == TRUE

(* Every block holds what the blank card had or something of the plan.       *)
Candidates(m, b) ==
    {Zero} \cup {blankType5WritePlan(m)[k].cell :
                    k \in {i \in 1 .. PlanLength : blankType5WritePlan(m)[i].block = b}}

validateReplay(e, m) == \A b \in Block : e[b] \in Candidates(m, b)

(* What a failed write of a message may leave.                              *)
Interrupted(e, m) ==
    {e, Whole(m), [Whole(m) EXCEPT ![1] = Empty], [Whole(m) EXCEPT ![1] = Torn]}

-----------------------------------------------------------------------------
(* The card: MB_EN, the frame and the ACK in its mailbox, and the pause.     *)

Booted ==
    [en |-> TRUE, frame |-> FALSE, ack |-> "none", requested |-> FALSE,
     seen |-> FALSE, paused |-> FALSE]

Enabled(s) == [s EXCEPT !.en = TRUE]

(* Clearing MB_EN drops the messages.                                       *)
Disabled(s) == [s EXCEPT !.en = FALSE, !.frame = FALSE, !.ack = "none"]

MCUStep(c, s) ==
    /\ mcu' = [mcu EXCEPT ![c] = s]
    /\ UNCHANGED <<memory, locked, service, session, faults, others>>

(* NDEF_WRITE_PREPARE: refused during a refresh; the reply may not get out.  *)
CardHandles(c) ==
    /\ ~mcu[c].requested /\ ~mcu[c].paused
    /\ mcu[c].en /\ mcu[c].frame /\ mcu[c].ack = "none"
    /\ \/ MCUStep(c, [mcu[c] EXCEPT !.frame = FALSE, !.ack = "accepted",
                                    !.requested = TRUE])
       \/ /\ faults < FaultLimit
          /\ faults' = faults + 1
          /\ \E ack \in {"rejected", "none"} :
                mcu' = [mcu EXCEPT ![c].frame = FALSE, ![c].ack = ack]
          /\ UNCHANGED <<memory, locked, service, session, others>>

(* The ACK has been read, or the phone has disabled the mailbox; the two     *)
(* I2C transfers are two steps.  When the second fails the code repeats the  *)
(* first, which says the same: the card publishes nothing meanwhile.         *)
CardSeesAckRead(c) ==
    /\ mcu[c].requested /\ ~mcu[c].seen
    /\ mcu[c].ack = "none" \/ ~mcu[c].en
    /\ MCUStep(c, [mcu[c] EXCEPT !.seen = TRUE])

(* Mutant: the request outlives the pause it asked for.                      *)
PausesAgain(c) ==
    /\ mcu[c].seen
    /\ MCUStep(c, [Disabled(mcu[c]) EXCEPT !.seen = FALSE, !.paused = TRUE])

CardPauses(c) ==
    /\ mcu[c].seen
    /\ MCUStep(c, [Disabled(mcu[c]) EXCEPT !.requested = FALSE, !.seen = FALSE,
                                           !.paused = TRUE])

CardResumes(c) ==
    /\ mcu[c].paused /\ mcu[c].en
    /\ MCUStep(c, [mcu[c] EXCEPT !.paused = FALSE])

CardBoots(c) ==
    /\ faults < FaultLimit
    /\ faults' = faults + 1
    /\ mcu' = [mcu EXCEPT ![c] = Booted]
    /\ UNCHANGED <<memory, locked, service, session, others>>

CardRuns(c) == CardHandles(c) \/ CardSeesAckRead(c) \/ CardPauses(c) \/ CardResumes(c)

-----------------------------------------------------------------------------
(* NFCService: what starts a session.                                       *)

NoSession ==
    [at |-> "away", kind |-> "none", op |-> "none", card |-> None,
     prior |-> FALSE, plan |-> FALSE, started |-> FALSE, next |-> 0]

Away == session.at = "away"

(* An app that is no longer active keeps the request and starts no session.  *)
Begin(kind, op) ==
    session' \in {[NoSession EXCEPT !.at = "detect", !.kind = kind, !.op = op], session}

(* Mutant: a refused recovery leaves the image job to be resumed.            *)
KeepsTransfer(op) ==
    /\ Away
    /\ journal # None => journal.op = op
    /\ pendingWrite' = IF retainedTransfer THEN "transfer" ELSE op
    /\ Begin("url", op)
    /\ UNCHANGED <<memory, locked, mcu, journal, retainedTransfer, faults, others>>

updateURL(op) ==
    /\ Away
    /\ journal # None => journal.op = op
    /\ pendingWrite' = op
    /\ Begin("url", op)
    /\ UNCHANGED <<memory, locked, mcu, journal, retainedTransfer, faults, others>>

writeImage ==
    /\ Away
    /\ journal = None
    /\ pendingWrite' = "transfer"
    /\ retainedTransfer' = TRUE
    /\ Begin("transfer", "none")
    /\ UNCHANGED <<memory, locked, mcu, journal, faults, others>>

readStatus ==
    /\ Away
    /\ journal = None
    /\ Begin("status", "none")
    /\ UNCHANGED <<memory, locked, mcu, service, faults, others>>

(* The only start that does not look at the journal.                         *)
resume ==
    /\ Away
    /\ pendingWrite # "none"
    /\ IF pendingWrite = "transfer" THEN Begin("transfer", "none")
                                    ELSE Begin("url", pendingWrite)
    /\ UNCHANGED <<memory, locked, mcu, service, faults, others>>

(* The journal must be of this card and this operation.                      *)
DetectForURL(c) ==
    /\ session.at = "detect"
    /\ session.kind = "url"
    /\ session' = IF journal # None /\ (journal.uid # c \/ journal.op # session.op)
                  THEN NoSession
                  ELSE [session EXCEPT !.at = "startup", !.card = c,
                                       !.prior = journal # None,
                                       !.plan = journal # None /\ journal.plan]
    /\ UNCHANGED <<memory, locked, mcu, service, faults, others>>

(* An image or status session: it enables the mailbox and reads an old ACK.  *)
OtherSession(c) ==
    /\ session.at = "detect"
    /\ session.kind \in {"transfer", "status"}
    /\ session' = NoSession
    /\ mcu' = [mcu EXCEPT ![c] = [Enabled(@) EXCEPT !.ack = "none"]]
    /\ \/ UNCHANGED <<pendingWrite, retainedTransfer>>
       \/ session.kind = "transfer" /\ pendingWrite' = "none" /\ retainedTransfer' = FALSE
    /\ UNCHANGED <<memory, locked, journal, faults, others>>

-----------------------------------------------------------------------------
(* URLWriter.write.                                                         *)

Here == mcu[session.card]
Stored == memory[session.card]
GoTo(place) == session' = [session EXCEPT !.at = place]
Phone(s) == mcu' = [mcu EXCEPT ![session.card] = s]

(* prepareForURL *)
Startup ==
    /\ session.at = "startup"
    /\ Phone(Enabled(Here))
    /\ GoTo("drain")
    /\ UNCHANGED <<memory, locked, service, faults, others>>

(* exchange: an old ACK is read first, then the frame is written.            *)
Drain ==
    /\ session.at = "drain"
    /\ Here.ack # "none"
    /\ Phone([Here EXCEPT !.ack = "none"])
    /\ UNCHANGED <<memory, locked, service, session, faults, others>>

SendPrepare ==
    /\ session.at = "drain"
    /\ Here.ack = "none" /\ ~Here.frame
    /\ IF Here.en
       THEN Phone([Here EXCEPT !.frame = TRUE]) /\ GoTo("await")
       ELSE GoTo("restore") /\ UNCHANGED mcu
    /\ UNCHANGED <<memory, locked, service, faults, others>>

ReceivePrepare ==
    /\ session.at = "await"
    /\ Here.ack # "none"
    /\ Phone([Here EXCEPT !.ack = "none"])
    /\ GoTo(IF Here.ack = "accepted" THEN "save" ELSE "restore")
    /\ UNCHANGED <<memory, locked, service, faults, others>>

(* The frame was dropped with the mailbox, by a pause that an earlier session  *)
(* had asked for, or its reply was: nothing will come.  (The card answers a   *)
(* frame, or drops it, long before the 1.5 s end.)                          *)
NoAnswer ==
    /\ session.at = "await"
    /\ ~Here.frame /\ Here.ack = "none"
    /\ GoTo("restore")
    /\ UNCHANGED <<memory, locked, mcu, service, faults, others>>

SaveJournal ==
    /\ session.at = "save"
    /\ journal' = [uid |-> session.card, op |-> session.op, plan |-> session.plan]
    /\ GoTo("disable")
    /\ UNCHANGED <<memory, locked, mcu, pendingWrite, retainedTransfer, faults, others>>

DisableMailbox ==
    /\ session.at = "disable"
    /\ Phone(Disabled(Here))
    /\ GoTo(IF session.plan THEN "memory" ELSE "status")
    /\ UNCHANGED <<memory, locked, service, faults, others>>

StartReplay ==
    session' = [session EXCEPT !.at = "replay", !.plan = TRUE, !.started = TRUE, !.next = 1]

ReadMemory ==
    /\ session.at = "memory"
    /\ IF validateReplay(Stored, session.op) /\ session.card \notin locked
       THEN StartReplay
       ELSE GoTo("restore")
    /\ UNCHANGED <<memory, locked, mcu, service, faults, others>>

(* ndefStatus: readWrite, or the card cannot be written.                     *)
NdefStatus ==
    /\ session.at = "status"
    /\ Formatted(Stored)
    /\ IF session.card \in locked THEN GoTo("restore")
       ELSE IF session.prior THEN GoTo("compare")
       ELSE session' = [session EXCEPT !.at = "write", !.started = TRUE]
    /\ UNCHANGED <<memory, locked, mcu, service, faults, others>>

(* Mutant: an NDEF message that cannot be read ends the recovery.            *)
CompareOrFail ==
    /\ session.at = "compare"
    /\ IF Stored[1] = Torn THEN GoTo("restore")
       ELSE session' = [session EXCEPT !.started = TRUE,
                            !.at = IF Stored = Whole(session.op) THEN "verify" ELSE "write"]
    /\ UNCHANGED <<memory, locked, mcu, service, faults, others>>

(* A message that cannot be read is written again.                           *)
Compare ==
    /\ session.at = "compare"
    /\ session' = [session EXCEPT !.started = TRUE,
                       !.at = IF Stored = Whole(session.op) THEN "verify" ELSE "write"]
    /\ UNCHANGED <<memory, locked, mcu, service, faults, others>>

(* notSupported: only a card known to be blank is formatted, after its plan   *)
(* has been saved.                                                          *)
PlanBlank ==
    /\ session.at = "status"
    /\ ~Formatted(Stored)
    /\ IF Stored = Blank /\ session.card \notin locked
       THEN /\ journal' = [uid |-> session.card, op |-> session.op, plan |-> TRUE]
            /\ StartReplay
       ELSE GoTo("restore") /\ UNCHANGED journal
    /\ UNCHANGED <<memory, locked, mcu, pendingWrite, retainedTransfer, faults, others>>

(* The EEPROM takes no writes while the mailbox is enabled.                   *)
WriteMessage ==
    /\ session.at = "write"
    /\ IF Here.en
       THEN GoTo("restore") /\ UNCHANGED memory
       ELSE GoTo("verify") /\ memory' = [memory EXCEPT ![session.card] = Whole(session.op)]
    /\ UNCHANGED <<locked, mcu, service, faults, others>>

Planned == blankType5WritePlan(session.op)[session.next]

WriteBlock ==
    /\ session.at = "replay"
    /\ IF Here.en
       THEN GoTo("restore") /\ UNCHANGED memory
       ELSE /\ memory' = [memory EXCEPT ![session.card][Planned.block] = Planned.cell]
            /\ session' = [session EXCEPT !.next = @ + 1,
                               !.at = IF session.next = PlanLength THEN "verify" ELSE @]
    /\ UNCHANGED <<locked, mcu, service, faults, others>>

(* Mutant: what is read back is not compared.                                *)
Unverified ==
    /\ session.at = "verify"
    /\ GoTo("enable")
    /\ UNCHANGED <<memory, locked, mcu, service, faults, others>>

Verify ==
    /\ session.at = "verify"
    /\ GoTo(IF Stored = Whole(session.op) THEN "enable" ELSE "restore")
    /\ UNCHANGED <<memory, locked, mcu, service, faults, others>>

EnableMailbox ==
    /\ session.at = "enable"
    /\ Phone(Enabled(Here))
    /\ GoTo("clear")
    /\ UNCHANGED <<memory, locked, service, faults, others>>

ClearJournal ==
    /\ session.at = "clear"
    /\ journal' = None
    /\ GoTo("complete")
    /\ UNCHANGED <<memory, locked, mcu, pendingWrite, retainedTransfer, faults, others>>

Complete ==
    /\ session.at = "complete"
    /\ pendingWrite' = IF retainedTransfer THEN "transfer" ELSE "none"
    /\ session' = NoSession
    /\ UNCHANGED <<memory, locked, mcu, journal, retainedTransfer, faults, others>>

(* Mutant: a failed run always clears its journal once the mailbox is back.  *)
RestoreAndForget ==
    /\ session.at = "restore"
    /\ Phone(Enabled(Here))
    /\ journal' = IF session.prior THEN journal ELSE None
    /\ session' = NoSession
    /\ UNCHANGED <<memory, locked, pendingWrite, retainedTransfer, faults, others>>

(* The catch: the mailbox is enabled again, and a fresh journal is cleared if *)
(* nothing may have been written.                                           *)
Restore ==
    /\ session.at = "restore"
    /\ Phone(Enabled(Here))
    /\ journal' = IF session.prior \/ session.started THEN journal ELSE None
    /\ session' = NoSession
    /\ UNCHANGED <<memory, locked, pendingWrite, retainedTransfer, faults, others>>

-----------------------------------------------------------------------------
(* What can go wrong.                                                       *)

Fault == faults < FaultLimit /\ faults' = faults + 1

(* A step throws, done or not.                                              *)
StepFails ==
    /\ Fault
    /\ session.at \in {"drain", "await", "save", "disable", "memory", "status",
                       "compare", "verify", "enable", "clear"}
    /\ \/ UNCHANGED mcu
       \/ session.at = "disable" /\ Phone(Disabled(Here))
       \/ session.at = "enable" /\ Phone(Enabled(Here))
    /\ GoTo("restore")
    /\ UNCHANGED <<memory, locked, service, others>>

(* A write throws, or is taken for done.                                    *)
WriteMessageFails ==
    /\ Fault
    /\ session.at = "write"
    /\ ~Here.en
    /\ \/ /\ \E e \in Interrupted(Stored, session.op) :
                 memory' = [memory EXCEPT ![session.card] = e]
          /\ GoTo("restore")
       \/ GoTo("verify") /\ UNCHANGED memory
    /\ UNCHANGED <<locked, mcu, service, others>>

WriteBlockFails ==
    /\ Fault
    /\ session.at = "replay"
    /\ \/ UNCHANGED memory
       \/ /\ ~Here.en
          /\ memory' = [memory EXCEPT ![session.card][Planned.block] = Planned.cell]
    /\ GoTo("restore")
    /\ UNCHANGED <<locked, mcu, service, others>>

(* The session ends: nothing more reaches the card, the journal stays.       *)
SessionLost ==
    /\ Fault
    /\ ~Away
    /\ session' = NoSession
    /\ UNCHANGED <<memory, locked, mcu, service, others>>

AppKilled ==
    /\ Fault
    /\ session' = NoSession
    /\ pendingWrite' = "none"
    /\ retainedTransfer' = FALSE
    /\ UNCHANGED <<memory, locked, mcu, journal, others>>

(* Between the sessions another phone writes a URL of its own.               *)
OtherPhone(c) ==
    /\ others < OtherLimit
    /\ others' = others + 1
    /\ Away
    /\ c \notin locked
    /\ memory' = [memory EXCEPT ![c] = Whole("other")]
    /\ UNCHANGED <<locked, mcu, service, session, faults>>

-----------------------------------------------------------------------------
Init ==
    /\ memory = [c \in Card |-> IF c \in Factory THEN Blank ELSE Whole("other")]
    /\ locked \in Protected
    /\ mcu = [c \in Card |-> Booted]
    /\ journal = None
    /\ pendingWrite = "none"
    /\ retainedTransfer = FALSE
    /\ session = NoSession
    /\ faults = 0
    /\ others = 0

Write ==
    \/ Startup \/ Drain \/ SendPrepare \/ ReceivePrepare \/ NoAnswer
    \/ SaveJournal \/ DisableMailbox \/ ReadMemory \/ NdefStatus \/ Compare
    \/ PlanBlank \/ WriteMessage \/ WriteBlock \/ Verify \/ EnableMailbox
    \/ ClearJournal \/ Complete \/ Restore

Next ==
    \/ \E op \in Operation : updateURL(op)
    \/ writeImage \/ readStatus \/ resume
    \/ \E c \in Card : DetectForURL(c) \/ OtherSession(c)
    \/ Write
    \/ \E c \in Card : CardRuns(c) \/ CardBoots(c) \/ OtherPhone(c)
    \/ StepFails \/ WriteMessageFails \/ WriteBlockFails \/ SessionLost \/ AppKilled

Spec == Init /\ [][Next]_vars

(* The user resumes the operation that is left over, with its card some of   *)
(* the times; the app and the card run.                                     *)
FairSpec ==
    /\ Spec
    /\ WF_vars(Write)
    /\ WF_vars(\E c \in Card : CardRuns(c))
    /\ SF_vars(\E op \in Operation : journal # None /\ updateURL(op) /\ session' # session)
    /\ SF_vars(\E c \in Card : journal # None /\ journal.uid = c /\ DetectForURL(c))

-----------------------------------------------------------------------------
Place ==
    {"away", "detect", "startup", "drain", "await", "save", "disable", "memory",
     "status", "compare", "write", "replay", "verify", "enable", "clear",
     "complete", "restore"}

CellSet ==
    {Zero, CC, Empty, Torn} \cup {Head(m) : m \in Content} \cup {Body(m) : m \in Content}

MailboxState ==
    [en : BOOLEAN, frame : BOOLEAN, ack : {"none", "accepted", "rejected"},
     requested : BOOLEAN, seen : BOOLEAN, paused : BOOLEAN]

Session ==
    [at : Place, kind : {"none", "url", "transfer", "status"},
     op : Operation \cup {"none"}, card : Card \cup {None}, prior : BOOLEAN,
     plan : BOOLEAN, started : BOOLEAN, next : 0 .. PlanLength + 1]

TypeOK ==
    /\ memory \in [Card -> [Block -> CellSet]]
    /\ locked \in SUBSET Card
    /\ mcu \in [Card -> MailboxState]
    /\ journal \in Journal \cup {None}
    /\ pendingWrite \in {"none", "transfer"} \cup Operation
    /\ retainedTransfer \in BOOLEAN
    /\ session \in Session
    /\ session.started => session.at \in {"write", "replay", "verify", "enable",
                                          "clear", "complete", "restore"}
    /\ \A c \in Card : mcu[c].paused => ~mcu[c].requested

(* A card that was left half written, by a failed write, a lost session or   *)
(* an app that was killed, is the one of the journal on disk.               *)
Settled(e) == e = Blank \/ \E m \in Content : e = Whole(m)

HalfWrittenIsJournaled ==
    \A c \in Card : ~Settled(memory[c]) => journal # None /\ journal.uid = c

(* Whatever a formatting leaves, a reader finds no message that nobody wrote: *)
(* not while it runs, not when it is cut short and not when it is replayed.  *)
NoGarbageToRead == \A c \in Card : ~Garbage(memory[c])

(* A replay writes over what the blank card had and over the plan's own      *)
(* blocks, and not over what another phone has put there since.             *)
OnlyPlannedBlocksRewritten ==
    [][session.at = "replay" =>
           \A b \in Block : memory'[session.card][b] # Stored[b] =>
               Stored[b] \in Candidates(session.op, b)]_vars

(* No image or status session, which would enable the mailbox, is started     *)
(* while a URL waits for its recovery, although "resume" does not ask.       *)
NoOtherSessionInRecovery ==
    session.kind \in {"transfer", "status"} => journal = None

(* Success means that the card holds the message, and that nothing is left   *)
(* to recover.                                                              *)
SuccessIsWritten ==
    session.at = "complete" => journal = None /\ Stored = Whole(session.op)

(* An operation that was cut short is finished in the end, on a card that is  *)
(* not protected and that no other phone writes to.                         *)
RecoveryEnds ==
    locked = {} /\ [](others = 0) => (journal # None ~> journal = None)
=============================================================================
