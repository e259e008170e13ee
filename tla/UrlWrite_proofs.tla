---------------------------- MODULE UrlWrite_proofs ----------------------------
(***************************************************************************)
(* Proof that a URL operation of the iOS app is safe against everything that *)
(* can interrupt it, for any set of cards, any message length and any number *)
(* of faults: what is half written is on the journal, no reader finds a      *)
(* message nobody wrote, and success means that the message is on the card.  *)
(***************************************************************************)
EXTENDS UrlWrite, TLAPS

Writing == session.at \notin {"away", "detect"}

\* The places of URLWriter.write between saving the journal and clearing it.
Journaled ==
    {"disable", "memory", "status", "compare", "write", "replay", "verify",
     "enable", "clear"}

StartedPlace ==
    {"write", "replay", "verify", "enable", "clear", "complete", "restore"}

\* A reader of e finds a whole message, none, or an error.
Readable(e) ==
    /\ e[0] = CC \/ e = Blank
    /\ e[1] \in {Zero, Empty, Torn} \cup {Head(m) : m \in Content}
    /\ e[1] = Zero => \A b \in 2 .. Last : e[b] = Zero
    /\ \A m \in Content : e[1] = Head(m) => e = Whole(m)

\* What the service does not look at when it resumes: while there is a journal,
\* the request it keeps is not an image.
ServiceInv ==
    /\ session.at = "away" => session.kind = "none"
    /\ Writing => session.kind = "url"
    /\ session.kind = "url" => session.op \in Operation /\ pendingWrite # "transfer"
    /\ session.kind \in {"transfer", "status"} => journal = None
    /\ journal # None => pendingWrite # "transfer"

JournalInv ==
    /\ Writing => session.card \in Card
    /\ Writing /\ journal # None => journal.uid = session.card
    /\ session.at \in Journaled => journal # None
    /\ session.at = "complete" => journal = None
    /\ session.at \in {"write", "replay"} => session.started

\* How far a replay has come, whatever an earlier one has left.
ReplayInv ==
    session.at = "replay" =>
        /\ session.next \in 1 .. PlanLength
        /\ session.next >= 2 => Stored[0] = CC
        /\ session.next >= 3 => Stored[1] = Empty
        /\ \A b \in Block : 2 <= b /\ b < session.next - 1 => Stored[b] = Body(session.op)
        /\ \A b \in Block : Stored[b] \in Candidates(session.op, b)

MemoryInv ==
    /\ \A c \in Card : Readable(memory[c])
    /\ HalfWrittenIsJournaled
    /\ Writing /\ ~session.prior /\ ~session.started => \A c \in Card : Settled(memory[c])
    /\ session.at \in {"enable", "clear", "complete"} => Stored = Whole(session.op)

\* The types of what the app and the EEPROM hold, and those of the mailboxes.
AppTypes ==
    /\ memory \in [Card -> [Block -> CellSet]]
    /\ locked \in SUBSET Card
    /\ journal \in Journal \cup {None}
    /\ pendingWrite \in {"none", "transfer"} \cup Operation
    /\ retainedTransfer \in BOOLEAN
    /\ session \in Session
    /\ session.started => session.at \in StartedPlace

MailboxTypes ==
    /\ mcu \in [Card -> MailboxState]
    /\ \A c \in Card : mcu[c].paused => ~mcu[c].requested

AppInv == AppTypes /\ ServiceInv /\ JournalInv /\ ReplayInv /\ MemoryInv

UrlInv == AppInv /\ MailboxTypes

-----------------------------------------------------------------------------
(* The EEPROM.                                                             *)

LEMMA CellsDiffer ==
  /\ Zero # CC /\ Zero # Empty /\ Zero # Torn /\ CC # Empty /\ Empty # Torn
  /\ \A m : Head(m) \notin {Zero, Empty, Torn}
  /\ \A m, n : Head(m) = Head(n) => m = n
  /\ \A m : Body(m) # Zero
BY DEF Zero, CC, Empty, Torn, Head, Body, Cell

LEMMA Cells ==
  /\ {Zero, CC, Empty, Torn} \subseteq CellSet
  /\ \A m \in Content : Head(m) \in CellSet /\ Body(m) \in CellSet
BY DEF CellSet

LEMMA Blocks == 0 \in Block /\ 1 \in Block /\ 2 \in Block
BY UrlAssumption DEF Block

LEMMA WholeCells ==
  ASSUME NEW m \in Content
  PROVE  /\ Whole(m) \in [Block -> CellSet]
         /\ Whole(m)[0] = CC /\ Whole(m)[1] = Head(m)
         /\ \A b \in 2 .. Last : Whole(m)[b] = Body(m)
<1>1. \A b \in 2 .. Last : b \in Block /\ b # 0 /\ b # 1
  BY UrlAssumption DEF Block
<1> QED
  BY <1>1, Blocks, Cells DEF Whole

\* A card that is blank, or holds a message, reads as what it is.
LEMMA SettledReadable ==
  ASSUME NEW e \in [Block -> CellSet], Settled(e)
  PROVE  Readable(e)
<1>1. CASE e = Blank
  <2>1. \A b \in Block : e[b] = Zero
    BY <1>1 DEF Blank
  <2>2. e[1] = Zero /\ \A b \in 2 .. Last : e[b] = Zero
    BY <2>1, Blocks, UrlAssumption DEF Block
  <2> QED
    BY <1>1, <2>2, CellsDiffer DEF Readable
<1>2. ASSUME NEW m \in Content, e = Whole(m)
      PROVE  Readable(e)
  <2>1. e[0] = CC /\ e[1] = Head(m)
    BY <1>2, WholeCells
  <2> QED
    BY <1>2, <2>1, CellsDiffer DEF Readable
<1> QED
  BY <1>1, <1>2 DEF Settled

LEMMA ReadableIsNoGarbage ==
  ASSUME NEW e \in [Block -> CellSet], Readable(e)
  PROVE  ~Garbage(e)
<1>1. CASE e[1] = Zero
  BY <1>1 DEF Readable, Garbage
<1>2. CASE e[1] \in {Empty, Torn}
  BY <1>2 DEF Garbage
<1>3. ASSUME NEW m \in Content, e[1] = Head(m)
      PROVE  ~Garbage(e)
  BY <1>3 DEF Readable, Garbage
<1> QED
  BY <1>1, <1>2, <1>3 DEF Readable

\* What a failed write of a message leaves can be read, or is known not to.
LEMMA InterruptedReadable ==
  ASSUME NEW m \in Content, NEW e \in [Block -> CellSet], Readable(e),
         NEW f \in Interrupted(e, m)
  PROVE  f \in [Block -> CellSet] /\ Readable(f)
<1>1. CASE f = e
  BY <1>1
<1>2. CASE f = Whole(m)
  BY <1>2, WholeCells, SettledReadable DEF Settled
<1>3. ASSUME NEW k \in {Empty, Torn}, f = [Whole(m) EXCEPT ![1] = k]
      PROVE  f \in [Block -> CellSet] /\ Readable(f)
  <2>1. k \in CellSet
    BY <1>3, Cells
  <2>2. f \in [Block -> CellSet] /\ f[0] = CC /\ f[1] = k
    BY <1>3, <2>1, WholeCells, Blocks
  <2> QED
    BY <1>3, <2>2, CellsDiffer DEF Readable
<1> QED
  BY <1>1, <1>2, <1>3 DEF Interrupted

\* The plan for a blank card, step by step.
LEMMA Plan ==
  ASSUME NEW m \in Content
  PROVE  /\ PlanLength \in Nat /\ PlanLength >= 4
         /\ blankType5WritePlan(m)[1] = [block |-> 0, cell |-> CC]
         /\ blankType5WritePlan(m)[2] = [block |-> 1, cell |-> Empty]
         /\ \A k \in 3 .. PlanLength - 1 :
                blankType5WritePlan(m)[k] = [block |-> k - 1, cell |-> Body(m)]
         /\ blankType5WritePlan(m)[PlanLength] = [block |-> 1, cell |-> Head(m)]
<1>1. PlanLength \in Nat /\ PlanLength >= 4 /\ PlanLength = Last + 2
  BY UrlAssumption DEF PlanLength
<1>2. blankType5WritePlan(m)[1] = [block |-> 0, cell |-> CC]
  BY <1>1 DEF blankType5WritePlan
<1>3. blankType5WritePlan(m)[2] = [block |-> 1, cell |-> Empty]
  BY <1>1 DEF blankType5WritePlan
<1>4. ASSUME NEW k \in 3 .. PlanLength - 1
      PROVE  blankType5WritePlan(m)[k] = [block |-> k - 1, cell |-> Body(m)]
  <2>1. k \in 1 .. PlanLength /\ ~(k = 1) /\ ~(k = 2) /\ k > 2 /\ k < PlanLength
    BY <1>1
  <2> QED
    BY <2>1, Zenon DEF blankType5WritePlan
<1>5. blankType5WritePlan(m)[PlanLength] = [block |-> 1, cell |-> Head(m)]
  <2>1. /\ PlanLength \in 1 .. PlanLength
        /\ ~(PlanLength = 1) /\ ~(PlanLength = 2)
        /\ ~(PlanLength > 2 /\ PlanLength < PlanLength)
    BY <1>1
  <2> QED
    BY <2>1, Zenon DEF blankType5WritePlan
<1> QED
  BY <1>1, <1>2, <1>3, <1>4, <1>5

\* A step of the plan writes a block of the card, and what may be there.
LEMMA PlanStep ==
  ASSUME NEW m \in Content, NEW k \in 1 .. PlanLength
  PROVE  /\ blankType5WritePlan(m)[k].block \in Block
         /\ blankType5WritePlan(m)[k].cell \in CellSet
         /\ blankType5WritePlan(m)[k].cell \in Candidates(m, blankType5WritePlan(m)[k].block)
<1> DEFINE w == blankType5WritePlan(m)[k]
<1>0. PlanLength \in Nat /\ PlanLength >= 4 /\ PlanLength = Last + 2
  BY UrlAssumption DEF PlanLength
<1>1. k = 1 \/ k = 2 \/ k \in 3 .. PlanLength - 1 \/ k = PlanLength
  BY <1>0
<1>2. \A i \in 3 .. PlanLength - 1 : i - 1 \in Block
  BY <1>0, UrlAssumption DEF Block
<1>3. w.block \in Block /\ w.cell \in CellSet
  <2>1. CASE k = 1
    <3>1. w = [block |-> 0, cell |-> CC]
      BY <2>1, Plan, Zenon
    <3> QED
      BY <3>1, Cells, Blocks
  <2>2. CASE k = 2
    <3>1. w = [block |-> 1, cell |-> Empty]
      BY <2>2, Plan, Zenon
    <3> QED
      BY <3>1, Cells, Blocks
  <2>3. CASE k \in 3 .. PlanLength - 1
    <3>1. w = [block |-> k - 1, cell |-> Body(m)]
      BY <2>3, Plan, Zenon
    <3> QED
      BY <3>1, Cells, Blocks, <2>3, <1>2
  <2>4. CASE k = PlanLength
    <3>1. w = [block |-> 1, cell |-> Head(m)]
      BY <2>4, Plan, Zenon
    <3> QED
      BY <3>1, Cells, Blocks
  <2> QED
    BY <1>1, <2>1, <2>2, <2>3, <2>4
<1>4. w.cell \in Candidates(m, w.block)
  BY DEF Candidates
<1> QED
  BY <1>3, <1>4

-----------------------------------------------------------------------------
(* Steps that have a shape in common.                                       *)

\* The writer goes on, and may note that it starts to write.
LEMMA Moves ==
  ASSUME AppInv, Writing, NEW p \in Place \ {"away", "detect", "replay", "complete"},
         session' \in Session, session'.at = p, session'.kind = session.kind,
         session'.op = session.op, session'.card = session.card,
         session'.prior = session.prior, session.started => session'.started,
         session'.started => p \in StartedPlace,
         p = "write" => session'.started,
         UNCHANGED <<memory, locked, service>>,
         p \in Journaled => journal # None,
         p \in {"enable", "clear"} => Stored = Whole(session.op)
  PROVE  AppInv'
<1>1. Writing'
  BY DEF Writing
<1>2. AppTypes'
  BY DEF AppInv, AppTypes, service
<1>3. ServiceInv'
  BY <1>1 DEF AppInv, ServiceInv, service, Writing
<1>4. JournalInv'
  BY <1>1 DEF AppInv, JournalInv, service
<1>5. ReplayInv'
  BY DEF ReplayInv
<1>6. MemoryInv'
  BY <1>1 DEF AppInv, MemoryInv, HalfWrittenIsJournaled, Stored, service
<1> QED
  BY <1>2, <1>3, <1>4, <1>5, <1>6 DEF AppInv

\* The writer goes on, and only its place changes.
LEMMA GoesTo ==
  ASSUME AppInv, Writing,
         NEW p \in Place \ {"away", "detect", "replay", "write", "complete"},
         GoTo(p), UNCHANGED <<memory, locked, service>>,
         p \in Journaled => journal # None,
         p \in {"enable", "clear"} => Stored = Whole(session.op),
         session.started => p \in StartedPlace
  PROVE  AppInv'
<1>1. /\ session' \in Session /\ session'.at = p
      /\ session'.kind = session.kind /\ session'.op = session.op
      /\ session'.card = session.card /\ session'.prior = session.prior
      /\ session'.started = session.started
  BY DEF GoTo, AppInv, AppTypes, Session
<1> QED
  BY <1>1, Moves

\* A replay starts, of a plan that fits what the card holds.
LEMMA Replays ==
  ASSUME AppInv, session.at \in {"memory", "status"}, StartReplay,
         UNCHANGED <<memory, locked, pendingWrite, retainedTransfer>>,
         journal' \in Journal, journal'.uid = session.card,
         validateReplay(Stored, session.op)
  PROVE  AppInv'
<1>1. /\ session' \in Session /\ session'.at = "replay" /\ session'.next = 1
      /\ session'.started
      /\ session'.kind = session.kind /\ session'.op = session.op
      /\ session'.card = session.card /\ session'.prior = session.prior
  <2>1. 1 \in 0 .. PlanLength + 1 /\ "replay" \in Place /\ session \in Session
    BY UrlAssumption DEF PlanLength, Place, AppInv, AppTypes
  <2> QED
    BY <2>1 DEF StartReplay, Session
<1>2. Writing /\ Writing' /\ journal # None /\ journal' # None /\ Stored' = Stored
  BY <1>1, UrlAssumption DEF Writing, AppInv, JournalInv, Journaled, Stored
<1>3. AppTypes'
  BY <1>1 DEF AppInv, AppTypes, StartedPlace
<1>4. ServiceInv'
  BY <1>1, <1>2 DEF AppInv, ServiceInv
<1>5. JournalInv'
  BY <1>1, <1>2 DEF AppInv, JournalInv
<1>6. ReplayInv'
  <2>1. 1 \in 1 .. PlanLength
    BY UrlAssumption DEF PlanLength
  <2>2. \A b \in Block : Stored[b] \in Candidates(session.op, b)
    BY DEF validateReplay
  <2> QED
    BY <1>1, <1>2, <2>1, <2>2 DEF ReplayInv, Block
<1>7. MemoryInv'
  BY <1>1, <1>2 DEF AppInv, MemoryInv, HalfWrittenIsJournaled, JournalInv
<1> QED
  BY <1>3, <1>4, <1>5, <1>6, <1>7 DEF AppInv

LEMMA NoSessionTyped ==
  /\ NoSession \in Session /\ NoSession.at = "away" /\ NoSession.kind = "none"
  /\ ~NoSession.started
BY UrlAssumption DEF NoSession, Session, Place, PlanLength

\* The session ends; a journal is dropped only when no card is half written.
LEMMA Ends ==
  ASSUME AppInv, session' = NoSession, UNCHANGED <<memory, locked>>,
         journal' \in {journal, None},
         journal' = None /\ journal # None => \A c \in Card : Settled(memory[c]),
         pendingWrite' \in {"none", "transfer"} \cup Operation,
         journal' # None => pendingWrite' \in {pendingWrite, "none"},
         retainedTransfer' \in BOOLEAN
  PROVE  AppInv'
<1>1. /\ NoSession \in Session /\ NoSession.at = "away" /\ NoSession.kind = "none"
      /\ ~NoSession.started
  BY NoSessionTyped
<1>2. ~Writing'
  BY <1>1 DEF Writing
<1>3. AppTypes'
  BY <1>1 DEF AppInv, AppTypes
<1>4. ServiceInv'
  BY <1>1, <1>2 DEF AppInv, ServiceInv
<1>5. JournalInv'
  BY <1>1, <1>2 DEF JournalInv, Journaled
<1>6. ReplayInv'
  BY <1>1 DEF ReplayInv
<1>7. MemoryInv'
  BY <1>1, <1>2 DEF AppInv, MemoryInv, HalfWrittenIsJournaled
<1> QED
  BY <1>3, <1>4, <1>5, <1>6, <1>7 DEF AppInv

\* The service starts a session, or keeps the request for later.
LEMMA Begins ==
  ASSUME AppInv, Away, NEW kind \in {"url", "transfer", "status"},
         NEW op \in Operation \cup {"none"}, Begin(kind, op),
         UNCHANGED <<memory, locked, journal>>,
         kind = "url" => op \in Operation /\ pendingWrite' # "transfer",
         kind # "url" => journal = None,
         pendingWrite' \in {"none", "transfer"} \cup Operation,
         journal # None => pendingWrite' # "transfer",
         retainedTransfer' \in BOOLEAN
  PROVE  AppInv'
<1> DEFINE n == [NoSession EXCEPT !.at = "detect", !.kind = kind, !.op = op]
<1>1. n \in Session /\ n.at = "detect" /\ n.kind = kind /\ n.op = op /\ ~n.started
  BY NoSessionTyped DEF Session, Place
<1>2. session' = n \/ session' = session
  BY DEF Begin
<1>3. session.at = "away" /\ session.kind = "none" /\ ~Writing
  BY DEF Away, AppInv, ServiceInv, Writing
<1> HIDE DEF n
<1>4. ~Writing' /\ session'.at \in {"away", "detect"}
  BY <1>1, <1>2, <1>3 DEF Writing
<1>5. AppTypes'
  BY <1>1, <1>2 DEF AppInv, AppTypes
<1>6. ServiceInv'
  BY <1>1, <1>2, <1>3, <1>4 DEF AppInv, ServiceInv
<1>7. JournalInv'
  BY <1>4 DEF JournalInv, Journaled
<1>8. ReplayInv'
  BY <1>4 DEF ReplayInv
<1>9. MemoryInv'
  BY <1>4 DEF AppInv, MemoryInv, HalfWrittenIsJournaled
<1> QED
  BY <1>5, <1>6, <1>7, <1>8, <1>9 DEF AppInv

\* The EEPROM of the session's card takes something else that can be read; the
\* journal is its own, and the writer goes on or gives up.
LEMMA Writes ==
  ASSUME AppInv, session.at \in {"write", "replay"},
         NEW e \in [Block -> CellSet], Readable(e),
         memory' = [memory EXCEPT ![session.card] = e],
         NEW p \in {"verify", "restore"}, session'.at = p, session' \in Session,
         session'.kind = session.kind, session'.op = session.op,
         session'.card = session.card, session'.started = session.started,
         UNCHANGED <<locked, service>>
  PROVE  AppInv'
<1>1. /\ Writing /\ Writing' /\ session.started
      /\ session.card \in Card /\ journal # None /\ journal.uid = session.card
  BY DEF Writing, AppInv, JournalInv, Journaled
<1>2. /\ memory' \in [Card -> [Block -> CellSet]]
      /\ memory'[session.card] = e
      /\ \A c \in Card : c # session.card => memory'[c] = memory[c]
  BY <1>1 DEF AppInv, AppTypes
<1>3. AppTypes'
  BY <1>2 DEF AppInv, AppTypes, service, StartedPlace
<1>4. ServiceInv'
  BY <1>1 DEF AppInv, ServiceInv, service
<1>5. JournalInv'
  BY <1>1 DEF AppInv, JournalInv, Journaled, service
<1>6. ReplayInv'
  BY DEF ReplayInv
<1>7. \A c \in Card : Readable(memory'[c])
  BY <1>2 DEF AppInv, MemoryInv
<1>8. HalfWrittenIsJournaled'
  BY <1>1, <1>2 DEF AppInv, MemoryInv, HalfWrittenIsJournaled, service
<1>9. MemoryInv'
  BY <1>1, <1>7, <1>8 DEF MemoryInv
<1> QED
  BY <1>3, <1>4, <1>5, <1>6, <1>9 DEF AppInv

\* A block of the plan is written: what the card holds can still be read.
LEMMA PlannedBlock ==
  ASSUME AppInv, session.at = "replay",
         NEW e, e = [Stored EXCEPT ![Planned.block] = Planned.cell]
  PROVE  /\ session.card \in Card /\ session.op \in Content
         /\ session.next \in 1 .. PlanLength
         /\ e \in [Block -> CellSet] /\ Readable(e)
         /\ session.next = 1 => e[0] = CC
         /\ session.next = 2 => e[0] = CC /\ e[1] = Empty
         /\ session.next \in 3 .. PlanLength - 1 =>
                /\ e[0] = CC /\ e[1] = Empty
                /\ \A b \in Block : 2 <= b /\ b < session.next => e[b] = Body(session.op)
         /\ \A b \in Block : e[b] \in Candidates(session.op, b)
<1> DEFINE op == session.op
           k == session.next
           old == Stored
<1>1. session.card \in Card /\ op \in Content
  BY DEF AppInv, JournalInv, ServiceInv, Writing, Content
<1>2. old \in [Block -> CellSet] /\ Readable(old)
  BY <1>1 DEF AppInv, AppTypes, MemoryInv, Stored
<1>3. /\ k \in 1 .. PlanLength
      /\ k >= 2 => old[0] = CC
      /\ k >= 3 => old[1] = Empty
      /\ \A b \in Block : 2 <= b /\ b < k - 1 => old[b] = Body(op)
      /\ \A b \in Block : old[b] \in Candidates(op, b)
  BY DEF AppInv, ReplayInv
<1>4. Planned.block \in Block /\ Planned.cell \in CellSet
      /\ Planned.cell \in Candidates(op, Planned.block)
  BY <1>1, <1>3, PlanStep DEF Planned
<1>5. e \in [Block -> CellSet] /\ \A b \in Block : e[b] \in Candidates(op, b)
  BY <1>2, <1>3, <1>4
<1>6. PlanLength \in Nat /\ PlanLength >= 4 /\ PlanLength = Last + 2 /\ Last \in Nat
  BY UrlAssumption DEF PlanLength
<1>7. CASE k = 1
  <2>1. Planned.block = 0 /\ Planned.cell = CC
    <3>1. Planned = [block |-> 0, cell |-> CC]
      BY <1>1, <1>7, Plan, Zenon DEF Planned
    <3> QED
      BY <3>1
  <2>2. e[0] = CC /\ \A b \in Block : b # 0 => e[b] = old[b]
    BY <1>2, <2>1, Blocks
  <2>3. e[1] = old[1] /\ \A b \in 2 .. Last : e[b] = old[b]
    BY <2>2, Blocks, <1>6 DEF Block
  <2>4. ASSUME NEW m \in Content, e[1] = Head(m)
        PROVE  e = Whole(m)
    <3>1. old = Whole(m)
      BY <2>3, <2>4, <1>2 DEF Readable
    <3>2. old[0] = CC
      BY <3>1, WholeCells
    <3>3. e = old
      BY <3>2, <2>1, <1>2, Blocks
    <3> QED
      BY <3>1, <3>3
  <2>5. Readable(e)
    BY <2>2, <2>3, <2>4, <1>2 DEF Readable
  <2> QED
    BY <1>1, <1>3, <1>5, <1>6, <1>7, <2>2, <2>5
<1>8. CASE k = 2
  <2>1. Planned.block = 1 /\ Planned.cell = Empty
    <3>1. Planned = [block |-> 1, cell |-> Empty]
      BY <1>1, <1>8, Plan, Zenon DEF Planned
    <3> QED
      BY <3>1
  <2>2. e[0] = CC /\ e[1] = Empty
    BY <1>2, <1>3, <1>8, <2>1, Blocks
  <2>3. Readable(e)
    BY <2>2, CellsDiffer DEF Readable
  <2> QED
    BY <1>1, <1>3, <1>5, <1>6, <1>8, <2>2, <2>3
<1>9. CASE k \in 3 .. PlanLength - 1
  <2>1. Planned.block = k - 1 /\ Planned.cell = Body(op)
    <3>1. Planned = [block |-> k - 1, cell |-> Body(op)]
      BY <1>1, <1>9, Plan, Zenon DEF Planned
    <3> QED
      BY <3>1
  <2>2. k - 1 \in Block /\ k - 1 # 0 /\ k - 1 # 1
    BY <1>6, <1>9 DEF Block
  <2>3. e[0] = CC /\ e[1] = Empty
    BY <1>2, <1>3, <1>9, <2>1, <2>2, Blocks
  <2>4. ASSUME NEW b \in Block, 2 <= b, b < k
        PROVE  e[b] = Body(op)
    BY <1>2, <1>3, <1>6, <1>9, <2>1, <2>2, <2>4 DEF Block
  <2>5. Readable(e)
    BY <2>3, CellsDiffer DEF Readable
  <2> QED
    BY <1>1, <1>3, <1>5, <1>6, <1>9, <2>3, <2>4, <2>5
<1>10. CASE k = PlanLength
  <2>1. Planned.block = 1 /\ Planned.cell = Head(op)
    <3>1. Planned = [block |-> 1, cell |-> Head(op)]
      BY <1>1, <1>10, Plan, Zenon DEF Planned
    <3> QED
      BY <3>1
  <2>2. ASSUME NEW b \in Block
        PROVE  e[b] = Whole(op)[b]
    <3>1. CASE b = 0
      BY <3>1, <1>1, <1>2, <1>3, <1>6, <1>10, <2>1, WholeCells, Blocks
    <3>2. CASE b = 1
      BY <3>2, <1>1, <1>2, <2>1, WholeCells, Blocks
    <3>3. CASE b \in 2 .. Last
      <4>1. 2 <= b /\ b < k - 1 /\ b # 1
        BY <3>3, <1>6, <1>10
      <4>2. old[b] = Body(op)
        BY <4>1, <1>3
      <4> QED
        BY <4>1, <4>2, <3>3, <1>1, <1>2, <2>1, WholeCells
    <3> QED
      BY <3>1, <3>2, <3>3, <1>6 DEF Block
  <2>3. e = Whole(op)
    BY <1>1, <1>5, <2>2, WholeCells
  <2>4. Readable(e)
    BY <1>1, <1>5, <2>3, SettledReadable DEF Settled
  <2> QED
    BY <1>1, <1>3, <1>5, <1>6, <1>10, <2>4
<1> QED
  BY <1>3, <1>6, <1>7, <1>8, <1>9, <1>10

-----------------------------------------------------------------------------
(* NFCService.                                                              *)

LEMMA updateURLInv ==
  ASSUME AppInv, NEW op \in Operation, updateURL(op)
  PROVE  AppInv'
<1>1. op # "transfer"
  BY DEF Operation
<1> QED
  BY <1>1, Begins DEF updateURL, AppInv, AppTypes

LEMMA writeImageInv == AppInv /\ writeImage => AppInv'
<1> SUFFICES ASSUME AppInv, writeImage PROVE AppInv'
  OBVIOUS
<1>1. /\ Away /\ journal = None /\ pendingWrite' = "transfer" /\ retainedTransfer' = TRUE
      /\ Begin("transfer", "none") /\ UNCHANGED <<memory, locked, journal>>
  BY DEF writeImage
<1> QED
  BY <1>1, Begins

LEMMA readStatusInv == AppInv /\ readStatus => AppInv'
<1> SUFFICES ASSUME AppInv, readStatus PROVE AppInv'
  OBVIOUS
<1>1. /\ Away /\ journal = None /\ Begin("status", "none")
      /\ UNCHANGED <<memory, locked, journal, pendingWrite, retainedTransfer>>
  BY DEF readStatus, service
<1> QED
  BY <1>1, Begins DEF AppInv, AppTypes

\* What is kept while there is a journal is not an image, so it need not look.
LEMMA resumeInv == AppInv /\ resume => AppInv'
<1> SUFFICES ASSUME AppInv, resume PROVE AppInv'
  OBVIOUS
<1>1. /\ Away /\ pendingWrite # "none"
      /\ UNCHANGED <<memory, locked, journal, pendingWrite, retainedTransfer>>
  BY DEF resume, service
<1>2. CASE pendingWrite = "transfer"
  <2>1. journal = None /\ Begin("transfer", "none")
    BY <1>2 DEF resume, AppInv, ServiceInv
  <2> QED
    BY <1>1, <1>2, <2>1, Begins DEF AppInv, AppTypes
<1>3. CASE pendingWrite # "transfer"
  <2>1. Begin("url", pendingWrite) /\ pendingWrite \in Operation
    BY <1>1, <1>3 DEF resume, AppInv, AppTypes
  <2> QED
    BY <1>1, <1>3, <2>1, Begins DEF AppInv, AppTypes
<1> QED
  BY <1>2, <1>3

LEMMA DetectForURLInv ==
  ASSUME AppInv, NEW c \in Card, DetectForURL(c)
  PROVE  AppInv'
<1> DEFINE d == [session EXCEPT !.at = "startup", !.card = c, !.prior = journal # None,
                                !.plan = journal # None /\ journal.plan]
<1>1. /\ session.at = "detect" /\ session.kind = "url"
      /\ UNCHANGED <<memory, locked, journal, pendingWrite, retainedTransfer>>
  BY DEF DetectForURL, service
<1>2. CASE journal # None /\ (journal.uid # c \/ journal.op # session.op)
  <2>1. session' = NoSession
    BY <1>2 DEF DetectForURL
  <2> QED
    BY <1>1, <2>1, Ends DEF AppInv, AppTypes
<1>3. CASE ~(journal # None /\ (journal.uid # c \/ journal.op # session.op))
  <2>1. session' = d
    BY <1>3 DEF DetectForURL
  <2>2. journal # None => journal.plan \in BOOLEAN
    BY DEF AppInv, AppTypes, Journal
  <2>3. /\ (journal # None) \in BOOLEAN /\ (journal # None /\ journal.plan) \in BOOLEAN
    BY <2>2
  <2>4. /\ d \in Session /\ d.at = "startup" /\ d.kind = "url" /\ d.op = session.op
        /\ d.card = c /\ d.started = session.started /\ (d.prior <=> journal # None)
    BY <1>1, <2>3 DEF AppInv, AppTypes, Session, Place
  <2>5. ~session.started
    BY <1>1 DEF AppInv, AppTypes, StartedPlace
  <2> HIDE DEF d
  <2>6. AppTypes'
    BY <1>1, <2>1, <2>4, <2>5 DEF AppInv, AppTypes
  <2>7. ServiceInv'
    BY <1>1, <2>1, <2>4 DEF AppInv, ServiceInv
  <2>8. JournalInv'
    BY <1>1, <1>3, <2>1, <2>4 DEF AppInv, JournalInv, Journaled
  <2>9. ReplayInv'
    BY <2>1, <2>4 DEF ReplayInv
  <2>10. MemoryInv'
    BY <1>1, <2>1, <2>4 DEF AppInv, MemoryInv, HalfWrittenIsJournaled
  <2> QED
    BY <2>6, <2>7, <2>8, <2>9, <2>10 DEF AppInv
<1> QED
  BY <1>2, <1>3

LEMMA OtherSessionInv ==
  ASSUME AppInv, NEW c \in Card, OtherSession(c)
  PROVE  AppInv'
<1>1. /\ session' = NoSession /\ UNCHANGED <<memory, locked, journal>>
      /\ pendingWrite' \in {pendingWrite, "none"}
      /\ retainedTransfer' \in {retainedTransfer, FALSE}
  BY DEF OtherSession
<1> QED
  BY <1>1, Ends DEF AppInv, AppTypes

-----------------------------------------------------------------------------
(* URLWriter.write.                                                         *)

\* The steps before the journal is saved, and those that only read the card.
LEMMA StepsInv ==
  ASSUME AppInv,
         \/ Startup \/ Drain \/ SendPrepare \/ ReceivePrepare \/ NoAnswer
         \/ DisableMailbox \/ EnableMailbox \/ Verify \/ StepFails
  PROVE  AppInv'
<1>1. CASE Drain
  <2>1. UNCHANGED <<memory, locked, service, session>>
    BY <1>1 DEF Drain
  <2> QED
    BY <2>1 DEF AppInv, AppTypes, ServiceInv, JournalInv, ReplayInv, MemoryInv,
                HalfWrittenIsJournaled, Writing, Stored, service
<1>2. ASSUME session.at \in {"startup", "drain", "await", "disable", "enable", "verify",
                             "save", "memory", "status", "compare", "clear"},
             NEW p \in {"drain", "await", "save", "memory", "status", "clear", "enable",
                        "restore"},
             GoTo(p), UNCHANGED <<memory, locked, service>>,
             p \in {"memory", "status", "clear", "enable"} => session.at \in Journaled,
             p \in {"enable", "clear"} => Stored = Whole(session.op),
             session.started => p \in StartedPlace
      PROVE  AppInv'
  <2>1. Writing /\ p \in Place \ {"away", "detect", "replay", "write", "complete"}
    BY <1>2 DEF Writing, Place
  <2>2. p \in Journaled => journal # None
    BY <1>2 DEF AppInv, JournalInv, Journaled
  <2> QED
    BY <1>2, <2>1, <2>2, GoesTo
<1>3. session.started => session.at \in StartedPlace
  BY DEF AppInv, AppTypes
<1>4. CASE Startup
  BY <1>2, <1>3, <1>4 DEF Startup, StartedPlace
<1>5. CASE SendPrepare
  BY <1>2, <1>3, <1>5 DEF SendPrepare, StartedPlace
<1>6. CASE ReceivePrepare
  BY <1>2, <1>3, <1>6 DEF ReceivePrepare, StartedPlace
<1>7. CASE NoAnswer
  BY <1>2, <1>3, <1>7 DEF NoAnswer, StartedPlace
<1>8. CASE DisableMailbox
  BY <1>2, <1>3, <1>8 DEF DisableMailbox, StartedPlace, Journaled
<1>9. CASE EnableMailbox
  <2>1. Stored = Whole(session.op)
    BY <1>9 DEF EnableMailbox, AppInv, MemoryInv
  <2> QED
    BY <1>2, <1>3, <1>9, <2>1 DEF EnableMailbox, StartedPlace, Journaled
<1>10. CASE Verify
  BY <1>2, <1>3, <1>10 DEF Verify, StartedPlace, Journaled
<1>11. CASE StepFails
  BY <1>2, <1>11 DEF StepFails, StartedPlace
<1> QED
  BY <1>1, <1>4, <1>5, <1>6, <1>7, <1>8, <1>9, <1>10, <1>11

LEMMA SaveJournalInv == AppInv /\ SaveJournal => AppInv'
<1> SUFFICES ASSUME AppInv, SaveJournal PROVE AppInv'
  OBVIOUS
<1>1. /\ session.at = "save" /\ Writing /\ session.card \in Card
      /\ session.op \in Operation /\ session.plan \in BOOLEAN /\ ~session.started
      /\ pendingWrite # "transfer" /\ (journal # None => journal.uid = session.card)
  BY DEF SaveJournal, AppInv, AppTypes, StartedPlace, ServiceInv, JournalInv, Writing, Session
<1>2. /\ journal' \in Journal /\ journal'.uid = session.card /\ journal' # None
      /\ UNCHANGED <<memory, locked, pendingWrite, retainedTransfer>>
  BY <1>1, UrlAssumption DEF SaveJournal, Journal
<1>3. /\ session' \in Session /\ session'.at = "disable"
      /\ session'.kind = session.kind /\ session'.op = session.op
      /\ session'.card = session.card /\ session'.prior = session.prior
      /\ session'.started = session.started
  BY DEF SaveJournal, GoTo, AppInv, AppTypes, Session, Place
<1>4. Writing'
  BY <1>3 DEF Writing
<1>5. AppTypes'
  BY <1>1, <1>2, <1>3 DEF AppInv, AppTypes
<1>6. ServiceInv'
  BY <1>1, <1>2, <1>3 DEF AppInv, ServiceInv
<1>7. JournalInv'
  BY <1>1, <1>2, <1>3 DEF JournalInv
<1>8. ReplayInv'
  BY <1>3 DEF ReplayInv
<1>9. MemoryInv'
  BY <1>1, <1>2, <1>3 DEF AppInv, MemoryInv, HalfWrittenIsJournaled
<1> QED
  BY <1>5, <1>6, <1>7, <1>8, <1>9 DEF AppInv

LEMMA ReadMemoryInv == AppInv /\ ReadMemory => AppInv'
<1> SUFFICES ASSUME AppInv, ReadMemory PROVE AppInv'
  OBVIOUS
<1>1. /\ session.at = "memory" /\ Writing /\ journal \in Journal
      /\ journal.uid = session.card /\ UNCHANGED <<memory, locked, service>>
  BY DEF ReadMemory, Writing, AppInv, AppTypes, JournalInv, Journaled
<1>2. CASE validateReplay(Stored, session.op) /\ session.card \notin locked
  BY <1>1, <1>2, Replays DEF ReadMemory, service
<1>3. CASE ~(validateReplay(Stored, session.op) /\ session.card \notin locked)
  BY <1>1, <1>3, GoesTo DEF ReadMemory, Place, Journaled, StartedPlace
<1> QED
  BY <1>2, <1>3

LEMMA NdefStatusInv == AppInv /\ NdefStatus => AppInv'
<1> SUFFICES ASSUME AppInv, NdefStatus PROVE AppInv'
  OBVIOUS
<1>1. /\ session.at = "status" /\ Writing /\ journal # None /\ ~session.started
      /\ UNCHANGED <<memory, locked, service>>
  BY DEF NdefStatus, Writing, AppInv, AppTypes, StartedPlace, JournalInv, Journaled
<1>2. CASE session.card \in locked
  BY <1>1, <1>2, GoesTo DEF NdefStatus, Place, Journaled, StartedPlace
<1>3. CASE session.card \notin locked /\ session.prior
  BY <1>1, <1>3, GoesTo DEF NdefStatus, Place, Journaled, StartedPlace
<1>4. CASE session.card \notin locked /\ ~session.prior
  <2>1. session' = [session EXCEPT !.at = "write", !.started = TRUE]
    BY <1>4 DEF NdefStatus
  <2>2. /\ session' \in Session /\ session'.at = "write" /\ session'.started
        /\ session'.kind = session.kind /\ session'.op = session.op
        /\ session'.card = session.card /\ session'.prior = session.prior
    BY <2>1 DEF AppInv, AppTypes, Session, Place
  <2> QED
    BY <1>1, <2>2, Moves DEF Place, StartedPlace
<1> QED
  BY <1>2, <1>3, <1>4

LEMMA CompareInv == AppInv /\ Compare => AppInv'
<1> SUFFICES ASSUME AppInv, Compare PROVE AppInv'
  OBVIOUS
<1>1. /\ session.at = "compare" /\ Writing /\ journal # None
      /\ UNCHANGED <<memory, locked, service>>
  BY DEF Compare, Writing, AppInv, JournalInv, Journaled
<1>2. PICK p \in {"verify", "write"} :
          session' = [session EXCEPT !.started = TRUE, !.at = p]
  BY DEF Compare
<1>3. /\ session' \in Session /\ session'.at = p /\ session'.started
      /\ session'.kind = session.kind /\ session'.op = session.op
      /\ session'.card = session.card /\ session'.prior = session.prior
  BY <1>2 DEF AppInv, AppTypes, Session, Place
<1>4. p \in Place \ {"away", "detect", "replay", "complete"} /\ p \in StartedPlace
      /\ p \notin {"enable", "clear"}
  BY DEF Place, StartedPlace
<1> QED
  BY <1>1, <1>3, <1>4, Moves

\* A blank card holds nothing but zeros, so the plan fits.
LEMMA PlanBlankInv == AppInv /\ PlanBlank => AppInv'
<1> SUFFICES ASSUME AppInv, PlanBlank PROVE AppInv'
  OBVIOUS
<1>1. /\ session.at = "status" /\ Writing /\ session.card \in Card
      /\ session.op \in Operation /\ ~session.started
      /\ UNCHANGED <<memory, locked, pendingWrite, retainedTransfer>>
  BY DEF PlanBlank, Writing, AppInv, AppTypes, StartedPlace, ServiceInv, JournalInv
<1>2. CASE Stored = Blank /\ session.card \notin locked
  <2>1. journal' = [uid |-> session.card, op |-> session.op, plan |-> TRUE] /\ StartReplay
    BY <1>2 DEF PlanBlank
  <2>2. journal' \in Journal /\ journal'.uid = session.card
    BY <1>1, <2>1 DEF Journal
  <2>3. validateReplay(Stored, session.op)
    BY <1>2 DEF validateReplay, Candidates, Blank
  <2> QED
    BY <1>1, <2>1, <2>2, <2>3, Replays
<1>3. CASE ~(Stored = Blank /\ session.card \notin locked)
  <2>1. GoTo("restore") /\ UNCHANGED <<memory, locked, service>>
    BY <1>1, <1>3 DEF PlanBlank, service
  <2> QED
    BY <1>1, <2>1, GoesTo DEF Place, Journaled, StartedPlace
<1> QED
  BY <1>2, <1>3

LEMMA WriteMessageInv ==
  ASSUME AppInv, WriteMessage \/ WriteMessageFails
  PROVE  AppInv'
<1>1. /\ session.at = "write" /\ Writing /\ UNCHANGED <<locked, service>>
      /\ session.card \in Card /\ session.op \in Content
      /\ session.started /\ journal # None
  BY DEF WriteMessage, WriteMessageFails, AppInv, ServiceInv, JournalInv, Journaled,
         Writing, Content
<1>2. Stored \in [Block -> CellSet] /\ Readable(Stored)
  BY <1>1 DEF AppInv, AppTypes, MemoryInv, Stored
<1>3. ASSUME NEW p \in {"restore", "verify"}, GoTo(p), UNCHANGED memory
      PROVE  AppInv'
  <2>1. p \in Place \ {"away", "detect", "replay", "write", "complete"} /\ p \in StartedPlace
    BY DEF Place, StartedPlace
  <2> QED
    BY <1>1, <1>3, <2>1, GoesTo
<1>4. ASSUME NEW p \in {"restore", "verify"}, GoTo(p),
             NEW e \in Interrupted(Stored, session.op),
             memory' = [memory EXCEPT ![session.card] = e]
      PROVE  AppInv'
  <2>1. e \in [Block -> CellSet] /\ Readable(e)
    BY <1>1, <1>2, InterruptedReadable
  <2>2. /\ session' \in Session /\ session'.at = p
        /\ session'.kind = session.kind /\ session'.op = session.op
        /\ session'.card = session.card /\ session'.started = session.started
    BY <1>4 DEF GoTo, AppInv, AppTypes, Session, Place
  <2> QED
    BY <1>1, <1>4, <2>1, <2>2, Writes
<1>5. Whole(session.op) \in Interrupted(Stored, session.op)
  BY DEF Interrupted
<1> QED
  BY <1>3, <1>4, <1>5 DEF WriteMessage, WriteMessageFails

LEMMA WriteBlockInv ==
  ASSUME AppInv, WriteBlock \/ WriteBlockFails
  PROVE  AppInv'
<1> DEFINE e == [Stored EXCEPT ![Planned.block] = Planned.cell]
<1>1. /\ session.at = "replay" /\ Writing /\ UNCHANGED <<locked, service>>
      /\ session.started /\ journal # None
  BY DEF WriteBlock, WriteBlockFails, AppInv, JournalInv, Journaled, Writing
<1>2. /\ session.card \in Card /\ session.op \in Content
      /\ session.next \in 1 .. PlanLength
      /\ e \in [Block -> CellSet] /\ Readable(e)
      /\ session.next = 1 => e[0] = CC
      /\ session.next = 2 => e[0] = CC /\ e[1] = Empty
      /\ session.next \in 3 .. PlanLength - 1 =>
             /\ e[0] = CC /\ e[1] = Empty
             /\ \A b \in Block : 2 <= b /\ b < session.next => e[b] = Body(session.op)
      /\ \A b \in Block : e[b] \in Candidates(session.op, b)
  BY <1>1, PlannedBlock
<1> HIDE DEF e
<1>3. ASSUME GoTo("restore"), UNCHANGED memory
      PROVE  AppInv'
  BY <1>1, <1>3, GoesTo DEF Place, Journaled, StartedPlace
<1>4. ASSUME GoTo("restore"), memory' = [memory EXCEPT ![session.card] = e]
      PROVE  AppInv'
  <2>1. /\ session' \in Session /\ session'.at = "restore"
        /\ session'.kind = session.kind /\ session'.op = session.op
        /\ session'.card = session.card /\ session'.started = session.started
    BY <1>4 DEF GoTo, AppInv, AppTypes, Session, Place
  <2> QED
    BY <1>1, <1>2, <1>4, <2>1, Writes
<1>5. ASSUME memory' = [memory EXCEPT ![session.card] = e],
             session' = [session EXCEPT !.next = @ + 1,
                             !.at = IF session.next = PlanLength THEN "verify" ELSE @]
      PROVE  AppInv'
  <2>1. PlanLength \in Nat /\ session.next + 1 \in 0 .. PlanLength + 1
    BY <1>2, UrlAssumption DEF PlanLength
  <2>2. CASE session.next = PlanLength
    <3>1. /\ session' \in Session /\ session'.at = "verify"
          /\ session'.kind = session.kind /\ session'.op = session.op
          /\ session'.card = session.card /\ session'.started = session.started
      BY <1>5, <2>1, <2>2 DEF AppInv, AppTypes, Session, Place
    <3> QED
      BY <1>1, <1>2, <1>5, <3>1, Writes
  <2>3. CASE session.next # PlanLength
    <3>1. /\ session' \in Session /\ session'.at = "replay"
          /\ session'.kind = session.kind /\ session'.op = session.op
          /\ session'.card = session.card /\ session'.started
          /\ session'.next = session.next + 1 /\ session'.prior = session.prior
      BY <1>1, <1>5, <2>1, <2>3 DEF AppInv, AppTypes, Session, Place
    <3>2. /\ memory' \in [Card -> [Block -> CellSet]] /\ Stored' = e
          /\ \A c \in Card : c # session.card => memory'[c] = memory[c]
      BY <1>2, <1>5, <3>1 DEF AppInv, AppTypes, Stored
    <3>3. Writing'
      BY <3>1 DEF Writing
    <3>4. AppTypes'
      BY <1>1, <3>1, <3>2 DEF AppInv, AppTypes, StartedPlace, service
    <3>5. ServiceInv'
      BY <1>1, <3>1 DEF AppInv, ServiceInv, service
    <3>6. JournalInv'
      BY <1>1, <3>1 DEF AppInv, JournalInv, service
    <3>7. ReplayInv'
      <4>1. session'.next \in 1 .. PlanLength /\ session'.next - 1 = session.next
        BY <1>2, <2>1, <2>3, <3>1
      <4>2. session.next \in {1, 2} \/ session.next \in 3 .. PlanLength - 1
        BY <1>2, <2>1, <2>3
      <4> QED
        BY <1>2, <3>1, <3>2, <4>1, <4>2 DEF ReplayInv, Block
    <3>8. HalfWrittenIsJournaled'
      BY <1>1, <1>2, <3>2 DEF AppInv, MemoryInv, HalfWrittenIsJournaled, JournalInv, service
    <3>9. MemoryInv'
      BY <1>2, <3>1, <3>2, <3>8 DEF AppInv, MemoryInv, Stored
    <3> QED
      BY <3>4, <3>5, <3>6, <3>7, <3>9 DEF AppInv
  <2> QED
    BY <2>2, <2>3
<1> QED
  <2>1. [memory EXCEPT ![session.card][Planned.block] = Planned.cell]
            = [memory EXCEPT ![session.card] = e]
    BY DEF e, Stored
  <2> QED
    BY <1>3, <1>4, <1>5, <2>1 DEF WriteBlock, WriteBlockFails

LEMMA ClearJournalInv == AppInv /\ ClearJournal => AppInv'
<1> SUFFICES ASSUME AppInv, ClearJournal PROVE AppInv'
  OBVIOUS
<1>1. /\ session.at = "clear" /\ Writing /\ session.card \in Card /\ session.op \in Content
      /\ journal.uid = session.card /\ Stored = Whole(session.op) /\ journal' = None
      /\ UNCHANGED <<memory, locked, pendingWrite, retainedTransfer>>
  BY DEF ClearJournal, Writing, AppInv, ServiceInv, JournalInv, Journaled, MemoryInv, Content
<1>2. /\ session' \in Session /\ session'.at = "complete"
      /\ session'.kind = session.kind /\ session'.op = session.op
      /\ session'.card = session.card /\ session'.started = session.started
  BY DEF ClearJournal, GoTo, AppInv, AppTypes, Session, Place
<1>3. Writing'
  BY <1>2 DEF Writing
<1>4. \A c \in Card : Settled(memory[c])
  <2>1. Settled(memory[session.card])
    BY <1>1 DEF Settled, Stored
  <2> QED
    BY <1>1, <2>1 DEF AppInv, MemoryInv, HalfWrittenIsJournaled
<1>5. AppTypes'
  BY <1>1, <1>2 DEF AppInv, AppTypes, StartedPlace
<1>6. ServiceInv'
  BY <1>1, <1>2 DEF AppInv, ServiceInv
<1>7. JournalInv'
  BY <1>1, <1>2 DEF AppInv, JournalInv, Journaled
<1>8. ReplayInv'
  BY <1>2 DEF ReplayInv
<1>9. MemoryInv'
  BY <1>1, <1>2, <1>4 DEF AppInv, MemoryInv, HalfWrittenIsJournaled, Stored
<1> QED
  BY <1>5, <1>6, <1>7, <1>8, <1>9 DEF AppInv

\* However a session ends, its journal is kept if a card may be half written.
LEMMA EndingsInv ==
  ASSUME AppInv, Complete \/ Restore \/ SessionLost \/ AppKilled
  PROVE  AppInv'
<1>1. /\ session' = NoSession /\ UNCHANGED <<memory, locked>>
      /\ pendingWrite \in {"none", "transfer"} \cup Operation
      /\ retainedTransfer \in BOOLEAN
  BY DEF Complete, Restore, SessionLost, AppKilled, AppInv, AppTypes
<1>2. CASE Complete
  <2>1. /\ journal = None /\ journal' = None /\ retainedTransfer' = retainedTransfer
        /\ pendingWrite' \in {"transfer", "none"}
    BY <1>2 DEF Complete, AppInv, JournalInv
  <2> QED
    BY <1>1, <2>1, Ends
<1>3. CASE Restore
  <2>1. /\ journal' \in {journal, None}
        /\ UNCHANGED <<pendingWrite, retainedTransfer>>
    BY <1>3 DEF Restore
  <2>2. journal' = None /\ journal # None => \A c \in Card : Settled(memory[c])
    BY <1>3 DEF Restore, AppInv, MemoryInv, Writing
  <2> QED
    BY <1>1, <2>1, <2>2, Ends
<1>4. CASE SessionLost
  BY <1>1, <1>4, Ends DEF SessionLost, service
<1>5. CASE AppKilled
  BY <1>1, <1>5, Ends DEF AppKilled
<1> QED
  BY <1>2, <1>3, <1>4, <1>5

LEMMA OtherPhoneInv ==
  ASSUME AppInv, NEW c \in Card, OtherPhone(c)
  PROVE  AppInv'
<1>1. /\ session.at = "away" /\ UNCHANGED <<locked, service, session>>
      /\ memory' = [memory EXCEPT ![c] = Whole("other")]
  BY DEF OtherPhone, Away
<1>2. /\ Whole("other") \in [Block -> CellSet] /\ Settled(Whole("other"))
      /\ Readable(Whole("other"))
  BY WholeCells, SettledReadable DEF Settled, Content
<1>3. /\ memory' \in [Card -> [Block -> CellSet]] /\ memory'[c] = Whole("other")
      /\ \A d \in Card : d # c => memory'[d] = memory[d]
  BY <1>1, <1>2 DEF AppInv, AppTypes
<1>4. AppTypes' /\ ServiceInv' /\ JournalInv'
  BY <1>1, <1>3 DEF AppInv, AppTypes, ServiceInv, JournalInv, Writing, service
<1>5. ReplayInv'
  BY <1>1 DEF ReplayInv
<1>6. MemoryInv'
  <2>1. \A d \in Card : Readable(memory'[d])
    BY <1>2, <1>3 DEF AppInv, MemoryInv
  <2>2. HalfWrittenIsJournaled'
    BY <1>1, <1>2, <1>3 DEF AppInv, MemoryInv, HalfWrittenIsJournaled, service
  <2> QED
    BY <1>1, <2>1, <2>2 DEF MemoryInv, Writing
<1> QED
  BY <1>4, <1>5, <1>6 DEF AppInv

LEMMA UnchangedInv ==
  ASSUME AppInv, UNCHANGED <<memory, locked, service, session>>
  PROVE  AppInv'
BY DEF AppInv, AppTypes, ServiceInv, JournalInv, ReplayInv, MemoryInv,
       HalfWrittenIsJournaled, Writing, Stored, service

-----------------------------------------------------------------------------
(* The mailboxes, and the theorems.                                         *)

LEMMA MailboxInv ==
  ASSUME UrlInv, [Next]_vars
  PROVE  MailboxTypes'
<1> USE DEF MailboxState
<1>1. mcu \in [Card -> MailboxState] /\ \A c \in Card : mcu[c].paused => ~mcu[c].requested
  BY DEF UrlInv, MailboxTypes
<1>2. ASSUME NEW c \in Card, NEW s \in MailboxState, s.paused => ~s.requested,
             mcu' = [mcu EXCEPT ![c] = s]
      PROVE  MailboxTypes'
  BY <1>1, <1>2 DEF MailboxTypes
<1>3. ASSUME UNCHANGED mcu
      PROVE  MailboxTypes'
  BY <1>1, <1>3 DEF MailboxTypes
<1>4. \A c \in Card :
          /\ mcu[c] \in MailboxState
          /\ mcu[c].paused => ~mcu[c].requested
  BY <1>1
<1>5. ASSUME NEW c \in Card, CardRuns(c) \/ CardBoots(c)
      PROVE  MailboxTypes'
  <2>1. CASE CardHandles(c)
    <3>1. PICK ack \in {"accepted", "rejected", "none"}, r \in {TRUE, mcu[c].requested} :
              mcu' = [mcu EXCEPT ![c] = [mcu[c] EXCEPT !.frame = FALSE, !.ack = ack,
                                                       !.requested = r]]
      <4>1. ASSUME NEW ack \in {"rejected", "none"},
                   mcu' = [mcu EXCEPT ![c].frame = FALSE, ![c].ack = ack]
            PROVE  mcu' = [mcu EXCEPT ![c] = [mcu[c] EXCEPT !.frame = FALSE, !.ack = ack,
                                                   !.requested = mcu[c].requested]]
        BY <1>1, <1>4, <4>1
      <4> QED
        BY <2>1, <4>1 DEF CardHandles, MCUStep
    <3> DEFINE s == [mcu[c] EXCEPT !.frame = FALSE, !.ack = ack, !.requested = r]
    <3>2. s \in MailboxState /\ ~s.paused
      BY <1>4, <2>1 DEF CardHandles
    <3> QED
      BY <1>2, <3>1, <3>2
  <2>2. CASE CardSeesAckRead(c)
    BY <1>2, <1>4, <2>2 DEF CardSeesAckRead, MCUStep
  <2>3. CASE CardPauses(c)
    BY <1>2, <1>4, <2>3 DEF CardPauses, MCUStep, Disabled
  <2>4. CASE CardResumes(c)
    BY <1>2, <1>4, <2>4 DEF CardResumes, MCUStep
  <2>5. CASE CardBoots(c)
    BY <1>2, <2>5 DEF CardBoots, Booted
  <2> QED
    BY <1>5, <2>1, <2>2, <2>3, <2>4, <2>5 DEF CardRuns
<1>6. ASSUME NEW c \in Card, OtherSession(c)
      PROVE  MailboxTypes'
  BY <1>2, <1>4, <1>6 DEF OtherSession, Enabled
<1>7. ASSUME Writing
      PROVE  session.card \in Card
  BY <1>7 DEF UrlInv, AppInv, JournalInv
<1>8. ASSUME session.card \in Card,
             \/ Phone(Enabled(Here)) \/ Phone(Disabled(Here))
             \/ Phone([Here EXCEPT !.ack = "none"]) \/ Phone([Here EXCEPT !.frame = TRUE])
      PROVE  MailboxTypes'
  <2>1. Here \in MailboxState /\ (Here.paused => ~Here.requested)
    BY <1>4, <1>8 DEF Here
  <2>2. ASSUME NEW s \in MailboxState, Phone(s), s.paused => ~s.requested
        PROVE  MailboxTypes'
    BY <1>2, <1>8, <2>2 DEF Phone
  <2>3. CASE Phone(Enabled(Here))
    BY <2>1, <2>2, <2>3 DEF Enabled
  <2>4. CASE Phone(Disabled(Here))
    BY <2>1, <2>2, <2>4 DEF Disabled
  <2>5. CASE Phone([Here EXCEPT !.ack = "none"])
    BY <2>1, <2>2, <2>5
  <2>6. CASE Phone([Here EXCEPT !.frame = TRUE])
    BY <2>1, <2>2, <2>6
  <2> QED
    BY <1>8, <2>3, <2>4, <2>5, <2>6
<1>9. CASE Write
  BY <1>3, <1>7, <1>8, <1>9
     DEF Write, Writing, Startup, Drain, SendPrepare, ReceivePrepare, NoAnswer,
         SaveJournal, DisableMailbox, ReadMemory, NdefStatus, Compare, PlanBlank,
         WriteMessage, WriteBlock, Verify, EnableMailbox, ClearJournal, Complete, Restore
<1>10. CASE StepFails
  BY <1>3, <1>7, <1>8, <1>10 DEF StepFails, Writing
<1>11. CASE UNCHANGED vars
  BY <1>3, <1>11 DEF vars
<1> QED
  BY <1>3, <1>5, <1>6, <1>9, <1>10, <1>11
     DEF Next, updateURL, writeImage, readStatus, resume, DetectForURL, OtherPhone,
         WriteMessageFails, WriteBlockFails, SessionLost, AppKilled

LEMMA InitInv == Init => UrlInv
<1> SUFFICES ASSUME Init PROVE UrlInv
  OBVIOUS
<1>1. /\ session = NoSession /\ journal = None /\ pendingWrite = "none"
      /\ retainedTransfer = FALSE /\ locked \in Protected
      /\ memory = [c \in Card |-> IF c \in Factory THEN Blank ELSE Whole("other")]
      /\ mcu = [c \in Card |-> Booted]
  BY DEF Init
<1>2. ~Writing /\ session.at = "away"
  BY <1>1, NoSessionTyped DEF Writing
<1>3. Blank \in [Block -> CellSet] /\ Settled(Blank)
  BY Cells DEF Blank, Settled
<1>4. Whole("other") \in [Block -> CellSet] /\ Settled(Whole("other"))
  BY WholeCells DEF Settled, Content
<1>5. \A c \in Card : memory[c] \in [Block -> CellSet] /\ Settled(memory[c])
  BY <1>1, <1>3, <1>4
<1>6. AppTypes
  <2>1. memory \in [Card -> [Block -> CellSet]]
    BY <1>1, <1>3, <1>4
  <2> QED
    BY <1>1, <2>1, NoSessionTyped, UrlAssumption DEF AppTypes
<1>7. ServiceInv /\ JournalInv /\ ReplayInv
  BY <1>1, <1>2, NoSessionTyped DEF ServiceInv, JournalInv, Journaled, ReplayInv
<1>8. MemoryInv
  BY <1>2, <1>5, SettledReadable DEF MemoryInv, HalfWrittenIsJournaled
<1>9. MailboxTypes
  BY <1>1 DEF MailboxTypes, MailboxState, Booted
<1> QED
  BY <1>6, <1>7, <1>8, <1>9 DEF UrlInv, AppInv

LEMMA StepInv == UrlInv /\ [Next]_vars => UrlInv'
<1> SUFFICES ASSUME UrlInv, [Next]_vars PROVE UrlInv'
  OBVIOUS
<1>1. AppInv /\ MailboxTypes'
  BY MailboxInv DEF UrlInv
<1>2. ASSUME NEW op \in Operation, updateURL(op) PROVE AppInv'
  BY <1>1, <1>2, updateURLInv
<1>3. ASSUME writeImage \/ readStatus \/ resume PROVE AppInv'
  BY <1>1, <1>3, writeImageInv, readStatusInv, resumeInv
<1>4. ASSUME NEW c \in Card, DetectForURL(c) \/ OtherSession(c) PROVE AppInv'
  BY <1>1, <1>4, DetectForURLInv, OtherSessionInv
<1>5. ASSUME Write PROVE AppInv'
  BY <1>1, <1>5, StepsInv, SaveJournalInv, ReadMemoryInv, NdefStatusInv, CompareInv,
     PlanBlankInv, WriteMessageInv, WriteBlockInv, ClearJournalInv, EndingsInv DEF Write
<1>6. ASSUME NEW c \in Card, CardRuns(c) \/ CardBoots(c) PROVE AppInv'
  <2>1. UNCHANGED <<memory, locked, service, session>>
    BY <1>6 DEF CardRuns, CardHandles, CardSeesAckRead, CardPauses, CardResumes,
                CardBoots, MCUStep
  <2> QED
    BY <1>1, <2>1, UnchangedInv
<1>7. ASSUME NEW c \in Card, OtherPhone(c) PROVE AppInv'
  BY <1>1, <1>7, OtherPhoneInv
<1>8. ASSUME StepFails \/ WriteMessageFails \/ WriteBlockFails \/ SessionLost \/ AppKilled
      PROVE  AppInv'
  BY <1>1, <1>8, StepsInv, WriteMessageInv, WriteBlockInv, EndingsInv
<1>9. ASSUME UNCHANGED vars PROVE AppInv'
  BY <1>1, <1>9, UnchangedInv DEF vars
<1> QED
  BY <1>1, <1>2, <1>3, <1>4, <1>5, <1>6, <1>7, <1>8, <1>9 DEF Next, UrlInv

(* The invariant that ties the EEPROM, the journal and the writer together.  *)
THEOREM UrlInductive == Spec => []UrlInv
<1>1. Init => UrlInv
  BY InitInv
<1>2. UrlInv /\ [Next]_vars => UrlInv'
  BY StepInv
<1> QED
  BY <1>1, <1>2, PTL DEF Spec

(* Every part of the state has the type that the code gives it, and a card    *)
(* that has paused no longer waits to.                                      *)
THEOREM UrlTypeOK == Spec => []TypeOK
<1>1. UrlInv => TypeOK
  BY DEF UrlInv, AppInv, AppTypes, MailboxTypes, TypeOK, StartedPlace
<1> QED
  BY <1>1, UrlInductive, PTL

(* A card that any interruption left half written is the journal's.          *)
THEOREM HalfWritten == Spec => []HalfWrittenIsJournaled
<1>1. UrlInv => HalfWrittenIsJournaled
  BY DEF UrlInv, AppInv, MemoryInv
<1> QED
  BY <1>1, UrlInductive, PTL

(* No reader finds a message that nobody wrote, at any step of a formatting   *)
(* or of its replay.                                                        *)
THEOREM NoGarbage == Spec => []NoGarbageToRead
<1>1. UrlInv => NoGarbageToRead
  BY ReadableIsNoGarbage DEF UrlInv, AppInv, AppTypes, MemoryInv, NoGarbageToRead
<1> QED
  BY <1>1, UrlInductive, PTL

(* No image or status session runs while a URL waits for its recovery.       *)
THEOREM NoOtherSession == Spec => []NoOtherSessionInRecovery
<1>1. UrlInv => NoOtherSessionInRecovery
  BY DEF UrlInv, AppInv, ServiceInv, NoOtherSessionInRecovery
<1> QED
  BY <1>1, UrlInductive, PTL

(* When the app reports success the card holds the message.                  *)
THEOREM SuccessWritten == Spec => []SuccessIsWritten
<1>1. UrlInv => SuccessIsWritten
  BY DEF UrlInv, AppInv, JournalInv, MemoryInv, SuccessIsWritten
<1> QED
  BY <1>1, UrlInductive, PTL

(* A replay writes over nothing that another phone has put on the card.       *)
THEOREM OnlyPlanned == Spec => OnlyPlannedBlocksRewritten
<1>1. UrlInv => (session.at = "replay" =>
                     \A b \in Block : Stored[b] \in Candidates(session.op, b))
  BY DEF UrlInv, AppInv, ReplayInv
<1>2. UrlInv => [session.at = "replay" =>
                     \A b \in Block : memory'[session.card][b] # Stored[b] =>
                         Stored[b] \in Candidates(session.op, b)]_vars
  BY <1>1
<1> QED
  BY <1>2, UrlInductive, PTL DEF OnlyPlannedBlocksRewritten
=============================================================================
