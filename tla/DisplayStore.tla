----------------------------- MODULE DisplayStore -----------------------------
(***************************************************************************)
(* The two-slot Flash store of firmware/Core/Src/display_store.c, one      *)
(* action per Flash operation, with a Flash error or a power cut possible  *)
(* at each of them.                                                        *)
(*                                                                         *)
(* A slot is a 64-byte header and an image.  Its image is programmed       *)
(* first, its three metadata double-words (offsets 16, 24, 32) next, its   *)
(* stage marker last; its commit marker is a double-word of its own,       *)
(* programmed when the panel has finished.  A CRC is modelled by what it   *)
(* decides: whether the words it covers are all the ones written together. *)
(*                                                                         *)
(* An interrupted or failed write leaves the word as it was, written, or   *)
(* torn (neither); an operation that the HAL reports as failed leaves it   *)
(* as it was or torn.  Generations are 32-bit in the code: here they are   *)
(* 0..2*GenHalf-1, compared as the code's signed difference compares them. *)
(***************************************************************************)
EXTENDS Integers

CONSTANTS
    Frame,         \* a frame with its metadata (transfer id, sequence, format, pattern)
    NoFrame,
    TornHeader,
    GenHalf,       \* half the range of the generation counter (2^31 in the code)
    RestageLimit   \* bound: frames staged since the last commit

ASSUME FrameAssumption ==
    /\ NoFrame \notin Frame
    /\ TornHeader \notin Frame
    /\ NoFrame # TornHeader

(* Generations compare correctly while fewer than half the range lies       *)
(* between the committed one and the newest; the endurance of the Flash     *)
(* (10^4 erase cycles against 2^31) is what bounds it on the card.          *)
ASSUME GenerationAssumption ==
    /\ GenHalf \in Nat
    /\ RestageLimit \in Nat
    /\ RestageLimit + 1 < GenHalf

VARIABLES
    flash,           \* the two slots
    committed_slot,  \* RAM: slot of the frame on record
    pending_slot,    \* RAM: slot of the prepared frame
    newest,          \* RAM: newest_generation
    pc,              \* the Flash operation in progress
    job,             \* frame and generation being staged
    restaged         \* frames staged since the last commit (counts against RestageLimit)

storeVars == <<flash, committed_slot, pending_slot, newest, pc, job, restaged>>

Slot == {0, 1}
NoSlot == 2                          \* DISPLAY_STORE_NO_SLOT
Generation == 0 .. 2 * GenHalf - 1
StageStep == {"erase", "image", "word16", "word24", "word32", "marker"}

SlotRecord ==
    [stage : {"erased", "set", "torn"}, commit : {"erased", "set", "torn"},
     gen : Generation, words : 0 .. 3,
     meta : Frame \cup {NoFrame}, image : Frame \cup {NoFrame}]

ErasedSlot ==
    [stage |-> "erased", commit |-> "erased", gen |-> 0, words |-> 0,
     meta |-> NoFrame, image |-> NoFrame]

NoJob == [frame |-> NoFrame, gen |-> 0]

-----------------------------------------------------------------------------
(* Reading the slots.                                                      *)

slot_valid(r) ==
    /\ r.stage = "set"
    /\ r.commit \in {"erased", "set"}
    /\ r.words = 3
    /\ r.image = r.meta

(* Mutant: generations compared as plain unsigned numbers.                  *)
UnsignedNewer(candidate, reference) == candidate > reference

(* (int32_t)(candidate - reference) > 0                                    *)
generation_is_newer(candidate, reference) ==
    \/ candidate > reference /\ candidate - reference < GenHalf
    \/ candidate < reference /\ reference - candidate > GenHalf

(* Mutant: the counter does not return to 1.                                *)
NextGenerationUnwrapped(g) == g + 1

next_generation(g) == IF g + 1 = 2 * GenHalf THEN 1 ELSE g + 1

(* The slot a scan of S in slot order retains.                             *)
LatestSlot(fl, S) ==
    IF S = {} THEN NoSlot
    ELSE IF S = Slot THEN IF generation_is_newer(fl[1].gen, fl[0].gen) THEN 1 ELSE 0
    ELSE CHOOSE s \in S : TRUE

ValidSlots(fl) == {s \in Slot : slot_valid(fl[s])}

ScanCommitted(fl) == LatestSlot(fl, {s \in ValidSlots(fl) : fl[s].commit = "set"})

ScanPending(fl) ==
    LET c == ScanCommitted(fl)
    IN  LatestSlot(fl, {s \in ValidSlots(fl) :
                            /\ fl[s].commit = "erased"
                            /\ \/ c = NoSlot
                               \/ generation_is_newer(fl[s].gen, fl[c].gen)})

ScanNewest(fl) ==
    LET V == ValidSlots(fl)
    IN  IF V = {} THEN 0
        ELSE IF V = Slot
             THEN IF fl[0].gen = 0 \/ generation_is_newer(fl[1].gen, fl[0].gen)
                  THEN fl[1].gen ELSE fl[0].gen
             ELSE fl[CHOOSE s \in V : TRUE].gen

(* The frame named by the getters of a slot: the descriptor double-word     *)
(* (offset 24) as it stands, which the getters read without validating.     *)
HeaderOf(r) == IF r.words >= 2 THEN r.meta ELSE TornHeader

-----------------------------------------------------------------------------
(* Writing a slot.                                                         *)

(* Mutant: the slot is chosen by the prepared frame, not by the one on      *)
(* record.                                                                 *)
TargetByPending == IF pending_slot = 0 THEN 1 ELSE 0

TargetSlot == IF committed_slot = 0 THEN 1 ELSE 0

WrittenSlot == IF pc = "commit" THEN pending_slot ELSE TargetSlot

Written(step, r, j) ==
    CASE step = "erase"  -> ErasedSlot
      [] step = "image"  -> [r EXCEPT !.image = j.frame]
      [] step = "word16" -> [r EXCEPT !.words = 1, !.gen = j.gen]
      [] step = "word24" -> [r EXCEPT !.words = 2, !.meta = j.frame]
      [] step = "word32" -> [r EXCEPT !.words = 3]
      [] step = "marker" -> [r EXCEPT !.stage = "set"]
      [] step = "commit" -> [r EXCEPT !.commit = "set"]

(* A half-erased page fails its CRCs, as an erased one does; a torn image   *)
(* or metadata word counts as not written.                                 *)
Torn(step, r) ==
    CASE step = "erase"  -> ErasedSlot
      [] step = "marker" -> [r EXCEPT !.stage = "torn"]
      [] step = "commit" -> [r EXCEPT !.commit = "torn"]
      [] OTHER           -> r

NextStep(step) ==
    CASE step = "erase"  -> "image"
      [] step = "image"  -> "word16"
      [] step = "word16" -> "word24"
      [] step = "word24" -> "word32"
      [] step = "word32" -> "marker"

-----------------------------------------------------------------------------
Init ==
    /\ flash = [s \in Slot |-> ErasedSlot]
    /\ committed_slot = NoSlot
    /\ pending_slot = NoSlot
    /\ newest = 0
    /\ pc = "idle"
    /\ job = NoJob
    /\ restaged = 0

(* display_store_stage is called.                                          *)
StageBegin(f) ==
    /\ pc = "idle"
    /\ restaged < RestageLimit
    /\ restaged' = restaged + 1
    /\ job' = [frame |-> f, gen |-> next_generation(newest)]
    /\ pc' = "erase"
    /\ UNCHANGED <<flash, committed_slot, pending_slot, newest>>

(* One erase or program operation before the stage marker succeeds.         *)
StageWrite ==
    /\ pc \in StageStep \ {"marker"}
    /\ flash' = [flash EXCEPT ![TargetSlot] = Written(pc, @, job)]
    /\ pc' = NextStep(pc)
    /\ UNCHANGED <<committed_slot, pending_slot, newest, job, restaged>>

(* The stage marker is programmed and the slot read back: if it validates    *)
(* the call returns TRUE, otherwise FALSE.                                  *)
StageMarker ==
    LET r == Written("marker", flash[TargetSlot], job)
    IN  /\ pc = "marker"
        /\ flash' = [flash EXCEPT ![TargetSlot] = r]
        /\ IF slot_valid(r) /\ r.commit = "erased"
           THEN pending_slot' = TargetSlot /\ newest' = job.gen
           ELSE UNCHANGED <<pending_slot, newest>>
        /\ pc' = "idle"
        /\ job' = NoJob
        /\ UNCHANGED <<committed_slot, restaged>>

(* display_store_commit is called with a slot it accepts.                   *)
CommitBegin ==
    /\ pc = "idle"
    /\ pending_slot # NoSlot
    /\ slot_valid(flash[pending_slot])
    /\ pc' = "commit"
    /\ UNCHANGED <<flash, committed_slot, pending_slot, newest, job, restaged>>

(* The commit marker is programmed and the slot read back: if it validates   *)
(* the call returns TRUE, otherwise FALSE.                                  *)
CommitMarker ==
    LET r == Written("commit", flash[pending_slot], job)
    IN  /\ pc = "commit"
        /\ flash' = [flash EXCEPT ![pending_slot] = r]
        /\ IF slot_valid(r)
           THEN /\ committed_slot' = pending_slot
                /\ pending_slot' = NoSlot
                /\ restaged' = 0
           ELSE UNCHANGED <<committed_slot, pending_slot, restaged>>
        /\ pc' = "idle"
        /\ UNCHANGED <<newest, job>>

(* Mutant: the result of the last program operation is not looked at.       *)
FlashErrorIgnored ==
    /\ pc # "idle"
    /\ \E r \in {flash[WrittenSlot], Torn(pc, flash[WrittenSlot])} :
           flash' = [flash EXCEPT ![WrittenSlot] = r]
    /\ IF pc = "commit"
       THEN committed_slot' = pending_slot /\ pending_slot' = NoSlot
       ELSE UNCHANGED <<committed_slot, pending_slot>>
    /\ pc' = "idle"
    /\ job' = NoJob
    /\ UNCHANGED <<newest, restaged>>

(* The HAL reports an error: the call returns FALSE and RAM is as it was.   *)
FlashError ==
    /\ pc # "idle"
    /\ \E r \in {flash[WrittenSlot], Torn(pc, flash[WrittenSlot])} :
           flash' = [flash EXCEPT ![WrittenSlot] = r]
    /\ pc' = "idle"
    /\ job' = NoJob
    /\ UNCHANGED <<committed_slot, pending_slot, newest, restaged>>

(* What a power cut may leave in Flash.                                     *)
PowerCutOutcomes ==
    IF pc = "idle" THEN {flash}
    ELSE {[flash EXCEPT ![WrittenSlot] = r] :
              r \in {flash[WrittenSlot], Torn(pc, flash[WrittenSlot]),
                     Written(pc, flash[WrittenSlot], job)}}

(* Power fails and returns: display_store_init rescans the slots.           *)
PowerCycle ==
    /\ flash' \in PowerCutOutcomes
    /\ committed_slot' = ScanCommitted(flash')
    /\ pending_slot' = ScanPending(flash')
    /\ newest' = ScanNewest(flash')
    /\ pc' = "idle"
    /\ job' = NoJob
    /\ UNCHANGED restaged

Next ==
    \/ \E f \in Frame : StageBegin(f)
    \/ StageWrite
    \/ StageMarker
    \/ CommitBegin
    \/ CommitMarker
    \/ FlashError
    \/ PowerCycle

Spec == Init /\ [][Next]_storeVars

-----------------------------------------------------------------------------
TypeOK ==
    /\ flash \in [Slot -> SlotRecord]
    /\ committed_slot \in Slot \cup {NoSlot}
    /\ pending_slot \in Slot \cup {NoSlot}
    /\ newest \in Generation
    /\ pc \in StageStep \cup {"idle", "commit"}
    /\ job \in [frame : Frame \cup {NoFrame}, gen : Generation]
    /\ restaged \in 0 .. RestageLimit

(* The frame RAM calls displayed is always the one a reboot would find: no  *)
(* interrupted stage or commit, on any history of slots and generations,    *)
(* lets the next boot fall back to a superseded frame or lose the record    *)
(* (display_store.c's claim that the other slot remains untouched).         *)
RecordSurvivesReboot ==
    /\ committed_slot = ScanCommitted(flash)
    /\ committed_slot # NoSlot => slot_valid(flash[committed_slot])

(* A frame reported as staged is found again by the next boot: the card may *)
(* answer READY for it, and the phone resume it after the field is lost     *)
(* (PROTOCOL.md, transfer rule 9).                                          *)
StagedSurvivesReboot ==
    /\ pc = "idle"
    /\ pending_slot # NoSlot
    /\ slot_valid(flash[pending_slot])
    => ScanPending(flash) = pending_slot

(* The abstract register the store implements.                             *)
RecordedFrame == IF committed_slot = NoSlot THEN NoFrame ELSE flash[committed_slot].meta
DurableFrame ==
    IF ScanPending(flash) = NoSlot THEN NoFrame ELSE flash[ScanPending(flash)].meta
ReportedFrame ==
    IF pending_slot = NoSlot THEN NoFrame ELSE HeaderOf(flash[pending_slot])
StagingFrame == IF pc \in StageStep THEN job.frame ELSE NoFrame

Register ==
    INSTANCE DisplayRegister WITH
        committed <- RecordedFrame, prepared <- DurableFrame,
        header <- ReportedFrame, staging <- StagingFrame, committing <- (pc = "commit")

(* The store implements the register: whatever the Flash does, the frame on *)
(* record changes only to a frame that had been staged whole.               *)
ImplementsRegister == Register!RegSpec
=============================================================================
