------------------------- MODULE DisplayStore_proofs -------------------------
(***************************************************************************)
(* Proofs about DisplayStore, for every set of frames, every generation    *)
(* range and every restage limit the assumptions allow.                    *)
(***************************************************************************)
EXTENDS DisplayStore, TLAPS

(* The slot to write when slot c is on record.                             *)
Opposite(c) == IF c = 0 THEN 1 ELSE 0

(* Generations run round the cycle 1..2*GenHalf-1: the number of stages     *)
(* that lead from generation c to generation n.                            *)
Ahead(n, c) == IF n >= c THEN n - c ELSE n - c + 2 * GenHalf - 1

(* How far the stage in progress has filled its target slot.               *)
Progress ==
    LET r == flash[TargetSlot]
    IN  /\ pc \in {"image", "word16", "word24", "word32", "marker"} =>
               r.stage = "erased" /\ r.commit = "erased"
        /\ pc \in {"word16", "word24", "word32", "marker"} => r.image = job.frame
        /\ pc \in {"word24", "word32", "marker"} => r.gen = job.gen
        /\ pc \in {"word32", "marker"} => r.words >= 2 /\ r.meta = job.frame
        /\ pc = "marker" => r.words = 3

(* The job in progress continues the generation count.                     *)
JobInv ==
    pc \in StageStep =>
        /\ job.frame \in Frame
        /\ job.gen = next_generation(newest)
        /\ restaged > 0

(* The slot on record is valid, committed and within reach of the counter.  *)
RecordInv ==
    committed_slot # NoSlot =>
        /\ slot_valid(flash[committed_slot])
        /\ flash[committed_slot].commit = "set"
        /\ flash[committed_slot].gen # 0
        /\ newest # 0
        /\ Ahead(newest, flash[committed_slot].gen)
               <= IF pc \in StageStep THEN restaged - 1 ELSE restaged

(* The other slot is superseded, prepared, or invalid.                     *)
TargetInv ==
    LET r == flash[TargetSlot]
    IN  slot_valid(r) =>
            /\ r.gen # 0
            /\ r.commit = "set" =>
                   /\ committed_slot # NoSlot
                   /\ generation_is_newer(flash[committed_slot].gen, r.gen)
            /\ r.commit = "erased" =>
                   /\ pending_slot = TargetSlot
                   /\ newest = r.gen
                   /\ committed_slot # NoSlot =>
                          generation_is_newer(r.gen, flash[committed_slot].gen)

SlotInv ==
    /\ \A s \in Slot : flash[s].words >= 2 => flash[s].meta \in Frame
    /\ committed_slot = NoSlot => ~ slot_valid(flash[1])
    /\ pending_slot \in {NoSlot, TargetSlot}
    /\ pending_slot # NoSlot => flash[pending_slot].commit # "set"
    /\ pc = "commit" => pending_slot # NoSlot /\ slot_valid(flash[pending_slot])

(* The inductive invariant.                                                *)
StoreInv == TypeOK /\ Progress /\ JobInv /\ RecordInv /\ TargetInv /\ SlotInv

-----------------------------------------------------------------------------
(* Arithmetic of the generation counter.                                   *)

(* Two generations are never each newer than the other: the scan's choice   *)
(* does not depend on the order of the slots.                              *)
LEMMA NewerIsAsymmetric ==
    ASSUME NEW a \in Generation, NEW b \in Generation, generation_is_newer(a, b)
    PROVE  ~ generation_is_newer(b, a)
BY GenerationAssumption DEF generation_is_newer, Generation

(* The generation of the next stage is a generation, is not the 0 that      *)
(* stands for none, and is one further from any other.                     *)
LEMMA NextGeneration ==
    ASSUME NEW n \in Generation
    PROVE  /\ next_generation(n) \in Generation
           /\ next_generation(n) # 0
           /\ n # 0 => \A c \in Generation \ {0} :
                  Ahead(n, c) < RestageLimit
                      => Ahead(next_generation(n), c) = Ahead(n, c) + 1
BY GenerationAssumption DEF next_generation, Generation, Ahead

(* A generation ahead of another by at most RestageLimit stages, and not by *)
(* none, is the newer of the two.                                          *)
LEMMA AheadIsNewer ==
    ASSUME NEW n \in Generation \ {0}, NEW c \in Generation \ {0},
           n # c, Ahead(n, c) <= RestageLimit
    PROVE  generation_is_newer(n, c)
BY GenerationAssumption DEF generation_is_newer, Generation, Ahead

-----------------------------------------------------------------------------
(* What a boot's scan finds, by what the slot opposite to the record holds. *)

(* Slot c is the frame on record in fl, and there is no other such frame    *)
(* when there is none.                                                     *)
OnRecord(fl, c) ==
    /\ fl \in [Slot -> SlotRecord]
    /\ c \in Slot \cup {NoSlot}
    /\ c # NoSlot => slot_valid(fl[c]) /\ fl[c].commit = "set" /\ fl[c].gen # 0
    /\ c = NoSlot => ~ slot_valid(fl[1])

(* Of no slots the scan retains none, of one that one.                     *)
LEMMA LatestOfFew ==
    ASSUME NEW fl
    PROVE  /\ LatestSlot(fl, {}) = NoSlot
           /\ LatestSlot(fl, {0}) = 0
           /\ LatestSlot(fl, {1}) = 1
BY DEF LatestSlot, Slot, NoSlot

(* A superseded or invalid opposite slot is passed over.                   *)
LEMMA ScanPassesOver ==
    ASSUME NEW fl, NEW c, OnRecord(fl, c),
           slot_valid(fl[Opposite(c)]) =>
               /\ c # NoSlot
               /\ fl[Opposite(c)].commit = "set"
               /\ generation_is_newer(fl[c].gen, fl[Opposite(c)].gen)
    PROVE  /\ ScanCommitted(fl) = c
           /\ ScanPending(fl) = NoSlot
           /\ ScanNewest(fl) = IF c = NoSlot THEN 0 ELSE fl[c].gen
<1> USE DEF OnRecord, Opposite
<1>0. \A s \in Slot : fl[s].gen \in Generation
    BY DEF SlotRecord
<1>1. CASE c = 0
  <2>1. ValidSlots(fl) \in {{0}, Slot}
    BY <1>1 DEF ValidSlots, Slot, NoSlot
  <2>2. {s \in ValidSlots(fl) : fl[s].commit = "set"} = ValidSlots(fl)
    BY <1>1, <2>1 DEF ValidSlots, Slot, NoSlot
  <2>3. ValidSlots(fl) = Slot => ~ generation_is_newer(fl[1].gen, fl[0].gen)
    BY <1>1, <1>0, NewerIsAsymmetric DEF ValidSlots, Slot, NoSlot
  <2>4. ValidSlots(fl) = Slot => generation_is_newer(fl[0].gen, fl[1].gen)
    BY <1>1 DEF ValidSlots, Slot, NoSlot
  <2>5. ScanCommitted(fl) = 0
    BY <2>1, <2>2, <2>3, <2>4, LatestOfFew DEF ScanCommitted, LatestSlot, Slot
  <2>6. {s \in ValidSlots(fl) :
             /\ fl[s].commit = "erased"
             /\ \/ 0 = NoSlot
                \/ generation_is_newer(fl[s].gen, fl[0].gen)} = {}
    BY <2>2
  <2>7. ScanPending(fl) = NoSlot
    BY <2>5, <2>6, LatestOfFew DEF ScanPending
  <2>8. ScanNewest(fl) = fl[0].gen
    BY <1>1, <2>1, <2>3, <2>4 DEF ScanNewest, Slot, NoSlot
  <2>9. QED
    BY <1>1, <2>5, <2>7, <2>8 DEF NoSlot
<1>2. CASE c = 1
  <2>1. ValidSlots(fl) \in {{1}, Slot}
    BY <1>2 DEF ValidSlots, Slot, NoSlot
  <2>2. {s \in ValidSlots(fl) : fl[s].commit = "set"} = ValidSlots(fl)
    BY <1>2, <2>1 DEF ValidSlots, Slot, NoSlot
  <2>3. ValidSlots(fl) = Slot => ~ generation_is_newer(fl[0].gen, fl[1].gen)
    BY <1>2, <1>0, NewerIsAsymmetric DEF ValidSlots, Slot, NoSlot
  <2>4. ValidSlots(fl) = Slot => generation_is_newer(fl[1].gen, fl[0].gen)
    BY <1>2 DEF ValidSlots, Slot, NoSlot
  <2>5. ScanCommitted(fl) = 1
    BY <2>1, <2>2, <2>3, <2>4, LatestOfFew DEF ScanCommitted, LatestSlot, Slot
  <2>6. {s \in ValidSlots(fl) :
             /\ fl[s].commit = "erased"
             /\ \/ 1 = NoSlot
                \/ generation_is_newer(fl[s].gen, fl[1].gen)} = {}
    BY <2>2
  <2>7. ScanPending(fl) = NoSlot
    BY <2>5, <2>6, LatestOfFew DEF ScanPending
  <2>8. ScanNewest(fl) = fl[1].gen
    BY <1>2, <2>1, <2>3, <2>4 DEF ScanNewest, Slot, NoSlot
  <2>9. QED
    BY <1>2, <2>5, <2>7, <2>8 DEF NoSlot
<1>3. CASE c = NoSlot
  <2>1. ValidSlots(fl) = {}
    BY <1>3 DEF ValidSlots, Slot, NoSlot
  <2>2. ScanCommitted(fl) = NoSlot
    BY <2>1, LatestOfFew DEF ScanCommitted
  <2>3. ScanPending(fl) = NoSlot
    BY <2>1, LatestOfFew DEF ScanPending
  <2>4. ScanNewest(fl) = 0
    BY <2>1 DEF ScanNewest
  <2>5. QED
    BY <1>3, <2>2, <2>3, <2>4
<1>4. QED
    BY <1>1, <1>2, <1>3 DEF Slot

(* A prepared opposite slot is found pending.                              *)
LEMMA ScanFindsPrepared ==
    ASSUME NEW fl, NEW c, OnRecord(fl, c),
           slot_valid(fl[Opposite(c)]),
           fl[Opposite(c)].commit = "erased",
           fl[Opposite(c)].gen # 0,
           c # NoSlot => generation_is_newer(fl[Opposite(c)].gen, fl[c].gen)
    PROVE  /\ ScanCommitted(fl) = c
           /\ ScanPending(fl) = Opposite(c)
           /\ ScanNewest(fl) = fl[Opposite(c)].gen
<1> USE DEF OnRecord, Opposite
<1>0. \A s \in Slot : fl[s].gen \in Generation
    BY DEF SlotRecord
<1>1. CASE c = 0
  <2>1. ValidSlots(fl) = Slot
    BY <1>1 DEF ValidSlots, Slot, NoSlot
  <2>2. {s \in ValidSlots(fl) : fl[s].commit = "set"} = {0}
    BY <1>1, <2>1 DEF Slot, NoSlot
  <2>3. ScanCommitted(fl) = 0
    BY <2>2, LatestOfFew DEF ScanCommitted
  <2>4. {s \in ValidSlots(fl) :
             /\ fl[s].commit = "erased"
             /\ \/ 0 = NoSlot
                \/ generation_is_newer(fl[s].gen, fl[0].gen)} = {1}
    BY <1>1, <2>1 DEF Slot, NoSlot
  <2>5. ScanPending(fl) = 1
    BY <2>3, <2>4, LatestOfFew DEF ScanPending
  <2>6. ScanNewest(fl) = fl[1].gen
    BY <1>1, <1>0, <2>1, NewerIsAsymmetric DEF ScanNewest, Slot, NoSlot
  <2>7. QED
    BY <1>1, <2>3, <2>5, <2>6 DEF NoSlot
<1>2. CASE c = 1
  <2>1. ValidSlots(fl) = Slot
    BY <1>2 DEF ValidSlots, Slot, NoSlot
  <2>2. {s \in ValidSlots(fl) : fl[s].commit = "set"} = {1}
    BY <1>2, <2>1 DEF Slot, NoSlot
  <2>3. ScanCommitted(fl) = 1
    BY <2>2, LatestOfFew DEF ScanCommitted
  <2>4. {s \in ValidSlots(fl) :
             /\ fl[s].commit = "erased"
             /\ \/ 1 = NoSlot
                \/ generation_is_newer(fl[s].gen, fl[1].gen)} = {0}
    BY <1>2, <2>1 DEF Slot, NoSlot
  <2>5. ScanPending(fl) = 0
    BY <2>3, <2>4, LatestOfFew DEF ScanPending
  <2>6. ScanNewest(fl) = fl[0].gen
    BY <1>2, <1>0, <2>1, NewerIsAsymmetric DEF ScanNewest, Slot, NoSlot
  <2>7. QED
    BY <1>2, <2>3, <2>5, <2>6 DEF NoSlot
<1>3. CASE c = NoSlot
  <2>1. ValidSlots(fl) = {0}
    BY <1>3 DEF ValidSlots, Slot, NoSlot
  <2>2. {s \in ValidSlots(fl) : fl[s].commit = "set"} = {}
    BY <1>3, <2>1 DEF Slot, NoSlot
  <2>3. ScanCommitted(fl) = NoSlot
    BY <2>2, LatestOfFew DEF ScanCommitted
  <2>4. {s \in ValidSlots(fl) :
             /\ fl[s].commit = "erased"
             /\ \/ NoSlot = NoSlot
                \/ generation_is_newer(fl[s].gen, fl[NoSlot].gen)} = {0}
    BY <1>3, <2>1 DEF Slot, NoSlot
  <2>5. ScanPending(fl) = 0
    BY <2>3, <2>4, LatestOfFew DEF ScanPending
  <2>6. ScanNewest(fl) = fl[0].gen
    BY <2>1 DEF ScanNewest, Slot
  <2>7. QED
    BY <1>3, <2>3, <2>5, <2>6 DEF NoSlot
<1>4. QED
    BY <1>1, <1>2, <1>3 DEF Slot

(* A promoted opposite slot is the new record.                             *)
LEMMA ScanFindsPromoted ==
    ASSUME NEW fl, NEW c, OnRecord(fl, c),
           slot_valid(fl[Opposite(c)]),
           fl[Opposite(c)].commit = "set",
           fl[Opposite(c)].gen # 0,
           c # NoSlot => generation_is_newer(fl[Opposite(c)].gen, fl[c].gen)
    PROVE  /\ ScanCommitted(fl) = Opposite(c)
           /\ ScanPending(fl) = NoSlot
           /\ ScanNewest(fl) = fl[Opposite(c)].gen
<1> USE DEF OnRecord, Opposite
<1>0. \A s \in Slot : fl[s].gen \in Generation
    BY DEF SlotRecord
<1>1. CASE c = 0
  <2>1. ValidSlots(fl) = Slot
    BY <1>1 DEF ValidSlots, Slot, NoSlot
  <2>2. {s \in ValidSlots(fl) : fl[s].commit = "set"} = Slot
    BY <1>1, <2>1 DEF Slot, NoSlot
  <2>3. ScanCommitted(fl) = 1
    BY <1>1, <1>0, <2>2, NewerIsAsymmetric DEF ScanCommitted, LatestSlot, Slot, NoSlot
  <2>4. {s \in ValidSlots(fl) :
             /\ fl[s].commit = "erased"
             /\ \/ 1 = NoSlot
                \/ generation_is_newer(fl[s].gen, fl[1].gen)} = {}
    BY <2>1, <2>2
  <2>5. ScanPending(fl) = NoSlot
    BY <2>3, <2>4, LatestOfFew DEF ScanPending
  <2>6. ScanNewest(fl) = fl[1].gen
    BY <1>1, <1>0, <2>1, NewerIsAsymmetric DEF ScanNewest, Slot, NoSlot
  <2>7. QED
    BY <1>1, <2>3, <2>5, <2>6 DEF NoSlot
<1>2. CASE c = 1
  <2>1. ValidSlots(fl) = Slot
    BY <1>2 DEF ValidSlots, Slot, NoSlot
  <2>2. {s \in ValidSlots(fl) : fl[s].commit = "set"} = Slot
    BY <1>2, <2>1 DEF Slot, NoSlot
  <2>3. ScanCommitted(fl) = 0
    BY <1>2, <1>0, <2>2, NewerIsAsymmetric DEF ScanCommitted, LatestSlot, Slot, NoSlot
  <2>4. {s \in ValidSlots(fl) :
             /\ fl[s].commit = "erased"
             /\ \/ 0 = NoSlot
                \/ generation_is_newer(fl[s].gen, fl[0].gen)} = {}
    BY <2>1, <2>2
  <2>5. ScanPending(fl) = NoSlot
    BY <2>3, <2>4, LatestOfFew DEF ScanPending
  <2>6. ScanNewest(fl) = fl[0].gen
    BY <1>2, <1>0, <2>1, NewerIsAsymmetric DEF ScanNewest, Slot, NoSlot
  <2>7. QED
    BY <1>2, <2>3, <2>5, <2>6 DEF NoSlot
<1>3. CASE c = NoSlot
  <2>1. ValidSlots(fl) = {0}
    BY <1>3 DEF ValidSlots, Slot, NoSlot
  <2>2. {s \in ValidSlots(fl) : fl[s].commit = "set"} = {0}
    BY <1>3, <2>1 DEF Slot, NoSlot
  <2>3. ScanCommitted(fl) = 0
    BY <2>2, LatestOfFew DEF ScanCommitted
  <2>4. {s \in ValidSlots(fl) :
             /\ fl[s].commit = "erased"
             /\ \/ 0 = NoSlot
                \/ generation_is_newer(fl[s].gen, fl[0].gen)} = {}
    BY <2>1, <2>2
  <2>5. ScanPending(fl) = NoSlot
    BY <2>3, <2>4, LatestOfFew DEF ScanPending
  <2>6. ScanNewest(fl) = fl[0].gen
    BY <2>1 DEF ScanNewest, Slot
  <2>7. QED
    BY <1>3, <2>3, <2>5, <2>6 DEF NoSlot
<1>4. QED
    BY <1>1, <1>2, <1>3 DEF Slot

-----------------------------------------------------------------------------
(* The store's invariant holds of an erased Flash ...                      *)
LEMMA InitInv == Init => StoreInv
BY GenerationAssumption
   DEF Init, StoreInv, TypeOK, Progress, JobInv, RecordInv, TargetInv, SlotInv,
       SlotRecord, ErasedSlot, NoJob, Slot, NoSlot, Generation, StageStep,
       slot_valid, TargetSlot

(* ... and is kept by the call that begins a stage ...                     *)
LEMMA StageBeginInv ==
    ASSUME StoreInv, NEW f \in Frame, StageBegin(f)
    PROVE  StoreInv'
<1> USE DEF StoreInv, StageBegin
<1>1. TypeOK'
  <2>1. next_generation(newest) \in Generation
    BY NextGeneration DEF TypeOK
  <2>2. restaged' \in 0 .. RestageLimit
    BY GenerationAssumption DEF TypeOK
  <2>3. QED
    BY <2>1, <2>2 DEF TypeOK, StageStep
<1>2. Progress' /\ TargetInv' /\ SlotInv'
    BY DEF Progress, TargetInv, SlotInv, TargetSlot, Ahead, generation_is_newer,
           slot_valid
<1>3. JobInv'
    BY GenerationAssumption DEF TypeOK, JobInv, StageStep, next_generation
<1>4. RecordInv'
    BY GenerationAssumption DEF TypeOK, RecordInv, StageStep, slot_valid, Ahead
<1>5. QED
    BY <1>1, <1>2, <1>3, <1>4

(* A write turns a slot record into a slot record.                         *)
LEMMA WrittenType ==
    ASSUME NEW r \in SlotRecord, NEW step \in StageStep \cup {"commit"},
           NEW j \in [frame : Frame \cup {NoFrame}, gen : Generation]
    PROVE  Written(step, r, j) \in SlotRecord
<1>1. CASE step = "erase"
    BY <1>1, GenerationAssumption DEF Written, ErasedSlot, SlotRecord, Generation
<1>2. CASE step = "image"
    BY <1>2 DEF Written, SlotRecord
<1>3. CASE step = "word16"
  <2>1. Written(step, r, j) = [[r EXCEPT !.words = 1] EXCEPT !.gen = j.gen]
    BY <1>3 DEF Written
  <2>2. [r EXCEPT !.words = 1] \in SlotRecord
    BY DEF SlotRecord
  <2>3. QED
    BY <2>1, <2>2 DEF SlotRecord
<1>4. CASE step = "word24"
  <2>1. Written(step, r, j) = [[r EXCEPT !.words = 2] EXCEPT !.meta = j.frame]
    BY <1>4 DEF Written
  <2>2. [r EXCEPT !.words = 2] \in SlotRecord
    BY DEF SlotRecord
  <2>3. QED
    BY <2>1, <2>2 DEF SlotRecord
<1>5. CASE step \in {"word32", "marker", "commit"}
    BY <1>5 DEF Written, SlotRecord
<1>6. QED
    BY <1>1, <1>2, <1>3, <1>4, <1>5 DEF StageStep

(* ... by each write of a stage before its marker ...                      *)
LEMMA StageWriteInv ==
    ASSUME StoreInv, StageWrite
    PROVE  StoreInv'
<1> DEFINE t == TargetSlot
           w == Written(pc, flash[t], job)
<1> USE DEF StoreInv
<1>1. /\ t \in Slot
      /\ pc \in StageStep \ {"marker"}
      /\ flash' = [flash EXCEPT ![t] = w]
      /\ UNCHANGED <<committed_slot, pending_slot, newest, job, restaged>>
      /\ TargetSlot' = t
      /\ pc' = NextStep(pc)
      /\ pc' \in StageStep \ {"erase"}
    BY DEF StageWrite, TargetSlot, Slot, StageStep, NextStep
<1>2. flash[t] \in SlotRecord /\ job.frame \in Frame /\ job.gen \in Generation
    BY <1>1 DEF TypeOK, JobInv
<1>3. /\ w \in SlotRecord /\ ~ slot_valid(w) /\ w.commit = "erased"
      /\ w.words >= 2 => w.meta \in Frame
  <2>1. w \in SlotRecord
    BY <1>1, <1>2, WrittenType DEF TypeOK
  <2>2. w.stage = "erased" /\ w.commit = "erased"
    BY <1>1, <1>2 DEF Written, StageStep, ErasedSlot, SlotRecord, Progress
  <2>3. w.words >= 2 => w.meta \in Frame
    BY <1>1, <1>2 DEF Written, StageStep, ErasedSlot, SlotRecord, Progress, SlotInv
  <2>4. QED
    BY <2>1, <2>2, <2>3 DEF slot_valid
<1>4. TypeOK'
    BY <1>1, <1>3 DEF TypeOK, StageStep
<1>5. Progress'
    BY <1>1, <1>2 DEF Progress, TypeOK, Written, NextStep, StageStep, ErasedSlot,
                      SlotRecord
<1>6. JobInv'
    BY <1>1 DEF JobInv, next_generation
<1>7. RecordInv'
    BY <1>1 DEF RecordInv, TypeOK, TargetSlot, Slot, NoSlot, Ahead, slot_valid
<1>8. TargetInv'
    BY <1>1, <1>3 DEF TargetInv, TypeOK, slot_valid
<1>9. SlotInv'
  <2>1. \A s \in Slot : flash'[s] = IF s = t THEN w ELSE flash[s]
    BY <1>1 DEF TypeOK
  <2>2. \A s \in Slot : flash'[s].words >= 2 => flash'[s].meta \in Frame
    BY <1>3, <2>1 DEF SlotInv
  <2>3. committed_slot = NoSlot => flash'[1] = flash[1]
    BY <2>1 DEF TargetSlot, Slot, NoSlot
  <2>4. committed_slot' = NoSlot => ~ slot_valid(flash'[1])
    BY <1>1, <2>3 DEF SlotInv
  <2>5. pending_slot' # NoSlot => flash'[pending_slot'].commit # "set"
    BY <1>1, <1>3, <2>1 DEF SlotInv
  <2>6. QED
    BY <1>1, <2>2, <2>4, <2>5 DEF SlotInv, StageStep
<1>10. QED
    BY <1>4, <1>5, <1>6, <1>7, <1>8, <1>9

(* The frame whose stage marker is being programmed is newer than the one  *)
(* on record, and counted.                                                 *)
LEMMA JobIsNewer ==
    ASSUME StoreInv, pc \in StageStep, committed_slot # NoSlot
    PROVE  /\ generation_is_newer(job.gen, flash[committed_slot].gen)
           /\ Ahead(job.gen, flash[committed_slot].gen) <= restaged
<1> DEFINE c == flash[committed_slot].gen
<1>1. c \in Generation \ {0} /\ newest \in Generation \ {0} /\ restaged \in 0 .. RestageLimit
    BY DEF StoreInv, TypeOK, RecordInv, SlotRecord
<1>2. job.gen = next_generation(newest) /\ Ahead(newest, c) <= restaged - 1
    BY DEF StoreInv, JobInv, RecordInv
<1>3. Ahead(newest, c) \in Nat
    BY <1>1, GenerationAssumption DEF Ahead, Generation
<1>4. Ahead(newest, c) < RestageLimit
    BY <1>1, <1>2, <1>3, GenerationAssumption
<1>5. job.gen \in Generation \ {0} /\ Ahead(job.gen, c) = Ahead(newest, c) + 1
    BY <1>1, <1>2, <1>4, NextGeneration
<1>6. job.gen # c
    BY <1>1, <1>3, <1>5, GenerationAssumption DEF Ahead, Generation
<1>7. Ahead(job.gen, c) <= restaged /\ Ahead(job.gen, c) <= RestageLimit
    BY <1>1, <1>2, <1>3, <1>4, <1>5, GenerationAssumption
<1>8. QED
    BY <1>1, <1>5, <1>6, <1>7, AheadIsNewer

(* The slot whose stage marker has been programmed validates.              *)
LEMMA MarkedSlot ==
    ASSUME StoreInv, pc = "marker",
           NEW r, r = Written("marker", flash[TargetSlot], job)
    PROVE  /\ r \in SlotRecord
           /\ slot_valid(r)
           /\ r.commit = "erased"
           /\ r.gen = job.gen
           /\ r.gen # 0
           /\ r.meta = job.frame
           /\ job.frame \in Frame
<1> DEFINE q == flash[TargetSlot]
<1>1. q \in SlotRecord /\ job.frame \in Frame /\ job.gen # 0
    BY NextGeneration DEF StoreInv, TypeOK, JobInv, StageStep, TargetSlot, Slot
<1>2. /\ q.commit = "erased" /\ q.image = job.frame /\ q.gen = job.gen
      /\ q.meta = job.frame /\ q.words = 3
    BY DEF StoreInv, Progress
<1>3. r = [q EXCEPT !.stage = "set"]
    BY DEF Written
<1>4. QED
    BY <1>1, <1>2, <1>3 DEF SlotRecord, slot_valid

(* ... by the marker that completes a stage ...                           *)
LEMMA StageMarkerInv ==
    ASSUME StoreInv, StageMarker
    PROVE  StoreInv'
<1> DEFINE t == TargetSlot
           r == Written("marker", flash[t], job)
<1>1. /\ r \in SlotRecord /\ slot_valid(r) /\ r.commit = "erased"
      /\ r.gen = job.gen /\ r.gen # 0 /\ r.meta \in Frame
    BY MarkedSlot DEF StageMarker
<1>2. /\ t \in Slot /\ pc = "marker" /\ pc' = "idle"
      /\ flash' = [flash EXCEPT ![t] = r]
      /\ pending_slot' = t /\ newest' = job.gen /\ job' = NoJob
      /\ UNCHANGED <<committed_slot, restaged>>
      /\ TargetSlot' = t
      /\ t # committed_slot
    BY <1>1 DEF StageMarker, TargetSlot, Slot
<1>3. flash' \in [Slot -> SlotRecord] /\ flash'[t] = r
    BY <1>1, <1>2 DEF StoreInv, TypeOK
<1>4. committed_slot # NoSlot => flash'[committed_slot] = flash[committed_slot]
    BY <1>2 DEF StoreInv, TypeOK, Slot, NoSlot
<1>5. TypeOK'
    BY <1>2, <1>3, GenerationAssumption DEF StoreInv, TypeOK, NoJob, Generation
<1>6. Progress' /\ JobInv'
    BY <1>2 DEF Progress, JobInv, StageStep
<1>7. RecordInv'
    BY <1>1, <1>2, <1>4, JobIsNewer DEF StoreInv, RecordInv, StageStep
<1>8. TargetInv'
    BY <1>1, <1>2, <1>3, <1>4, JobIsNewer DEF TargetInv, StageStep
<1>9. SlotInv'
    BY <1>1, <1>2, <1>3 DEF StoreInv, TypeOK, SlotInv, Slot, NoSlot, TargetSlot
<1>10. QED
    BY <1>5, <1>6, <1>7, <1>8, <1>9 DEF StoreInv

(* ... by the call of commit ...                                          *)
LEMMA CommitBeginInv ==
    ASSUME StoreInv, CommitBegin
    PROVE  StoreInv'
<1> USE DEF StoreInv, CommitBegin
<1>1. TypeOK' /\ Progress' /\ JobInv' /\ TargetInv' /\ SlotInv'
    BY DEF TypeOK, Progress, JobInv, TargetInv, SlotInv, StageStep, TargetSlot,
           slot_valid, generation_is_newer
<1>2. RecordInv'
    BY DEF RecordInv, StageStep, slot_valid, Ahead
<1>3. QED
    BY <1>1, <1>2

(* The slot whose commit marker has been programmed validates.             *)
LEMMA PromotedSlot ==
    ASSUME StoreInv, pc = "commit",
           NEW r, r = Written("commit", flash[pending_slot], job)
    PROVE  /\ pending_slot = TargetSlot
           /\ flash[pending_slot] \in SlotRecord
           /\ slot_valid(flash[pending_slot])
           /\ flash[pending_slot].commit = "erased"
           /\ newest = flash[pending_slot].gen
           /\ r \in SlotRecord
           /\ slot_valid(r)
           /\ r.commit = "set"
           /\ r.gen = flash[pending_slot].gen
           /\ r.gen # 0
           /\ r.meta = flash[pending_slot].meta
           /\ r.meta \in Frame
           /\ committed_slot # NoSlot =>
                  generation_is_newer(r.gen, flash[committed_slot].gen)
<1> DEFINE q == flash[pending_slot]
<1>1. pending_slot = TargetSlot /\ TargetSlot \in Slot /\ slot_valid(q) /\ q.commit # "set"
    BY DEF StoreInv, SlotInv, TargetSlot, Slot
<1>2. q \in SlotRecord /\ q.commit = "erased" /\ q.meta \in Frame
    BY <1>1 DEF StoreInv, TypeOK, SlotInv, slot_valid
<1>3. /\ q.gen # 0 /\ newest = q.gen
      /\ committed_slot # NoSlot => generation_is_newer(q.gen, flash[committed_slot].gen)
    BY <1>1, <1>2 DEF StoreInv, TargetInv
<1>4. r = [q EXCEPT !.commit = "set"]
    BY DEF Written
<1>5. QED
    BY <1>1, <1>2, <1>3, <1>4 DEF SlotRecord, slot_valid

(* ... by the marker that completes a commit ...                          *)
LEMMA CommitMarkerInv ==
    ASSUME StoreInv, CommitMarker
    PROVE  StoreInv'
<1> DEFINE p == pending_slot
           c == committed_slot
           r == Written("commit", flash[p], job)
<1>1. pc = "commit"
    BY DEF CommitMarker
<1>2. /\ p = TargetSlot /\ newest = flash[p].gen
      /\ r \in SlotRecord /\ slot_valid(r) /\ r.commit = "set" /\ r.gen = flash[p].gen
      /\ r.gen # 0 /\ r.meta \in Frame
      /\ c # NoSlot => generation_is_newer(r.gen, flash[c].gen)
    BY <1>1, PromotedSlot
<1>3. /\ flash' = [flash EXCEPT ![p] = r] /\ committed_slot' = p
      /\ pending_slot' = NoSlot /\ restaged' = 0 /\ pc' = "idle"
      /\ UNCHANGED <<newest, job>>
    BY <1>2 DEF CommitMarker
<1>4. p \in Slot /\ p # c /\ flash' \in [Slot -> SlotRecord] /\ flash'[p] = r
    BY <1>2, <1>3 DEF StoreInv, TypeOK, TargetSlot, Slot
<1>5. c # NoSlot => TargetSlot' = c /\ flash'[c] = flash[c]
    BY <1>2, <1>3, <1>4 DEF StoreInv, TypeOK, TargetSlot, Slot, NoSlot
<1>6. c = NoSlot => TargetSlot' = 1 /\ flash'[1] = flash[1]
    BY <1>2, <1>3, <1>4 DEF StoreInv, TypeOK, TargetSlot, Slot, NoSlot
<1>7. TypeOK'
    BY <1>3, <1>4, GenerationAssumption DEF StoreInv, TypeOK
<1>8. Progress' /\ JobInv'
    BY <1>3 DEF Progress, JobInv, StageStep
<1>9. RecordInv'
  <2>1. Ahead(r.gen, r.gen) = 0
    BY <1>2, GenerationAssumption DEF Ahead, SlotRecord, Generation
  <2>2. QED
    BY <1>2, <1>3, <1>4, <2>1 DEF RecordInv, StageStep
<1>10. TargetInv'
  <2>1. CASE c # NoSlot
    BY <1>2, <1>3, <1>4, <1>5, <2>1 DEF StoreInv, RecordInv, TargetInv, Slot, NoSlot
  <2>2. CASE c = NoSlot
    BY <1>3, <1>6, <2>2 DEF StoreInv, SlotInv, TargetInv
  <2>3. QED
    BY <2>1, <2>2
<1>11. SlotInv'
    BY <1>2, <1>3, <1>4 DEF StoreInv, SlotInv, Slot, NoSlot
<1>12. QED
    BY <1>7, <1>8, <1>9, <1>10, <1>11 DEF StoreInv

(* ... by a failed Flash operation ...                                    *)
LEMMA FlashErrorInv ==
    ASSUME StoreInv, FlashError
    PROVE  StoreInv'
<1> DEFINE t == TargetSlot
<1>1. PICK r \in {flash[WrittenSlot], Torn(pc, flash[WrittenSlot])} :
          flash' = [flash EXCEPT ![WrittenSlot] = r]
    BY DEF FlashError
<1>2. /\ pc # "idle" /\ pc' = "idle" /\ job' = NoJob
      /\ UNCHANGED <<committed_slot, pending_slot, newest, restaged>>
      /\ TargetSlot' = t /\ t \in Slot /\ t # committed_slot
    BY DEF FlashError, TargetSlot, Slot
<1>3. WrittenSlot = t
    BY DEF StoreInv, SlotInv, WrittenSlot
<1>4. flash[t] \in SlotRecord
    BY <1>2 DEF StoreInv, TypeOK
<1>5. /\ r \in SlotRecord
      /\ r.words >= 2 => r.meta \in Frame
      /\ r.commit = "set" => flash[t].commit = "set"
      /\ r = flash[t] \/ ~ slot_valid(r)
    BY <1>1, <1>2, <1>3, <1>4, GenerationAssumption
       DEF StoreInv, SlotInv, Torn, ErasedSlot, SlotRecord, slot_valid, Generation
<1>6. flash' \in [Slot -> SlotRecord] /\ flash'[t] = r
    BY <1>1, <1>2, <1>3, <1>5 DEF StoreInv, TypeOK
<1>7. committed_slot # NoSlot => flash'[committed_slot] = flash[committed_slot]
    BY <1>1, <1>2, <1>3 DEF StoreInv, TypeOK, Slot, NoSlot
<1>8. TypeOK'
    BY <1>2, <1>6, GenerationAssumption DEF StoreInv, TypeOK, NoJob, Generation
<1>9. Progress' /\ JobInv'
    BY <1>2 DEF Progress, JobInv, StageStep
<1>10. RecordInv'
  <2>1. committed_slot # NoSlot => Ahead(newest, flash[committed_slot].gen) \in Int
    BY GenerationAssumption DEF StoreInv, TypeOK, SlotRecord, Generation, Ahead
  <2>2. restaged \in Nat
    BY GenerationAssumption DEF StoreInv, TypeOK
  <2>3. committed_slot # NoSlot => Ahead(newest, flash[committed_slot].gen) <= restaged
    BY <2>1, <2>2 DEF StoreInv, RecordInv
  <2>4. QED
    BY <1>2, <1>7, <2>3 DEF StoreInv, RecordInv, StageStep
<1>11. TargetInv'
    BY <1>2, <1>5, <1>6, <1>7 DEF StoreInv, TargetInv
<1>12. SlotInv'
  <2>1. \A s \in Slot : flash'[s] = IF s = t THEN r ELSE flash[s]
    BY <1>1, <1>2, <1>3 DEF StoreInv, TypeOK
  <2>2. \A s \in Slot : flash'[s].words >= 2 => flash'[s].meta \in Frame
    BY <1>5, <2>1 DEF StoreInv, SlotInv
  <2>3. committed_slot = NoSlot => flash'[1] = flash[1]
    BY <2>1 DEF TargetSlot, Slot, NoSlot
  <2>4. committed_slot' = NoSlot => ~ slot_valid(flash'[1])
    BY <1>2, <2>3 DEF StoreInv, SlotInv
  <2>5. pending_slot' \in {NoSlot, TargetSlot'}
    BY <1>2 DEF StoreInv, SlotInv
  <2>6. pending_slot' # NoSlot => flash'[pending_slot'].commit # "set"
    BY <1>2, <1>5, <1>6 DEF StoreInv, SlotInv
  <2>7. QED
    BY <1>2, <2>2, <2>4, <2>5, <2>6 DEF SlotInv
<1>13. QED
    BY <1>8, <1>9, <1>10, <1>11, <1>12 DEF StoreInv

-----------------------------------------------------------------------------
(* What a power cut leaves in the target slot, seen from the record.        *)

Superseded(r) ==
    /\ r.commit = "set"
    /\ r.gen # 0
    /\ committed_slot # NoSlot
    /\ generation_is_newer(flash[committed_slot].gen, r.gen)

Prepared(r) ==
    /\ r.commit = "erased"
    /\ r.gen # 0
    /\ committed_slot # NoSlot =>
           /\ generation_is_newer(r.gen, flash[committed_slot].gen)
           /\ Ahead(r.gen, flash[committed_slot].gen) <= restaged
    /\ \/ r = flash[TargetSlot]
       \/ pc = "marker" /\ r.meta = job.frame

Promoted(r) ==
    /\ pc = "commit"
    /\ r.commit = "set"
    /\ r.gen # 0
    /\ committed_slot # NoSlot =>
           generation_is_newer(r.gen, flash[committed_slot].gen)
    /\ slot_valid(flash[TargetSlot])
    /\ flash[TargetSlot].commit = "erased"
    /\ r.meta = flash[TargetSlot].meta

(* What validates in the target slot before the cut is superseded or       *)
(* prepared.                                                               *)
LEMMA Untouched ==
    ASSUME StoreInv, slot_valid(flash[TargetSlot])
    PROVE  Superseded(flash[TargetSlot]) \/ Prepared(flash[TargetSlot])
<1> DEFINE q == flash[TargetSlot]
<1>1. CASE q.commit = "set"
    BY <1>1 DEF StoreInv, TargetInv, Superseded
<1>2. CASE q.commit = "erased"
  <2>1. /\ q.gen # 0 /\ newest = q.gen
        /\ committed_slot # NoSlot =>
               generation_is_newer(q.gen, flash[committed_slot].gen)
    BY <1>2 DEF StoreInv, TargetInv
  <2>2. SUFFICES ASSUME committed_slot # NoSlot
                 PROVE  Ahead(newest, flash[committed_slot].gen) <= restaged
    BY <1>2, <2>1 DEF Prepared
  <2>3. Ahead(newest, flash[committed_slot].gen) \in Int /\ restaged \in Nat
    BY <2>2, GenerationAssumption DEF StoreInv, TypeOK, SlotRecord, Generation, Ahead
  <2>4. QED
    BY <2>2, <2>3 DEF StoreInv, RecordInv
<1>3. QED
    BY <1>1, <1>2 DEF slot_valid

(* A power cut changes the target slot alone, and what validates there is  *)
(* superseded, prepared or promoted.                                       *)
LEMMA PowerCutOutcome ==
    ASSUME StoreInv, NEW fl \in PowerCutOutcomes
    PROVE  \E r \in SlotRecord :
               /\ fl = [flash EXCEPT ![TargetSlot] = r]
               /\ r.words >= 2 => r.meta \in Frame
               /\ slot_valid(r) => Superseded(r) \/ Prepared(r) \/ Promoted(r)
<1> DEFINE t == TargetSlot
           q == flash[t]
           Good(r) == /\ r \in SlotRecord
                      /\ fl = [flash EXCEPT ![t] = r]
                      /\ r.words >= 2 => r.meta \in Frame
                      /\ slot_valid(r) => Superseded(r) \/ Prepared(r) \/ Promoted(r)
<1>1. /\ t \in Slot /\ q \in SlotRecord
      /\ q.words >= 2 => q.meta \in Frame
      /\ flash = [flash EXCEPT ![t] = q]
      /\ slot_valid(q) => Superseded(q) \/ Prepared(q)
    BY Untouched DEF StoreInv, TypeOK, SlotInv, TargetSlot, Slot
<1>2. CASE fl = flash
    BY <1>1, <1>2
<1>3. ASSUME pc # "idle", WrittenSlot = t,
             NEW r, r = Torn(pc, q), fl = [flash EXCEPT ![t] = r], r # q
      PROVE  Good(r)
  <2>1. /\ r \in SlotRecord /\ ~ slot_valid(r)
        /\ r.words >= 2 => r.meta \in Frame
    BY <1>1, <1>3, GenerationAssumption
       DEF Torn, ErasedSlot, SlotRecord, slot_valid, Generation
  <2>2. QED
    BY <1>3, <2>1
<1>4. ASSUME pc \in StageStep \ {"marker"},
             NEW r, r = Written(pc, q, job), fl = [flash EXCEPT ![t] = r]
      PROVE  Good(r)
  <2>1. r \in SlotRecord
    BY <1>1, <1>4, WrittenType DEF StoreInv, TypeOK
  <2>2. r.stage = "erased"
    BY <1>1, <1>4 DEF StoreInv, Progress, Written, StageStep, ErasedSlot, SlotRecord
  <2>3. r.words >= 2 => r.meta \in Frame
    BY <1>1, <1>4 DEF StoreInv, Progress, JobInv, Written, StageStep, ErasedSlot, SlotRecord
  <2>4. QED
    BY <1>4, <2>1, <2>2, <2>3 DEF slot_valid
<1>5. ASSUME pc = "marker",
             NEW r, r = Written(pc, q, job), fl = [flash EXCEPT ![t] = r]
      PROVE  Good(r)
  <2>1. /\ r \in SlotRecord /\ r.commit = "erased" /\ r.gen = job.gen
        /\ r.gen # 0 /\ r.meta = job.frame /\ job.frame \in Frame
    BY <1>5, MarkedSlot
  <2>2. Prepared(r)
    BY <1>5, <2>1, JobIsNewer DEF Prepared, StageStep
  <2>3. QED
    BY <1>5, <2>1, <2>2
<1>6. ASSUME pc = "commit",
             NEW r, r = Written(pc, flash[pending_slot], job),
             fl = [flash EXCEPT ![pending_slot] = r]
      PROVE  Good(r)
  <2>1. /\ pending_slot = t /\ slot_valid(q) /\ q.commit = "erased"
        /\ r \in SlotRecord /\ r.commit = "set" /\ r.gen # 0
        /\ r.meta = q.meta /\ r.meta \in Frame
        /\ committed_slot # NoSlot =>
               generation_is_newer(r.gen, flash[committed_slot].gen)
    BY <1>6, PromotedSlot
  <2>2. Promoted(r)
    BY <1>6, <2>1 DEF Promoted
  <2>3. QED
    BY <1>6, <2>1, <2>2
<1>7. \E r : Good(r)
  <2>1. WrittenSlot = t
    BY DEF StoreInv, SlotInv, WrittenSlot
  <2>2. pc \in StageStep \cup {"idle", "commit"}
    BY DEF StoreInv, TypeOK
  <2>3. CASE pc = "idle"
    BY <1>1, <2>3 DEF PowerCutOutcomes
  <2>4. CASE pc # "idle"
    <3>1. PICK r \in {q, Torn(pc, q), Written(pc, q, job)} :
              fl = [flash EXCEPT ![t] = r]
      BY <2>1, <2>4 DEF PowerCutOutcomes
    <3>2. CASE r = q
      BY <1>1, <3>1, <3>2
    <3>3. CASE r # q /\ r = Torn(pc, q)
      BY <1>3, <2>1, <2>4, <3>1, <3>3
    <3>4. CASE r = Written(pc, q, job)
      BY <1>4, <1>5, <1>6, <2>1, <2>2, <2>4, <3>1, <3>4 DEF WrittenSlot
    <3>5. QED
      BY <3>1, <3>2, <3>3, <3>4
  <2>5. QED
    BY <2>3, <2>4
<1>8. QED
    BY <1>7

(* What the boot after a power cut finds.                                  *)
Finds(fl, committed, pending, newestGen) ==
    /\ ScanCommitted(fl) = committed
    /\ ScanPending(fl) = pending
    /\ ScanNewest(fl) = newestGen

(* The boot after a power cut finds the old record and nothing prepared,    *)
(* the old record and the prepared frame, or the prepared frame promoted.   *)
LEMMA RebootFinds ==
    ASSUME StoreInv, NEW r \in SlotRecord, NEW fl,
           fl = [flash EXCEPT ![TargetSlot] = r],
           slot_valid(r) => Superseded(r) \/ Prepared(r) \/ Promoted(r)
    PROVE  \/ /\ slot_valid(r) => Superseded(r)
              /\ Finds(fl, committed_slot, NoSlot,
                       IF committed_slot = NoSlot THEN 0 ELSE flash[committed_slot].gen)
           \/ /\ slot_valid(r) /\ Prepared(r)
              /\ Finds(fl, committed_slot, TargetSlot, r.gen)
           \/ /\ slot_valid(r) /\ Promoted(r)
              /\ Finds(fl, TargetSlot, NoSlot, r.gen)
<1> DEFINE t == TargetSlot
           c == committed_slot
<1>1. /\ t = Opposite(c) /\ t \in Slot /\ t # c /\ fl \in [Slot -> SlotRecord]
      /\ fl[t] = r
    BY DEF StoreInv, TypeOK, TargetSlot, Opposite, Slot
<1>2. /\ c # NoSlot => c \in Slot /\ fl[c] = flash[c]
      /\ c = NoSlot => fl[1] = flash[1]
    BY DEF StoreInv, TypeOK, TargetSlot, Slot, NoSlot
<1>3. OnRecord(fl, c)
    BY <1>1, <1>2 DEF OnRecord, StoreInv, TypeOK, RecordInv, SlotInv
<1>4. CASE slot_valid(r) => Superseded(r)
    BY <1>1, <1>2, <1>3, <1>4, ScanPassesOver DEF Superseded, Finds
<1>5. CASE slot_valid(r) /\ Prepared(r)
    BY <1>1, <1>2, <1>3, <1>5, ScanFindsPrepared DEF Prepared, Finds
<1>6. CASE slot_valid(r) /\ Promoted(r)
    BY <1>1, <1>2, <1>3, <1>6, ScanFindsPromoted DEF Promoted, Finds
<1>7. QED
    BY <1>4, <1>5, <1>6

(* ... and by a power cut, at any moment, and the boot that follows.        *)
LEMMA PowerCycleInv ==
    ASSUME StoreInv, PowerCycle
    PROVE  StoreInv'
<1> DEFINE t == TargetSlot
           c == committed_slot
<1>1. PICK r \in SlotRecord :
          /\ flash' = [flash EXCEPT ![t] = r]
          /\ r.words >= 2 => r.meta \in Frame
          /\ slot_valid(r) => Superseded(r) \/ Prepared(r) \/ Promoted(r)
    BY PowerCutOutcome DEF PowerCycle
<1>2. /\ Finds(flash', committed_slot', pending_slot', newest')
      /\ pc' = "idle" /\ job' = NoJob /\ restaged' = restaged
    BY DEF PowerCycle, Finds
<1>3. /\ t \in Slot /\ t # c /\ c \in Slot \cup {NoSlot}
      /\ flash' \in [Slot -> SlotRecord] /\ flash'[t] = r
      /\ \A s \in Slot \ {t} : flash'[s] = flash[s]
    BY <1>1 DEF StoreInv, TypeOK, TargetSlot, Slot
<1>4. /\ c # NoSlot => flash'[c] = flash[c] /\ slot_valid(flash[c])
             /\ flash[c].commit = "set" /\ flash[c].gen \in Generation \ {0}
      /\ c = NoSlot => flash'[1] = flash[1] /\ ~ slot_valid(flash[1])
    BY <1>3 DEF StoreInv, TypeOK, RecordInv, SlotInv, TargetSlot, Slot, NoSlot, SlotRecord
<1>5. restaged \in Nat
    BY GenerationAssumption DEF StoreInv, TypeOK
<1>6. /\ \A g \in Generation : Ahead(g, g) = 0
      /\ \A s \in Slot : flash'[s].words >= 2 => flash'[s].meta \in Frame
    BY <1>1, <1>3, GenerationAssumption DEF Ahead, Generation, StoreInv, SlotInv
<1>7. /\ committed_slot' \in Slot \cup {NoSlot}
      /\ pending_slot' \in Slot \cup {NoSlot}
      /\ newest' \in Generation
      => TypeOK'
    BY <1>2, <1>3, GenerationAssumption DEF StoreInv, TypeOK, NoJob, Generation
<1>8. Progress' /\ JobInv'
    BY <1>2 DEF Progress, JobInv, StageStep
<1>9. CASE /\ slot_valid(r) => Superseded(r)
           /\ Finds(flash', c, NoSlot, IF c = NoSlot THEN 0 ELSE flash[c].gen)
  <2>1. /\ committed_slot' = c /\ pending_slot' = NoSlot /\ TargetSlot' = t
        /\ newest' = IF c = NoSlot THEN 0 ELSE flash[c].gen
    BY <1>2, <1>9 DEF Finds, TargetSlot
  <2>2. TypeOK'
    BY <1>3, <1>4, <1>7, <2>1, GenerationAssumption DEF Generation
  <2>3. RecordInv'
    BY <1>2, <1>4, <1>5, <1>6, <2>1 DEF RecordInv, StageStep
  <2>4. TargetInv'
    BY <1>3, <1>4, <1>9, <2>1 DEF TargetInv, Superseded
  <2>5. SlotInv'
    BY <1>2, <1>4, <1>6, <2>1 DEF SlotInv
  <2>6. QED
    BY <1>8, <2>2, <2>3, <2>4, <2>5 DEF StoreInv
<1>10. CASE slot_valid(r) /\ Prepared(r) /\ Finds(flash', c, t, r.gen)
  <2>1. /\ committed_slot' = c /\ pending_slot' = t /\ TargetSlot' = t
        /\ newest' = r.gen
    BY <1>2, <1>10 DEF Finds, TargetSlot
  <2>2. TypeOK'
    BY <1>1, <1>3, <1>7, <2>1 DEF SlotRecord
  <2>3. RecordInv'
    BY <1>2, <1>4, <1>10, <2>1 DEF RecordInv, StageStep, Prepared
  <2>4. TargetInv'
    BY <1>3, <1>4, <1>10, <2>1 DEF TargetInv, Prepared
  <2>5. SlotInv'
    BY <1>2, <1>3, <1>4, <1>6, <1>10, <2>1 DEF SlotInv, Prepared
  <2>6. QED
    BY <1>8, <2>2, <2>3, <2>4, <2>5 DEF StoreInv
<1>11. CASE slot_valid(r) /\ Promoted(r) /\ Finds(flash', t, NoSlot, r.gen)
  <2>1. /\ committed_slot' = t /\ pending_slot' = NoSlot /\ newest' = r.gen
        /\ t # NoSlot
    BY <1>2, <1>3, <1>11 DEF Finds, Slot, NoSlot
  <2>2. TypeOK'
    BY <1>1, <1>3, <1>7, <2>1 DEF SlotRecord
  <2>3. RecordInv'
    BY <1>1, <1>2, <1>3, <1>5, <1>6, <1>11, <2>1
       DEF RecordInv, StageStep, Promoted, SlotRecord
  <2>4. c # NoSlot => TargetSlot' = c
    BY <1>3, <2>1 DEF TargetSlot, Slot, NoSlot
  <2>5. c = NoSlot => TargetSlot' = 1
    BY <2>1 DEF TargetSlot, NoSlot
  <2>6. TargetInv'
    BY <1>3, <1>4, <1>11, <2>1, <2>4, <2>5 DEF TargetInv, Promoted
  <2>7. SlotInv'
    BY <1>2, <1>6, <2>1 DEF SlotInv
  <2>8. QED
    BY <1>8, <2>2, <2>3, <2>6, <2>7 DEF StoreInv
<1>12. QED
    BY <1>1, <1>9, <1>10, <1>11, RebootFinds

-----------------------------------------------------------------------------
(* What a boot would find in a running store: the slot on record, and the   *)
(* target slot if it validates and is not committed.                       *)
LEMMA ScanAgrees ==
    StoreInv =>
        /\ ScanCommitted(flash) = committed_slot
        /\ ScanPending(flash) =
               IF slot_valid(flash[TargetSlot]) /\ flash[TargetSlot].commit = "erased"
               THEN TargetSlot ELSE NoSlot
<1> SUFFICES ASSUME StoreInv
             PROVE  /\ ScanCommitted(flash) = committed_slot
                    /\ ScanPending(flash) =
                           IF /\ slot_valid(flash[TargetSlot])
                              /\ flash[TargetSlot].commit = "erased"
                           THEN TargetSlot ELSE NoSlot
  OBVIOUS
<1> DEFINE q == flash[TargetSlot]
<1>1. q \in SlotRecord /\ flash = [flash EXCEPT ![TargetSlot] = q]
    BY DEF StoreInv, TypeOK, TargetSlot, Slot
<1>2. /\ slot_valid(q) => Superseded(q) \/ Prepared(q) \/ Promoted(q)
      /\ ~ Promoted(q)
    BY Untouched DEF Promoted
<1>3. \/ /\ slot_valid(q) => Superseded(q)
         /\ ScanCommitted(flash) = committed_slot /\ ScanPending(flash) = NoSlot
      \/ /\ slot_valid(q) /\ Prepared(q)
         /\ ScanCommitted(flash) = committed_slot /\ ScanPending(flash) = TargetSlot
    BY <1>1, <1>2, RebootFinds DEF Finds
<1>4. QED
    BY <1>3 DEF Superseded, Prepared

(* The invariant holds of every behaviour of the store.                     *)
THEOREM StoreInvariant == Spec => []StoreInv
<1>1. StoreInv /\ [Next]_storeVars => StoreInv'
  <2> SUFFICES ASSUME StoreInv, [Next]_storeVars
               PROVE  StoreInv'
    OBVIOUS
  <2>1. CASE \E f \in Frame : StageBegin(f)
    BY <2>1, StageBeginInv
  <2>2. CASE StageWrite
    BY <2>2, StageWriteInv
  <2>3. CASE StageMarker
    BY <2>3, StageMarkerInv
  <2>4. CASE CommitBegin
    BY <2>4, CommitBeginInv
  <2>5. CASE CommitMarker
    BY <2>5, CommitMarkerInv
  <2>6. CASE FlashError
    BY <2>6, FlashErrorInv
  <2>7. CASE PowerCycle
    BY <2>7, PowerCycleInv
  <2>8. CASE UNCHANGED storeVars
    BY <2>8 DEF storeVars, StoreInv, TypeOK, Progress, JobInv, RecordInv, TargetInv,
                SlotInv, TargetSlot, Ahead, slot_valid, generation_is_newer, next_generation
  <2>9. QED
    BY <2>1, <2>2, <2>3, <2>4, <2>5, <2>6, <2>7, <2>8 DEF Next
<1>2. QED
    BY <1>1, InitInv, PTL DEF Spec

(* Slots, RAM slot numbers, generation counter and job keep their types.    *)
THEOREM StoreTypeOK == Spec => []TypeOK
<1>1. StoreInv => TypeOK
    BY DEF StoreInv
<1>2. QED
    BY <1>1, StoreInvariant, PTL

(* The frame on record is the one the next boot finds, and validates, after *)
(* any history of stages, commits, Flash errors and power cuts.            *)
THEOREM RecordSurvives == Spec => []RecordSurvivesReboot
<1>1. StoreInv => RecordSurvivesReboot
    BY ScanAgrees DEF StoreInv, RecordInv, RecordSurvivesReboot
<1>2. QED
    BY <1>1, StoreInvariant, PTL

(* A frame staged and still intact is found pending by the next boot.       *)
THEOREM StagedSurvives == Spec => []StagedSurvivesReboot
<1>1. StoreInv => StagedSurvivesReboot
  <2>1. StoreInv /\ pending_slot # NoSlot =>
            pending_slot = TargetSlot /\ flash[pending_slot].commit # "set"
    BY DEF StoreInv, SlotInv
  <2>2. QED
    BY <2>1, ScanAgrees DEF StagedSurvivesReboot, slot_valid
<1>2. QED
    BY <1>1, StoreInvariant, PTL

-----------------------------------------------------------------------------
(* The two-slot store implements the register of DisplayRegister: every      *)
(* Flash operation is a step of the register or leaves it alone.            *)

IntactTarget == slot_valid(flash[TargetSlot]) /\ flash[TargetSlot].commit = "erased"

(* The register's variables, read from the target slot.                    *)
View ==
    /\ DurableFrame = IF IntactTarget THEN flash[TargetSlot].meta ELSE NoFrame
    /\ ReportedFrame =
           IF pending_slot = NoSlot THEN NoFrame ELSE HeaderOf(flash[TargetSlot])
    /\ pending_slot = NoSlot => ~ IntactTarget
    /\ RecordedFrame \in Frame \cup {NoFrame}
    /\ TargetSlot \in Slot /\ TargetSlot # NoSlot
    /\ flash[TargetSlot] \in SlotRecord
    /\ IntactTarget => flash[TargetSlot].meta \in Frame
    /\ HeaderOf(flash[TargetSlot]) \in Frame \cup {TornHeader}

(* In a store in its invariant the target slot holds all that the register  *)
(* has beside the record.                                                  *)
LEMMA RegisterView == StoreInv => View
<1> SUFFICES ASSUME StoreInv
             PROVE  View
  OBVIOUS
<1>1. TargetSlot \in Slot /\ TargetSlot # NoSlot
    BY DEF TargetSlot, Slot, NoSlot
<1>2. \A s \in Slot : flash[s] \in SlotRecord /\ (flash[s].words >= 2 => flash[s].meta \in Frame)
    BY DEF StoreInv, TypeOK, SlotInv
<1>3. DurableFrame = IF IntactTarget THEN flash[TargetSlot].meta ELSE NoFrame
    BY <1>1, ScanAgrees DEF DurableFrame, IntactTarget
<1>4. pending_slot # NoSlot => pending_slot = TargetSlot
    BY DEF StoreInv, SlotInv
<1>5. pending_slot = NoSlot => ~ IntactTarget
    BY <1>1 DEF StoreInv, TargetInv, IntactTarget
<1>6. RecordedFrame \in Frame \cup {NoFrame}
    BY <1>2 DEF StoreInv, TypeOK, RecordInv, RecordedFrame, slot_valid, SlotRecord
<1>7. IntactTarget => flash[TargetSlot].meta \in Frame
    BY <1>1, <1>2 DEF IntactTarget, slot_valid
<1>8. HeaderOf(flash[TargetSlot]) \in Frame \cup {TornHeader}
    BY <1>1, <1>2 DEF HeaderOf
<1>9. QED
    BY <1>1, <1>2, <1>3, <1>4, <1>5, <1>6, <1>7, <1>8 DEF View, ReportedFrame

(* A write that leaves no valid frame in the target slot overwrites the     *)
(* register's prepared frame.                                              *)
LEMMA WriteOverwrites ==
    ASSUME StoreInv, StoreInv', ~ IntactTarget',
           UNCHANGED <<committed_slot, pending_slot>>,
           \A s \in Slot \ {TargetSlot} : flash'[s] = flash[s],
           HeaderOf(flash'[TargetSlot]) \in
               {HeaderOf(flash[TargetSlot]), job.frame, TornHeader},
           StagingFrame = job.frame
    PROVE  Register!Overwrite
<1>1. View /\ View'
    BY RegisterView, PTL
<1>2. RecordedFrame' = RecordedFrame
    BY DEF RecordedFrame, StoreInv, TypeOK, TargetSlot, Slot, NoSlot
<1>3. DurableFrame' = NoFrame
    BY <1>1 DEF View
<1>4. ReportedFrame = NoFrame => ReportedFrame' = NoFrame
    BY <1>1, FrameAssumption DEF View
<1>5. ReportedFrame # NoFrame =>
          ReportedFrame' \in {ReportedFrame, StagingFrame, TornHeader}
    BY <1>1 DEF View, TargetSlot
<1>6. QED
    BY <1>2, <1>3, <1>4, <1>5 DEF Register!Overwrite

(* Each write before the stage marker is a Disturb.                        *)
LEMMA StageWriteDisturbs ==
    ASSUME StoreInv, StoreInv', StageWrite
    PROVE  Register!Disturb
<1>1. /\ pc \in StageStep /\ pc' \in StageStep /\ job' = job /\ TargetSlot' = TargetSlot
      /\ UNCHANGED <<committed_slot, pending_slot>>
      /\ TargetSlot \in Slot
      /\ flash' = [flash EXCEPT ![TargetSlot] = Written(pc, @, job)]
    BY DEF StageWrite, StageStep, NextStep, TargetSlot, Slot
<1>2. /\ StagingFrame = job.frame /\ StagingFrame' = StagingFrame
      /\ StagingFrame # NoFrame
    BY <1>1, FrameAssumption DEF StagingFrame, StoreInv, JobInv
<1>3. ~ IntactTarget'
    BY <1>1 DEF IntactTarget, StageWrite, StoreInv, TypeOK, Progress, Written, StageStep,
                ErasedSlot, SlotRecord, slot_valid
<1>4. \A s \in Slot \ {TargetSlot} : flash'[s] = flash[s]
    BY <1>1 DEF StoreInv, TypeOK
<1>5. HeaderOf(flash'[TargetSlot]) \in
          {HeaderOf(flash[TargetSlot]), job.frame, TornHeader}
  <2>1. flash'[TargetSlot] = Written(pc, flash[TargetSlot], job)
    BY <1>1 DEF StoreInv, TypeOK
  <2>2. pc \in {"erase", "image", "word16", "word24", "word32"}
    BY DEF StageWrite, StageStep
  <2>3. flash[TargetSlot] \in SlotRecord
    BY <1>1 DEF StoreInv, TypeOK
  <2>4. CASE pc \in {"erase", "word16", "word24"}
    BY <2>1, <2>3, <2>4 DEF Written, HeaderOf, ErasedSlot, SlotRecord
  <2>5. CASE pc \in {"image", "word32"}
    <3>1. /\ flash'[TargetSlot].meta = flash[TargetSlot].meta
          /\ pc = "image" => flash'[TargetSlot].words = flash[TargetSlot].words
          /\ pc = "word32" => flash'[TargetSlot].words = 3 /\ flash[TargetSlot].words >= 2
      BY <1>1, <2>1, <2>3, <2>5 DEF Written, SlotRecord, StoreInv, Progress
    <3>2. QED
      BY <2>5, <3>1 DEF HeaderOf
  <2>6. QED
    BY <2>2, <2>4, <2>5
<1>6. Register!Overwrite
    BY <1>1, <1>2, <1>3, <1>4, <1>5, WriteOverwrites
<1>7. UNCHANGED (pc = "commit")
    BY <1>1 DEF StageStep
<1>8. QED
    BY <1>2, <1>6, <1>7 DEF Register!Disturb

(* The stage marker is a Land.                                             *)
LEMMA StageMarkerLands ==
    ASSUME StoreInv, StoreInv', StageMarker
    PROVE  Register!Land
<1> DEFINE r == Written("marker", flash[TargetSlot], job)
<1>1. /\ slot_valid(r) /\ r.commit = "erased" /\ r.meta = job.frame
      /\ job.frame \in Frame
    BY MarkedSlot DEF StageMarker
<1>2. /\ TargetSlot' = TargetSlot /\ TargetSlot \in Slot /\ TargetSlot # committed_slot
      /\ flash' = [flash EXCEPT ![TargetSlot] = r]
      /\ pending_slot' = TargetSlot /\ pc = "marker" /\ pc' = "idle"
      /\ committed_slot' = committed_slot
    BY <1>1 DEF StageMarker, TargetSlot, Slot
<1>3. flash'[TargetSlot] = r /\ IntactTarget'
    BY <1>1, <1>2 DEF StoreInv, TypeOK, IntactTarget
<1>4. View'
    BY RegisterView, PTL
<1>5. DurableFrame' = job.frame /\ ReportedFrame' = job.frame
    BY <1>1, <1>2, <1>3, <1>4 DEF View, HeaderOf, slot_valid
<1>6. RecordedFrame' = RecordedFrame
    BY <1>2 DEF RecordedFrame, StoreInv, TypeOK, Slot, NoSlot
<1>7. StagingFrame = job.frame /\ StagingFrame' = NoFrame
    BY <1>2 DEF StagingFrame, StageStep
<1>8. UNCHANGED (pc = "commit")
    BY <1>2
<1>9. QED
    BY <1>1, <1>5, <1>6, <1>7, <1>8, FrameAssumption DEF Register!Land

(* The commit marker is a Promote.                                         *)
LEMMA CommitMarkerPromotes ==
    ASSUME StoreInv, StoreInv', CommitMarker
    PROVE  Register!Promote
<1> DEFINE p == pending_slot
           r == Written("commit", flash[p], job)
<1>1. pc = "commit" /\ pc' = "idle"
    BY DEF CommitMarker
<1>2. /\ p = TargetSlot /\ slot_valid(flash[p]) /\ flash[p].commit = "erased"
      /\ slot_valid(r) /\ r.meta = flash[p].meta /\ r.meta \in Frame
    BY <1>1, PromotedSlot
<1>3. /\ p \in Slot /\ p # NoSlot
      /\ flash' = [flash EXCEPT ![p] = r] /\ committed_slot' = p /\ pending_slot' = NoSlot
    BY <1>2 DEF CommitMarker, TargetSlot, Slot, NoSlot
<1>4. flash'[p] = r
    BY <1>3 DEF StoreInv, TypeOK
<1>5. View /\ View'
    BY RegisterView, PTL
<1>6. DurableFrame = r.meta
    BY <1>2, <1>5 DEF View, IntactTarget
<1>7. DurableFrame' = NoFrame /\ ReportedFrame' = NoFrame
    BY <1>3, <1>5 DEF View
<1>8. RecordedFrame' = r.meta
    BY <1>3, <1>4 DEF RecordedFrame
<1>9. StagingFrame = NoFrame /\ StagingFrame' = NoFrame
    BY <1>1 DEF StagingFrame, StageStep
<1>10. QED
    BY <1>1, <1>6, <1>7, <1>8, <1>9 DEF Register!Promote

(* A failed operation is a Fail or a Spoil.                                *)
LEMMA FlashErrorFails ==
    ASSUME StoreInv, StoreInv', FlashError
    PROVE  Register!Fail \/ Register!Spoil
<1> DEFINE t == TargetSlot
           q == flash[t]
<1>1. PICK r \in {flash[WrittenSlot], Torn(pc, flash[WrittenSlot])} :
          flash' = [flash EXCEPT ![WrittenSlot] = r]
    BY DEF FlashError
<1>2. /\ pc # "idle" /\ pc' = "idle" /\ WrittenSlot = t /\ t \in Slot
      /\ UNCHANGED <<committed_slot, pending_slot>> /\ TargetSlot' = t
    BY DEF FlashError, StoreInv, SlotInv, WrittenSlot, TargetSlot, Slot
<1>3. /\ flash'[t] = r /\ q \in SlotRecord
      /\ \A s \in Slot \ {t} : flash'[s] = flash[s]
      /\ r = q => flash' = flash
    BY <1>1, <1>2 DEF StoreInv, TypeOK
<1>4. View /\ View'
    BY RegisterView, PTL
<1>5. RecordedFrame' = RecordedFrame
    BY <1>2, <1>3 DEF RecordedFrame, StoreInv, TypeOK, TargetSlot, Slot, NoSlot
<1>6. r # q => ~ slot_valid(r)
    BY <1>1, <1>2, <1>3 DEF Torn, ErasedSlot, slot_valid, SlotRecord
<1>7. r = q => UNCHANGED <<DurableFrame, ReportedFrame, RecordedFrame>>
    BY <1>2, <1>3, <1>5 DEF DurableFrame, ReportedFrame
<1>8. StagingFrame' = NoFrame
    BY <1>2 DEF StagingFrame, StageStep
<1>9. CASE pc = "commit"
  <2>1. StagingFrame = NoFrame
    BY <1>9 DEF StagingFrame, StageStep
  <2>2. CASE r = q
    BY <1>2, <1>7, <1>8, <1>9, <2>1, <2>2 DEF Register!Spoil
  <2>3. CASE r # q
    <3>1. pending_slot = t /\ IntactTarget /\ ~ IntactTarget'
      BY <1>2, <1>3, <1>6, <1>9, <2>3 DEF StoreInv, SlotInv, IntactTarget, slot_valid
    <3>2. HeaderOf(r) = HeaderOf(q)
      BY <1>1, <1>2, <1>9 DEF Torn, HeaderOf, StoreInv, TypeOK, SlotRecord
    <3>3. UNCHANGED ReportedFrame
      BY <1>2, <1>3, <1>4, <3>2 DEF View
    <3>4. DurableFrame \in Frame /\ DurableFrame' = NoFrame
      BY <1>4, <3>1 DEF View
    <3>5. QED
      BY <1>2, <1>5, <1>8, <1>9, <2>1, <3>3, <3>4 DEF Register!Spoil
  <2>4. QED
    BY <2>2, <2>3
<1>10. CASE pc \in StageStep
  <2>1. StagingFrame # NoFrame /\ UNCHANGED (pc = "commit")
    BY <1>2, <1>10, FrameAssumption DEF StagingFrame, StoreInv, JobInv, StageStep
  <2>2. CASE r = q
    BY <1>7, <1>8, <2>1, <2>2 DEF Register!Fail
  <2>3. CASE r # q
    <3>1. HeaderOf(r) \in {HeaderOf(q), TornHeader}
      BY <1>1, <1>2, <1>3, <1>10 DEF Torn, HeaderOf, ErasedSlot, StageStep, SlotRecord
    <3>2. StagingFrame = job.frame
      BY <1>10 DEF StagingFrame
    <3>3. Register!Overwrite
      BY <1>2, <1>3, <1>6, <2>3, <3>1, <3>2, WriteOverwrites DEF IntactTarget
    <3>4. QED
      BY <1>8, <2>1, <3>3 DEF Register!Fail
  <2>4. QED
    BY <2>2, <2>3
<1>11. QED
    BY <1>2, <1>9, <1>10 DEF StoreInv, TypeOK

(* A power cut and the boot that follows are a PowerCycle.                 *)
LEMMA PowerCycleCycles ==
    ASSUME StoreInv, StoreInv', PowerCycle
    PROVE  Register!PowerCycle
<1> DEFINE t == TargetSlot
           c == committed_slot
           q == flash[t]
<1>1. PICK r \in SlotRecord :
          /\ flash' = [flash EXCEPT ![t] = r]
          /\ r.words >= 2 => r.meta \in Frame
          /\ slot_valid(r) => Superseded(r) \/ Prepared(r) \/ Promoted(r)
    BY PowerCutOutcome DEF PowerCycle
<1>2. Finds(flash', committed_slot', pending_slot', newest') /\ pc' = "idle"
    BY DEF PowerCycle, Finds
<1>3. /\ t \in Slot /\ t # c /\ t # NoSlot
      /\ flash'[t] = r
      /\ \A s \in Slot \ {t} : flash'[s] = flash[s]
    BY <1>1 DEF StoreInv, TypeOK, TargetSlot, Slot, NoSlot
<1>4. View /\ View'
    BY RegisterView, PTL
<1>5. StagingFrame' = NoFrame
    BY <1>2 DEF StagingFrame, StageStep
<1>6. committed_slot' = c => TargetSlot' = t /\ RecordedFrame' = RecordedFrame
    BY <1>3 DEF RecordedFrame, StoreInv, TypeOK, TargetSlot, Slot, NoSlot
<1>7. CASE Finds(flash', c, NoSlot, IF c = NoSlot THEN 0 ELSE flash[c].gen)
  <2>1. committed_slot' = c /\ pending_slot' = NoSlot
    BY <1>2, <1>7 DEF Finds
  <2>2. DurableFrame' = NoFrame /\ ReportedFrame' = NoFrame
    BY <1>4, <2>1 DEF View
  <2>3. CASE pc = "idle"
    <3>1. flash' = flash
      BY <2>3 DEF PowerCycle, PowerCutOutcomes
    <3>2. DurableFrame = NoFrame
      BY <1>4, <1>6, <2>1, <3>1 DEF View, IntactTarget
    <3>3. QED
      BY <1>2, <1>5, <1>6, <2>1, <2>2, <3>2 DEF Register!PowerCycle
  <2>4. CASE pc = "commit"
    BY <1>2, <1>5, <1>6, <2>1, <2>2, <2>4 DEF Register!PowerCycle
  <2>5. CASE pc \in StageStep
    <3>1. StagingFrame # NoFrame
      BY <2>5, FrameAssumption DEF StagingFrame, StoreInv, JobInv
    <3>2. QED
      BY <1>2, <1>5, <1>6, <2>1, <2>2, <3>1 DEF Register!PowerCycle
  <2>6. QED
    BY <2>3, <2>4, <2>5 DEF StoreInv, TypeOK
<1>8. CASE slot_valid(r) /\ Prepared(r) /\ Finds(flash', c, t, r.gen)
  <2>1. committed_slot' = c /\ pending_slot' = t /\ TargetSlot' = t
    BY <1>2, <1>6, <1>8 DEF Finds
  <2>2. DurableFrame' = r.meta /\ ReportedFrame' = r.meta
    BY <1>3, <1>4, <1>8, <2>1 DEF View, IntactTarget, Prepared, HeaderOf, slot_valid
  <2>3. CASE r = q
    <3>1. DurableFrame = r.meta
      BY <1>4, <1>8, <2>3 DEF View, IntactTarget, Prepared
    <3>2. QED
      BY <1>2, <1>5, <1>6, <2>1, <2>2, <3>1 DEF Register!PowerCycle
  <2>4. CASE pc = "marker" /\ r.meta = job.frame
    <3>1. StagingFrame = r.meta /\ StagingFrame # NoFrame
      BY <2>4, FrameAssumption DEF StagingFrame, StageStep, StoreInv, JobInv
    <3>2. QED
      BY <1>2, <1>5, <1>6, <2>1, <2>2, <3>1 DEF Register!PowerCycle
  <2>5. QED
    BY <1>8, <2>3, <2>4 DEF Prepared
<1>9. CASE slot_valid(r) /\ Promoted(r) /\ Finds(flash', t, NoSlot, r.gen)
  <2>1. committed_slot' = t /\ pending_slot' = NoSlot
    BY <1>2, <1>9 DEF Finds
  <2>2. DurableFrame' = NoFrame /\ ReportedFrame' = NoFrame
    BY <1>4, <2>1 DEF View
  <2>3. DurableFrame = r.meta /\ pc = "commit"
    BY <1>4, <1>9 DEF View, IntactTarget, Promoted
  <2>4. RecordedFrame' = r.meta
    BY <1>3, <2>1 DEF RecordedFrame
  <2>5. QED
    BY <1>2, <1>5, <2>2, <2>3, <2>4 DEF Register!PowerCycle
<1>10. QED
    BY <1>1, <1>7, <1>8, <1>9, RebootFinds

(* The store implements the register: the frame on record changes only, and *)
(* in one step, to a frame that had been staged whole.                     *)
THEOREM StoreImplementsRegister == Spec => ImplementsRegister
<1>1. Init => Register!RegInit
  <2> SUFFICES ASSUME Init
               PROVE  Register!RegInit
    OBVIOUS
  <2>1. DurableFrame = NoFrame /\ ReportedFrame = NoFrame
    BY InitInv, RegisterView DEF View, Init
  <2>2. RecordedFrame = NoFrame /\ StagingFrame = NoFrame
    BY DEF Init, RecordedFrame, StagingFrame, StageStep
  <2>3. QED
    BY <2>1, <2>2 DEF Register!RegInit, Init
<1>2. StoreInv /\ StoreInv' /\ [Next]_storeVars => [Register!RegNext]_(Register!regVars)
  <2> SUFFICES ASSUME StoreInv, StoreInv', [Next]_storeVars
               PROVE  Register!RegNext \/ UNCHANGED Register!regVars
    OBVIOUS
  <2>1. ASSUME NEW f \in Frame, StageBegin(f)
        PROVE  Register!Begin(f)
    <3>1. StagingFrame = NoFrame /\ StagingFrame' = f
      BY <2>1 DEF StageBegin, StagingFrame, StageStep
    <3>2. UNCHANGED <<RecordedFrame, DurableFrame, ReportedFrame>>
      BY <2>1 DEF StageBegin, RecordedFrame, DurableFrame, ReportedFrame
    <3>3. QED
      BY <2>1, <3>1, <3>2 DEF Register!Begin, StageBegin
  <2>2. ASSUME CommitBegin
        PROVE  Register!Commit
    <3>1. UNCHANGED <<RecordedFrame, DurableFrame, ReportedFrame>>
      BY <2>2 DEF CommitBegin, RecordedFrame, DurableFrame, ReportedFrame
    <3>2. StagingFrame = NoFrame /\ StagingFrame' = NoFrame
      BY <2>2 DEF CommitBegin, StagingFrame, StageStep
    <3>3. View /\ pending_slot = TargetSlot
      BY <2>2, RegisterView DEF CommitBegin, StoreInv, SlotInv
    <3>4. IntactTarget
      BY <2>2, <3>3 DEF CommitBegin, IntactTarget, StoreInv, SlotInv, slot_valid
    <3>5. DurableFrame # NoFrame
      BY <3>3, <3>4, FrameAssumption DEF View
    <3>6. QED
      BY <2>2, <3>1, <3>2, <3>5 DEF Register!Commit, CommitBegin
  <2>3. CASE UNCHANGED storeVars
    BY <2>3 DEF storeVars, Register!regVars, RecordedFrame, DurableFrame, ReportedFrame,
                StagingFrame
  <2>4. QED
    BY <2>1, <2>2, <2>3, StageWriteDisturbs, StageMarkerLands, CommitMarkerPromotes,
       FlashErrorFails, PowerCycleCycles DEF Next, Register!RegNext
<1>3. QED
    BY <1>1, <1>2, StoreInvariant, PTL DEF Spec, ImplementsRegister, Register!RegSpec
===============================================================================
