--------------------------- MODULE DisplayRegister ---------------------------
(***************************************************************************)
(* What display_store.c promises its caller, app.c, whatever the Flash     *)
(* does: a register holding the frame on record as displayed, and room for *)
(* one frame prepared to replace it.                                       *)
(*                                                                         *)
(* The frame on record changes only by being replaced, in one step, by a   *)
(* frame that had been prepared whole.  A power cut at any moment leaves   *)
(* the old record or the new one, never neither.  A prepared frame is      *)
(* expendable: preparing another one, a Flash error or a power cut may     *)
(* lose it.                                                                *)
(*                                                                         *)
(* What the getters report of the prepared frame (`header') is a separate  *)
(* variable, because the code reads it from a slot it has already begun to *)
(* overwrite: after an error it may name a frame that is not there.        *)
(***************************************************************************)
CONSTANTS
    Frame,       \* a display frame with its metadata: image, transfer id, format
    NoFrame,     \* no frame
    TornHeader   \* metadata read from an erased or half-written slot

VARIABLES
    committed,   \* the frame on record as displayed
    prepared,    \* the frame a reboot would find prepared
    header,      \* the prepared frame as the getters report it
    staging,     \* the frame being prepared
    committing   \* the prepared frame is being put on record

regVars == <<committed, prepared, header, staging, committing>>

RegTypeOK ==
    /\ committed \in Frame \cup {NoFrame}
    /\ prepared \in Frame \cup {NoFrame}
    /\ header \in Frame \cup {NoFrame, TornHeader}
    /\ staging \in Frame \cup {NoFrame}
    /\ committing \in BOOLEAN

RegInit ==
    /\ committed = NoFrame
    /\ prepared = NoFrame
    /\ header = NoFrame
    /\ staging = NoFrame
    /\ committing = FALSE

Begin(f) ==
    /\ staging = NoFrame
    /\ ~ committing
    /\ staging' = f
    /\ UNCHANGED <<committed, prepared, header, committing>>

(* The slot of the prepared frame is erased and written over.  Getters that *)
(* reported a frame go on reporting one: the old one, the one being written, *)
(* or what an erased slot reads as.                                        *)
Overwrite ==
    /\ prepared' = NoFrame
    /\ header' \in IF header = NoFrame THEN {NoFrame} ELSE {header, staging, TornHeader}
    /\ UNCHANGED committed

Disturb ==
    /\ staging # NoFrame
    /\ Overwrite
    /\ UNCHANGED <<staging, committing>>

Land ==
    /\ staging # NoFrame
    /\ prepared' = staging
    /\ header' = staging
    /\ staging' = NoFrame
    /\ UNCHANGED <<committed, committing>>

(* Preparing fails: the caller is told, and the old prepared frame may be   *)
(* intact or gone.                                                         *)
Fail ==
    /\ staging # NoFrame
    /\ staging' = NoFrame
    /\ Overwrite \/ UNCHANGED <<committed, prepared, header>>
    /\ UNCHANGED committing

Commit ==
    /\ staging = NoFrame
    /\ prepared # NoFrame
    /\ ~ committing
    /\ committing' = TRUE
    /\ UNCHANGED <<committed, prepared, header, staging>>

Promote ==
    /\ committing
    /\ committed' = prepared
    /\ prepared' = NoFrame
    /\ header' = NoFrame
    /\ committing' = FALSE
    /\ UNCHANGED staging

(* Promoting fails: the record is unchanged; a half-written marker spoils    *)
(* the prepared frame, but the getters still report it.                    *)
Spoil ==
    /\ committing
    /\ committing' = FALSE
    /\ prepared' \in {prepared, NoFrame}
    /\ UNCHANGED <<committed, header, staging>>

(* Power fails, at any moment, and returns: what was being written may have  *)
(* been written, not written, or spoilt.                                   *)
PowerCycle ==
    /\ \/ UNCHANGED <<committed, prepared>>
       \/ /\ staging # NoFrame
          /\ prepared' \in {NoFrame, staging}
          /\ UNCHANGED committed
       \/ /\ committing
          /\ prepared' = NoFrame
          /\ committed' \in {committed, prepared}
    /\ header' = prepared'
    /\ staging' = NoFrame
    /\ committing' = FALSE

RegNext ==
    \/ \E f \in Frame : Begin(f)
    \/ Disturb
    \/ Land
    \/ Fail
    \/ Commit
    \/ Promote
    \/ Spoil
    \/ PowerCycle

RegSpec == RegInit /\ [][RegNext]_regVars
=============================================================================
