------------------------------ MODULE NCTransfer ------------------------------
(***************************************************************************)
(* The transfer protocol of firmware/Core/Src/nc_protocol.c: what one frame *)
(* does to the transfer record and to the image buffer, as an operator.    *)
(*                                                                         *)
(* Sizes are counted in chunks and an image is a sequence of ImageSize      *)
(* chunks.  A CRC is modelled by what it decides: the image CRC announced  *)
(* by START is the image itself, the payload CRC of a frame its body.      *)
(* A frame is a record [type, tid, seq, off, body].  The body is, for       *)
(*   START    [format, plane, clean, crc] with format "mono", "gray" or     *)
(*            "bad" (metadata the card does not support);                  *)
(*   DATA     a sequence of chunks;                                        *)
(*   PATTERN  the number of a built-in pattern, 0 for one out of range;     *)
(*   others   the empty sequence.                                          *)
(* Frames with a broken header or body never reach nc_transfer_apply: they  *)
(* are lost frames.                                                        *)
(***************************************************************************)
EXTENDS Naturals, Sequences

CONSTANT ImageSize     \* NC_IMAGE_SIZE, in chunks

NoCrc == <<>>          \* an announced CRC that no buffer matches
SeqModulus == 65536    \* sequence numbers are uint16_t

NothingRemembered == [type |-> "NONE", seq |-> 0, off |-> 0, body |-> <<>>]

(* nc_transfer_t after nc_transfer_reset (last_error is never read).        *)
ResetTransfer ==
    [active |-> FALSE, committed |-> FALSE, execute_requested |-> FALSE,
     tid |-> 0, seq |-> 0, off |-> 0, crc |-> NoCrc, clean |-> FALSE,
     format |-> "none", plane |-> 0, pattern |-> 0, last |-> NothingRemembered]

remember(f) == [type |-> f.type, seq |-> f.seq, off |-> f.off, body |-> f.body]

(* Mutant: no frame is recognised as a repetition.                          *)
NeverDuplicate(t, f) == FALSE

(* The same type, sequence, offset, length and payload CRC as the last      *)
(* frame applied: the transfer id is not compared.                         *)
is_duplicate(t, f) == t.last.type = f.type /\ remember(f) = t.last

(* A reply: the new transfer record and buffer, and what is reported.       *)
Replied(t, buf, result, error) ==
    [t |-> t, buf |-> buf, result |-> result, error |-> error]

Reject(t, buf, error) == Replied(t, buf, "REJECTED", error)

(* START: a new session, unless the frame repeats the START of the active   *)
(* one.                                                                    *)
ApplyStart(t, buf, f) ==
    IF is_duplicate(t, f) /\ t.active THEN Replied(t, buf, "DUPLICATE", "NONE")
    ELSE IF f.seq # 0 \/ f.off # 0 THEN Reject(t, buf, "COMMAND")
    ELSE IF ~ \/ f.body.format = "mono" /\ f.body.plane = 1
              \/ f.body.format = "gray" /\ f.body.plane \in {0, 1}
         THEN Reject(t, buf, "IMAGE_FORMAT")
    ELSE IF f.body.format = "gray" /\ f.body.clean THEN Reject(t, buf, "COMMAND")
    ELSE Replied(
           [ResetTransfer EXCEPT
               !.active = TRUE, !.tid = f.tid, !.seq = 1, !.crc = f.body.crc,
               !.clean = f.body.clean, !.format = f.body.format,
               !.plane = IF f.body.format = "gray" THEN f.body.plane ELSE 0,
               !.last = remember(f)],
           buf, "ACCEPTED", "NONE")

(* PATTERN: a session of one frame, already committed.                     *)
ApplyPattern(t, buf, f) ==
    IF is_duplicate(t, f) /\ t.active THEN Replied(t, buf, "DUPLICATE", "NONE")
    ELSE IF f.seq # 0 \/ f.off # 0 \/ f.body = 0 THEN Reject(t, buf, "COMMAND")
    ELSE Replied(
           [ResetTransfer EXCEPT
               !.active = TRUE, !.committed = TRUE, !.tid = f.tid, !.seq = 1,
               !.off = ImageSize, !.pattern = f.body, !.format = "mono",
               !.last = remember(f)],
           buf, "PATTERN", "NONE")

(* The frame is applied: the sequence number moves on and it is remembered. *)
Advanced(t, f) == [t EXCEPT !.seq = (@ + 1) % SeqModulus, !.last = remember(f)]

(* Mutant: the chunks land one place too far.                              *)
CopyChunksTooFar(buf, off, body) ==
    [i \in 1 .. ImageSize |->
        IF off + 1 < i /\ i <= off + 1 + Len(body) THEN body[i - off - 1] ELSE buf[i]]

(* memcpy of a DATA body to its place in the buffer.                       *)
CopyChunks(buf, off, body) ==
    [i \in 1 .. ImageSize |->
        IF off < i /\ i <= off + Len(body) THEN body[i - off] ELSE buf[i]]

ApplyData(t, buf, f) ==
    IF f.body = <<>> \/ t.off + Len(f.body) > ImageSize
    THEN Reject(t, buf, "IMAGE_LENGTH")
    ELSE Replied([Advanced(t, f) EXCEPT !.off = @ + Len(f.body)],
                 CopyChunks(buf, t.off, f.body), "ACCEPTED", "NONE")

(* Mutant: the CRC of the image is not checked.                             *)
CommitUnchecked(t, buf, f) ==
    IF f.body # <<>> \/ t.off # ImageSize THEN Reject(t, buf, "IMAGE_LENGTH")
    ELSE Replied([Advanced(t, f) EXCEPT !.committed = TRUE], buf, "COMMITTED", "NONE")

ApplyCommit(t, buf, f) ==
    IF f.body # <<>> \/ t.off # ImageSize THEN Reject(t, buf, "IMAGE_LENGTH")
    ELSE IF buf # t.crc THEN Reject(t, buf, "IMAGE_CRC")
    ELSE Replied([Advanced(t, f) EXCEPT !.committed = TRUE], buf, "COMMITTED", "NONE")

ApplyExecute(t, buf, f) ==
    IF ~ t.committed THEN Reject(t, buf, "NOT_COMMITTED")
    ELSE IF f.body # <<>> THEN Reject(t, buf, "COMMAND")
    ELSE Replied([Advanced(t, f) EXCEPT !.execute_requested = TRUE], buf, "EXECUTE", "NONE")

(* Mutant: a frame of the session is applied wherever it was meant to go.   *)
ApplyAnyPlace(t, buf, f) ==
    IF ~ t.active \/ f.tid # t.tid THEN Reject(t, buf, "TRANSFER_ID")
    ELSE CASE f.type = "DATA"    -> ApplyData(t, buf, f)
           [] f.type = "COMMIT"  -> ApplyCommit(t, buf, f)
           [] f.type = "EXECUTE" -> ApplyExecute(t, buf, f)
           [] OTHER              -> Reject(t, buf, "COMMAND")

(* Mutant: a frame of another transfer is applied to the active one.        *)
ApplyAnySession(t, buf, f) ==
    IF ~ t.active THEN Reject(t, buf, "TRANSFER_ID")
    ELSE IF is_duplicate(t, f) THEN Replied(t, buf, "DUPLICATE", "NONE")
    ELSE IF f.seq # t.seq THEN Reject(t, buf, "SEQUENCE")
    ELSE IF f.off # t.off THEN Reject(t, buf, "OFFSET")
    ELSE CASE f.type = "DATA"    -> ApplyData(t, buf, f)
           [] f.type = "COMMIT"  -> ApplyCommit(t, buf, f)
           [] f.type = "EXECUTE" -> ApplyExecute(t, buf, f)
           [] OTHER              -> Reject(t, buf, "COMMAND")

(* Frames that belong to the active session.                               *)
ApplyInSession(t, buf, f) ==
    IF ~ t.active \/ f.tid # t.tid THEN Reject(t, buf, "TRANSFER_ID")
    ELSE IF is_duplicate(t, f) THEN Replied(t, buf, "DUPLICATE", "NONE")
    ELSE IF f.seq # t.seq THEN Reject(t, buf, "SEQUENCE")
    ELSE IF f.off # t.off THEN Reject(t, buf, "OFFSET")
    ELSE CASE f.type = "DATA"    -> ApplyData(t, buf, f)
           [] f.type = "COMMIT"  -> ApplyCommit(t, buf, f)
           [] f.type = "EXECUTE" -> ApplyExecute(t, buf, f)
           [] OTHER              -> Reject(t, buf, "COMMAND")

nc_transfer_apply(t, buf, f) ==
    CASE f.type = "STATUS"  -> Replied(t, buf, "STATUS_ONLY", "NONE")
      [] f.type = "START"   -> ApplyStart(t, buf, f)
      [] f.type = "PATTERN" -> ApplyPattern(t, buf, f)
      [] OTHER              -> ApplyInSession(t, buf, f)
=============================================================================
