---------------------------- MODULE MCTransferLink ----------------------------
(* TransferLink with images of two chunks.  Six transfer ids are one more    *)
(* than the card, its Flash and the mailbox can hold at once.              *)
EXTENDS TransferLink
=============================================================================
