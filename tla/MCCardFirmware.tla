---------------------------- MODULE MCCardFirmware ----------------------------
(* CardFirmware with panels of two strips, so that one may differ between   *)
(* two pictures and the other not, and so that a gray picture has a band    *)
(* before the last.  Each run takes the pictures its question needs.        *)
EXTENDS CardFirmware

Plain ==
    [tid |-> 1, format |-> "mono", clean |-> FALSE, planes |-> <<<<"W", "B">>>>,
     pattern |-> 0]
Clean ==
    [tid |-> 2, format |-> "mono", clean |-> TRUE, planes |-> <<<<"W", "W">>>>,
     pattern |-> 0]
Gray ==
    [tid |-> 3, format |-> "gray", clean |-> FALSE,
     planes |-> <<<<"W", "B">>, <<"B", "B">>>>, pattern |-> 0]
Solid ==
    [tid |-> 4, format |-> "pattern", clean |-> FALSE, planes |-> <<>>, pattern |-> 4]

MonoPictures == {Plain, Clean}
GrayPictures == {Gray, Solid}
=============================================================================
