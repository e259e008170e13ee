---------------------------- MODULE MCAndroidReader ----------------------------
(* AndroidReader with few transfers, so that a late task of one meets the    *)
(* next, and few acts of the user.                                           *)
EXTENDS AndroidReader
=============================================================================
