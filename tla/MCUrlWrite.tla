------------------------------ MODULE MCUrlWrite ------------------------------
(* UrlWrite with two cards and messages of two body blocks, so that a        *)
(* formatting can stop inside the body.                                     *)
EXTENDS UrlWrite
=============================================================================
