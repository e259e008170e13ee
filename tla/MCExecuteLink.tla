---------------------------- MODULE MCExecuteLink ----------------------------
(* ExecuteLink with a panel of one strip, a job for a white image, and      *)
(* another phone with a black mono picture and a gray one.                  *)
EXTENDS ExecuteLink

White == <<"W">>

Mine ==
    {[tid |-> id, format |-> "mono", clean |-> batch, planes |-> <<White>>,
      pattern |-> 0] : id \in 1 .. WorkLimit, batch \in BOOLEAN}
Mono ==
    {[tid |-> 20, format |-> "mono", clean |-> FALSE, planes |-> <<<<"B">>>>,
      pattern |-> 0]}
Gray ==
    {[tid |-> 21, format |-> "gray", clean |-> FALSE,
      planes |-> <<<<"B">>, <<"W">>>>, pattern |-> 0]}

Both == Mono \cup Gray
WithMono == Mine \cup Mono
WithBoth == Mine \cup Both
=============================================================================
