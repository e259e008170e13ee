---------------------------- MODULE ReaderRecovery ----------------------------
(***************************************************************************)
(* The owner of Android's Reader Mode, ReaderRecovery.kt, as operators on a  *)
(* record of its fields.  Every call is made on the main thread.  Two fields *)
(* stand for what its callbacks do: reading is the generation Reader Mode    *)
(* was last started with, 0 when it is stopped (start, stop), and timers are *)
(* the tokens of the restarts scheduled (schedule).  Tickets and generations *)
(* count from 1, so that 0 can stand for none.                               *)
(*                                                                         *)
(* NFC is switched on: start does start Reader Mode, which it would not with *)
(* NFC off or after the activity has ended.                                  *)
(***************************************************************************)
EXTENDS Naturals

NoTicket == 0

InitialReader ==
    [foreground |-> FALSE, generation |-> 0, nextTicket |-> 0,
     activeTicket |-> NoTicket, refreshPending |-> FALSE,
     restartPending |-> FALSE, recovering |-> FALSE, reading |-> 0,
     timers |-> {}]

isBusy(r) == r.activeTicket # NoTicket

\* start(++generation), and stop with a restart scheduled for ++generation.
started(r) ==
    [r EXCEPT !.generation = @ + 1, !.reading = r.generation + 1]

stopped(r) ==
    [r EXCEPT !.restartPending = FALSE, !.recovering = TRUE,
              !.generation = @ + 1, !.reading = 0,
              !.timers = @ \cup {r.generation + 1}]

(* Mutant: a refresh requested during a transfer resets the reader at once. *)
MutantRefresh(r) ==
    IF ~r.foreground THEN r
    ELSE IF r.recovering THEN [r EXCEPT !.refreshPending = TRUE]
    ELSE LET ready == [r EXCEPT !.refreshPending = FALSE] IN
         IF r.restartPending THEN stopped(ready) ELSE started(ready)

refresh(r) ==
    IF ~r.foreground THEN r
    ELSE IF isBusy(r) \/ r.recovering THEN [r EXCEPT !.refreshPending = TRUE]
    ELSE LET ready == [r EXCEPT !.refreshPending = FALSE] IN
         IF r.restartPending THEN stopped(ready) ELSE started(ready)

resume(r) == refresh([r EXCEPT !.foreground = TRUE])

pause(r) ==
    [r EXCEPT !.foreground = FALSE, !.generation = @ + 1, !.recovering = FALSE,
              !.refreshPending = TRUE, !.reading = 0]

\* The action scheduled 300 ms after a stop.
restart(r, token) ==
    LET fired == [r EXCEPT !.timers = @ \ {token}] IN
    IF ~r.foreground \/ r.generation # token \/ isBusy(r) THEN fired
    ELSE refresh([fired EXCEPT !.recovering = FALSE, !.restartPending = FALSE])

(* Mutant: a new operation goes on with the tag that is already there.      *)
MutantRequestScan(r) == [r EXCEPT !.restartPending = isBusy(r) \/ @]

requestScan(r) == refresh([r EXCEPT !.restartPending = TRUE])

accepts(r, token) == r.foreground /\ ~r.recovering /\ token = r.generation

(* Mutant: a transfer that is running does not keep another from starting.  *)
MutantMayClaim(r, token) == accepts(r, token)

mayClaim(r, token) == accepts(r, token) /\ ~isBusy(r)

claim(r) ==
    [r EXCEPT !.nextTicket = @ + 1, !.activeTicket = r.nextTicket + 1]

(* Mutant: what was put off during the transfer is forgotten with it.       *)
MutantFinish(r, ticket, again) ==
    IF r.activeTicket # ticket THEN r
    ELSE LET free == [r EXCEPT !.activeTicket = NoTicket,
                               !.restartPending = again,
                               !.refreshPending = FALSE]
         IN  IF again THEN refresh(free) ELSE free

finish(r, ticket, again) ==
    IF r.activeTicket # ticket THEN r
    ELSE LET free == [r EXCEPT !.activeTicket = NoTicket,
                               !.restartPending = @ \/ again]
         IN  IF free.refreshPending \/ free.restartPending
             THEN refresh(free)
             ELSE free
=============================================================================
