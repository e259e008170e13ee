----------------------------- MODULE AndroidReader -----------------------------
(***************************************************************************)
(* How the Android client finds a card, gives it to one transfer at a time   *)
(* and lets it go again: MainActivity.kt, ReaderRecovery and                 *)
(* TagConnectionOwner.kt.                                                    *)
(*                                                                           *)
(* Three kinds of threads run: the main thread (lifecycle, buttons, posted   *)
(* tasks and timers, each one step here), one worker for each ticket, and    *)
(* the coroutine that closes the connection of a cancelled transfer.  Posted *)
(* tasks may run in any order, which allows more than the main thread's      *)
(* queue does.  What a worker sends is left out: each of its connections     *)
(* succeeds or fails at any point.  So are the third and fourth connection   *)
(* of a URL write and the end of the activity.                               *)
(***************************************************************************)
EXTENDS ReaderRecovery, FiniteSets

CONSTANTS
    TicketLimit,   \* bound: transfers
    UserLimit      \* bound: times the user pauses, presses a button or dismisses

ASSUME LimitsAssumption == TicketLimit \in Nat /\ UserLimit \in Nat

Ticket == 1 .. TicketLimit
Connection == {1, 2}    \* the NfcV of the detection; Ndef or the NfcV after it
NoConnection == 0
NotClosing == [ticket |-> NoTicket, connection |-> NoConnection]

VARIABLES
    reader,        \* ReaderRecovery
    posted,        \* tasks posted to the main thread
    waiting,       \* tasks to be posted when closing is done
    wanted,        \* pendingMode is not MODE_NONE
    at,            \* where the worker of each ticket is
    connection,    \* the connection it has come to
    active,        \* TagConnectionOwner.active of its owner
    cancelled,     \* its owner and its job are cancelled
    opened,        \* its connections the NFC service holds open
    closing,       \* closingConnection, the last close that was begun
    closers,       \* the closes that are running
    acts,          \* what the user has done, against UserLimit
    asked          \* history: the generation when a scan was last requested

workers == <<at, connection, active, cancelled, opened>>
vars == <<reader, posted, waiting, wanted, workers, closing, closers, acts, asked>>

TagTask(generation) == [kind |-> "tag", generation |-> generation]
FinishTask(ticket, again) == [kind |-> "finish", ticket |-> ticket, again |-> again]
RefreshTask == [kind |-> "refresh"]

Place == {"none", "start", "attached", "connecting", "connected", "releasing",
          "closing", "done"}

Running(t) == at[t] \notin {"none", "done"}
Closing(t) == \E c \in closers : c.ticket = t

Init ==
    /\ reader = InitialReader
    /\ posted = {}
    /\ waiting = {}
    /\ wanted = FALSE
    /\ at = [t \in Ticket |-> "none"]
    /\ connection = [t \in Ticket |-> 1]
    /\ active = [t \in Ticket |-> NoConnection]
    /\ cancelled = [t \in Ticket |-> FALSE]
    /\ opened = [t \in Ticket |-> {}]
    /\ closing = NotClosing
    /\ closers = {}
    /\ acts = 0
    /\ asked = 0

-----------------------------------------------------------------------------
(* The user. *)

UserActs == acts < UserLimit /\ acts' = acts + 1

onResume ==
    /\ ~reader.foreground
    /\ reader' = resume(reader)
    /\ UNCHANGED <<posted, waiting, wanted, workers, closing, closers, acts, asked>>

(* Mutant: cancelling gives up the ownership of the connection.             *)
MutantCancelActiveTransfer ==
    LET t == reader.activeTicket IN
    IF t \in Ticket /\ ~cancelled[t]
    THEN /\ cancelled' = [cancelled EXCEPT ![t] = TRUE]
         /\ active' = [active EXCEPT ![t] = NoConnection]
         /\ LET c == [ticket |-> t, connection |-> active[t]] IN
            IF active[t] = NoConnection
            THEN UNCHANGED <<closing, closers>>
            ELSE closing' = c /\ closers' = closers \cup {c}
         /\ UNCHANGED <<at, connection, opened>>
    ELSE UNCHANGED <<workers, closing, closers>>

(* cancelActiveTransfer, with TagConnectionOwner.cancel: the connection is   *)
(* closed on another thread, and the worker goes on owning it.               *)
cancelActiveTransfer ==
    LET t == reader.activeTicket IN
    IF t \in Ticket /\ ~cancelled[t]
    THEN /\ cancelled' = [cancelled EXCEPT ![t] = TRUE]
         /\ LET c == [ticket |-> t, connection |-> active[t]] IN
            IF active[t] = NoConnection
            THEN UNCHANGED <<closing, closers>>
            ELSE closing' = c /\ closers' = closers \cup {c}
         /\ UNCHANGED <<at, connection, active, opened>>
    ELSE UNCHANGED <<workers, closing, closers>>

onPause ==
    /\ reader.foreground
    /\ UserActs
    /\ reader' = pause(reader)
    /\ cancelActiveTransfer
    /\ UNCHANGED <<posted, waiting, wanted, asked>>

\* The buttons that choose what to do with the next card.
requestNfcScan ==
    /\ reader.foreground
    /\ UserActs
    /\ wanted' = TRUE
    /\ reader' = requestScan(reader)
    /\ asked' = reader.generation
    /\ UNCHANGED <<posted, waiting, workers, closing, closers>>

onDismissWriteProgress ==
    /\ reader.foreground
    /\ wanted /\ ~isBusy(reader)
    /\ UserActs
    /\ wanted' = FALSE
    /\ posted' = posted \cup {RefreshTask}
    /\ UNCHANGED <<reader, waiting, workers, closing, closers, asked>>

\* The card comes into the field of a reader that is on.
TagDetected ==
    LET tags == {task \in posted : task.kind = "tag"} IN
    /\ reader.reading # 0
    /\ reader.nextTicket + Cardinality(tags) < TicketLimit
    /\ posted' = posted \cup {TagTask(reader.reading)}
    /\ UNCHANGED <<reader, waiting, wanted, workers, closing, closers, acts, asked>>

-----------------------------------------------------------------------------
(* Tasks of the main thread. *)

Run(task) == task \in posted /\ posted' = posted \ {task}

handleTag ==
    \E task \in posted :
        /\ task.kind = "tag"
        /\ reader.nextTicket < TicketLimit
        /\ Run(task)
        /\ IF wanted /\ mayClaim(reader, task.generation)
           THEN /\ reader' = claim(reader)
                /\ at' = [at EXCEPT ![reader'.activeTicket] = "start"]
           ELSE UNCHANGED <<reader, at>>
        /\ UNCHANGED <<waiting, wanted, connection, active, cancelled, opened,
                       closing, closers, acts, asked>>

(* Mutant: the transfer is finished while its connection is being closed.   *)
MutantFinishTransfer ==
    \E task \in posted :
        /\ task.kind = "finish"
        /\ Run(task)
        /\ reader' = finish(reader, task.ticket, task.again)
        /\ closing' = IF task.ticket = reader.activeTicket THEN NotClosing ELSE closing
        /\ UNCHANGED <<waiting, wanted, workers, closers, acts, asked>>

finishTransfer ==
    \E task \in posted :
        /\ task.kind = "finish"
        /\ Run(task)
        /\ IF task.ticket = reader.activeTicket /\ closing \in closers
           THEN /\ waiting' = waiting \cup {task}
                /\ UNCHANGED <<reader, closing>>
           ELSE /\ reader' = finish(reader, task.ticket, task.again)
                /\ closing' = IF task.ticket = reader.activeTicket
                              THEN NotClosing
                              ELSE closing
                /\ UNCHANGED waiting
        /\ UNCHANGED <<wanted, workers, closers, acts, asked>>

refreshReaderMode ==
    /\ Run(RefreshTask)
    /\ reader' = refresh(reader)
    /\ UNCHANGED <<waiting, wanted, workers, closing, closers, acts, asked>>

Timer ==
    /\ \E token \in reader.timers : reader' = restart(reader, token)
    /\ UNCHANGED <<posted, waiting, wanted, workers, closing, closers, acts, asked>>

CloseConnection ==
    \E c \in closers :
        /\ opened' = [opened EXCEPT ![c.ticket] = @ \ {c.connection}]
        /\ closers' = closers \ {c}
        /\ posted' = posted \cup waiting
        /\ waiting' = {}
        /\ UNCHANGED <<reader, wanted, at, connection, active, cancelled, closing,
                       acts, asked>>

-----------------------------------------------------------------------------
(* The worker of ticket t. *)

Goto(t, place) == at' = [at EXCEPT ![t] = place]

\* The job completes: finishTransfer is posted, by a URL write refresh as well.
Complete(t) ==
    /\ Goto(t, "done")
    /\ \E again \in BOOLEAN, refreshes \in SUBSET {RefreshTask} :
           posted' = posted \cup refreshes \cup {FinishTask(t, again)}
    /\ wanted' \in {wanted, FALSE}

(* ensureActive and attach: once the owner is cancelled the connection is    *)
(* closed and the worker unwinds.                                            *)
Attach(t) ==
    /\ at[t] = "start"
    /\ \/ /\ cancelled[t]
          /\ opened' = [opened EXCEPT ![t] = @ \ {connection[t]}]
          /\ Complete(t)
          /\ UNCHANGED active
       \/ /\ ~cancelled[t]
          /\ active' = [active EXCEPT ![t] = connection[t]]
          /\ Goto(t, "attached")
          /\ UNCHANGED <<opened, posted, wanted>>
    /\ UNCHANGED connection

\* ensureActive, then connect, which blocks and may race a close.
Connect(t) ==
    /\ at[t] = "attached"
    /\ Goto(t, IF cancelled[t] THEN "releasing" ELSE "connecting")
    /\ UNCHANGED <<connection, active, opened, posted, wanted>>

Connected(t) ==
    /\ at[t] = "connecting"
    /\ \/ /\ opened' = [opened EXCEPT ![t] = @ \cup {connection[t]}]
          /\ Goto(t, "connected")
       \/ /\ Goto(t, "releasing")
          /\ UNCHANGED opened
    /\ UNCHANGED <<connection, active, posted, wanted>>

\* Its work over this connection ends, well or not.
Work(t) ==
    /\ at[t] = "connected"
    /\ Goto(t, "releasing")
    /\ UNCHANGED <<connection, active, opened, posted, wanted>>

Release(t) ==
    /\ at[t] = "releasing"
    /\ active' = [active EXCEPT ![t] = NoConnection]
    /\ IF active[t] = connection[t]
       THEN Goto(t, "closing") /\ UNCHANGED <<posted, wanted>>
       ELSE Complete(t)
    /\ UNCHANGED <<connection, opened>>

(* Released, the connection is closed; a URL write goes on with another.     *)
Close(t) ==
    /\ at[t] = "closing"
    /\ opened' = [opened EXCEPT ![t] = @ \ {connection[t]}]
    /\ \/ Complete(t) /\ UNCHANGED connection
       \/ /\ connection[t] = 1
          /\ connection' = [connection EXCEPT ![t] = 2]
          /\ Goto(t, "start")
          /\ UNCHANGED <<posted, wanted>>
    /\ UNCHANGED active

Worker(t) ==
    /\ \/ Attach(t) \/ Connect(t) \/ Connected(t) \/ Work(t) \/ Release(t)
       \/ Close(t)
    /\ UNCHANGED <<reader, waiting, cancelled, closing, closers, acts, asked>>

-----------------------------------------------------------------------------
MainThread == handleTag \/ finishTransfer \/ refreshReaderMode \/ Timer

User == onResume \/ onPause \/ requestNfcScan \/ onDismissWriteProgress

Next ==
    \/ User \/ TagDetected \/ MainThread \/ CloseConnection
    \/ \E t \in Ticket : Worker(t)

(* The main thread runs what is posted and its timers, a blocking call of a  *)
(* worker returns, and close does.  Nothing is assumed of the user or of the *)
(* card.                                                                     *)
Spec ==
    /\ Init /\ [][Next]_vars
    /\ WF_vars(handleTag) /\ WF_vars(finishTransfer)
    /\ WF_vars(refreshReaderMode) /\ WF_vars(Timer)
    /\ WF_vars(CloseConnection)
    /\ \A t \in Ticket : WF_vars(Worker(t))

-----------------------------------------------------------------------------
(* A transfer is admitted only when nothing is left of the ones before it:   *)
(* no worker running, no connection open or being closed (finishTransfer:    *)
(* "Finish cleanup before admitting a new transfer").                        *)
OneTransferAtATime ==
    \A t \in Ticket :
        reader.activeTicket # t => ~Running(t) /\ opened[t] = {} /\ ~Closing(t)

(* attach never finds another connection of its transfer still there, and    *)
(* what a worker has open it still owns, so that it will close it.           *)
OpenIsOwned ==
    \A t \in Ticket :
        /\ at[t] = "start" => active[t] = NoConnection
        /\ \A c \in opened[t] :
               active[t] = c \/ (at[t] = "closing" /\ connection[t] = c)

(* Nothing but leaving the app resets the reader, and with it the field that *)
(* powers the card, while a transfer runs.                                   *)
FieldKeptDuringTransfer ==
    [][isBusy(reader) /\ isBusy(reader)' /\ reader'.reading # reader.reading
           => ~reader'.foreground]_vars

(* A card found before the user asked for something is not used for it.      *)
FreshCardOnly ==
    [][~isBusy(reader) /\ isBusy(reader)' => reader.generation > asked]_vars

(* When the user leaves it alone the reader in the foreground ends on, with  *)
(* the newest generation, and newer than the last request: no refresh or     *)
(* restart put off during a transfer, a pause or a restart is lost.          *)
ReaderSettles ==
    <>[](reader.foreground =>
            /\ reader.reading = reader.generation
            /\ reader.reading > asked
            /\ ~reader.recovering
            /\ ~isBusy(reader))
=============================================================================
