-------------------------- MODULE AndroidReader_proofs --------------------------
(***************************************************************************)
(* Proof that the Android client runs one transfer at a time, whatever the   *)
(* user, the card and the order of posted tasks do: the worker of a ticket,  *)
(* the connections it opened and the close of a cancelled one are over       *)
(* before the next ticket is given out.                                      *)
(***************************************************************************)
EXTENDS AndroidReader, TLAPS

Task ==
    [kind : {"tag"}, generation : Nat]
        \cup [kind : {"finish"}, ticket : Ticket, again : BOOLEAN]
        \cup [kind : {"refresh"}]

ReaderType ==
    [foreground : BOOLEAN, generation : Nat, nextTicket : Nat, activeTicket : Nat,
     refreshPending : BOOLEAN, restartPending : BOOLEAN, recovering : BOOLEAN,
     reading : Nat, timers : SUBSET Nat]

CloseJob == [ticket : Ticket, connection : Connection]

Types ==
    /\ reader \in ReaderType
    /\ reader.activeTicket \in Ticket \cup {NoTicket}
    /\ posted \in SUBSET Task
    /\ waiting \in SUBSET Task
    /\ wanted \in BOOLEAN
    /\ at \in [Ticket -> Place]
    /\ connection \in [Ticket -> Connection]
    /\ active \in [Ticket -> Connection \cup {NoConnection}]
    /\ cancelled \in [Ticket -> BOOLEAN]
    /\ opened \in [Ticket -> SUBSET Connection]
    /\ closers \in SUBSET CloseJob

\* Whose turn it is: a worker runs only under the active ticket.
TurnInv ==
    /\ reader.activeTicket <= reader.nextTicket
    /\ \A t \in Ticket :
           /\ t > reader.nextTicket => at[t] = "none" /\ ~cancelled[t] /\ connection[t] = 1
           /\ t <= reader.nextTicket => at[t] # "none"
           /\ Running(t) => reader.activeTicket = t
    /\ \A task \in posted \cup waiting :
           task.kind = "finish" => at[task.ticket] = "done"

\* What a worker has open is the connection it has come to and still owns.
ConnectionInv ==
    \A t \in Ticket :
        /\ active[t] # NoConnection <=>
               at[t] \in {"attached", "connecting", "connected", "releasing"}
        /\ active[t] \in {NoConnection, connection[t]}
        /\ opened[t] \subseteq {connection[t]}
        /\ opened[t] # {} => at[t] \in {"connected", "releasing", "closing"}

\* A close runs for the active ticket, and is the one MainActivity knows of.
CloseInv ==
    \A c \in closers :
        /\ c = closing
        /\ c.ticket = reader.activeTicket
        /\ cancelled[c.ticket]

TransferInv == Types /\ TurnInv /\ ConnectionInv /\ CloseInv

USE LimitsAssumption
USE DEF Ticket, NoTicket, NoConnection, Connection, Task, ReaderType, CloseJob,
        Place, Running

-----------------------------------------------------------------------------
(* What the calls of ReaderRecovery leave of tickets.                        *)

LEMMA RefreshKeepsTickets ==
  ASSUME NEW r \in ReaderType
  PROVE  /\ refresh(r) \in ReaderType
         /\ refresh(r).activeTicket = r.activeTicket
         /\ refresh(r).nextTicket = r.nextTicket
         /\ isBusy(r) => refresh(r).reading = r.reading
<1>1. r.generation \in Nat /\ r.timers \in SUBSET Nat
  OBVIOUS
<1>2. r.generation + 1 \in Nat /\ r.timers \cup {r.generation + 1} \in SUBSET Nat
  BY <1>1
<1>3. ASSUME NEW q \in ReaderType, q.generation = r.generation, q.timers = r.timers,
             q.activeTicket = r.activeTicket, q.nextTicket = r.nextTicket
      PROVE  \A s \in {started(q), stopped(q)} :
                 s \in ReaderType /\ s.activeTicket = r.activeTicket
                     /\ s.nextTicket = r.nextTicket
  <2>1. q.generation + 1 \in Nat /\ q.timers \cup {q.generation + 1} \in SUBSET Nat
    BY <1>2, <1>3
  <2>2. started(q) \in ReaderType /\ started(q).activeTicket = r.activeTicket
          /\ started(q).nextTicket = r.nextTicket
    BY <1>3, <2>1 DEF started
  <2>3. DEFINE ids == q.timers \cup {q.generation + 1}
  <2>4. stopped(q) = [q EXCEPT !.restartPending = FALSE, !.recovering = TRUE,
                               !.generation = q.generation + 1, !.reading = 0,
                               !.timers = ids]
    BY DEF stopped
  <2>5. stopped(q) \in ReaderType
    <3>1. ids \in SUBSET Nat
      BY <2>1
    <3> HIDE DEF ids
    <3> DEFINE s == [q EXCEPT !.restartPending = FALSE, !.recovering = TRUE,
                              !.generation = q.generation + 1, !.reading = 0]
    <3>2. s \in ReaderType
      BY <1>3, <2>1
    <3>3. [s EXCEPT !.timers = ids] \in ReaderType
      <4> HIDE DEF s
      <4> QED BY <3>1, <3>2
    <3>4. stopped(q) = [s EXCEPT !.timers = ids]
      BY <2>4
    <3> QED
      BY <3>3, <3>4
  <2>6. stopped(q).activeTicket = r.activeTicket /\ stopped(q).nextTicket = r.nextTicket
    BY <1>3, <2>4
  <2> QED
    BY <2>2, <2>5, <2>6
<1>4. \A b \in BOOLEAN :
          LET q == [r EXCEPT !.refreshPending = b] IN
          /\ q \in ReaderType /\ q.generation = r.generation /\ q.timers = r.timers
          /\ q.activeTicket = r.activeTicket /\ q.nextTicket = r.nextTicket
          /\ q.reading = r.reading
  OBVIOUS
<1> QED
  BY <1>3, <1>4 DEF refresh, isBusy

LEMMA CallsKeepTickets ==
  ASSUME NEW r \in ReaderType, NEW token \in Nat
  PROVE  \A s \in {resume(r), pause(r), requestScan(r), restart(r, token)} :
             /\ s \in ReaderType
             /\ s.activeTicket = r.activeTicket
             /\ s.nextTicket = r.nextTicket
<1>1. /\ [r EXCEPT !.foreground = TRUE] \in ReaderType
      /\ [r EXCEPT !.restartPending = TRUE] \in ReaderType
      /\ [r EXCEPT !.timers = @ \ {token}] \in ReaderType
      /\ [[r EXCEPT !.timers = @ \ {token}] EXCEPT !.recovering = FALSE,
                    !.restartPending = FALSE] \in ReaderType
  OBVIOUS
<1>2. resume(r) \in ReaderType /\ resume(r).activeTicket = r.activeTicket
        /\ resume(r).nextTicket = r.nextTicket
  BY <1>1, RefreshKeepsTickets DEF resume
<1>3. pause(r) \in ReaderType /\ pause(r).activeTicket = r.activeTicket
        /\ pause(r).nextTicket = r.nextTicket
  <2>1. r.generation + 1 \in Nat
    OBVIOUS
  <2> QED
    BY <2>1 DEF pause
<1>4. requestScan(r) \in ReaderType /\ requestScan(r).activeTicket = r.activeTicket
        /\ requestScan(r).nextTicket = r.nextTicket
  BY <1>1, RefreshKeepsTickets DEF requestScan
<1>5. restart(r, token) \in ReaderType /\ restart(r, token).activeTicket = r.activeTicket
        /\ restart(r, token).nextTicket = r.nextTicket
  <2> DEFINE fired == [r EXCEPT !.timers = @ \ {token}]
             again == [fired EXCEPT !.recovering = FALSE, !.restartPending = FALSE]
  <2>1. refresh(again) \in ReaderType
          /\ refresh(again).activeTicket = again.activeTicket
          /\ refresh(again).nextTicket = again.nextTicket
    BY <1>1, RefreshKeepsTickets
  <2>2. /\ again.activeTicket = r.activeTicket /\ again.nextTicket = r.nextTicket
        /\ fired.activeTicket = r.activeTicket /\ fired.nextTicket = r.nextTicket
    OBVIOUS
  <2>3. restart(r, token) = fired \/ restart(r, token) = refresh(again)
    BY DEF restart
  <2> QED
    BY <1>1, <2>1, <2>2, <2>3
<1> QED
  BY <1>2, <1>3, <1>4, <1>5

LEMMA FinishFreesTicket ==
  ASSUME NEW r \in ReaderType, NEW t \in Nat, NEW again \in BOOLEAN
  PROVE  /\ finish(r, t, again) \in ReaderType
         /\ finish(r, t, again).nextTicket = r.nextTicket
         /\ finish(r, t, again).activeTicket =
                IF r.activeTicket = t THEN NoTicket ELSE r.activeTicket
<1> DEFINE free == [r EXCEPT !.activeTicket = NoTicket, !.restartPending = @ \/ again]
<1>1. free \in ReaderType /\ free.activeTicket = NoTicket /\ free.nextTicket = r.nextTicket
  OBVIOUS
<1>2. /\ refresh(free) \in ReaderType
      /\ refresh(free).activeTicket = NoTicket
      /\ refresh(free).nextTicket = r.nextTicket
  BY <1>1, RefreshKeepsTickets
<1> QED
  BY <1>1, <1>2 DEF finish

-----------------------------------------------------------------------------
(* Every step preserves the invariant. *)

LEMMA InitTransfer == Init => TransferInv
<1> SUFFICES ASSUME Init PROVE TransferInv
  OBVIOUS
<1>1. InitialReader \in ReaderType
  BY DEF InitialReader
<1>2. Types
  BY <1>1 DEF Init, Types, InitialReader
<1>3. TurnInv
  BY DEF Init, TurnInv, InitialReader
<1>4. ConnectionInv
  BY DEF Init, ConnectionInv
<1>5. CloseInv
  BY DEF Init, CloseInv
<1> QED
  BY <1>2, <1>3, <1>4, <1>5 DEF TransferInv

\* A step of the main thread that gives out no ticket and frees none.
LEMMA ReaderStep ==
  ASSUME TransferInv,
         reader' \in ReaderType,
         reader'.activeTicket = reader.activeTicket,
         reader'.nextTicket = reader.nextTicket,
         wanted' \in BOOLEAN,
         posted' \in SUBSET Task,
         \A task \in posted' : task \in posted \/ task.kind # "finish",
         UNCHANGED <<waiting, workers, closing, closers>>
  PROVE  TransferInv'
<1> USE DEF TransferInv, workers
<1>1. Types'
  BY DEF Types
<1>2. TurnInv'
  BY DEF TurnInv, Types
<1>3. ConnectionInv'
  BY DEF ConnectionInv
<1>4. CloseInv'
  BY DEF CloseInv
<1> QED
  BY <1>1, <1>2, <1>3, <1>4

LEMMA UserKeeps == TransferInv /\ (onResume \/ requestNfcScan \/ onDismissWriteProgress) => TransferInv'
<1> SUFFICES ASSUME TransferInv, onResume \/ requestNfcScan \/ onDismissWriteProgress
             PROVE  TransferInv'
  OBVIOUS
<1> reader \in ReaderType /\ posted \in SUBSET Task /\ wanted \in BOOLEAN
  BY DEF TransferInv, Types
<1>1. CASE onResume
  BY <1>1, CallsKeepTickets, ReaderStep, 0 \in Nat DEF onResume
<1>2. CASE requestNfcScan
  BY <1>2, CallsKeepTickets, ReaderStep, 0 \in Nat DEF requestNfcScan
<1>3. CASE onDismissWriteProgress
  <2>1. RefreshTask \in Task /\ RefreshTask.kind # "finish"
    BY DEF RefreshTask
  <2>2. posted' \in SUBSET Task /\ \A task \in posted' : task \in posted \/ task.kind # "finish"
    BY <1>3, <2>1 DEF onDismissWriteProgress
  <2> QED
    BY <1>3, <2>2, ReaderStep DEF onDismissWriteProgress
<1> QED
  BY <1>1, <1>2, <1>3

LEMMA PauseKeeps == TransferInv /\ onPause => TransferInv'
<1> SUFFICES ASSUME TransferInv, onPause PROVE TransferInv'
  OBVIOUS
<1> USE DEF TransferInv, workers
<1>1. /\ reader' \in ReaderType
      /\ reader'.activeTicket = reader.activeTicket
      /\ reader'.nextTicket = reader.nextTicket
  BY CallsKeepTickets, 0 \in Nat DEF onPause, Types
<1> DEFINE t == reader.activeTicket
           c == [ticket |-> t, connection |-> active[t]]
<1>2. UNCHANGED <<posted, waiting, wanted>>
  BY DEF onPause
<1>3. CASE ~(t \in Ticket /\ ~cancelled[t])
  BY <1>1, <1>2, <1>3, ReaderStep DEF onPause, cancelActiveTransfer, Types
<1>4. CASE t \in Ticket /\ ~cancelled[t]
  <2>1. /\ cancelled' = [cancelled EXCEPT ![t] = TRUE]
        /\ UNCHANGED <<at, connection, active, opened>>
        /\ \/ active[t] = NoConnection /\ UNCHANGED <<closing, closers>>
           \/ active[t] # NoConnection /\ closing' = c /\ closers' = closers \cup {c}
    BY <1>4 DEF onPause, cancelActiveTransfer
  <2>2. closers = {}
    BY <1>4 DEF CloseInv
  <2>3. Types'
    <3>1. closers' \in SUBSET CloseJob
      BY <1>4, <2>1, <2>2 DEF Types
    <3>2. cancelled' \in [Ticket -> BOOLEAN]
      BY <2>1 DEF Types
    <3> QED
      BY <1>1, <1>2, <2>1, <3>1, <3>2 DEF Types
  <2>4. TurnInv'
    <3>1. t <= reader.nextTicket
      BY DEF TurnInv
    <3> QED
      BY <1>1, <1>2, <1>4, <2>1, <3>1 DEF TurnInv, Types
  <2>5. ConnectionInv'
    BY <2>1 DEF ConnectionInv
  <2>6. CloseInv'
    BY <1>1, <1>4, <2>1, <2>2 DEF CloseInv, Types
  <2> QED
    BY <2>3, <2>4, <2>5, <2>6
<1> QED
  BY <1>3, <1>4

LEMMA DetectKeeps == TransferInv /\ TagDetected => TransferInv'
<1> SUFFICES ASSUME TransferInv, TagDetected PROVE TransferInv'
  OBVIOUS
<1>1. reader.reading \in Nat /\ reader \in ReaderType /\ wanted \in BOOLEAN
        /\ posted \in SUBSET Task
  BY DEF TransferInv, Types
<1>2. TagTask(reader.reading) \in Task /\ TagTask(reader.reading).kind # "finish"
  BY <1>1 DEF TagTask
<1>3. posted' \in SUBSET Task /\ \A task \in posted' : task \in posted \/ task.kind # "finish"
  BY <1>1, <1>2 DEF TagDetected
<1> QED
  BY <1>1, <1>3, ReaderStep DEF TagDetected

LEMMA TagKeeps == TransferInv /\ handleTag => TransferInv'
<1> SUFFICES ASSUME TransferInv, NEW task \in posted,
                    task.kind = "tag", reader.nextTicket < TicketLimit, Run(task),
                    IF wanted /\ mayClaim(reader, task.generation)
                    THEN /\ reader' = claim(reader)
                         /\ at' = [at EXCEPT ![reader'.activeTicket] = "start"]
                    ELSE UNCHANGED <<reader, at>>,
                    UNCHANGED <<waiting, wanted, connection, active, cancelled, opened,
                                closing, closers>>
             PROVE  TransferInv'
  BY DEF handleTag
<1> USE DEF TransferInv
<1>1. posted' \in SUBSET Task /\ posted' \subseteq posted /\ reader \in ReaderType
        /\ wanted' \in BOOLEAN
  BY DEF Run, Types
<1>2. CASE UNCHANGED <<reader, at>>
  BY <1>1, <1>2, ReaderStep DEF workers
<1>3. CASE /\ mayClaim(reader, task.generation)
           /\ reader' = claim(reader)
           /\ at' = [at EXCEPT ![reader'.activeTicket] = "start"]
  <2> DEFINE n == reader.nextTicket + 1
  <2>1. n \in Ticket /\ n > reader.nextTicket
    BY <1>1
  <2>2. /\ reader' \in ReaderType
        /\ reader'.activeTicket = n
        /\ reader'.nextTicket = n
        /\ reader.activeTicket = NoTicket
    <3>1. reader' = [reader EXCEPT !.nextTicket = n, !.activeTicket = n]
      BY <1>3 DEF claim
    <3>2. n \in Nat
      BY <2>1
    <3> QED
      BY <1>1, <1>3, <3>1, <3>2 DEF mayClaim, isBusy
  <2>3. at' = [at EXCEPT ![n] = "start"]
    BY <1>3, <2>2
  <2>4. closers = {}
    BY <2>2 DEF CloseInv, Types
  <2>5. at[n] = "none" /\ ~cancelled[n] /\ connection[n] = 1
    BY <2>1 DEF TurnInv
  <2>6. Types'
    BY <1>1, <2>1, <2>2, <2>3 DEF Types
  <2>7. TurnInv'
    <3>1. \A u \in Ticket : u > n => u > reader.nextTicket
      BY <2>1, <1>1
    <3>2. \A u \in Ticket : u <= n => u = n \/ u <= reader.nextTicket
      BY <2>1, <1>1
    <3>3. \A u \in Ticket : u # n => at'[u] = at[u] /\ ~Running(u)
      BY <2>2, <2>3 DEF TurnInv, Types
    <3>4. at'[n] = "start"
      BY <2>1, <2>3 DEF Types
    <3>5. \A other \in posted' \cup waiting' :
              other.kind = "finish" => other.ticket \in Ticket /\ other.ticket # n
                                           /\ at[other.ticket] = "done"
      BY <1>1, <2>5 DEF TurnInv, Types
    <3>6. \A u \in Ticket : u > n => u # n
      BY <2>1, <1>1
    <3>7. \A u \in Ticket :
              /\ u > n => at'[u] = "none" /\ ~cancelled'[u] /\ connection'[u] = 1
              /\ u <= n => at'[u] # "none"
              /\ Running(u)' => n = u
      BY <3>1, <3>2, <3>3, <3>4, <3>6 DEF TurnInv
    <3>8. n <= n
      BY <2>1
    <3>9. \A other \in posted' \cup waiting' :
              other.kind = "finish" => at'[other.ticket] = "done"
      BY <3>3, <3>5
    <3> QED
      BY <2>2, <3>7, <3>8, <3>9 DEF TurnInv
  <2>8. ConnectionInv'
    BY <2>1, <2>3, <2>5 DEF ConnectionInv, Types
  <2>9. CloseInv'
    BY <2>4 DEF CloseInv
  <2> QED
    BY <2>6, <2>7, <2>8, <2>9
<1> QED
  BY <1>2, <1>3

LEMMA FinishKeeps == TransferInv /\ finishTransfer => TransferInv'
<1> SUFFICES ASSUME TransferInv, NEW task \in posted, task.kind = "finish", Run(task),
                    IF task.ticket = reader.activeTicket /\ closing \in closers
                    THEN /\ waiting' = waiting \cup {task}
                         /\ UNCHANGED <<reader, closing>>
                    ELSE /\ reader' = finish(reader, task.ticket, task.again)
                         /\ closing' = IF task.ticket = reader.activeTicket
                                       THEN NotClosing
                                       ELSE closing
                         /\ UNCHANGED waiting,
                    UNCHANGED <<wanted, at, connection, active, cancelled, opened, closers>>
             PROVE  TransferInv'
  BY DEF finishTransfer, workers
<1> USE DEF TransferInv
<1>1. /\ reader \in ReaderType
      /\ task \in [kind : {"finish"}, ticket : Ticket, again : BOOLEAN]
      /\ at[task.ticket] = "done"
      /\ posted' \subseteq posted /\ posted' \in SUBSET Task
  BY DEF Types, TurnInv, Run
<1>2. CASE task.ticket = reader.activeTicket /\ closing \in closers
  <2>1. waiting' = waiting \cup {task} /\ UNCHANGED <<reader, closing>>
    BY <1>2
  <2>2. Types'
    BY <1>1, <2>1 DEF Types
  <2>3. TurnInv'
    BY <1>1, <2>1 DEF TurnInv
  <2>4. ConnectionInv' /\ CloseInv'
    BY <2>1 DEF ConnectionInv, CloseInv
  <2> QED
    BY <2>2, <2>3, <2>4
<1>3. CASE ~(task.ticket = reader.activeTicket /\ closing \in closers)
  <2> DEFINE mine == task.ticket = reader.activeTicket
  <2>1. /\ reader' = finish(reader, task.ticket, task.again)
        /\ closing' = IF mine THEN NotClosing ELSE closing
        /\ UNCHANGED waiting
    BY <1>3
  <2>2. task.ticket \in Nat /\ task.ticket # NoTicket /\ task.again \in BOOLEAN
    BY <1>1
  <2>3. /\ reader' \in ReaderType
        /\ reader'.nextTicket = reader.nextTicket
        /\ reader'.activeTicket = IF mine THEN NoTicket ELSE reader.activeTicket
    BY <1>1, <2>1, <2>2, FinishFreesTicket
  <2>4. mine => closers = {}
    BY <1>3 DEF CloseInv
  <2>5. Types'
    BY <1>1, <2>1, <2>3 DEF Types
  <2>6. TurnInv'
    <3>1. \A u \in Ticket : Running(u) => reader.activeTicket = u /\ ~mine
      BY <1>1 DEF TurnInv
    <3>2. reader'.activeTicket <= reader'.nextTicket
      BY <1>1, <2>3 DEF TurnInv
    <3> QED
      BY <1>1, <2>1, <2>3, <3>1, <3>2 DEF TurnInv
  <2>7. ConnectionInv'
    BY DEF ConnectionInv
  <2>8. CloseInv'
    BY <2>1, <2>3, <2>4 DEF CloseInv
  <2> QED
    BY <2>5, <2>6, <2>7, <2>8
<1> QED
  BY <1>2, <1>3

LEMMA MainKeeps == TransferInv /\ (refreshReaderMode \/ Timer) => TransferInv'
<1> SUFFICES ASSUME TransferInv, refreshReaderMode \/ Timer PROVE TransferInv'
  OBVIOUS
<1>1. reader \in ReaderType /\ posted \in SUBSET Task /\ wanted \in BOOLEAN
  BY DEF TransferInv, Types
<1>2. CASE refreshReaderMode
  <2>1. posted' \subseteq posted
    BY <1>2 DEF refreshReaderMode, Run
  <2> QED
    BY <1>1, <1>2, <2>1, RefreshKeepsTickets, ReaderStep DEF refreshReaderMode
<1>3. CASE Timer
  <2>1. PICK token \in reader.timers : reader' = restart(reader, token)
    BY <1>3 DEF Timer
  <2>2. token \in Nat
    BY <1>1
  <2>3. /\ reader' \in ReaderType
        /\ reader'.activeTicket = reader.activeTicket
        /\ reader'.nextTicket = reader.nextTicket
    BY <1>1, <2>1, <2>2, CallsKeepTickets
  <2> QED
    BY <1>1, <1>3, <2>3, ReaderStep DEF Timer
<1> QED
  BY <1>2, <1>3

LEMMA CloseKeeps == TransferInv /\ CloseConnection => TransferInv'
<1> SUFFICES ASSUME TransferInv, NEW c \in closers,
                    opened' = [opened EXCEPT ![c.ticket] = @ \ {c.connection}],
                    closers' = closers \ {c},
                    posted' = posted \cup waiting,
                    waiting' = {},
                    UNCHANGED <<reader, wanted, at, connection, active, cancelled, closing>>
             PROVE  TransferInv'
  BY DEF CloseConnection
<1> USE DEF TransferInv
<1>1. \A t \in Ticket : opened'[t] \subseteq opened[t]
  BY DEF Types
<1>2. Types'
  BY <1>1 DEF Types
<1>3. TurnInv'
  BY DEF TurnInv
<1>4. ConnectionInv'
  BY <1>1 DEF ConnectionInv
<1>5. CloseInv'
  BY DEF CloseInv
<1> QED
  BY <1>2, <1>3, <1>4, <1>5

\* A step of the worker of ticket t, which keeps what it has open its own.
StepOf(t, place, conn, own, open) ==
    /\ at[t] \notin {"none", "done"}
    /\ place \in Place \ {"none"} /\ Goto(t, place)
    /\ conn \in Connection /\ connection' = [connection EXCEPT ![t] = conn]
    /\ own \in {NoConnection, conn} /\ active' = [active EXCEPT ![t] = own]
    /\ open \in SUBSET {conn} /\ opened' = [opened EXCEPT ![t] = open]
    /\ own # NoConnection <=>
           place \in {"attached", "connecting", "connected", "releasing"}
    /\ open # {} => place \in {"connected", "releasing", "closing"}
    /\ posted' \in SUBSET Task
    /\ \A task \in posted' :
           task \in posted \/
               (task.kind = "finish" => task.ticket = t /\ place = "done")
    /\ wanted' \in BOOLEAN
    /\ UNCHANGED <<reader, waiting, cancelled, closing, closers>>

LEMMA WorkerStep ==
  ASSUME TransferInv, NEW t \in Ticket, NEW place, NEW conn, NEW own, NEW open,
         StepOf(t, place, conn, own, open)
  PROVE  TransferInv'
<1> USE DEF TransferInv, Goto, StepOf
<1>1. at[t] \notin {"none", "done"} /\ reader.activeTicket = t /\ reader \in ReaderType
        /\ ~(t > reader.nextTicket)
  BY DEF TurnInv, Types
<1>2. Types'
  BY DEF Types
<1>3. TurnInv'
  <2>1. at'[t] = place /\ \A u \in Ticket : u # t => at'[u] = at[u]
    BY DEF Types
  <2>2. \A u \in Ticket : u # t => connection'[u] = connection[u]
    BY DEF Types
  <2>3. \A u \in Ticket :
            /\ u > reader.nextTicket => at'[u] = "none" /\ ~cancelled[u] /\ connection'[u] = 1
            /\ u <= reader.nextTicket => at'[u] # "none"
            /\ Running(u)' => reader.activeTicket = u
    BY <1>1, <2>1, <2>2 DEF TurnInv
  <2>4. \A task \in posted' \cup waiting' :
            task.kind = "finish" => at'[task.ticket] = "done"
    <3>1. ASSUME NEW task \in posted \cup waiting, task.kind = "finish"
          PROVE  at'[task.ticket] = "done"
      <4>1. task.ticket \in Ticket /\ at[task.ticket] = "done"
        BY <3>1 DEF TurnInv, Types
      <4> QED
        BY <1>1, <2>1, <4>1
    <3> QED
      BY <2>1, <3>1
  <2> QED
    BY <2>3, <2>4 DEF TurnInv
<1>4. ConnectionInv'
  <2>1. \A u \in Ticket : u # t => /\ at'[u] = at[u] /\ connection'[u] = connection[u]
                                   /\ active'[u] = active[u] /\ opened'[u] = opened[u]
    BY DEF Types
  <2>2. at'[t] = place /\ connection'[t] = conn /\ active'[t] = own /\ opened'[t] = open
    BY DEF Types
  <2> QED
    BY <2>1, <2>2 DEF ConnectionInv
<1>5. CloseInv'
  BY DEF CloseInv
<1> QED
  BY <1>2, <1>3, <1>4, <1>5

LEMMA WorkerKeeps ==
  ASSUME NEW t \in Ticket
  PROVE  TransferInv /\ Worker(t) => TransferInv'
<1> SUFFICES ASSUME TransferInv, Worker(t) PROVE TransferInv'
  OBVIOUS
<1>1. UNCHANGED <<reader, waiting, cancelled, closing, closers>>
  BY DEF Worker
<1>2. /\ posted \in SUBSET Task /\ wanted \in BOOLEAN
      /\ at[t] \in Place /\ connection[t] \in Connection
      /\ active = [active EXCEPT ![t] = active[t]]
      /\ opened = [opened EXCEPT ![t] = opened[t]]
      /\ connection = [connection EXCEPT ![t] = connection[t]]
  BY DEF TransferInv, Types
<1>3. /\ active[t] # NoConnection <=>
             at[t] \in {"attached", "connecting", "connected", "releasing"}
      /\ active[t] \in {NoConnection, connection[t]}
      /\ opened[t] \in SUBSET {connection[t]}
      /\ opened[t] # {} => at[t] \in {"connected", "releasing", "closing"}
  BY DEF TransferInv, ConnectionInv
<1>4. ASSUME Complete(t)
      PROVE  /\ Goto(t, "done") /\ posted' \in SUBSET Task /\ wanted' \in BOOLEAN
             /\ \A task \in posted' :
                    task \in posted \/ (task.kind = "finish" => task.ticket = t)
  <2>1. PICK again \in BOOLEAN, refreshes \in SUBSET {RefreshTask} :
            posted' = posted \cup refreshes \cup {FinishTask(t, again)}
    BY <1>4 DEF Complete
  <2>2. RefreshTask \in Task /\ FinishTask(t, again) \in Task
          /\ RefreshTask.kind # "finish" /\ FinishTask(t, again).ticket = t
    BY DEF RefreshTask, FinishTask
  <2> QED
    BY <1>2, <1>4, <2>1, <2>2 DEF Complete
<1>5. CASE Attach(t)
  <2>1. at[t] = "start" /\ UNCHANGED connection /\ active[t] = NoConnection /\ opened[t] = {}
    BY <1>3, <1>5 DEF Attach
  <2>2. CASE /\ opened' = [opened EXCEPT ![t] = @ \ {connection[t]}]
             /\ Complete(t) /\ UNCHANGED active
    <3>1. StepOf(t, "done", connection[t], active[t], {})
      BY <1>1, <1>2, <1>4, <2>1, <2>2 DEF StepOf
    <3> QED
      BY <3>1, WorkerStep
  <2>3. CASE /\ active' = [active EXCEPT ![t] = connection[t]]
             /\ Goto(t, "attached") /\ UNCHANGED <<opened, posted, wanted>>
    <3>1. StepOf(t, "attached", connection[t], connection[t], opened[t])
      BY <1>1, <1>2, <2>1, <2>3 DEF StepOf
    <3> QED
      BY <3>1, WorkerStep
  <2> QED
    BY <1>5, <2>2, <2>3 DEF Attach
<1>6. CASE Connect(t)
  <2>1. /\ at[t] = "attached" /\ UNCHANGED <<connection, active, opened, posted, wanted>>
        /\ active[t] = connection[t] /\ opened[t] = {}
    BY <1>3, <1>6 DEF Connect
  <2>2. PICK place \in {"releasing", "connecting"} : Goto(t, place)
    BY <1>6 DEF Connect
  <2>3. StepOf(t, place, connection[t], active[t], opened[t])
    BY <1>1, <1>2, <2>1, <2>2 DEF StepOf
  <2> QED
    BY <2>3, WorkerStep
<1>7. CASE Connected(t)
  <2>1. /\ at[t] = "connecting" /\ UNCHANGED <<connection, active, posted, wanted>>
        /\ active[t] = connection[t] /\ opened[t] = {}
    BY <1>3, <1>7 DEF Connected
  <2>2. CASE /\ opened' = [opened EXCEPT ![t] = @ \cup {connection[t]}]
             /\ Goto(t, "connected")
    <3>1. StepOf(t, "connected", connection[t], active[t], {connection[t]})
      BY <1>1, <1>2, <2>1, <2>2 DEF StepOf
    <3> QED
      BY <3>1, WorkerStep
  <2>3. CASE Goto(t, "releasing") /\ UNCHANGED opened
    <3>1. StepOf(t, "releasing", connection[t], active[t], opened[t])
      BY <1>1, <1>2, <2>1, <2>3 DEF StepOf
    <3> QED
      BY <3>1, WorkerStep
  <2> QED
    BY <1>7, <2>2, <2>3 DEF Connected
<1>8. CASE Work(t)
  <2>1. /\ at[t] = "connected" /\ Goto(t, "releasing") /\ active[t] = connection[t]
        /\ UNCHANGED <<connection, active, opened, posted, wanted>>
    BY <1>3, <1>8 DEF Work
  <2>2. StepOf(t, "releasing", connection[t], active[t], opened[t])
    BY <1>1, <1>2, <1>3, <2>1 DEF StepOf
  <2> QED
    BY <2>2, WorkerStep
<1>9. CASE Release(t)
  <2>1. /\ at[t] = "releasing" /\ active' = [active EXCEPT ![t] = NoConnection]
        /\ UNCHANGED <<connection, opened>> /\ active[t] = connection[t]
        /\ Goto(t, "closing") /\ UNCHANGED <<posted, wanted>>
    BY <1>2, <1>3, <1>9 DEF Release
  <2>2. StepOf(t, "closing", connection[t], NoConnection, opened[t])
    BY <1>1, <1>2, <1>3, <2>1 DEF StepOf
  <2> QED
    BY <2>2, WorkerStep
<1>10. CASE Close(t)
  <2>1. /\ at[t] = "closing" /\ UNCHANGED active /\ active[t] = NoConnection
        /\ opened' = [opened EXCEPT ![t] = {}]
    BY <1>2, <1>3, <1>10 DEF Close
  <2>2. CASE Complete(t) /\ UNCHANGED connection
    <3>1. StepOf(t, "done", connection[t], active[t], {})
      BY <1>1, <1>2, <1>4, <2>1, <2>2 DEF StepOf
    <3> QED
      BY <3>1, WorkerStep
  <2>3. CASE /\ connection' = [connection EXCEPT ![t] = 2]
             /\ Goto(t, "start") /\ UNCHANGED <<posted, wanted>>
    <3>1. StepOf(t, "start", 2, active[t], {})
      BY <1>1, <1>2, <2>1, <2>3 DEF StepOf
    <3> QED
      BY <3>1, WorkerStep
  <2> QED
    BY <1>10, <2>2, <2>3 DEF Close
<1> QED
  BY <1>5, <1>6, <1>7, <1>8, <1>9, <1>10 DEF Worker

LEMMA StutterKeeps == TransferInv /\ UNCHANGED vars => TransferInv'
<1> SUFFICES ASSUME TransferInv, UNCHANGED vars PROVE TransferInv'
  OBVIOUS
<1> USE DEF vars, workers, TransferInv
<1>1. Types'
  BY DEF Types
<1>2. TurnInv'
  BY DEF TurnInv
<1>3. ConnectionInv' /\ CloseInv'
  BY DEF ConnectionInv, CloseInv
<1> QED
  BY <1>1, <1>2, <1>3

-----------------------------------------------------------------------------
(* The invariant holds: a worker runs only under the active ticket, owns     *)
(* what it has open, and a close that runs is that of the active ticket.     *)
THEOREM TransferInvariant == Spec => []TransferInv
<1>1. Init => TransferInv
  BY InitTransfer
<1>2. TransferInv /\ [Next]_vars => TransferInv'
  <2> SUFFICES ASSUME TransferInv, [Next]_vars PROVE TransferInv'
    OBVIOUS
  <2>1. CASE User
    BY <2>1, UserKeeps, PauseKeeps DEF User
  <2>2. CASE TagDetected
    BY <2>2, DetectKeeps
  <2>3. CASE MainThread
    BY <2>3, TagKeeps, FinishKeeps, MainKeeps DEF MainThread
  <2>4. CASE CloseConnection
    BY <2>4, CloseKeeps
  <2>5. CASE \E t \in Ticket : Worker(t)
    BY <2>5, WorkerKeeps
  <2>6. CASE UNCHANGED vars
    BY <2>6, StutterKeeps
  <2> QED
    BY <2>1, <2>2, <2>3, <2>4, <2>5, <2>6 DEF Next
<1> QED
  BY <1>1, <1>2, PTL DEF Spec

(* A ticket that is not the active one has no worker running, no connection  *)
(* open and no close under way (finishTransfer, MainActivity.kt).            *)
THEOREM OneTransfer == Spec => []OneTransferAtATime
<1>1. TransferInv => OneTransferAtATime
  BY DEF TransferInv, Types, TurnInv, ConnectionInv, CloseInv, OneTransferAtATime,
         Closing
<1> QED
  BY <1>1, TransferInvariant, PTL

(* What a worker has open it owns, and it attaches only when it owns nothing *)
(* (TagConnectionOwner.kt).                                                  *)
THEOREM OpenOwned == Spec => []OpenIsOwned
<1>1. TransferInv => OpenIsOwned
  BY DEF TransferInv, ConnectionInv, OpenIsOwned
<1> QED
  BY <1>1, TransferInvariant, PTL

(* Only pause, start and stop change the generation the reader runs with,    *)
(* and during a transfer only pause is reached (ReaderRecovery.kt).          *)
THEOREM FieldKept == Spec => FieldKeptDuringTransfer
<1>1. ASSUME TransferInv, [Next]_vars, isBusy(reader), isBusy(reader)',
             reader'.reading # reader.reading
      PROVE  ~reader'.foreground
  <2>1. reader \in ReaderType
    BY <1>1 DEF TransferInv, Types
  <2>2. CASE onPause
    BY <2>1, <2>2 DEF onPause, pause
  <2>3. CASE reader' \in {resume(reader), requestScan(reader), refresh(reader)}
    <3>1. /\ [reader EXCEPT !.foreground = TRUE] \in ReaderType
          /\ [reader EXCEPT !.restartPending = TRUE] \in ReaderType
      BY <2>1
    <3>2. reader'.reading = reader.reading
      BY <1>1, <2>1, <2>3, <3>1, RefreshKeepsTickets DEF resume, requestScan, isBusy
    <3> QED
      BY <1>1, <3>2
  <2>4. CASE Timer
    BY <1>1, <2>1, <2>4 DEF Timer, restart
  <2>5. CASE handleTag
    BY <1>1, <2>1, <2>5 DEF handleTag, mayClaim
  <2>6. CASE finishTransfer
    <3>1. PICK task \in posted :
              \/ reader' = reader
              \/ reader' = finish(reader, task.ticket, task.again) /\ task.kind = "finish"
      BY <2>6 DEF finishTransfer
    <3>2. CASE reader' = finish(reader, task.ticket, task.again) /\ task.kind = "finish"
      <4>1. task.ticket \in Nat /\ task.again \in BOOLEAN
        BY <1>1, <3>2 DEF TransferInv, Types
      <4>2. reader.activeTicket # task.ticket
        BY <1>1, <2>1, <3>2, <4>1, FinishFreesTicket DEF isBusy
      <4> QED
        BY <1>1, <3>2, <4>2 DEF finish
    <3> QED
      BY <1>1, <3>1, <3>2
  <2>7. CASE UNCHANGED reader
    BY <1>1, <2>7
  <2> QED
    BY <1>1, <2>2, <2>3, <2>4, <2>5, <2>6, <2>7
    DEF Next, User, MainThread, onResume, requestNfcScan, onDismissWriteProgress,
        TagDetected, refreshReaderMode, CloseConnection, Worker, vars
<1> QED
  BY <1>1, TransferInvariant, PTL DEF Spec, FieldKeptDuringTransfer

-----------------------------------------------------------------------------
(* Why a card found before a request is not used for it: a reader that may   *)
(* give out a ticket is newer than the request a, and one that may not has   *)
(* its reset put off, or a restart scheduled that makes it newer.            *)

Settling(r, a) == a <= r.generation /\ (r.recovering => ~isBusy(r))

Fresh(r, a) ==
    /\ Settling(r, a)
    /\ r.foreground /\ ~r.recovering /\ ~isBusy(r) => r.generation > a
    /\ r.foreground /\ isBusy(r) /\ r.generation = a =>
           r.refreshPending \/ r.restartPending

FreshInv == asked \in Nat /\ Fresh(reader, asked)

LEMMA RefreshMakesFresh ==
  ASSUME NEW r \in ReaderType, NEW a \in Nat, Settling(r, a)
  PROVE  Fresh(refresh(r), a)
<1>1. CASE ~r.foreground
  BY <1>1 DEF refresh, Fresh, Settling
<1>2. CASE r.foreground /\ (isBusy(r) \/ r.recovering)
  BY <1>2 DEF refresh, Fresh, Settling, isBusy
<1>3. CASE r.foreground /\ ~isBusy(r) /\ ~r.recovering
  <2> DEFINE ready == [r EXCEPT !.refreshPending = FALSE]
  <2>1. refresh(r) \in {started(ready), stopped(ready)}
    BY <1>3 DEF refresh
  <2>2. \A s \in {started(ready), stopped(ready)} :
            /\ s.generation = r.generation + 1
            /\ s.activeTicket = r.activeTicket
    BY DEF started, stopped
  <2>3. a <= r.generation + 1 /\ r.generation + 1 > a /\ r.generation + 1 # a
    BY DEF Settling
  <2> QED
    BY <1>3, <2>1, <2>2, <2>3 DEF Fresh, Settling, isBusy
<1> QED
  BY <1>1, <1>2, <1>3

LEMMA FreshStep == TransferInv /\ FreshInv /\ [Next]_vars => FreshInv'
<1> SUFFICES ASSUME TransferInv, FreshInv, [Next]_vars PROVE FreshInv'
  OBVIOUS
<1>1. reader \in ReaderType /\ asked \in Nat /\ Fresh(reader, asked)
        /\ posted \in SUBSET Task
  BY DEF TransferInv, Types, FreshInv
<1>2. CASE onResume
  <2>1. [reader EXCEPT !.foreground = TRUE] \in ReaderType
    BY <1>1
  <2>2. Settling([reader EXCEPT !.foreground = TRUE], asked)
    BY <1>1 DEF Fresh, Settling, isBusy
  <2> QED
    BY <1>1, <1>2, <2>1, <2>2, RefreshMakesFresh DEF onResume, resume, FreshInv
<1>3. CASE onPause
  <2>1. /\ reader'.generation = reader.generation + 1 /\ ~reader'.foreground
        /\ ~reader'.recovering /\ asked' = asked
    BY <1>1, <1>3 DEF onPause, pause
  <2>2. asked <= reader.generation + 1
    BY <1>1 DEF Fresh, Settling
  <2> QED
    BY <1>1, <2>1, <2>2 DEF FreshInv, Fresh, Settling
<1>4. CASE requestNfcScan
  <2> DEFINE r == [reader EXCEPT !.restartPending = TRUE]
  <2>1. r \in ReaderType /\ reader.generation \in Nat
    BY <1>1
  <2>2. Settling(r, reader.generation)
    BY <1>1 DEF Fresh, Settling, isBusy
  <2>3. reader' = refresh(r) /\ asked' = reader.generation
    BY <1>4 DEF requestNfcScan, requestScan
  <2> HIDE DEF r
  <2> QED
    BY <2>1, <2>2, <2>3, RefreshMakesFresh DEF FreshInv
<1>5. CASE handleTag
  <2>1. CASE mayClaim(reader, reader.generation) /\ reader' = claim(reader)
    <3>1. /\ reader'.generation = reader.generation
          /\ reader'.recovering = FALSE
          /\ reader.generation > asked
      BY <1>1, <2>1 DEF claim, mayClaim, accepts, Fresh
    <3> QED
      BY <1>1, <1>5, <3>1 DEF handleTag, FreshInv, Fresh, Settling
  <2>2. CASE UNCHANGED reader
    BY <1>1, <1>5, <2>2 DEF handleTag, FreshInv
  <2> QED
    BY <1>5, <2>1, <2>2 DEF handleTag, mayClaim, accepts
<1>6. CASE finishTransfer
  <2>1. PICK task \in posted :
            \/ reader' = reader
            \/ reader' = finish(reader, task.ticket, task.again) /\ task.kind = "finish"
    BY <1>6 DEF finishTransfer
  <2> DEFINE free == [reader EXCEPT !.activeTicket = NoTicket,
                                    !.restartPending = @ \/ task.again]
  <2>2. asked' = asked
    BY <1>6 DEF finishTransfer
  <2>3. CASE reader' = finish(reader, task.ticket, task.again) /\ task.kind = "finish"
                 /\ reader.activeTicket = task.ticket
    <3>1. task.again \in BOOLEAN /\ task.ticket # NoTicket
      BY <1>1, <2>3
    <3>2. free \in ReaderType /\ Settling(free, asked)
      BY <1>1, <3>1 DEF Fresh, Settling, isBusy
    <3>3. CASE free.refreshPending \/ free.restartPending
      <4>1. reader' = refresh(free)
        BY <2>3, <3>3 DEF finish
      <4> HIDE DEF free
      <4> QED
        BY <1>1, <2>2, <3>2, <4>1, RefreshMakesFresh DEF FreshInv
    <3>4. CASE ~(free.refreshPending \/ free.restartPending)
      <4>1. reader' = free
        BY <2>3, <3>4 DEF finish
      <4>2. /\ isBusy(reader) /\ ~reader.refreshPending /\ ~reader.restartPending
            /\ ~isBusy(free) /\ free.generation = reader.generation
            /\ free.foreground = reader.foreground
        BY <1>1, <2>3, <3>1, <3>4 DEF isBusy
      <4>3. free.foreground => free.generation > asked
        BY <1>1, <4>2 DEF Fresh, Settling
      <4> QED
        BY <1>1, <2>2, <3>2, <4>1, <4>2, <4>3 DEF FreshInv, Fresh
    <3> QED
      BY <3>3, <3>4
  <2>4. CASE reader' = reader
    BY <1>1, <2>2, <2>4 DEF FreshInv
  <2> QED
    BY <2>1, <2>3, <2>4 DEF finish
<1>7. CASE refreshReaderMode
  BY <1>1, <1>7, RefreshMakesFresh DEF refreshReaderMode, FreshInv, Fresh
<1>8. CASE Timer
  <2>1. PICK token \in reader.timers : reader' = restart(reader, token)
    BY <1>8 DEF Timer
  <2> DEFINE fired == [reader EXCEPT !.timers = @ \ {token}]
             again == [fired EXCEPT !.recovering = FALSE, !.restartPending = FALSE]
  <2>2. asked' = asked
    BY <1>8 DEF Timer
  <2>3. CASE reader' = fired
    BY <1>1, <2>2, <2>3 DEF FreshInv, Fresh, Settling, isBusy
  <2>4. CASE reader' = refresh(again)
    <3>1. again \in ReaderType /\ Settling(again, asked)
      BY <1>1 DEF Fresh, Settling, isBusy
    <3> HIDE DEF again
    <3> QED
      BY <1>1, <2>2, <2>4, <3>1, RefreshMakesFresh DEF FreshInv
  <2> QED
    BY <2>1, <2>3, <2>4 DEF restart
<1>9. CASE UNCHANGED <<reader, asked>>
  BY <1>1, <1>9 DEF FreshInv
<1> QED
  BY <1>2, <1>3, <1>4, <1>5, <1>6, <1>7, <1>8, <1>9
  DEF Next, User, MainThread, onDismissWriteProgress, TagDetected, CloseConnection,
      Worker, vars

(* A ticket is given out only by a reader started after the last request     *)
(* (requestScan, restart and finish of ReaderRecovery.kt).                   *)
THEOREM FreshCard == Spec => FreshCardOnly
<1>1. Init => FreshInv
  BY DEF Init, InitialReader, FreshInv, Fresh, Settling, isBusy
<1>2. Spec => []FreshInv
  BY <1>1, FreshStep, TransferInvariant, PTL DEF Spec
<1>3. ASSUME TransferInv, FreshInv, [Next]_vars, ~isBusy(reader), isBusy(reader)'
      PROVE  reader.generation > asked
  <2>1. reader \in ReaderType /\ posted \in SUBSET Task
    BY <1>3 DEF TransferInv, Types
  <2>2. CASE handleTag
    BY <1>3, <2>2 DEF handleTag, mayClaim, accepts, FreshInv, Fresh
  <2>3. CASE ~handleTag
    <3>1. CASE onResume \/ onPause \/ requestNfcScan \/ Timer
      <4>1. PICK token \in Nat :
                reader' \in {resume(reader), pause(reader), requestScan(reader),
                            restart(reader, token)}
        <5>1. CASE Timer
          BY <2>1, <5>1 DEF Timer
        <5>2. CASE onResume \/ onPause \/ requestNfcScan
          BY <5>2, 0 \in Nat DEF onResume, onPause, requestNfcScan
        <5> QED
          BY <3>1, <5>1, <5>2
      <4> QED
        BY <1>3, <2>1, <4>1, CallsKeepTickets DEF isBusy
    <3>2. CASE refreshReaderMode
      BY <1>3, <2>1, <3>2, RefreshKeepsTickets DEF refreshReaderMode, isBusy
    <3>3. CASE finishTransfer
      <4>1. PICK task \in posted :
                \/ reader' = reader
                \/ reader' = finish(reader, task.ticket, task.again)
                       /\ task.kind = "finish"
        BY <3>3 DEF finishTransfer
      <4>2. task.kind = "finish" => task.ticket \in Nat /\ task.ticket # NoTicket
        BY <2>1
      <4> QED
        BY <1>3, <4>1, <4>2 DEF finish, isBusy
    <3>4. CASE UNCHANGED reader
      BY <1>3, <3>4
    <3> QED
      BY <1>3, <2>3, <3>1, <3>2, <3>3, <3>4
      DEF Next, User, MainThread, onDismissWriteProgress, TagDetected,
          CloseConnection, Worker, vars
  <2> QED
    BY <2>2, <2>3
<1> QED
  BY <1>2, <1>3, TransferInvariant, PTL DEF Spec, FreshCardOnly
=============================================================================
