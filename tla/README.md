# Namecard: TLA+ models and proofs

The namecard is a business card with an e-paper panel and no battery.  A phone
powers it through NFC, sends it a picture over the mailbox of an ST25DV, waits
while it charges, and tells it to refresh.  Power may go at any moment: the user
only has to lift the phone.  These modules model the card's firmware, its power
pins, and what the two clients do with a card; TLC checks them on small
instances, and TLAPS proves the firmware, its Flash store and power pins, the
iOS upload, the iOS coordinator's whole job against the firmware, the Android
reader and the iOS URL writer for every instance.  Paths below are relative to
`src/`.

## The system

| Part | Source | State it keeps | Operations |
|---|---|---|---|
| Display store | `firmware/Core/Src/display_store.c` | two Flash slots (header, image, stage and commit markers); RAM: committed slot, pending slot, newest generation | `init` (boot scan), `stage`, `commit`, getters |
| Transfer protocol | `firmware/Core/Src/nc_protocol.c` | `nc_transfer_t`: active session, expected sequence and offset, announced CRC, the last frame applied | `nc_transfer_apply` for STATUS, START, DATA, COMMIT, EXECUTE, PATTERN; parsing and building frames |
| Main loop | `firmware/Core/Src/app.c` | app state, image buffer, staged and clean-cycle flags, gray band count, EXECUTE-ACK flags, NDEF pause | `app_init`, `app_process`, `handle_message`, `refresh_partial`, `refresh_gray4` |
| Mailbox driver | `st25dv.c` | the chip's one-message mailbox | read an RF message, write a host message, enable, disable, provision |
| Panel driver | `epd_ssd1680.c`, `fixed_image.c` | controller RAM, panel | write old and new RAM, start a waveform, wait |
| Board power | `board.c`, `power_monitor.c`, `stm32g0xx_it.c` | power-hold and panel-power pins, brownout latch, edges | PVD interrupt, GPIO edges, ADC samples |
| iOS coordinator | `client/ios/NamecardCore/.../TransferCoordinator.swift` and the mailbox under it | one job, its work (id, position, flags), retry counters | prepare, run, perform, waitReady, confirmRefreshStatus |
| iOS URL writer | `client/ios/Namecard/NFC/URLWriter.swift` etc. | a journal of the NDEF write | write, recover |
| Android client | `client/android/.../MainActivity.kt`, `ReaderRecovery.kt`, ... | transfer session, reader tickets, tag ownership | the same protocol; reader-mode recovery |
| Editors, libraries, views | both clients | documents, UI state | rendering |

Everything below the phone runs in one loop on the card, with two interrupt
sources (the PVD brownout and GPIO edges).  The loop and the phone share the
mailbox and the EEPROM: one message at a time, either way, and the mailbox is
off while a phone writes the EEPROM.  The loop calls the transfer protocol on
each frame, the store to stage and to commit, and the panel driver to refresh;
these calls block.  On the iOS side one actor runs one session at a time and
keeps its job, and the journal of a URL, between sessions.  On the Android side
the main thread, a worker per card found and the coroutine that closes a
cancelled connection share the reader and the tag.

What is hard here:

- **Power cuts everywhere.**  Between two words of a Flash write, between the
  panel's last waveform and the commit of what it shows, between a reply and the
  phone reading it.  RAM is lost, Flash and the panel are not.
- **Messages lost, late and repeated.**  A reply that is published may never be
  read; the phone cannot tell that from a frame that never arrived.
- **A buffer and flags that outlive a picture.**  One image buffer receives the
  next picture while the flags (`target_staged`, `batch_clean_active`,
  `force_full_clean_first`, `gray4_completed_rows`) still belong to the last.
- **Two memories of one panel.**  A partial refresh drives only where the new
  image differs from the one on record: the record must be what the panel shows.
- **Two sessions, one picture.**  A gray picture is plane 0 in Flash joined with
  plane 1 in RAM.
- **An old COMPLETE.**  The state of a card says that something was completed, not
  what; the phone must know whether it was its own picture.
- **An interrupt between two pin accesses.**  The brownout interrupt switches the
  pins off while the main program may be about to switch them on, or has read a
  register it is about to write back.
- **A half-written EEPROM.**  A card with half a message has to be found again,
  and to be finished without writing over what another phone wrote since.
- **Callbacks of a reader that is gone.**  A card found before the last request, a
  timer of an earlier restart, a worker that still owns a connection.

What makes the parts correct: the store never loses the record and never takes
a torn slot for a frame; the transfer applies every chunk once and in place; the
phone can always go on after a loss; no mixture of pictures is staged, shown or
recorded; READY survives a power cut; a completed refresh leaves the panel
showing the record; a busy card gets somewhere.  The panel is off whenever it is
not being refreshed.  A client reports success only for the picture or the
message that is on the card, brings every job to an end if the user goes on,
never takes two cards at a time, and leaves no card half written and forgotten.
`PROJECT.json` lists the hazards line by line with the property that covers each,
or why none does.

## The modules

| Module | Models | Composes |
|---|---|---|
| `DisplayRegister` | what `display_store.c` promises its caller | |
| `DisplayStore` | `display_store.c`, one action per Flash operation | refines `DisplayRegister` |
| `DisplayStore_proofs` | proofs about `DisplayStore`, and that it implements `DisplayRegister` | |
| `NCTransfer` | `nc_protocol.c` as operators on a transfer record and a buffer | |
| `NCTransfer_proofs` | lemmas about the transfer record | |
| `TransferLink` | iOS upload, mailbox, card | `NCTransfer` |
| `TransferLink_proofs` | proofs about `TransferLink` | `NCTransfer_proofs` |
| `CardFirmware` | `app.c` | `NCTransfer`, `DisplayRegister` |
| `CardFirmware_proofs` | proofs about `CardFirmware` | `NCTransfer_proofs` |
| `ExecuteLink` | a whole job of the iOS coordinator against the firmware | `CardFirmware` |
| `ExecuteLink_proofs` | proofs about `ExecuteLink` | `CardFirmware_proofs` |
| `PanelPower` | `board.c` and the PVD interrupt: the power pins and the bus | |
| `PanelPower_proofs` | proofs about `PanelPower` | |
| `UrlWrite` | `URLWriter.swift`, its journal, `NFCService.swift`, the NDEF pause of `app.c`, the EEPROM | |
| `UrlWrite_proofs` | proofs about `UrlWrite` | |
| `ReaderRecovery` | `ReaderRecovery.kt` as operators on its state | |
| `AndroidReader` | `MainActivity.kt`, `TagConnectionOwner.kt` | `ReaderRecovery` |
| `AndroidReader_proofs` | proofs about `AndroidReader` | |
| `MC...` | instances for TLC | |

### DisplayStore and DisplayRegister

A slot is a record of what its words say: the stage and the commit marker
(erased, set or torn), the generation, how many of the three metadata words are
written, the frame the metadata describe and the frame the image is of.
`slot_valid` is the CRC check, "all these words were written together".
`StageBegin`, `StageWrite` (erase, image, three metadata words) and `StageMarker`
are `display_store_stage`; `CommitBegin` and `CommitMarker` are
`display_store_commit`; `PowerCycle` is a cut at any of them followed by
`display_store_init`.  The image's 592 double-words are one step, because they
are covered by one CRC: written in part is not written.  An operation the HAL
reports as failed leaves the word as it was or torn; after a power cut it may
also be complete.  Generations run through a small cycle and are compared as the
signed difference compares them; `GenerationAssumption` keeps the distance below
half the range, which on the card Flash endurance (10^4 against 2^31) does.

The register has the record (`committed`), the frame a boot would find prepared
(`prepared`), the frame being written (`staging`), and what the getters report
(`header`): the code reads that from a slot it may already have overwritten, so
it is a variable of its own.

### NCTransfer

`nc_transfer_apply(t, buf, f)` returns the new record, buffer, result and error,
in the code's order of checks.  The unit of size is a chunk.  A CRC is modelled
by what it decides: the announced image CRC is the image, the payload CRC of a
frame is its body.  A frame with a broken header or payload never reaches the
function and is a lost frame.

### TransferLink

Card: `CardHandle` (read, apply, compose the reply), `CardPublish` and
`CardGivesUp` (the twenty attempts of `send_reply`), `CardStage`, `PowerLoss` with
the boot that follows.  Phone: `PhonePrepare`, `PhoneScan`, `PhoneSend`,
`PhoneReceive` with one operator per branch of `perform` and of the STATUS rules
of `run`; and the ways an exchange fails: the reply is lost (`PhoneMisses`), never
comes (`PhoneTimesOut`), comes too late (`PhoneLeavesEarly`, then `PhoneDrains`),
or the mailbox is not free (`PhoneFindsBusy`).  CHARGING stands for CHARGING and
READY, which the upload does not distinguish.  `LinkAssumption` asks for an image
that is not empty and fits the sequence numbers, as 37 chunks fit 2^16, and for so
many transfer ids that one is unknown to the card, its Flash and the mailbox: the
code counts through 2^16 - 1 of them.

### CardFirmware

Each branch of `app_process` is an action.  Calls that take long are split by
`pc`: a stage into begin, writes and end, a refresh into its start, the end of
the waveform and the commit, so that a power cut or a brownout can come between.
The store is the register, which `DisplayStore` is proved to implement.  The
phone is any phone: it may send any frame of any picture whenever the mailbox is
free.  The panel is modelled strip by strip: a strip being driven is unsettled
until the waveform ends, and one that is not driven keeps what it shows.
`adrift` is a history variable, the images that refreshes have driven the panel
toward since it last showed the record.

`PictureAssumption` says what a phone's pictures are.  One of its conjuncts is about
ids: two gray pictures with one transfer id are the same picture.  The firmware
matches the two planes of a gray picture by nothing else (`refresh_gray4`,
`app.c:604`), and the clients take a new id for each job.

Abstractions: `current_error` is dropped (nothing but replies reads it;
`ExecuteLink`, where replies are read, adds it).  Supply
voltage and time are dropped: every threshold and timeout may go either way
whenever the code looks.  A frame's arrival and its handling are one step.  An
image is one DATA of two strips and each gray band is one strip; where chunks
matter `TransferLink` has them one by one.  The brownout latch is looked at where
the loop looks at it and ends a drive in progress with an error; the pins it
switches are those of `PanelPower`.

### ExecuteLink

The phone that `CardFirmware` leaves free is here the coordinator.  `at` is the
place in `run`: `"status"` is the first STATUS with the decision to take a work up,
begin it again or treat it as recovery (`FirstStatus`); `"upload"` is `perform` for
START, DATA and COMMIT; `"ready"` is `waitReady`; `"execute"` the EXECUTE exchange;
`"confirm"` is `confirmRefreshStatus`.  `Prepare` and `Scan` are the user; a run ends
by a throw, by its deadline (`OutOfTime`), by a lost session or exchange
(`ExchangeFails`), by the bounds on the recovery of an upload (`RecoveryEnds`), by
holding the field for a refresh that may be running (`HoldField`) or by success.  `job` and its `work` keep the flags that
survive a session; `Throw`, `Inconsistent` and `Inactive` say what an error keeps
of them.  The card's
actions are those of `CardFirmware`, wrapped to carry `current_error` and to
compose the replies; `CardLosesPower` needs the phone to be away, unless `Resets`
allows the field to dip under it.  `OtherPhone` sends any frame of another picture
between two sessions.  `LinkAssumption` says that the ids the job may use are its own:
every id up to `WorkLimit` comes with a picture of the target, clean or not, and with
no other, and no other phone uses it; the coordinator counts from one drawn at
random from 2^16 - 1.

Where `TransferLink` has lost, late and repeated messages one by one and the
bounds of the retries, `ExecuteLink` has the card read a frame and publish its
reply in one step and lets a run give up anywhere; where `TransferLink` ends with
the acceptance of COMMIT, `ExecuteLink` goes on to the end of the job.

### PanelPower

One action per access of the main program to a pin register, from the guard at
boot through `refresh_partial` to `board_epd_power_off`, and the interrupt between
any two.  `HAL_GPIO_Init` is a read (`fetched`) and a write of MODER for each pin,
so the interrupt's own setting of the pins can be undone by the write
(`BusActive`, `BusHiz`); a write of BSRR is one step.  What a voltage sample or
a wait returns is a choice.  `outcome` says whether `board_epd_power_off` ends a
refresh, an error or the boot.

### UrlWrite

`session` is the NFC session with the locals of `URLWriter.write`, one action per
`await` or file operation: read the card, decide by the journal, plan, write the
journal, pause the card's mailbox, write and verify block by block (or let iOS
write a formatted card), read back, remove the journal.  A failed step throws with
its effect done or not, and `catch` keeps or removes what the code keeps or
removes.  `pendingWrite` and `retainedTransfer` are what `NFCService` would resume;
`journal` is the file.  The app may be killed and the card restarted at any time.
The EEPROM's blocks hold what they mean, not bytes: a message is whole when its
length block and all its body blocks are of the same message.  How iOS writes a
message to a formatted card is external.  The card pauses in two steps, one for each
I2C transfer; a second one that fails is repeated after the first, which then says
the same, as the card publishes nothing meanwhile.

### ReaderRecovery and AndroidReader

`ReaderRecovery` is the class of that name as functions from its fields to its
fields.  `AndroidReader` has the threads: tasks posted to the main thread
(`handleTag`, `finishTransfer`, `refreshReaderMode`, and `Timer` for delayed ones),
one `Worker` per ticket with attach, connect, work, release and close as steps, the
close of a cancelled connection on its own thread, and the user's four acts.
Posted tasks may run in any order.  `connection` 1 is the NfcV of the detection, 2
the Ndef or second NfcV of a URL write.  NFC is taken to be switched on: with it off
`enableReaderMode` returns without starting the reader (`MainActivity.kt:490`), and
`ReaderSettles` says nothing of that.

## The runs

| Run | Instance | States | Shows |
|---|---|---|---|
| `MCDisplayStore` | 2 frames, generations 0..9, 3 stages between commits | 13,873 | `RecordSurvivesReboot`, `StagedSurvivesReboot`, `ImplementsRegister` |
| `MCTransferLink` | 2 pictures of 2 chunks, 6 ids, 2 late replies, 2 power losses, 1 new job, fair | 258,188 | `BufferHoldsAnnounced`, `AtMostOneFrameAhead`, `OnlyUnknownTransferRefused`, `ConfirmedImageIsCommitted`, `UploadCompletes` |
| `MCTransferStart` | 1 picture, 1 late reply, 1 new job | | breaks `StartDiscardsSession` |
| `MCCardMono` | a plain and a clean-cycle picture, fair | 376,188 | `RecordIsShown`, `RecordWasSent`, `ReadyIsDurable`, `ReadyAcceptsExecute`, `RefreshIsOfOnePicture`, `BusySettles` |
| `MCCardGray` | a gray picture and a pattern | 636,192 | `RecordIsShown`, `RefreshIsOfOnePicture` |
| `MCPanelPower` | 3 bus pins | 311 | `LoopIsDark`, `HeldWhileRailOn`, `NoBackPower`, `BrownoutEndsDark` |
| `MCExecuteAlone` | one job, 3 faults, resets under the phone, fair | 298,939 | `CompletedIsShown`, `FieldHeldDuringRefresh`, `JobCompletes` |
| `MCExecuteLink` | 2 jobs, 4 frames of another phone's mono and gray picture, 1 fault | 1,151,312 | `CompletedIsRecorded`, `CleanedIsShown` |
| `MCExecuteReset` | another phone's picture, a reset under the phone | | breaks `OldCompleteIsNotSuccess` |
| `MCExecuteStale` | 2 frames of another phone, fair | | breaks `JobCompletes` |
| `MCUrlWrite` | 2 cards, one blank, protected or not, messages of 2 body blocks, 2 faults, 1 other phone, fair | 746,257 | `HalfWrittenIsJournaled`, `NoGarbageToRead`, `NoOtherSessionInRecovery`, `SuccessIsWritten`, `OnlyPlannedBlocksRewritten`, `RecoveryEnds` |
| `MCAndroidReader` | 2 transfers, 4 acts of the user, fair | 291,664 | `OneTransferAtATime`, `OpenIsOwned`, `FieldKeptDuringTransfer`, `FreshCardOnly`, `ReaderSettles` |

Bounds, and why they are enough:

- `GenHalf` = 5 with `RestageLimit` = 3: the counter goes round its nine values
  again and again, and the distance condition is as tight as it may be.  Nothing
  bounds commits, errors or reboots.
- Two chunks: one applied and one not is every relation an offset can have to the
  end.  Six transfer ids are one more than the card, its Flash and the mailbox can
  remember, so an id can be fresh; in the code one returns after 65,535 others.
- `LateLimit`, `PowerLossLimit` and `PrepareLimit` bound only faults and new jobs.
  Lost frames, lost replies and runs are not bounded.
- Two strips in `MCCardMono` and `MCCardGray`: one may differ between two pictures
  and the other not, and a gray picture has a band before the last.  `SeqLimit` is
  the largest sequence number a phone uses: START, DATA, COMMIT and EXECUTE take 0
  to 3, the limit of `MCCardMono`; the 4 of `MCCardGray` and of `ExecuteLink` lets a
  frame be one ahead of that.  Power cuts, failures and
  brownouts are not bounded.
- One strip in `ExecuteLink`: the strips are the subject of `MCCardMono`; here
  the question is whose picture is on record and whether the panel was driven to
  it.  Three faults let a work be interrupted, begun again and interrupted again;
  four frames of another phone are a whole upload of a picture of one chunk
  (START, DATA, COMMIT, EXECUTE).  `WorkLimit` bounds the transfer ids, and so how
  often an upload is begun anew; six are enough that it never stops
  `MCExecuteAlone`, whose `JobCompletes` would fail if it did.
- Three bus pins: one written back, one between its read and its write, and one
  still to come.
- A message of two body blocks can stop inside its body.  Two faults let a replay
  be interrupted, and one message of another phone can come between the two.
- Two tickets: the one that is active and the one before it.  Four acts of the
  user are a request, leaving the app, and another request with its dismissal;
  detections, returns and timers are not bounded by them.

`CHECK_DEADLOCK FALSE` is given where the system really ends: the uploads, the
jobs of `ExecuteLink` and an Android reader the user has left.

### Fairness

`TransferLink` assumes that the card's loop and the app run, that the user scans
again after a failed session, and (strongly) that no kind of exchange fails for
ever: publishing and reading a reply of each type succeed if tried again and
again.  The first is the scheduling of a single loop; the second and third are
what an upload needs from its environment.  A power loss is never fair, and is
bounded.  `UploadCompletes` is claimed for users who prepare one job: a second
START of the same image meets `StartDiscardsSession` below.

`CardFirmware` assumes weak fairness of `Progress`, the disjunction of the loop's
own steps: the loop polls them on every pass and each wait it makes has a
timeout.  It assumes nothing of the phone, of the field, of Flash writes that do
not end a call, or of the NDEF pause.  `BusySettles` is claimed for behaviours in
which power stays on from some point.

`ExecuteLink` assumes that the user scans again, that the coordinator goes on and
an exchange that is not answered ends (both are code with deadlines), and that the
card reads what is in its mailbox.  Strong fairness of the card's own progress says
that the loop comes round between two frames, which a phone sends seconds apart;
strong fairness of the power cut after a brownout says that a card that has
stopped does lose its power one of the times the phone goes.

`PanelPower` assumes that the processor runs.  `UrlWrite` assumes that the writer
and the card's loop go on (each await ends or throws), and, strongly, that the user
resumes an operation that was left over and holds the card it is about to the
phone.  `AndroidReader` assumes that the main thread runs its tasks and timers,
that a blocking call of a worker returns, and that a close ends; nothing is
assumed of the user or of the card.

## What the code does and the documents do not say

Three runs state what a document or a comment promises and show a behaviour that
breaks it.

- `MCTransferStart` / `StartDiscardsSession`.  PROTOCOL.md rule 1: START discards
  the session.  A START that follows another one directly, with the same metadata
  and a new id, is taken for its repetition (`is_duplicate` does not compare ids).
  The phone is told it succeeded and its DATA is then refused, each time, until
  the card loses power.
- `MCExecuteReset` / `OldCompleteIsNotSuccess`.  `TransferCoordinator.swift:124`:
  never promote an old COMPLETE into success.  If the card restarts after
  acknowledging EXECUTE while the phone stays, and its commit was cut or had
  failed, it takes up the old record.  Two images of a kind end at the same
  sequence and offset and a reply carries the id of its request, so the phone
  takes the old record's COMPLETE for its own.
- `MCExecuteStale` / `JobCompletes`.  `TransferCoordinator.swift:207`: do not retain a
  position that will reject for ever.  The error of another phone's rejected frame
  stays in `current_error` until a frame is accepted; a committed work is taken up
  without looking at it, and `waitReady` then fails at it with the work kept, on
  every scan until the card loses power.  The single-job instance, in which no
  such frame exists, does complete.

Others were met while modelling and are not kept as runs:

- An EXECUTE that is sent again after COMPLETE is refused, though PROTOCOL.md rule
  3 lists it among the frames a repetition of which is acknowledged.  The comment
  at `app.c:319` says that it is so on purpose.
- A partial refresh that is interrupted, and whose picture is replaced before it
  is repeated, leaves strips behind that only it touched, and the next record says
  otherwise.  `RecordIsShown` states what does hold: the panel shows the record if
  the refreshes since were of one picture, or the completed one was clean or gray.
  This is why `CleanedIsShown` is about jobs with cleaning (the default) and
  `CompletedIsShown` about a card that serves one job.
- After a failed stage the getters report the header of an invalid slot, and a
  gray plane 1 is accepted up to the refresh, whose commit then fails.
- `board_epd_power_on` may switch the rail on after a brownout has switched it off,
  and drive the bus with the rail off, until the next look at the latch.
  `HeldWhileRailOn` and `NoBackPower` therefore except the brownout; `LoopIsDark` and
  `BrownoutEndsDark` say that it does not last.
- A URL journal whose session is lost before any block is written, on a card that
  is protected or never seen again, is kept for ever and refuses every other
  operation (`URLWriter.swift:128`).  `RecoveryEnds` is claimed for unprotected cards
  that the user brings back and no other phone writes to.
- A paused card has no timeout: it goes on when a phone enables its mailbox, and a
  phone that only reads the old ACK lets the card pause behind it.  `RecoveryEnds`
  covers this where a journal brings the phone back.  That a card left paused with
  no journal serves again is checked by no property, nor is what becomes of its
  charge, which is not timed out during the pause (`CardFirmware` stops the loop,
  and `BusySettles` leaves a paused card out) and has the pause counted against it
  afterwards.
- An ACK of the NDEF pause that nobody read is drained by the next session while
  the card pauses under it: that session fails once.

Several checks in the clients are a second line of defence: without the check of
the capabilities, say, nothing wrong is reported and only progress is lost.

## The proofs

### The display store

Proved for every set of frames and every `GenHalf` and `RestageLimit` with
`RestageLimit + 1 < GenHalf`, from `FrameAssumption` and `GenerationAssumption` alone:

- `StoreTypeOK`: `Spec => []TypeOK`
- `RecordSurvives`: `Spec => []RecordSurvivesReboot`
- `StagedSurvives`: `Spec => []StagedSurvivesReboot`
- `StoreImplementsRegister`: `Spec => ImplementsRegister`

None of these is inductive: that the boot scan finds the record says nothing of a
slot that is half written.  `StoreInv` is:

- `Progress`: how far the stage in progress has filled its slot, word by word;
- `JobInv`: the stage continues the generation count;
- `RecordInv`: the slot on record is valid and committed, and at most `restaged`
  stages behind the newest generation;
- `TargetInv`: the other slot, if valid, is either a superseded record, older than
  the present one, or the prepared frame, newer than it;
- `SlotInv`: RAM's slots are the ones the above speak of.

The distance in `RecordInv` is counted round the generation cycle (`Ahead`).
`NextGeneration` says that a stage adds one to it, `AheadIsNewer` that the signed
comparison is right up to `RestageLimit`; these two carry the wraparound.
`ScanPassesOver`, `ScanFindsPrepared` and `ScanFindsPromoted` say what a boot scan
finds by what the other slot holds, and every action is one lemma
(`StageBeginInv` ... `PowerCycleInv`).

For the refinement, `RegisterView` reads the register's variables off the target
slot in any store in its invariant, and each Flash operation is then shown to be
one step of the register or none: the writes disturb or stutter, the stage marker
lands, the commit marker promotes, a Flash error fails or spoils, a power cycle
is a power cycle.

### The card's firmware

Proved for any set of pictures, any number of strips and any number of faults, power
cuts and frames, from `PictureAssumption` and `FrameAssumption` (the two marks for a
frame that is not there are no frames): `CardTypeOK`, `RecordIsAlwaysShown`,
`RecordWasAlwaysSent`, `ReadyIsAlwaysDurable`, `ReadyAlwaysAcceptsExecute` and
`RefreshIsAlwaysOfOnePicture`, from `CardInductive`.  The invariant `CardInv` is

- `TransferInv`: the session is one that a START announced or a PATTERN or the boot
  made, and a committed buffer is the announced image;
- `StoreInv`: every frame of the store, and the one being staged, is of a picture that
  was sent, or the factory's;
- `LoopTypes` and `StateInv`: what `state` and `pc` say of the session;
- `CleanInv` and `CycleInv`: how far a clean cycle is, and what it has done to the
  panel by then;
- `HoldingInv`: a card that has the whole picture has it in Flash once it is staged,
  and stages nothing but such a picture;
- `GrayInv`: a second plane is driven over the first plane of the same picture, band
  by band;
- `DriftInv`: if all refreshes since the record was last shown were toward one image,
  a strip shows the record or that image, and is in between only where they differ.

None of the properties is inductive.  That the record was sent rests on the staged
frame being the buffer that a COMMIT has checked, through every step between them;
that READY is durable on the stage having ended with this buffer, under this id;
that the panel shows the record on what the refreshes that never ended have left
behind (`DriftInv`), or on the phases that have gone over it since (`CycleInv`).
`StartApplied` ... `ExecuteApplied` say what one frame does to a session, over the
field by field lemmas of `NCTransfer_proofs`, and every action is one lemma.

### The upload

Proved for images of any length, any number of pictures and any number of late
replies, losses of the field and new jobs, from `LinkAssumption`: `LinkTypeOK`,
`BufferAlwaysHoldsAnnounced`, `NeverMoreThanOneFrameAhead`,
`OnlyUnknownTransferIsRefused`, and the action property `ConfirmedImageWasCommitted`,
from `LinkInductive`.  The invariant `LinkInv` is

- `MessageInv` and `PhoneInv`: what frames, replies and the phone's work are;
- `Session`: the offset and the sequence number go together, the buffer holds the
  announced image up to the offset, and the remembered frame is of the state the
  card is in;
- `OneMessage`: one message is on its way, if any (a reply behind a new frame is
  never published), and none after a run that ended well;
- `WorkInv`: what the phone knows of its own place;
- `PlaceInv`: a card in the phone's transfer received the phone's picture, and is at
  the phone's place or one frame further, remembering that frame;
- `StoredInv`: what Flash holds under the id of the phone's work, the card is in;
- `FrameInv`: the frame in the mailbox is the one the work would send now, and the card
  will find it a repetition, in its place, or not of its session;
- `ReplyInv`: a reply, wherever it is, is about where the card still is.

`AtMostOneFrameAhead` is not inductive: the next frame brings the card further
unless the card remembers the last one and takes it for a repetition, which needs
`FrameInv`, and the phone moves to where the reply says, which needs `ReplyInv`.
`CardHandleCases` says what a frame can do to the card (`CardStays`, `CardOpens`,
`CardMovesOn`), and every action is one lemma (`CardHandleKeeps` ...
`PhoneDrainsKeeps`).  That the phone is refused for no sequence number, offset, length
or CRC is the type of `Reply`: the proof that every reply is one is where it is
earned.

### The whole job

Proved for any pictures, strips, works, jobs, frames of the other phone and faults,
from `LinkAssumption` and the assumptions of `CardFirmware`.  The card's part of the
invariant is `CardInv` itself: `CardFirmware_proofs` proves that it is kept under any
frame of `WireFrame` (any chunk of DATA, at any sequence number and offset), of which
the frames of `PhoneFrame`, bounded for TLC, and those of the coordinator are some
(`PhoneFrames`, `WorkFrames`).

`FieldIsAlwaysHeld` (`FieldHeldDuringRefresh`) rests on `LinkedInductive`, `Resets`
or not.  `LinkInv` adds to `CardInv`

- `MailInv`: the coordinator's types, and one message at a time in the mailbox;
- `IdInv`: whatever bears an id of the job, on the card, in its Flash or in the
  mailbox, has one below `nextID`, so that a new work is no old one's;
- `FieldInv`: while the card refreshes with the work of the job, or an EXECUTE for it
  is in the mailbox, `executeSent` and `refreshMayBeActive` are set; before an EXECUTE
  is sent in this run neither is the case;
- `AnswerInv`: what an answer still says of the card when it is read, since the card
  goes on in between;
- `ErrorInv`: a card that stops between an EXECUTE and its confirmation reports why.

The property looks at the moment a run ends, where what matters is a flag set at
an exchange long before, in a session that may have been lost.  It would break at
an id used twice (a work that was given up and is refreshing), at a stale READY
answer (`AnswerInv`) and at an ERROR that goes on to be asked for (`ErrorInv`).

`CompletedIsAlwaysRecorded` (`CompletedIsRecorded`) and `CleanedIsAlwaysShown`
(`CleanedIsShown`) have the hypothesis `~ Resets`, the one `MCExecuteLink` checks them
under: when the card may restart under the phone the first is what `MCExecuteReset`
refutes.  They rest on `RecordInductive`: `RecordInv` adds to `LinkInv` the
following, of which all but the last (`WorkInv`) is inductive with resets too:

- `OutcomeInv`: COMPLETE means that the transfer is on record with nothing prepared,
  and, for one with cleaning, that `adrift` is empty;
- `CleanWorkInv`: a work with cleaning is a transfer with cleaning in the mailbox, in
  the session, being staged and in Flash, until the record, which does not say so;
- `ConfirmInv`: who waits for a confirmation waits for its own transfer, and an
  answer of COMPLETE is about a transfer on record.

From `OutcomeInv` to the panel it is `DriftInv` of the firmware, and from the record to
the target `KeptOwn`: what Flash holds under an id of the job is the target.  What the
card does by itself is summed up in `RunEffect` and `PowerEffect`, what a frame does in
`FrameEffect` (`Untouched`, `Reopens`, `Advances`, `Orders`) and what the answer says in
`ReplyFields` and `ExecuteReply`; a step of the coordinator leaves the card alone
(`Still`), so that `Settles` and `KinKeeps` prove all of them at once from what they make
of the job (`Goes`).

`CompletedIsAlwaysShown` (`CompletedIsShown`) is about a job of either kind, with resets
of the card under the phone, and has the hypotheses `OtherLimit = 0` and `JobLimit = 1`
of `MCExecuteAlone`: with other jobs or phones the property is false without cleaning,
as said above.  It rests on `AloneInductive`: `AloneInv` adds to `WorkInv`

- `AloneIds`: what the card holds is of the job or from the factory, so that nothing is
  gray and no clean cycle is forced (`AloneMono`);
- `JobsInv`: while the job is not to be cleaned no transfer of it was with cleaning, and
  the panel has been driven toward the target alone.  This is where the coordinator's
  care pays: `Forget` turns to cleaning whenever it repeats what may have been executed
  (`PlannedWork`, `Kin`);
- `ShownInv`: from the acceptance of an EXECUTE on, the work is prepared on the card
  (`InHand`), whatever resets it, or the panel shows it and nothing else is prepared
  (`Settled`).

After a reset the record may tell the older picture although the panel shows the
target, and COMPLETE is then about that record: the invariant cannot speak of the
record, as `ConfirmInv` does.  The step from one to the other is the end of a refresh
(`CommitShows`), which is a clean cycle (`CycleInv`), or one from a panel on which
nothing but the target was ever driven (`DriftInv`).

### The power pins

Proved for every number of bus pins (`PinCountAssumption`): `LoopStaysDark`,
`RailNeedsHold`, `BusNeedsRail`, from `PowerInductive`.  `LoopIsDark` is not inductive:
that the loop finds the pins off depends on each step of `board_epd_power_off`
having undone whatever the interrupt came between.  `PowerInv` says for every
place of the main program which pins can be on there: `BusInv` the bus pins up to
the one `HAL_GPIO_Init` has come to, and the copy of MODER that the interrupt may
have made stale; `RailInv` the rail between switching on and cutting; `HoldInv` that
a brownout seen by the main program ends without the hold.

### The Android reader

Proved for any number of tickets and acts (`LimitsAssumption`): `OneTransfer`,
`OpenOwned`, `FieldKept` and `FreshCard`, from `TransferInvariant`.  The invariant is

- `Types`;
- `TurnInv`: which ticket the reader is busy with, and that every other one has
  neither worker nor posted task;
- `ConnectionInv`: what a worker owns and has open at each of its places;
- `CloseInv`: a close that runs is of the active ticket, which is cancelled, and is
  the one `MainActivity` waits for.

`OneTransferAtATime` is not inductive because a ticket that is over must also have
no close running and no task left that could end the next one.  `FreshCard` has an
invariant of its own, `FreshInv`: the reader in the foreground is newer than the
last request, unless a restart or a refresh is still owed.

### The URL writer

Proved for any set of cards, any message length from two blocks on and any number
of faults (`UrlAssumption`): `UrlTypeOK`, `HalfWritten`, `NoGarbage`, `NoOtherSession`,
`SuccessWritten` and `OnlyPlanned`, from `UrlInductive`.  The invariant `UrlInv` is

- `AppTypes` and `MailboxTypes`;
- `ServiceInv`: what `resume` does not look at: the request that is kept is no image
  while there is a journal;
- `JournalInv`: at each place of the writer whether there is a journal, and that it
  is of the card in the session;
- `ReplayInv`: the blocks before the next one are as the plan leaves them, and every
  block is one of the plan's or of a blank card;
- `MemoryInv`: a reader of any card finds a whole message, none or an error, a half
  written card is the journal's, and the card holds the message once verified.

Not one of the properties is inductive: that a card is half written only with a
journal rests on the plan writing the length last (`Plan`, `PlanStep`), on every block
before it being one of the plan's (`Replays`), and on the writer having found a
whole card before it removes the journal (`SettledReadable`).  `OnlyPlanned` rests
on `validateReplay`, which refuses a card that another phone has written to.

### Only model-checked

All liveness (`UploadCompletes`, `BusySettles`, `BrownoutEndsDark`, `ReaderSettles`,
`RecoveryEnds`, `JobCompletes`: fairness and ENABLED are beyond the prover), and the
disagreements above, each of which is a counterexample.

## Not modelled, and what is left

Not modelled: frame parsing and CRC arithmetic (unit-tested, no state), the
self-test, fixed-image and prepare-white builds (bench tools), SPI and I2C
register traffic, provisioning, editors and views, host tools, vendor code and
the hardware design.  By lines most of the repository is vendor code: the ST HAL
and CMSIS headers under `firmware/Drivers`, which define registers and have no
logic of this program.

Of modelled components:

- The ten gray bands, the last of which is widened to sixteen rows, over rows that
  were driven before (`app.c:651`): whether a second drive of the same rows changes
  their shade is a matter of the panel.
- Android's own transfer loop, which takes COMPLETE after a rescan for its own
  (`MainActivity.kt:737`).  `CardFirmware` accepts its frames from any phone, so what it
  can do to the card is covered; what it reports is not.
- iOS's callback tokens and the detection of a card again within a session, the
  jobs that are not images (patterns, status, the legacy cleaning sequence), and
  deadlines as numbers.
- The charge timeout, after which a repeated COMMIT is answered DUPLICATE by a card
  that stays in error (`app.c:368`): `CardFirmware` has the behaviour, no property
  speaks of it.
- An ECC error of a torn Flash word (`stm32g0xx_it.c:4`): the boot scan's read would
  raise an NMI whose handler does not return.  `DisplayStore` takes a torn word for
  one that reads as neither erased nor set.
- A STATUS reply published in the next phase of a clean cycle (`app.c:980`).

What would come next, in this order:

1. The Android transfer loop against `CardFirmware`, in the manner of `ExecuteLink`.
2. The gray jobs of the iOS coordinator: two works, one picture.
