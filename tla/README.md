# Crazy Fish: a TLA+ verification of the game, its display and its keyboard

Crazy Fish is a two-player game on an FPGA board. A 50 MHz circuit
(`final_project.sv` and the modules it instantiates) moves nine fish, two
players and a shark, scans a VGA picture, and decides contacts by asking which
sprites are lit at the same pixel. A Nios II processor runs `software/USB`: it
enumerates a USB keyboard through a CY7C67200 host controller and copies the
first two key codes of every report to two output registers the circuit reads,
printing what it does to a console as it goes.

Source paths below are relative to `src/`.

## 1. Inventory

### Components

| Component | Source | State | Operations |
|---|---|---|---|
| Game rules | `controller.sv`, `final_project.sv:132-141` | `is_start`, `is_user1win`, `is_user2win`; the scores are sums of fish registers | start on Enter, verdict by death, verdict by score |
| Fish contacts | `fish.sv:55-70,174-226`, nine instances in `fish_top.sv` | six registers per fish: touch, owner (2), eaten, credited (2) | touch, claim, credit |
| Player contacts | `user.sv:228-247`, `user2.sv` | `hit`, `user_exist` | latch a hit by the shark, die |
| Pixel collisions | the boxes of `fish.sv`, `user.sv`, `user2.sv`; `*_RAM.sv` | the output register of every sprite ROM | look up a colour, light a sprite |
| Fish, player and shark motion | `fish.sv`, `user.sv`, `user2.sv`, `shark.sv` | position and motion of each axis, ten unsigned bits | bounce, steer, hunt, step |
| VGA timing, frame tick | `VGA_controller.sv`; `fish.sv:47-53` and its copies | counters, sync and blank registers, edge detector | scan, blank, tick |
| HPI bus | `hpi_io_intf.sv`, `software/USB/io_handler.c` | PIO registers, pin registers, read register | `IO_init`, `IO_write`, `IO_read` |
| USB host software | `software/USB/main.c`, `usb.c` | the place in the program, key code registers; in the chip: pointer, transfer list, message, flag | reset, enumerate, resend, poll, re-plug |
| Console | `software/USB_bsp`: the JTAG UART driver, `HAL/src/alt_irq_*`, `alt_io_redirect.c`, `alt_write.c`; the generated JTAG UART | ring buffers, interrupt enable bits, descriptors; in the device: two FIFOs, interrupt conditions | start-up, write, interrupt routine |
| Picture | `Color_Mapper.sv`, `background.sv`, ROM data | none | choose a colour |
| Hex and score digits | `HexDriver.sv`, `bin_display.sv`, `bin_data.sv` | none | tables |

### How they interact

- Everything in the circuit is clocked by `Clk`; `VGA_CLK` is `Clk` / 2. All
  registers of one edge change together, from the values before it.
- The VGA counters are the only source of contact: a fish is touched by a
  player at a clock edge at which both are lit. So the geometry of a contact is
  spread over time, in the order of the beam.
- The sprites derive a frame tick, each on its own, from the vertical sync and
  move once per tick.
- The fish tell the score (`final_project.sv`), the players and the score tell
  the controller, the controller tells the sprites and the colour mapper.
- The software reaches the USB chip by stores to PIO registers, which
  `hpi_io_intf.sv` forwards to the pins; it polls, the chip interrupts nobody.
- The software and the circuit share two key code registers, written one
  after the other and read at every clock.
- `printf` and the interrupt routine of the console share a ring buffer without a
  lock. The polling loop prints in every round, so a `printf` that does not
  return takes the keyboard away from the game.

### What is hard here, and what makes each part correct

- **Contacts** are credited a clock after the touch from a register that the
  touch of that clock may overwrite. Correct: the registers of a fish agree, the
  first to touch it is credited, nobody else unless the beam really can light
  both players and the fish at neighbouring edges.
- **Verdicts**: deaths, the last fish and Enter may fall on one clock and the
  end of the game is an equality test. Correct: every verdict has its reason,
  both players win only by a death that contradicts the score, the page never
  goes back, a hit or the last fish ends the game.
- **ROM delay**: a box of this clock is combined with the colour of the last.
  Correct: lit means overlapping.
- **Motion** is unsigned arithmetic with two's complement steps and wall tests
  that must win against the keys and the chase. Correct: nobody
  leaves the field, nothing wraps, nobody stands still, the shark can reach any
  place.
- **Clock domains**: sync, counters and tick detectors are pipelined. Correct:
  outputs belong to the counters, one whole picture between two moves.
- **HPI**: strobes, bus and registers are each a clock apart, and Reset clears
  the interface but not the processor. Correct: writes land, reads return,
  nothing else changes.
- **USB**: the chip answers at any time, so an answer may belong to an earlier
  sending; it announces insertions and removals in the register of the answers, which
  the program reads and then clears; and the byte the program looks at is that of the
  first descriptor of a list only. Correct: no step is passed before the keyboard has
  acknowledged its first packet, an answer is waited for only while there can be one, a
  keyboard that stays is polled in the end, its reports arrive, and a key that is
  held does not blink between the two stores. Not all of it is (section 4).
- **Console**: the program works with an old copy of an index the interrupt
  routine moves; the interrupt is turned on by one and off by the other; the
  device interrupts from the first line of the start-up on. Correct: nothing is
  lost or doubled, no wake-up is lost, no interrupt finds nobody.

`PROJECT.json` lists these hazards at their lines.

## 2. Modules

`A -> B` reads "A extends B".

| Module | Models | Extends |
|---|---|---|
| `Fish` | the contact registers of one fish: `FishReset`, `FishNext` | |
| `Game` | all fish, both players, score, controller; `Clock` is one edge of `Clk` | `Fish` |
| `Contest` | what the players are promised; abstract, implemented by `Game` | |
| `FirstTouch` | `Game` with a history of who touched what | `Game` |
| `Raster` | a scan line: beam, ROM output registers, lit sprites, feeding `FishNext` | `Fish` |
| `Motion` | the arithmetic of an axis: `Plus`, `Turn`, `Bounce`, walls | |
| `FishMotion`, `UserMotion`, `SharkMotion` | the frame update of each kind of sprite | `Motion` |
| `Vga` | counters, sync, blank and the frame tick | |
| `Ports` | what the callers of `IO_write` and `IO_read` rely on; abstract, implemented by `Hpi` | |
| `Hpi` | `IO_init`, `IO_write`, `IO_read`, `hpi_io_intf`, the chip's ports | |
| `Session` | what the game is promised of the keyboard; abstract, implemented by `UsbHost` | |
| `UsbHost` | `main.c` and `usb.c` beside the chip | |
| `Channel` | what `printf` is promised; abstract, implemented by `Console` | |
| `Console` | the console driver, its interrupt routine, the JTAG UART and the terminal | |
| `MC...` | the values of the constants for TLC | the module named |
| `...Proofs` | theorems and lemmas: `GameProofs` (on `FirstTouch`), `RasterProofs`, `FishMotionProofs`, `UserMotionProofs`, `SharkMotionProofs`, `SignalProofs` (on `Vga` and `Hpi`), `UsbHostProofs`, `ConsoleProofs` | the modules named |

**Correspondence.** A hardware action is a clock edge (`Clock`) or a frame
(`Frame`): every register gets its next value at once, the inputs of the module
(lit sprites, keys, the other sprites' positions) are chosen with `\E`. Names of
registers are those of the source. The nested `always_comb` defaults and
overrides become one next value per register. In the software, one action is one
access to state that another party may change in between (`UsbHost`), or one
store (`Hpi`, whose clock runs on between stores).

- `Game`: the inputs `lit`, `is_shark`, `school` say which players, the shark and
  which fish are lit at this edge, so every geometry is covered. The hit of a
  player is latched (`UserStep`) before it kills, as in the code.
- `Raster` replaces those free inputs by the beam. Player 1's picture has no
  opaque pixel in its last column; that fact of the pictures matters (below) and
  is `RasterAssumption`.
- `Motion`: positions are 0..1023 and every sum is taken modulo 1024. `Turn` is the
  bounce of the fish and players. In `SharkMotion` the walls override the chase.
- `UserMotion`: `Steered` is the chain of key tests: the first key code decides
  if it is one of the player's keys, else the second. `user2.sv` differs in the
  codes only.
- `Vga`: `VGA_CLK` is modelled by `half`; Reset may change at any edge, and reaches
  the counters through the register `Reset_h`.
- `Hpi`: `Gap` is the least number of clocks between two stores. The processor is a
  Nios II/e (at least six clocks per instruction); three are enough. `Ports` has the
  cells of a memory and a call; `Hpi` implements it with `busy <- todo # <<>>` (the
  call has statements left) and `answer <- temp`: the property `Serves`. It makes no
  promise for a call that Reset disturbed but that no other port suffers.
- `UsbHost`: lists are numbers. `Start(list)` stands for the writing of a list
  and of the pointer that starts it: the bytes of a list are wire format of the
  chip. A list has two to ten descriptors; `First` ends the first of them and writes
  its control byte (0x0508), the only one the program reads; `End` ends the list, whatever
  became of the others, and posts `HUSB_TDListDone`. List 0 is the endpoint descriptor of `main.c:343-349`, which is started by
  writing its address to the pointer register and which nobody waits for. The
  retry byte is kept as `active`, `ok` (0x03) or `retried`, the message as
  `none`, `done` (`HUSB_TDListDone` and no other bit, which is what the program
  compares with) or `other`. `Plug` is news to the chip, which may announce it
  (`Notice`): it writes over an answer that has not been read or adds a bit to it. An
  answer posted over an announcement replaces it or is combined with it. Reading the
  message clears the flag. `lost` says that an answer was erased unread since the last
  start, `late` that the last start found an unread answer.

  `Session` has the list the program is at, the lists the keyboard has accepted since the
  reset (it has acknowledged their first packets) and the two registers; `UsbHost` implements
  it with its own variables of the same names (`KeepsSession`): no list is accepted ahead of the
  program, none is left out, and nothing gets into the registers before all are accepted.

  `shown` remembers what the key code registers held when the next word was read,
  for `HeldKeysAreSeen`.
- `Contest` has a page, the credits of each fish and the set of dead players. `Game`
  implements it with `page <- Screen` (what `Color_Mapper.sv` shows) and the
  registers of the fish and players: `Promise == INSTANCE Contest WITH ...`, the
  property `KeepsPromise`. A page with a winner appears only if its reason (a
  death, or the scores) was there before, is the one the reason calls for, and
  changes once at most, when a score contradicts a death.
- `Console`: `pc` is the place of the program, `isr` that of the interrupt routine;
  the program makes no step while the routine runs (one processor), the terminal
  always may. One action is one access to something the other side may change:
  `Copy` reads both indices (only `tx_out` is shared), `Memcpy` and `Publish`
  write the ring and the index apart from each other, `RxTake` and `TxPut` move one
  character. An access to `irq_enable` outside the routine is one action because
  the code masks interrupts around it (`Kick`) or the interrupt is not enabled yet
  (`InitDevice`). The interrupt request of the device is a function of its state:
  it lags by two clocks in the circuit, and an instruction takes six at least.
  `Channel` has the text still to be taken and a queue; `Console` implements it with
  `queue <- fifo \o Waiting`, the characters in the device followed by those in the
  ring (`Delivers`).

Definitions marked `fault:` in the modules are broken forms of a neighbouring
definition, kept to show that a property notices a plausible mistake
(`PROJECT.json`, "mutants"). Nothing else refers to them.

## 3. Runs

| Run | Configuration | Bound | What it shows |
|---|---|---|---|
| `game` | `FirstTouch`, `Game.cfg` | three fish | safety of contacts, credit and verdicts; `Game` implements `Contest`; a hit or the last fish decides the game |
| `raster` | `MCRaster`, `Raster.cfg` | a line of 6 pixels, sprites of 2 | contacts are overlaps; a fish is credited twice only if the game starts in the middle of a contact |
| `fish_motion` | `MCFishMotion` | real numbers of Y, nine centres | stays, glides, patrols |
| `user_motion` | `MCUserMotion` | real Y, X field of 165 pixels, all pairs of 5 codes | stays, never stands, one key is enough |
| `user_keys` | `UserKeys.cfg` | same | finding 1 |
| `shark_motion` | `MCSharkMotion` | 1/16 of the field, five places of the players | stays, hunts, no hiding place |
| `vga` | `MCVga` | 1/16 of the picture | outputs aligned, whole pictures, frames keep coming |
| `hpi` | `Hpi.cfg` | two ports, two words, `Gap` 3 | writes land, reads return, no clash; `Hpi` implements `Ports` |
| `usb_host` | `MCUsbHost`, `UsbHost.cfg` | the nine lists, three reports of two keys | order of the steps, waits, held keys, enumeration, unplugging, reports; `UsbHost` implements `Session` |
| `usb_retry` | `UsbRetry.cfg` | same | finding 2 |
| `usb_removal` | `UsbRemoval.cfg` | same | finding 3 |
| `console` | `MCConsole`, `Console.cfg` | ring of 4, FIFOs of 2, a text of 5 | `Console` implements `Channel`; nothing overwritten, `printf` returns, all is shown, the interrupt handler finds its interrupt |

**Why the bounds are enough.**
- *Three fish*: a fish influences the others only through the sums; three give
  narrow and clear scores for either player, a fish credited twice beside one that
  is not, a total that skips the compared value, and a last fish. The theorems cover any number.
- *Six pixels*: contacts depend on the order in which columns are opaque at
  neighbouring edges; two-pixel sprites have a first and a last column, and the
  line has room for all relative places with a gap.
- *One sixteenth*: the walls, slacks and boxes keep their proportions, and the
  theorem on the shark covers its real numbers. The real 800 x 525 picture was
  run as well (3.2 million states, about a minute) with the same result; the
  small one is kept so the run stays short.
- *Cut X axis, Y axis of the fish only*: the two axes use the same operators; the
  Y axis is the one with a border at the top, and the fish starting outside.
  The theorems cover both.
- *Two words and ports*: the bus does not look at values; one word differs from
  the reset value 0, one does not.
- *Three reports*: no key, two, and the second of them alone, so a key comes, goes,
  and moves to the first place and back. The nine lists are the real number.
- *Ring of 4, FIFOs of 2, text of 5*: the text is longer than the ring takes, so
  `printf` waits; 5 and 4 have no common factor, so texts begin at every place of
  the ring and wrap round at every offset; the FIFO is smaller than the ring, so
  the routine comes back for the rest. The five characters of a text differ, so a
  lost, doubled or moved one is seen. The device is told to interrupt when its
  FIFO is empty (8 of 64 left in the build). The safety theorems cover all lengths.

**Fairness.** `Game`, `FishMotion`, `SharkMotion` and `Vga` assume that the clock
never stops; in `Game` only that idle edges keep coming, which blanking provides
in every line. Nothing makes anybody press a key or move. `UsbHost` assumes that
the program runs on (it is alone on its processor), that the chip gets through with the
first descriptor of a list it is given and in the end with a whole list, which the chip
does with or without an answer of the device, and that it acknowledges a mailbox command
in the end. For the end of a list the fairness is strong: a list that is sent again begins
anew, but between two sendings are 10 ms, in which a list fits. Plugging and unplugging are
not fair: nobody has to; nor is their announcement, which the chip may leave out. That the program runs on includes that `printf` returns,
which `PrintReturns` of `Console` shows, if somebody reads the console: `Console`
assumes that the program and the interrupt routine run on and that the terminal
shows what it is sent. The last is an assumption on the user. No system clock is
configured, so the driver's search for a terminal is never started and it takes it
that there is one (`altera_avalon_jtag_uart_init.c:89-96`): without a terminal the
program stops in `printf` when ring and FIFO are full. Nobody has to print or type.

**About some properties.**
- `CreditedTwiceOnlyAtStart`: the code credits a fish to both players if one
  touches it and at the next edge the other does. The beam passes the columns of
  a pixel in which both players are lit in an order that prevents this, because
  player 1 is tested first and its picture ends in a transparent column. What is
  left is Enter arriving in the middle of a contact: then the first touch that
  counts may be player 2's, half a pixel before player 1's.
- What a fish credited twice does to the game: it is credited to one
  player and a clock later to the other, so every total is reached for a clock at least
  and the equality test of `controller.sv:66` still succeeds; but the total is one
  more than the fish that are gone, and the game ends one fish early. Only if two fish
  are then credited on one clock, from 8 to 10, is 9 skipped and the game never ended by the
  score. `Game` has these cases (`LastFishDecides` and `WinnerJustified` excuse them).
- `WaitsAreAnswered`, `EnumerationEnds`, `UnplugNoticed` and `ReportsArrive` excuse two kinds of
  waits the code cannot get out of by itself (`Vain` in the liveness properties). One is for an
  answer that was erased unread (`lost`): an announcement is read, and the answer comes before
  the register is cleared; or an announcement spoils the answer or is combined with it.
  The other is that of `UsbGetRetryCnt` for the flag of another message (`usb.c:569`). It
  is reached only if a list was started beside an unread answer (`late`, of the list in hand):
  the program looks at the flag, and if there is none sends the list again; if the chip
  finishes between the two, the list is run twice, its first answer is read for the
  second, and the second is taken in `UsbGetRetryCnt`. `EnumerationEnds` also assumes that
  lists are not started like that for ever: the answer to the first list could be read too
  early in every round, and the enumeration begin again.
- `StepsInOrder` and `KeepsSession` hold in all these cases, because the retry byte is written
  anew with every sending. They speak of the first packet of a list and no more: the byte
  says nothing of the other descriptors, nor that the list has ended. The program prints
  "get device descriptor-1 done!" (`main.c:228`) all the same, also when the data or status
  phase had retries.
- `HeldKeysAreSeen`: between the two stores the game sees a pair that no report
  held. A key that was shown and is in the next report is there all the same,
  with one exception the code has: a key moved from the first place to the second
  is gone between the two stores (its old place is written first). Keyboards move
  a key the other way only, when the first of two held keys is released.
- `SearchEnds`: what is pending when the processor takes the interrupt is still
  pending when `alt_irq_handler` looks, because the terminal can only add reasons:
  it takes characters from the one FIFO and puts them into the other.
- `NoContention` starts with the fourth store of `IO_init`: the PIO registers
  are reset to 0, which is "active" for all strobes.

## 4. Findings

1. "key A, clear y directional motion and moving left" (`user.sv:109`): next to the
   top or bottom wall the bounce that follows sets the vertical motion again.
2. "Call the appropriate function again if it wasn't processed successfully."
   (`software/USB/main.c:210`): a list that ended with retries is read again
   without end and never sent again, except the first, which begins all over.
3. "the keyboard has been removed!!!" (`software/USB/main.c:538`): the message of the removal makes
   the program read and clear the message register; if the answer to the polling list comes
   between the two, it is lost, and `UsbWaitTDListDone` waits for it for ever. The keyboard
   can be plugged in again without effect.

## 5. Proofs

All proofs are for every value of the constants that satisfies the named
assumptions (which TLC evaluates in the runs).

- `GameProofs` (any finite set of fish). `TypeCorrect`; `ContactsConsistent`, an
  inductive property of one fish lifted to all; `NothingHappensBeforeStart`;
  `WinnersAreJustified`, inductive beside the consistency of the contacts, because
  with no fish credited twice the total is complete exactly when no fish is left
  (a fact about the cardinalities of two disjoint sets); `TwoWinnersNeedADeath`,
  from `VerdictInv`, which says what each win flag proves about deaths, total and
  score: a score verdict can only be contradicted by a death or after the total has
  gone past its value. `ScoresAreFinal` is an action property from the same
  invariants. `GameKeepsPromise` is the refinement of `Contest`: every clock edge is
  a step of the contest or a stutter; that a decision has its reason follows from
  the guards of the controller, that a verdict changes once at most needs
  `VerdictInv`, and that the credits only grow the consistency of the contacts.
  On the histories of `FirstTouch`, `FirstToucherIsCredited`: between touch and credit the owner
  register may be overwritten, so the invariant says what the register holds in
  the one clock before it is copied. `CreditsAreEarned`. `HistoryImplementsGame`:
  the history variables only observe, so everything above holds of `FirstTouch`.
- `RasterProofs` (lines and pictures of any width, any rows on them). `RasterContacts`
  needs only `RomInv`: the colours of all sprites belong to one pixel, the one
  before the beam's in the first half of a pixel and the beam's own in the second, so
  two sprites lit together overlap there. `RasterCredits`: unless the game starts in
  a contact, the first touch of a fish falls in the second half of a pixel
  (`UntouchedInv`: what the first half could show, the half before it has shown), and in the
  clock from touch to credit the owner register is written with the colours of the
  touch or kept (`CreditInv`). Kept or not, the owner is player 1 exactly if
  player 1 was lit: its test comes first, and the next pixel is still in its
  box because its picture has no opaque last column.
- `FishMotionProofs`, `UserMotionProofs`, `SharkMotionProofs`: type correctness and
  that the sprite stays in its field; a fish glides by one step; a player never
  stands, and away from the walls one key in either place of the report is
  obeyed (`UserOneKeyIsEnough`);
  the shark comes a step nearer to one of the lowest players (`SharkHunts`: the prey
  is one of them, and between the walls nothing but its place decides). Being in the field is not inductive alone: the invariants add the room
  beyond the far wall and that a motion is 0 or a step to one side (0 only before the
  first frame for the fish); `UserNeverStands` needs that a player with no motion is
  in the bounce zone of the top wall. The lemmas `PlusForward`, `PlusBack` and `PlusCut`
  say what the sum modulo 1024 is: the sum, or the difference for a two's complement
  step, while it stays in range, and always a value of the register.
- `SignalProofs`, on `Vga` (lines and frames of any size). `BeamInv` says where in
  the picture every register of the pipeline changes: the sync register is low
  exactly during the pulse and at the first pixel after Reset (`SyncInv`), so the tick is
  announced in the second half of one known pixel, `TickPixel` (`EdgeInv`), and the number of
  lines shown since the last tick is a function of the counters (`LinesInv`). From it
  `BeamOutputsAligned` and `BeamWholePictures`, with Reset at any clock; `BeamTypeCorrect`.
- `SignalProofs`, on `Hpi` (any ports, any words, any `Gap` of three or more). The
  statements left of a call determine the PIO registers (`TodoInv`, `PioInv`), and the
  pins are theirs of the clock before or those of Reset (`PinsInv`); `WordInv` says from
  which statement on the word has reached the port, or the port's word the registers
  `data_in` and `temp`, unless Reset disturbed the call. From these follow
  `HpiTypeCorrect`, `HpiWriteLands`, `HpiReadReturns` and `HpiNoContention`. `HpiServes` is the
  refinement of `Ports`: `ChipStep` lists what a clock edge can do to a port (nothing,
  unless a write has its strobe on), so an edge is the start of a call, a step of
  the memory (`CallStep`) or a stutter.
- `UsbHostProofs` (any number of lists, any reports). `HostStepsInOrder`: the
  invariant `SentInv` adds that, while a step is being checked, the chip's pointer
  names the list of the step and an `ok` retry byte means that its first packet was
  acknowledged. `HostWaitsAreAnswered`: `AnswerInv` says that until the program has read an
  answer the chip is still at the list, or the message is the answer, or it was erased;
  and that once it has read the only answer to a list that was not started late, the
  chip is at rest and the message is none. `HostShowsHeldKeys`: nothing but the two stores writes the registers.
  `HostKeepsSession` is the refinement of `Session`; it needs `AheadInv`, that a list the chip
  has yet to begin is the program's or was accepted before, which holds for the second run of a
  list that was sent twice because the program leaves a step only when its list was accepted, and
  after a reset because the reset takes the list away.
- `ConsoleProofs` (rings and FIFOs of any length, any texts).
  `ConsoleNothingOverwritten`: `CopyInv`, the room computed from the old copy of
  `tx_out` is never more than the room there is, because the routine only makes
  more; `RoomFits` is the arithmetic of the three cases of `Room`.
  `ConsoleSearchEnds`: an interrupt that was seen stays pending, and is not enabled
  before its handler is set. `ConsoleDelivers`, the refinement of `Channel`: adds
  `FlowInv` (the routine never sends more than the device takes, the text that is
  published is in the ring, descriptor 1 stays the console's). `Publish` is the
  channel's `Put` (`PublishAddsText`: a wrapped part of the ring grows by a part of
  the text), `Show` its `Get`, `TxPut` a stutter (`TxPutMovesOne`), and all other
  steps leave the queue alone; the equalities of sequences are shown element by
  element.

**Only model-checked**: the properties under fairness (`HitDecides`, `LastFishDecides`,
`Patrols`, `NoHidingPlace`, `FramesKeepComing`, `EnumerationEnds`, `UnplugNoticed`,
`ReportsArrive`, `PrintReturns`, `AllIsShown`), because liveness is beyond the prover.
Every other property of the passing runs is stated by a theorem.

## 6. Not modelled

- Pictures, palettes, digits, drawing order: display only, nothing reads it back.
- The generated system (`final_project_soc`, PLL, interconnect), except the
  registers and interrupts of its JTAG UART.
- Most of the board support package. It is the larger part of the repository's C
  code and the program does not call it: logging, profiling, ticks and alarms,
  files, `read`, `ioctl`, `close`, cache and DMA support, the small variant of the
  driver. Of the start-up, constructors and the buffering of the C library.
- `cy7c67200.h`, a table of register names, and the words of the USB lists: wire
  format the external chip interprets. The writing of a list and of the pointer is one
  step, and a chip whose pointer is written begins with that list anew: whether it
  can meet a half-written list or goes on with the old one depends on times (a list takes a
  few milliseconds, the program waits ten) that the model leaves out.
- What the messages of the USB chip are, apart from `HUSB_TDListDone`: insertions and
  removals are `other`. The message of every frame (`HUSB_SOF`) is not sent to the processor
  (`main.c:71` leaves its routing out).
- What the chip does when the bus floats: `Hpi` assumes that it keeps the last word it saw,
  because the interface lets the bus go with the PIO (`hpi_io_intf.sv:43`), a clock before the
  write strobe ends at the pins (`hpi_io_intf.sv:35`). `WriteLands` and `Serves` depend on it.
- The left edge: in `Raster` no sprite begins in the first column of the line; the motion rules keep
  the boxes away from it.
- `calculator.sv`, `counter.sv`, `skills.sv`, `user_top.sv`: not instantiated.
- Metastability of the keys and of the key code registers.
- A keyboard exchanged for another within 35 ms while it is polled: the chip model
  does not tell addresses apart.
- What a keyboard that is unplugged leaves in the key code registers: its last
  report, and nothing in the repository says what it should be.

## 7. Plan

Order of what is left:

1. Composition of motion and contact: the positions of `UserMotion` and `FishMotion`
   as the `left` and `row` of `Raster`, so that contacts follow from overlapping
   boxes.
2. The polling toggle of `main.c:471` and address-aware devices in `UsbHost`.
