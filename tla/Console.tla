------------------------------ MODULE Console ------------------------------
(***************************************************************************)
(* The console of the USB program: printf writes to descriptor 1, which    *)
(* alt_main directs to the JTAG UART before main runs; the driver copies   *)
(* the text into a ring buffer, and an interrupt routine moves it from     *)
(* there into the FIFO of the device, which the terminal on the other side *)
(* of the JTAG cable reads.  The program and the interrupt routine share   *)
(* the ring without a lock.  The terminal may send characters as well, and *)
(* nobody reads those.                                                     *)
(* The program runs on one processor, so it makes no step while it is      *)
(* interrupted; the terminal and the device go on all the time.            *)
(* Definitions marked "fault:" are the broken forms named by the mutants   *)
(* of PROJECT.json; nothing else refers to them.                           *)
(***************************************************************************)
EXTENDS Integers, Sequences

CONSTANTS
  BufLen,     \* the length of the ring buffers: 2048 in the build
  FifoLen,    \* the length of the FIFOs of the device: 64
  Few,        \* the device interrupts when so few characters or places are
              \* left: 8
  Fds,        \* the number of file descriptors: 32
  Char,       \* the characters
  Texts,      \* the texts the program prints
  Blank       \* what the ring buffers hold at first

ASSUME ConsoleAssumption ==
  /\ BufLen \in Nat /\ BufLen > 1
  /\ FifoLen \in Nat /\ Few \in Nat /\ Few < FifoLen
  /\ Fds \in Nat /\ Fds > 3
  /\ Blank \in Char /\ \A t \in Texts : t \in Seq(Char) /\ t # <<>>

VARIABLES
  pc,                 \* the statement the program is at
  text,               \* the characters of the text not yet in the ring
  in, out, n,         \* the local variables of altera_avalon_jtag_uart_write
  fd,                 \* alt_fd_list: the device and the access mode
  tx_buf,             \* the ring of the characters to be sent: written at
  tx_in, tx_out,      \* tx_in, read at tx_out, empty when they are equal
  rx_in,              \* where the ring of the characters received is written
  irq_enable,         \* the driver's copy of the interrupt enable bits
  isr,                \* where the interrupt routine is
  wi, space,          \* what it found in the control register
  ravail,             \* what it found in the data register
  handler, ienable,   \* processor: the handler is set, the interrupt enabled
  fifo,               \* device: the characters the terminal has not read
  received,           \* device: the number of characters it has received
  pause_irq,          \* device: the terminal pauses
  ien                 \* device: the interrupts enabled

program == <<pc, text, in, out, n, fd>>
ring == <<tx_buf, tx_in, tx_out, rx_in>>
routine == <<isr, wi, space, ravail>>
processor == <<handler, ienable>>
device == <<fifo, received, pause_irq, ien>>
vars == <<program, ring, irq_enable, routine, processor, device>>

Init ==
  /\ pc = "device" /\ text = <<>> /\ in = 0 /\ out = 0 /\ n = 0
  /\ fd = [i \in 0..(Fds - 1) |->
             [dev |-> IF i <= 2 THEN "null" ELSE "none", mode |-> "RDONLY"]]
  /\ tx_buf = [i \in 0..(BufLen - 1) |-> Blank]
  /\ tx_in = 0 /\ tx_out = 0 /\ rx_in = 0 /\ irq_enable = {}
  /\ isr = "off" /\ wi = FALSE /\ space = 0 /\ ravail = FALSE
  /\ handler = FALSE /\ ienable = FALSE
  /\ fifo = <<>> /\ received = 0 /\ pause_irq = FALSE /\ ien = {}

-----------------------------------------------------------------------------
\* The device asks for an interrupt as long as there is a reason for one.
WritePending == "WE" \in ien /\ Len(fifo) <= Few
ReadPending == "RE" \in ien /\ (pause_irq \/ FifoLen - received <= Few)
Irq == ienable /\ (WritePending \/ ReadPending)

\* The next place of a ring.
Wrap(i) == IF i >= BufLen THEN i - BufLen ELSE i

\* The start-up: the device is told to interrupt for received characters,
\* then the handler is set and the interrupt enabled while interrupts are
\* masked.  No system clock is configured, so the alarm that would look for
\* a terminal is not started and the driver takes it that there is one.
\* fault: the processor's interrupt is enabled together with the device's.
InitDeviceEnables ==
  /\ pc = "device" /\ pc' = "register"
  /\ irq_enable' = {"RE"} /\ ien' = {"RE"} /\ ienable' = TRUE
  /\ UNCHANGED <<text, in, out, n, fd, ring, routine, handler, fifo, received, pause_irq>>
InitDevice ==
  /\ pc = "device" /\ pc' = "register"
  /\ irq_enable' = {"RE"} /\ ien' = {"RE"}
  /\ UNCHANGED <<text, in, out, n, fd, ring, routine, processor, fifo, received, pause_irq>>
Register ==
  /\ pc = "register" /\ pc' = "stdout"
  /\ handler' = TRUE /\ ienable' = TRUE
  /\ UNCHANGED <<text, in, out, n, fd, ring, irq_enable, routine, device>>

\* A free descriptor is opened, copied to the standard one and released.
OpenFd(file, mode) ==
  fd' = IF \E i \in DOMAIN fd : fd[i].dev = "none"
        THEN [fd EXCEPT ![file] = [dev |-> "uart", mode |-> mode]] ELSE fd
Redirect == /\ \/ pc = "stdout" /\ OpenFd(1, "WRONLY") /\ pc' = "stdin"
               \/ pc = "stdin" /\ OpenFd(0, "RDONLY") /\ pc' = "stderr"
               \/ pc = "stderr" /\ OpenFd(2, "WRONLY") /\ pc' = "main"
            /\ UNCHANGED <<text, in, out, n, ring, irq_enable, routine, processor, device>>

-----------------------------------------------------------------------------
\* printf, and the driver's write.
Jump(label) == /\ pc' = label
               /\ UNCHANGED <<text, in, out, n, fd, ring, irq_enable, routine,
                              processor, device>>

Printf == /\ isr = "off" /\ pc = "main" /\ pc' = "write" /\ text' \in Texts
          /\ UNCHANGED <<in, out, n, fd, ring, irq_enable, routine, processor, device>>

\* write(1, ...) refuses a descriptor that is not open for writing, and the
\* null device takes everything.
Write == /\ pc = "write"
         /\ IF fd[1].mode # "RDONLY" /\ fd[1].dev = "uart" THEN Jump("copy")
            ELSE /\ pc' = "main" /\ text' = <<>>
                 /\ UNCHANGED <<in, out, n, fd, ring, irq_enable, routine,
                                processor, device>>

\* The room up to the end of the buffer, with one place always kept free.
\* fault: the room goes on past the end of the buffer.
RoomPastEnd(i, o) == IF i < o THEN o - 1 - i ELSE BufLen - 1 - i + o
\* fault: no place is kept free.
RoomToTheLast(i, o) == IF i < o THEN o - i ELSE BufLen - i
Room(i, o) == IF i < o THEN o - 1 - i
              ELSE IF o > 0 THEN BufLen - i ELSE BufLen - 1 - i

Copy == /\ pc = "copy"
        /\ IF text = <<>> THEN Jump("kick")
           ELSE LET room == Room(tx_in, tx_out)
                IN  /\ in' = tx_in /\ out' = tx_out
                    /\ n' = IF room > Len(text) THEN Len(text) ELSE room
                    /\ pc' = IF room = 0 THEN "kick" ELSE "memcpy"
                    /\ UNCHANGED <<text, fd, ring, irq_enable, routine, processor, device>>
Memcpy == /\ pc = "memcpy" /\ pc' = "publish"
          /\ tx_buf' = [i \in DOMAIN tx_buf |->
                          IF i \in in..(in + n - 1) THEN text[i - in + 1] ELSE tx_buf[i]]
          /\ UNCHANGED <<text, in, out, n, fd, tx_in, tx_out, rx_in, irq_enable,
                         routine, processor, device>>
Publish == /\ pc = "publish" /\ pc' = "copy"
           /\ tx_in' = Wrap(in + n) /\ text' = SubSeq(text, n + 1, Len(text))
           /\ UNCHANGED <<in, out, n, fd, tx_buf, tx_out, rx_in, irq_enable,
                          routine, processor, device>>

\* Interrupts are masked while the write interrupt is turned on.  When the
\* text is done the function returns and its local variables are gone.
Kick == /\ pc = "kick"
        /\ irq_enable' = irq_enable \cup {"WE"} /\ ien' = irq_enable'
        /\ IF text = <<>> THEN pc' = "main" /\ in' = 0 /\ out' = 0 /\ n' = 0
           ELSE pc' = "spin" /\ UNCHANGED <<in, out, n>>
        /\ UNCHANGED <<text, fd, ring, routine, processor, fifo, received, pause_irq>>

\* The program spins until the interrupt routine has taken something since
\* it found the ring full.
Spin == pc = "spin" /\ out # tx_out /\ Jump("copy")

Program == isr = "off" /\ \/ InitDevice \/ Register \/ Redirect
                          \/ Write \/ Copy \/ Memcpy \/ Publish
                          \/ Kick \/ Spin

-----------------------------------------------------------------------------
\* The processor takes the interrupt.  alt_irq_handler reads the pending
\* interrupts once more and searches them for one, without an end if there
\* is none; a handler that is not set is a jump into nowhere.
Interrupt == /\ isr = "off" /\ Irq /\ isr' = "search"
             /\ UNCHANGED <<program, ring, irq_enable, wi, space, ravail, processor, device>>
Search == /\ isr = "search" /\ isr' = IF Irq /\ handler THEN "control" ELSE "lost"
          /\ UNCHANGED <<program, ring, irq_enable, wi, space, ravail, processor, device>>

\* altera_avalon_jtag_uart_irq: the control register is read until it gives
\* no reason for the interrupt any more.
AfterRx == IF wi THEN "tx" ELSE "control"
Control == /\ isr = "control"
           /\ wi' = WritePending /\ space' = FifoLen - Len(fifo) /\ ravail' = TRUE
           /\ isr' = IF ReadPending THEN "rx" ELSE IF WritePending THEN "tx" ELSE "again"
           /\ UNCHANGED <<program, ring, irq_enable, processor, device>>

\* A character is received, as long as the ring has a place and the device
\* a character.  Nobody reads the ring: its other end stays at 0.
RxFull == Wrap(rx_in + 1) = 0
RxTake == /\ isr = "rx" /\ ~RxFull /\ received > 0
          /\ received' = received - 1 /\ ravail' = (received' > 0) /\ rx_in' = Wrap(rx_in + 1)
          /\ pause_irq' = FALSE
          /\ UNCHANGED <<program, tx_buf, tx_in, tx_out, irq_enable, isr, wi, space,
                         processor, fifo, ien>>
RxEmpty == /\ isr = "rx" /\ ~RxFull /\ received = 0
           /\ isr' = AfterRx /\ ravail' = FALSE /\ pause_irq' = FALSE
           /\ UNCHANGED <<program, ring, irq_enable, wi, space, processor, fifo,
                          received, ien>>
\* The ring is full: no more interrupts for characters that stay behind.
\* fault: they stay enabled.
RxStopKeepsOn == /\ isr = "rx" /\ RxFull /\ isr' = AfterRx
                 /\ UNCHANGED <<program, ring, irq_enable, wi, space, ravail,
                                processor, device>>
RxStop == /\ isr = "rx" /\ RxFull /\ isr' = AfterRx
          /\ irq_enable' = IF ravail THEN irq_enable \ {"RE"} ELSE irq_enable
          /\ ien' = IF ravail THEN irq_enable' ELSE ien
          /\ UNCHANGED <<program, ring, wi, space, ravail, processor, fifo,
                         received, pause_irq>>

\* A character is sent, as long as the device had space.  The device drops a
\* character when its FIFO is full.
TxPut == /\ isr = "tx" /\ space > 0 /\ tx_out # tx_in
         /\ fifo' = IF Len(fifo) < FifoLen THEN Append(fifo, tx_buf[tx_out]) ELSE fifo
         /\ tx_out' = Wrap(tx_out + 1) /\ space' = space - 1
         /\ UNCHANGED <<program, tx_buf, tx_in, rx_in, irq_enable, isr, wi, ravail,
                        processor, received, pause_irq, ien>>
\* No more to send: no more interrupts for it.
\* fault: they are turned off in any case.
TxEndAlwaysOff == /\ isr = "tx" /\ (space = 0 \/ tx_out = tx_in) /\ isr' = "control"
                  /\ irq_enable' = irq_enable \ {"WE"} /\ ien' = irq_enable'
                  /\ UNCHANGED <<program, ring, wi, space, ravail, processor, fifo,
                                 received, pause_irq>>
TxEnd == /\ isr = "tx" /\ (space = 0 \/ tx_out = tx_in) /\ isr' = "control"
         /\ irq_enable' = IF space > 0 THEN irq_enable \ {"WE"} ELSE irq_enable
         /\ ien' = IF space > 0 THEN irq_enable' ELSE ien
         /\ UNCHANGED <<program, ring, wi, space, ravail, processor, fifo, received, pause_irq>>

\* alt_irq_handler looks for other interrupts before it returns.
Again == /\ isr = "again" /\ isr' = IF Irq THEN "control" ELSE "off"
         /\ wi' = FALSE /\ space' = 0 /\ ravail' = FALSE
         /\ UNCHANGED <<program, ring, irq_enable, processor, device>>

Routine == \/ Interrupt \/ Search \/ Control \/ RxTake \/ RxEmpty \/ RxStop
           \/ TxPut \/ TxEnd \/ Again

-----------------------------------------------------------------------------
\* The terminal shows a character, sends one, or pauses after sending.
Show == /\ fifo # <<>> /\ fifo' = Tail(fifo)
        /\ UNCHANGED <<program, ring, irq_enable, routine, processor, received, pause_irq, ien>>
Type == /\ received < FifoLen /\ received' = received + 1
        /\ UNCHANGED <<program, ring, irq_enable, routine, processor, fifo, pause_irq, ien>>
Pause == /\ received > 0 /\ pause_irq' = TRUE
         /\ UNCHANGED <<program, ring, irq_enable, routine, processor, fifo, received, ien>>

Next == Printf \/ Program \/ Routine \/ Show \/ Type \/ Pause

Spec == Init /\ [][Next]_vars

\* The processor runs on, and the terminal shows what it is sent.  The
\* program prints when it likes and the terminal types what it likes.
FairSpec == Spec /\ WF_vars(Program) /\ WF_vars(Routine) /\ WF_vars(Show)

-----------------------------------------------------------------------------
(* Properties *)

TypeOK ==
  /\ pc \in {"device", "register", "stdout", "stdin", "stderr", "main", "write",
             "copy", "memcpy", "publish", "kick", "spin"}
  /\ isr \in {"off", "search", "lost", "control", "rx", "tx", "again"}
  /\ text \in Seq(Char) /\ n \in Nat
  /\ in \in 0..(BufLen - 1) /\ out \in 0..(BufLen - 1)
  /\ tx_in \in 0..(BufLen - 1) /\ tx_out \in 0..(BufLen - 1) /\ rx_in \in 0..(BufLen - 1)
  /\ fd \in [0..(Fds - 1) -> [dev : {"none", "null", "uart"}, mode : {"RDONLY", "WRONLY"}]]
  /\ tx_buf \in [0..(BufLen - 1) -> Char]
  /\ irq_enable \subseteq {"RE", "WE"} /\ ien \subseteq {"RE", "WE"}
  /\ space \in 0..FifoLen /\ received \in 0..FifoLen
  /\ wi \in BOOLEAN /\ ravail \in BOOLEAN /\ pause_irq \in BOOLEAN
  /\ handler \in BOOLEAN /\ ienable \in BOOLEAN
  /\ fifo \in Seq(Char) /\ Len(fifo) <= FifoLen

\* The places of the ring whose characters wait for the device, how many they
\* are, and the characters in their order.
WaitingSlots == IF tx_out <= tx_in THEN tx_out..(tx_in - 1)
                ELSE (tx_out..(BufLen - 1)) \cup (0..(tx_in - 1))
Used == IF tx_out <= tx_in THEN tx_in - tx_out ELSE BufLen - tx_out + tx_in
Waiting == [i \in 1..Used |-> tx_buf[Wrap(tx_out + i - 1)]]

\* What is printed reaches the terminal character by character, none lost,
\* doubled or out of order, although the program and the interrupt routine
\* work on the ring at the same time, without a lock, the program with a
\* copy of tx_out that may be old.
Promise == INSTANCE Channel WITH queue <- fifo \o Waiting
Delivers == Promise!CSpec

\* The copy stays within the buffer and off the characters that wait.
NothingOverwritten ==
  pc = "memcpy" => in..(in + n - 1) \subseteq (0..(BufLen - 1)) \ WaitingSlots

\* The search of alt_irq_handler for the pending interrupt ends, and finds a
\* handler: no interrupt goes away between the moment the processor takes it
\* and the search, and none comes before the handler is set.
SearchEnds == isr # "lost"

\* printf returns, provided that the terminal shows what it is sent: also
\* when the ring is full, and whatever is typed that nobody reads.
PrintReturns == (pc = "write") ~> (pc = "main")

\* When the program prints no more, all it has printed is shown: the write
\* interrupt is never left off while characters wait.
AllIsShown == <>[](pc = "main") => <>[](fifo \o Waiting = <<>>)
=============================================================================
