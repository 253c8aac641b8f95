--------------------------- MODULE ConsoleProofs ---------------------------
(***************************************************************************)
(* Safety of the console for rings and FIFOs of any length and any texts:  *)
(* the copy stays off the characters that wait, the search for the pending *)
(* interrupt ends, and the driver implements Channel.                      *)
(***************************************************************************)
EXTENDS Console, SequenceTheorems, TLAPS

(***************************************************************************)
(* Types.                                                                  *)
(***************************************************************************)
LEMMA WrapStays == ASSUME NEW i \in 0..(BufLen - 1) PROVE Wrap(i + 1) \in 0..(BufLen - 1)
  BY ConsoleAssumption DEF Wrap

\* What Copy finds room for fits between tx_in and the end of the buffer, and
\* leaves one place of the ring free.
LEMMA RoomFits ==
  ASSUME NEW i \in 0..(BufLen - 1), NEW o \in 0..(BufLen - 1)
  PROVE  /\ Room(i, o) \in Nat
         /\ i + Room(i, o) <= BufLen
         /\ (IF o <= i THEN i - o ELSE BufLen - o + i) + Room(i, o) < BufLen
  BY ConsoleAssumption DEF Room

CopyInv == pc \in {"memcpy", "publish"} =>
             /\ in = tx_in /\ 0 < n /\ n <= Len(text)
             /\ in + n <= BufLen /\ Used + n < BufLen

LEMMA ConsoleType == TypeOK /\ CopyInv /\ [Next]_vars => TypeOK'
<1> SUFFICES ASSUME TypeOK, CopyInv, [Next]_vars PROVE TypeOK'
  OBVIOUS
<1> USE ConsoleAssumption
<1>1. CASE InitDevice \/ Register
  BY <1>1 DEF TypeOK, InitDevice, Register, ring, routine, processor, device
<1>2. CASE Redirect
  <2>1. ASSUME NEW f \in 0..2, NEW m \in {"RDONLY", "WRONLY"}, OpenFd(f, m)
        PROVE  fd' \in [0..(Fds - 1) -> [dev : {"none", "null", "uart"}, mode : {"RDONLY", "WRONLY"}]]
    BY <2>1 DEF OpenFd, TypeOK
  <2>2. fd' \in [0..(Fds - 1) -> [dev : {"none", "null", "uart"}, mode : {"RDONLY", "WRONLY"}]]
    BY <1>2, <2>1 DEF Redirect
  <2>3. pc' \in {"stdin", "stderr", "main"}
    BY <1>2 DEF Redirect
  <2> QED BY <1>2, <2>2, <2>3 DEF TypeOK, Redirect, ring, routine, processor, device
<1>3. CASE Printf
  BY <1>3 DEF TypeOK, Printf, ring, routine, processor, device
<1>4. CASE Write
  <2>1. pc' \in {"copy", "main"}
    BY <1>4 DEF Write, Jump
  <2>2. text' \in Seq(Char)
    <3>1. text' = text \/ text' = <<>>
      BY <1>4 DEF Write, Jump
    <3> QED BY <3>1, EmptySeq DEF TypeOK
  <2>3. UNCHANGED <<in, out, n, fd, ring, irq_enable, routine, processor, device>>
    BY <1>4 DEF Write, Jump
  <2> QED BY <2>1, <2>2, <2>3 DEF TypeOK, ring, routine, processor, device
<1>5. CASE Copy
  <2>1. CASE text = <<>>
    BY <1>5, <2>1 DEF TypeOK, Copy, Jump, ring, routine, processor, device
  <2>2. CASE text # <<>>
    <3>1. Room(tx_in, tx_out) \in Nat
      BY RoomFits DEF TypeOK
    <3>4. Len(text) \in Nat
      BY LenProperties DEF TypeOK
    <3>2. n' \in Nat
      BY <1>5, <2>2, <3>1, <3>4 DEF Copy
    <3>3. in' \in 0..(BufLen - 1) /\ out' \in 0..(BufLen - 1) /\ pc' \in {"kick", "memcpy"}
      BY <1>5, <2>2 DEF Copy, TypeOK
    <3> QED BY <1>5, <2>2, <3>2, <3>3 DEF TypeOK, Copy, ring, routine, processor, device
  <2> QED BY <2>1, <2>2
<1>6. CASE Memcpy
  <2>1. \A i \in in..(in + n - 1) : text[i - in + 1] \in Char
    <3>1. in \in Nat /\ n \in Nat /\ Len(text) \in Nat /\ n <= Len(text)
      BY <1>6, LenProperties DEF Memcpy, CopyInv, TypeOK
    <3>2. \A j \in 1..Len(text) : text[j] \in Char
      BY ElementOfSeq DEF TypeOK
    <3> QED BY <3>1, <3>2
  <2>2. tx_buf' \in [0..(BufLen - 1) -> Char]
    BY <1>6, <2>1 DEF Memcpy, TypeOK
  <2> QED BY <1>6, <2>2 DEF TypeOK, Memcpy, routine, processor, device
<1>7. CASE Publish
  <2>1. tx_in' \in 0..(BufLen - 1)
    BY <1>7 DEF Publish, Wrap, CopyInv, TypeOK
  <2>2. text' \in Seq(Char)
    BY <1>7 DEF Publish, CopyInv, TypeOK
  <2> QED BY <1>7, <2>1, <2>2 DEF TypeOK, Publish, routine, processor, device
<1>8. CASE Kick
  BY <1>8 DEF TypeOK, Kick, ring, routine, processor
<1>9. CASE Spin
  BY <1>9 DEF TypeOK, Spin, Jump, ring, routine, processor, device
<1>10. CASE Interrupt \/ Search
  BY <1>10 DEF TypeOK, Interrupt, Search, program, ring, processor, device
<1>11. CASE Control
  BY <1>11 DEF TypeOK, Control, WritePending, ReadPending, program, ring, processor, device
<1>12. CASE RxTake
  <2>1. rx_in' \in 0..(BufLen - 1)
    BY <1>12, WrapStays DEF RxTake, TypeOK
  <2>2. received' \in 0..FifoLen /\ pause_irq' = FALSE
    BY <1>12 DEF RxTake, TypeOK
  <2>3. ravail' \in BOOLEAN
    <3>1. ravail' = (received' > 0)
      BY <1>12 DEF RxTake
    <3>2. (received' > 0) \in BOOLEAN
      OBVIOUS
    <3> QED BY <3>1, <3>2, Zenon
  <2> QED BY <1>12, <2>1, <2>2, <2>3 DEF TypeOK, RxTake, program, processor
<1>13. CASE RxEmpty \/ RxStop
  BY <1>13 DEF TypeOK, RxEmpty, RxStop, AfterRx, program, ring, processor
<1>14. CASE TxPut
  <2>1. tx_out' \in 0..(BufLen - 1)
    BY <1>14, WrapStays DEF TxPut, TypeOK
  <2>2. tx_buf[tx_out] \in Char
    BY DEF TypeOK
  <2>3. fifo' \in Seq(Char) /\ Len(fifo') <= FifoLen
    BY <1>14, <2>2 DEF TxPut, TypeOK
  <2> QED BY <1>14, <2>1, <2>3 DEF TypeOK, TxPut, program, processor
<1>15. CASE TxEnd
  BY <1>15 DEF TypeOK, TxEnd, program, ring, processor
<1>16. CASE Again
  <2>1. isr' \in {"control", "off"} /\ space' \in 0..FifoLen
    BY <1>16 DEF Again
  <2>2. wi' \in BOOLEAN /\ ravail' \in BOOLEAN
    BY <1>16, Zenon DEF Again
  <2>3. UNCHANGED <<program, ring, irq_enable, processor, device>>
    BY <1>16 DEF Again
  <2> QED BY <2>1, <2>2, <2>3 DEF TypeOK, program, ring, processor, device
<1>17. CASE Show
  <2>1. fifo' \in Seq(Char) /\ Len(fifo') = Len(fifo) - 1
    BY <1>17, HeadTailProperties DEF Show, TypeOK
  <2>2. Len(fifo') <= FifoLen
    BY <2>1, LenProperties DEF TypeOK
  <2> QED BY <1>17, <2>1, <2>2 DEF TypeOK, Show, program, ring, routine, processor
<1>18. CASE Type
  <2>1. received' \in 0..FifoLen
    BY <1>18 DEF Type, TypeOK
  <2> QED BY <1>18, <2>1, Zenon DEF TypeOK, Type, program, ring, routine, processor
<1>20. CASE Pause
  BY <1>20 DEF TypeOK, Pause, program, ring, routine, processor
<1>19. CASE UNCHANGED vars
  BY <1>19 DEF TypeOK, vars, program, ring, routine, processor, device
<1> QED BY <1>1, <1>2, <1>3, <1>4, <1>5, <1>6, <1>7, <1>8, <1>9, <1>10, <1>11, <1>12,
           <1>13, <1>14, <1>15, <1>16, <1>17, <1>18, <1>19, <1>20 DEF Next, Program, Routine

(***************************************************************************)
(* The program and the interrupt routine do not disturb one another: while *)
(* the program copies, the routine can only make room.                     *)
(***************************************************************************)
LEMMA CopyStays == TypeOK /\ CopyInv /\ [Next]_vars => CopyInv'
<1> SUFFICES ASSUME TypeOK, CopyInv, [Next]_vars PROVE CopyInv'
  OBVIOUS
<1> USE ConsoleAssumption
<1>1. CASE InitDevice \/ Register \/ Redirect \/ Printf \/ Write \/ Kick \/ Spin
  <2>1. pc' \notin {"memcpy", "publish"}
    BY <1>1 DEF InitDevice, Register, Redirect, Printf, Write, Kick, Spin, Jump
  <2> QED BY <2>1 DEF CopyInv
<1>2. CASE Copy
  <2>1. CASE pc' # "memcpy"
    BY <1>2, <2>1 DEF CopyInv, Copy, Jump
  <2>2. CASE pc' = "memcpy"
    <3>1. /\ in' = tx_in /\ UNCHANGED <<text, tx_in, tx_out>>
          /\ Room(tx_in, tx_out) # 0 /\ text # <<>>
          /\ n' = IF Room(tx_in, tx_out) > Len(text) THEN Len(text) ELSE Room(tx_in, tx_out)
      BY <1>2, <2>2 DEF Copy, Jump, ring
    <3>2. Len(text) \in Nat \ {0}
      BY <3>1, LenProperties, EmptySeq DEF TypeOK
    <3>3. /\ Room(tx_in, tx_out) \in Nat /\ tx_in + Room(tx_in, tx_out) <= BufLen
          /\ Used + Room(tx_in, tx_out) < BufLen
      BY RoomFits DEF TypeOK, Used
    <3>4. Used' = Used /\ Used \in Int
      BY <3>1 DEF Used, TypeOK
    <3> HIDE DEF Room, Used
    <3> QED BY <3>1, <3>2, <3>3, <3>4 DEF CopyInv, TypeOK
  <2> QED BY <2>1, <2>2
<1>3. CASE Memcpy
  BY <1>3 DEF CopyInv, Memcpy, Used
<1>4. CASE Publish
  BY <1>4 DEF CopyInv, Publish
<1>5. CASE TxPut
  <2>1. UNCHANGED <<pc, in, n, text, tx_in>> /\ tx_out # tx_in /\ tx_out' = Wrap(tx_out + 1)
    BY <1>5 DEF TxPut, program
  <2>2. Used' = Used - 1 /\ Used \in Int
    BY <2>1 DEF Used, Wrap, TypeOK
  <2> QED BY <2>1, <2>2 DEF CopyInv, TypeOK
<1>6. CASE \/ Interrupt \/ Search \/ Control \/ RxTake \/ RxEmpty \/ RxStop \/ TxEnd \/ Again
           \/ Show \/ Type \/ Pause \/ UNCHANGED vars
  <2>1. UNCHANGED <<pc, in, n, text, tx_in, tx_out>>
    BY <1>6 DEF Interrupt, Search, Control, RxTake, RxEmpty, RxStop, TxEnd, Again,
                Show, Type, Pause, vars, program, ring
  <2> QED BY <2>1 DEF CopyInv, Used
<1> QED BY <1>1, <1>2, <1>3, <1>4, <1>5, <1>6 DEF Next, Program, Routine

LEMMA TypeAtStart == Init => TypeOK /\ CopyInv
<1> SUFFICES ASSUME Init PROVE TypeOK /\ CopyInv
  OBVIOUS
<1> USE ConsoleAssumption
<1>1. fd \in [0..(Fds - 1) -> [dev : {"none", "null", "uart"}, mode : {"RDONLY", "WRONLY"}]]
  BY DEF Init
<1>2. tx_buf \in [0..(BufLen - 1) -> Char]
  BY DEF Init
<1>3. text \in Seq(Char) /\ fifo \in Seq(Char) /\ Len(fifo) <= FifoLen
  BY EmptySeq DEF Init
<1>4. wi \in BOOLEAN /\ ravail \in BOOLEAN /\ pause_irq \in BOOLEAN
      /\ handler \in BOOLEAN /\ ienable \in BOOLEAN
  BY Zenon DEF Init
<1>5. /\ in \in 0..(BufLen - 1) /\ out \in 0..(BufLen - 1) /\ n \in Nat
      /\ tx_in \in 0..(BufLen - 1) /\ tx_out \in 0..(BufLen - 1) /\ rx_in \in 0..(BufLen - 1)
      /\ space \in 0..FifoLen /\ received \in 0..FifoLen
  BY DEF Init
<1>6. pc = "device" /\ isr = "off" /\ irq_enable = {} /\ ien = {}
  BY DEF Init
<1> QED BY <1>1, <1>2, <1>3, <1>4, <1>5, <1>6 DEF TypeOK, CopyInv

\* TypeOK holds in every reachable state, and so does what Copy relies on.
THEOREM ConsoleTypeCorrect == Spec => [](TypeOK /\ CopyInv)
<1>1. TypeOK /\ CopyInv /\ [Next]_vars => (TypeOK /\ CopyInv)'
  BY ConsoleType, CopyStays
<1> QED BY <1>1, TypeAtStart, PTL DEF Spec

\* For a ring of any length: the copy of the program stays within the buffer
\* and off the characters that the interrupt routine has still to send.
THEOREM ConsoleNothingOverwritten == Spec => []NothingOverwritten
<1>1. ASSUME TypeOK, CopyInv PROVE NothingOverwritten
  <2> SUFFICES ASSUME pc = "memcpy", NEW i \in in..(in + n - 1)
               PROVE  i \in 0..(BufLen - 1) /\ i \notin WaitingSlots
    BY DEF NothingOverwritten
  <2>1. in = tx_in /\ 0 < n /\ in + n <= BufLen /\ Used + n < BufLen
    BY <1>1 DEF CopyInv
  <2>2. n \in Nat /\ tx_in \in 0..(BufLen - 1) /\ tx_out \in 0..(BufLen - 1)
    BY <1>1 DEF TypeOK
  <2> QED BY <2>1, <2>2, ConsoleAssumption DEF Used, WaitingSlots
<1> QED BY <1>1, ConsoleTypeCorrect, PTL

(***************************************************************************)
(* The search for the pending interrupt.                                   *)
(***************************************************************************)
SearchInv == /\ isr # "lost"
             /\ ienable => handler
             /\ isr = "search" => Irq /\ handler

\* For FIFOs of any length: what the device asked an interrupt for is still
\* there when alt_irq_handler looks for it, and the handler has been set.
THEOREM ConsoleSearchEnds == Spec => []SearchEnds
<1>1. Init => SearchInv
  BY DEF Init, SearchInv
<1>2. ASSUME TypeOK, SearchInv, [Next]_vars PROVE SearchInv'
  <2> USE ConsoleAssumption
  <2>1. CASE Printf \/ Program
    <3>1. isr = "off" /\ isr' = isr
      BY <2>1 DEF Printf, Program, InitDevice, Register, Redirect, Write, Copy, Memcpy,
                  Publish, Kick, Spin, Jump, routine
    <3>2. UNCHANGED <<handler, ienable>> \/ handler'
      BY <2>1 DEF Printf, Program, InitDevice, Register, Redirect, Write, Copy, Memcpy,
                  Publish, Kick, Spin, Jump, processor
    <3> QED BY <1>2, <3>1, <3>2 DEF SearchInv
  <2>2. CASE Interrupt
    BY <1>2, <2>2 DEF SearchInv, Interrupt, Irq, WritePending, ReadPending, processor, device
  <2>3. CASE Search
    BY <1>2, <2>3 DEF SearchInv, Search, processor
  <2>4. CASE \/ Control \/ RxTake \/ RxEmpty \/ RxStop \/ TxPut \/ TxEnd \/ Again
    <3>1. isr' \notin {"lost", "search"} /\ UNCHANGED <<handler, ienable>>
      BY <2>4 DEF Control, RxTake, RxEmpty, RxStop, TxPut, TxEnd, Again, AfterRx, processor
    <3> QED BY <1>2, <3>1 DEF SearchInv
  <2>5. CASE Show
    <3>1. UNCHANGED <<isr, handler, ienable, ien, received, pause_irq>>
      BY <2>5 DEF Show, routine, processor
    <3>2. Len(fifo') <= Len(fifo) /\ Len(fifo) \in Nat /\ Len(fifo') \in Nat
      BY <2>5, <1>2, HeadTailProperties, LenProperties DEF Show, TypeOK
    <3>3. (WritePending => WritePending') /\ (ReadPending => ReadPending')
      BY <3>1, <3>2 DEF WritePending, ReadPending
    <3> QED BY <1>2, <3>1, <3>3 DEF SearchInv, Irq
  <2>6. CASE Type \/ Pause
    <3>1. UNCHANGED <<isr, handler, ienable, ien, fifo>>
      BY <2>6 DEF Type, Pause, routine, processor
    <3>2. (WritePending => WritePending') /\ (ReadPending => ReadPending')
      BY <2>6, <1>2 DEF WritePending, ReadPending, Type, Pause, TypeOK
    <3> QED BY <1>2, <3>1, <3>2 DEF SearchInv, Irq
  <2>7. CASE UNCHANGED vars
    BY <1>2, <2>7 DEF SearchInv, Irq, WritePending, ReadPending, vars, routine, processor,
                      device
  <2> QED BY <1>2, <2>1, <2>2, <2>3, <2>4, <2>5, <2>6, <2>7 DEF Next, Routine
<1>3. SearchInv => SearchEnds
  BY DEF SearchInv, SearchEnds
<1> QED BY <1>1, <1>2, <1>3, ConsoleTypeCorrect, PTL DEF Spec

(***************************************************************************)
(* The console implements Channel.                                         *)
(***************************************************************************)
Boot == {"device", "register", "stdout"}

\* The routine never sends more than the device has space for, the ring holds
\* the text up to n when it is published, nothing is left of a text when the
\* program prints the next one, and descriptor 1 stays the UART's.
FlowInv == /\ isr \in {"rx", "tx"} => Len(fifo) + space <= FifoLen
           /\ pc = "publish" => \A i \in 1..n : tx_buf[in + i - 1] = text[i]
           /\ pc \in Boot \cup {"stdin", "stderr", "main"} => text = <<>>
           /\ IF pc \in Boot THEN fd[3].dev = "none"
              ELSE fd[1].dev = "uart" /\ fd[1].mode = "WRONLY"

LEMMA FlowAtStart == Init => FlowInv
  BY ConsoleAssumption DEF Init, FlowInv, Boot

LEMMA FlowStays == TypeOK /\ CopyInv /\ FlowInv /\ [Next]_vars => FlowInv'
<1> SUFFICES ASSUME TypeOK, CopyInv, FlowInv, [Next]_vars PROVE FlowInv'
  OBVIOUS
<1> USE ConsoleAssumption
<1>1. CASE InitDevice \/ Register \/ Copy \/ Publish \/ Kick \/ Spin
  <2>1. isr = "off" \/ UNCHANGED <<isr, fifo, space>>
    BY <1>1 DEF InitDevice, Register, Copy, Publish, Kick, Spin, Jump, routine, device
  <2> QED BY <1>1, <2>1 DEF FlowInv, Boot, InitDevice, Register, Copy, Publish, Kick, Spin,
             Jump, ring, routine, device
<1>2. CASE Redirect
  <2>1. DOMAIN fd = 0..(Fds - 1)
    BY DEF TypeOK
  <2>2. CASE pc = "stdout"
    BY <1>2, <2>1, <2>2 DEF FlowInv, Boot, Redirect, OpenFd, routine, device
  <2>3. CASE pc # "stdout"
    BY <1>2, <2>1, <2>3 DEF FlowInv, Boot, Redirect, OpenFd, routine, device
  <2> QED BY <2>2, <2>3
<1>3. CASE Printf \/ Write
  BY <1>3 DEF FlowInv, Boot, Printf, Write, Jump, routine, device
<1>4. CASE Memcpy
  <2>1. /\ pc' = "publish" /\ UNCHANGED <<in, n, text, fd, isr, space, fifo>>
        /\ pc \notin Boot
    BY <1>4 DEF Memcpy, routine, device, Boot
  <2>2. \A i \in 1..n : tx_buf'[in + i - 1] = text[i]
    <3>1. in \in Nat /\ n \in Nat /\ in + n <= BufLen
      BY <1>4 DEF Memcpy, TypeOK, CopyInv
    <3>2. \A k \in DOMAIN tx_buf : k \in in..(in + n - 1) => tx_buf'[k] = text[k - in + 1]
      BY <1>4 DEF Memcpy
    <3>3. ASSUME NEW i \in 1..n PROVE tx_buf'[in + i - 1] = text[i]
      <4> DEFINE k == in + i - 1
      <4>1. k \in DOMAIN tx_buf /\ k \in in..(in + n - 1) /\ k - in + 1 = i
        BY <3>1 DEF TypeOK
      <4> HIDE DEF k
      <4>2. tx_buf'[k] = text[i]
        BY <3>2, <4>1
      <4> QED BY <4>2 DEF k
    <3> QED BY <3>3
  <2> QED BY <2>1, <2>2 DEF FlowInv, Boot
<1>5. CASE Interrupt \/ Search \/ Again
  BY <1>5 DEF FlowInv, Boot, Interrupt, Search, Again, program, ring, device
<1>6. CASE Control
  <2>1. Len(fifo) \in Nat /\ space' = FifoLen - Len(fifo)
    BY <1>6, LenProperties DEF Control, TypeOK
  <2> QED BY <1>6, <2>1 DEF FlowInv, Boot, Control, program, ring, device
<1>7. CASE RxTake \/ RxEmpty \/ RxStop \/ TxEnd
  <2>1. /\ UNCHANGED <<pc, n, tx_buf, in, text, fd, fifo, space>>
        /\ isr' \in {"rx", "tx"} => isr \in {"rx", "tx"}
    BY <1>7 DEF RxTake, RxEmpty, RxStop, TxEnd, AfterRx, program, ring
  <2> QED BY <2>1 DEF FlowInv, Boot
<1>8. CASE TxPut
  <2>1. Len(fifo') = Len(fifo) + 1 /\ Len(fifo) \in Nat /\ isr = "tx"
    BY <1>8, LenProperties, AppendProperties DEF TxPut, FlowInv, TypeOK
  <2>2. UNCHANGED <<pc, n, tx_buf, in, text, fd, isr>> /\ space' = space - 1
    BY <1>8 DEF TxPut, program
  <2> QED BY <2>1, <2>2 DEF FlowInv, Boot, TypeOK
<1>9. CASE Show
  <2>1. Len(fifo') = Len(fifo) - 1 /\ Len(fifo) \in Nat
    BY <1>9, HeadTailProperties, LenProperties DEF Show, TypeOK
  <2> QED BY <1>9, <2>1 DEF FlowInv, Boot, TypeOK, Show, program, ring, routine
<1>10. CASE Type \/ Pause \/ UNCHANGED vars
  BY <1>10 DEF FlowInv, Boot, Type, Pause, vars, program, ring, routine, device
<1> QED BY <1>1, <1>2, <1>3, <1>4, <1>5, <1>6, <1>7, <1>8, <1>9, <1>10
        DEF Next, Program, Routine

WaitingInv == /\ Used \in Nat /\ Used < BufLen
              /\ Waiting \in Seq(Char) /\ Len(Waiting) = Used
              /\ \A i \in 1..Used : Waiting[i] = tx_buf[Wrap(tx_out + i - 1)]

LEMMA WaitingIsSeq == TypeOK => WaitingInv
<1> SUFFICES ASSUME TypeOK PROVE WaitingInv
  OBVIOUS
<1>1. Used \in Nat /\ Used < BufLen
  BY ConsoleAssumption DEF TypeOK, Used
<1>2. \A i \in 1..Used : Wrap(tx_out + i - 1) \in 0..(BufLen - 1)
  BY <1>1, ConsoleAssumption DEF TypeOK, Wrap
<1>3. Waiting \in [1..Used -> Char]
  BY <1>2 DEF TypeOK, Waiting
<1>4. Waiting \in Seq(Char) /\ Len(Waiting) = Used
  BY <1>1, <1>3
<1> QED BY <1>1, <1>4 DEF WaitingInv, Waiting

LEMMA WaitingIsSeqNext == TypeOK' => WaitingInv'
  BY WaitingIsSeq, PTL

\* The characters that wait stay the same while the program copies others into
\* the ring, and are joined by those when they are published.
LEMMA MemcpyKeepsWaiting == TypeOK /\ CopyInv /\ Memcpy => Waiting' = Waiting
<1> SUFFICES ASSUME TypeOK, CopyInv, Memcpy PROVE Waiting' = Waiting
  OBVIOUS
<1>1. /\ in = tx_in /\ 0 < n /\ n \in Nat /\ in + n <= BufLen /\ Used + n < BufLen
      /\ tx_in' = tx_in /\ tx_out' = tx_out
      /\ tx_in \in 0..(BufLen - 1) /\ tx_out \in 0..(BufLen - 1)
      /\ tx_buf \in [0..(BufLen - 1) -> Char]
      /\ tx_buf' = [k \in DOMAIN tx_buf |->
                      IF k \in in..(in + n - 1) THEN text[k - in + 1] ELSE tx_buf[k]]
  BY DEF TypeOK, CopyInv, Memcpy
<1>2. Used' = Used
  BY <1>1 DEF Used
<1>3. ASSUME NEW i \in 1..Used PROVE tx_buf'[Wrap(tx_out + i - 1)] = tx_buf[Wrap(tx_out + i - 1)]
  <2>1. /\ Wrap(tx_out + i - 1) \in 0..(BufLen - 1)
        /\ Wrap(tx_out + i - 1) \notin in..(in + n - 1)
    BY <1>1, ConsoleAssumption DEF Used, Wrap
  <2> HIDE DEF Wrap
  <2> QED BY <1>1, <2>1
<1>4. Waiting' = [i \in 1..Used |-> tx_buf'[Wrap(tx_out + i - 1)]]
  BY <1>1, <1>2 DEF Waiting, Wrap
<1> QED BY <1>3, <1>4 DEF Waiting

LEMMA PublishAddsText ==
  TypeOK /\ TypeOK' /\ CopyInv /\ FlowInv /\ Publish =>
    /\ n \in 1..Len(text)
    /\ Waiting' = Waiting \o SubSeq(text, 1, n)
<1> SUFFICES ASSUME TypeOK, TypeOK', CopyInv, FlowInv, Publish
             PROVE  /\ n \in 1..Len(text)
                    /\ Waiting' = Waiting \o SubSeq(text, 1, n)
  OBVIOUS
<1>1. /\ in = tx_in /\ 0 < n /\ n \in Nat /\ in + n <= BufLen /\ Used + n < BufLen
      /\ tx_in' = Wrap(in + n) /\ tx_out' = tx_out /\ tx_buf' = tx_buf
      /\ tx_in \in 0..(BufLen - 1) /\ tx_out \in 0..(BufLen - 1) /\ BufLen \in Nat
      /\ \A i \in 1..n : tx_buf[in + i - 1] = text[i]
  BY ConsoleAssumption DEF TypeOK, CopyInv, FlowInv, Publish
<1>2. n \in 1..Len(text) /\ Len(text) \in Nat /\ \A i \in 1..Len(text) : text[i] \in Char
  BY <1>1, LenProperties, ElementOfSeq DEF Publish, CopyInv, TypeOK
<1>3. Used' = Used + n
  BY <1>1 DEF Used, Wrap
<1> DEFINE t == SubSeq(text, 1, n)
<1>4. t \in Seq(Char) /\ Len(t) = n /\ \A i \in 1..n : t[i] = text[i]
  <2>1. \A i \in 1..n : text[i] \in Char
    BY <1>2
  <2>2. 1 \in Int /\ n \in Int
    BY <1>1
  <2> QED BY <2>1, <2>2, SubSeqProperties, <1>2
<1> HIDE DEF t
<1>5. WaitingInv
  BY WaitingIsSeq
<1>6. /\ Waiting \o t \in Seq(Char) /\ Len(Waiting \o t) = Used + n
      /\ \A i \in 1..(Used + n) :
           (Waiting \o t)[i] = IF i <= Used THEN Waiting[i] ELSE t[i - Used]
  <2>1. Waiting \in Seq(Char) /\ Len(Waiting) = Used
    BY <1>5 DEF WaitingInv
  <2> HIDE DEF Waiting, Used
  <2> QED BY <2>1, <1>4, ConcatProperties
<1>7. /\ Waiting' \in Seq(Char) /\ Len(Waiting') = Used + n
      /\ \A i \in 1..(Used + n) : Waiting'[i] = tx_buf[Wrap(tx_out + i - 1)]
  <2>1. /\ Waiting' \in Seq(Char) /\ Len(Waiting') = Used'
        /\ \A i \in 1..Used' : Waiting'[i] = tx_buf'[Wrap(tx_out' + i - 1)]
    BY WaitingIsSeqNext DEF WaitingInv, Wrap
  <2> QED BY <2>1, <1>1, <1>3
<1>8. ASSUME NEW i \in 1..(Used + n) PROVE Waiting'[i] = (Waiting \o t)[i]
  <2>1. CASE i <= Used
    <3> HIDE DEF Waiting, Used, Wrap
    <3>1. i \in 1..Used
      BY <2>1, <1>5 DEF WaitingInv
    <3> QED BY <2>1, <3>1, <1>5, <1>6, <1>7 DEF WaitingInv
  <2>2. CASE ~(i <= Used)
    <3>1. i - Used \in 1..n /\ Wrap(tx_out + i - 1) = in + (i - Used) - 1
      BY <2>2, <1>1, <1>5 DEF WaitingInv, Used, Wrap
    <3>2. tx_buf[Wrap(tx_out + i - 1)] = t[i - Used]
      BY <3>1, <1>1, <1>4
    <3> QED BY <2>2, <3>2, <1>6, <1>7
  <2> QED BY <2>1, <2>2
<1>9. Waiting' = Waiting \o t
  BY <1>6, <1>7, <1>8, SeqEqual
<1> QED BY <1>2, <1>9 DEF t

\* A character that is sent moves from the head of the ring to the FIFO.
LEMMA TxPutMovesOne ==
  TypeOK /\ TypeOK' /\ FlowInv /\ TxPut => (fifo \o Waiting)' = fifo \o Waiting
<1> SUFFICES ASSUME TypeOK, TypeOK', FlowInv, TxPut
             PROVE  fifo' \o Waiting' = fifo \o Waiting
  OBVIOUS
<1>1. /\ tx_out # tx_in /\ tx_out' = Wrap(tx_out + 1) /\ tx_buf' = tx_buf /\ tx_in' = tx_in
      /\ tx_in \in 0..(BufLen - 1) /\ tx_out \in 0..(BufLen - 1) /\ BufLen \in Nat
  BY ConsoleAssumption DEF TypeOK, TxPut
<1>2. Used' = Used - 1 /\ Used \in Nat \ {0}
  BY <1>1 DEF Used, Wrap
<1>3. WaitingInv /\ WaitingInv'
  BY WaitingIsSeq, WaitingIsSeqNext
<1>4. /\ Waiting \in Seq(Char) /\ Len(Waiting) = Used
      /\ \A i \in 1..Used : Waiting[i] = tx_buf[Wrap(tx_out + i - 1)]
  BY <1>3 DEF WaitingInv
<1>5. /\ Waiting' \in Seq(Char) /\ Len(Waiting') = Used - 1
      /\ \A i \in 1..(Used - 1) : Waiting'[i] = Waiting[i + 1]
  <2>1. /\ Waiting' \in Seq(Char) /\ Len(Waiting') = Used'
        /\ \A i \in 1..Used' : Waiting'[i] = tx_buf'[Wrap(tx_out' + i - 1)]
    BY <1>3 DEF WaitingInv, Wrap
  <2>2. ASSUME NEW i \in 1..(Used - 1)
        PROVE  Wrap(tx_out' + i - 1) = Wrap(tx_out + (i + 1) - 1) /\ i + 1 \in 1..Used
    BY <1>1, <1>2 DEF Used, Wrap
  <2> HIDE DEF Waiting, Used, Wrap
  <2>3. ASSUME NEW i \in 1..(Used - 1) PROVE Waiting'[i] = Waiting[i + 1]
    <3>1. Waiting'[i] = tx_buf'[Wrap(tx_out' + i - 1)]
      BY <1>2, <2>1
    <3>2. Waiting[i + 1] = tx_buf[Wrap(tx_out + (i + 1) - 1)]
      BY <1>4, <2>2
    <3> QED BY <1>1, <2>2, <3>1, <3>2
  <2> QED BY <1>2, <2>1, <2>3
<1>6. Waiting[1] = tx_buf[tx_out]
  BY <1>1, <1>2, <1>4 DEF Wrap
<1>7. Len(fifo) \in Nat /\ fifo \in Seq(Char)
  BY LenProperties DEF TypeOK
<1>8. /\ fifo' \in Seq(Char) /\ Len(fifo') = Len(fifo) + 1
      /\ \A i \in 1..Len(fifo) : fifo'[i] = fifo[i]
      /\ fifo'[Len(fifo) + 1] = tx_buf[tx_out]
  <2>1. Len(fifo) < FifoLen
    BY <1>7, ConsoleAssumption DEF FlowInv, TxPut, TypeOK
  <2>2. fifo' = Append(fifo, tx_buf[tx_out]) /\ tx_buf[tx_out] \in Char
    BY <2>1 DEF TxPut, TypeOK
  <2> QED BY <2>2, <1>7, AppendProperties
<1> HIDE DEF Waiting, Used
<1>9. /\ fifo \o Waiting \in Seq(Char) /\ Len(fifo \o Waiting) = Len(fifo) + Used
      /\ \A i \in 1..(Len(fifo) + Used) :
           (fifo \o Waiting)[i] = IF i <= Len(fifo) THEN fifo[i] ELSE Waiting[i - Len(fifo)]
  BY <1>4, <1>7, ConcatProperties
<1>10. /\ fifo' \o Waiting' \in Seq(Char) /\ Len(fifo' \o Waiting') = Len(fifo) + Used
       /\ \A i \in 1..(Len(fifo) + Used) :
            (fifo' \o Waiting')[i] = IF i <= Len(fifo) + 1 THEN fifo'[i]
                                     ELSE Waiting'[i - (Len(fifo) + 1)]
  <2>1. /\ fifo' \o Waiting' \in Seq(Char)
        /\ Len(fifo' \o Waiting') = Len(fifo') + Len(Waiting')
        /\ \A i \in 1..(Len(fifo') + Len(Waiting')) :
             (fifo' \o Waiting')[i] = IF i <= Len(fifo') THEN fifo'[i]
                                      ELSE Waiting'[i - Len(fifo')]
    BY <1>5, <1>8, ConcatProperties
  <2>2. Len(fifo') + Len(Waiting') = Len(fifo) + Used
    BY <1>2, <1>5, <1>7, <1>8
  <2> QED BY <2>1, <2>2, <1>8
<1>11. ASSUME NEW i \in 1..(Len(fifo) + Used)
       PROVE  (fifo' \o Waiting')[i] = (fifo \o Waiting)[i]
  <2>1. CASE i <= Len(fifo)
    BY <2>1, <1>7, <1>8, <1>9, <1>10
  <2>2. CASE i = Len(fifo) + 1
    BY <2>2, <1>6, <1>7, <1>8, <1>9, <1>10
  <2>3. CASE i > Len(fifo) + 1
    <3> DEFINE k == i - (Len(fifo) + 1)
    <3>1. k \in 1..(Used - 1) /\ k + 1 = i - Len(fifo) /\ ~(i <= Len(fifo))
      BY <2>3, <1>2, <1>7
    <3>2. (fifo' \o Waiting')[i] = Waiting'[k]
      BY <2>3, <1>7, <1>10
    <3>3. (fifo \o Waiting)[i] = Waiting[k + 1]
      BY <3>1, <1>9
    <3> HIDE DEF k
    <3> QED BY <3>1, <3>2, <3>3, <1>5
  <2>4. i <= Len(fifo) \/ i = Len(fifo) + 1 \/ i > Len(fifo) + 1
    BY <1>2, <1>7
  <2> QED BY <2>1, <2>2, <2>3, <2>4
<1> QED BY <1>9, <1>10, <1>11, SeqEqual

LEMMA ShowTakesFirst ==
  TypeOK /\ Show => /\ fifo \o Waiting # <<>>
                    /\ (fifo \o Waiting)' = Tail(fifo \o Waiting)
<1> SUFFICES ASSUME TypeOK, Show
             PROVE  /\ fifo \o Waiting # <<>>
                    /\ fifo' \o Waiting' = Tail(fifo \o Waiting)
  OBVIOUS
<1>1. Waiting' = Waiting
  BY DEF Show, ring, Waiting, Used, Wrap
<1>2. Waiting \in Seq(Char) /\ fifo \in Seq(Char) /\ fifo # <<>> /\ fifo' = Tail(fifo)
  BY WaitingIsSeq DEF WaitingInv, TypeOK, Show
<1> HIDE DEF Waiting
<1>3. /\ fifo \o Waiting \in Seq(Char) /\ Len(fifo \o Waiting) = Len(fifo) + Len(Waiting)
      /\ \A i \in 1..(Len(fifo) + Len(Waiting)) :
           (fifo \o Waiting)[i] = IF i <= Len(fifo) THEN fifo[i] ELSE Waiting[i - Len(fifo)]
  BY <1>2, ConcatProperties
<1>4. /\ Len(fifo) \in Nat \ {0} /\ Len(Waiting) \in Nat
      /\ fifo' \in Seq(Char) /\ Len(fifo') = Len(fifo) - 1
      /\ \A i \in 1..(Len(fifo) - 1) : fifo'[i] = fifo[i + 1]
  BY <1>2, LenProperties, EmptySeq, HeadTailProperties
<1>5. fifo \o Waiting # <<>>
  BY <1>3, <1>4, EmptySeq
<1> DEFINE q == fifo \o Waiting
           m == Len(fifo) + Len(Waiting) - 1
<1>6. Tail(q) \in Seq(Char) /\ Len(Tail(q)) = m /\ \A i \in 1..m : Tail(q)[i] = q[i + 1]
  <2>1. q \in Seq(Char) /\ q # <<>> /\ Len(q) = m + 1 /\ m \in Nat
    BY <1>3, <1>4, <1>5
  <2> HIDE DEF q, m
  <2> QED BY <2>1, HeadTailProperties
<1>7. /\ fifo' \o Waiting \in Seq(Char) /\ Len(fifo' \o Waiting) = m
      /\ \A i \in 1..m : (fifo' \o Waiting)[i] = IF i <= Len(fifo) - 1 THEN fifo'[i]
                                                 ELSE Waiting[i - (Len(fifo) - 1)]
  BY <1>2, <1>4, ConcatProperties
<1>8. ASSUME NEW i \in 1..m PROVE (fifo' \o Waiting)[i] = Tail(q)[i]
  <2>1. Tail(q)[i] = IF i + 1 <= Len(fifo) THEN fifo[i + 1] ELSE Waiting[i + 1 - Len(fifo)]
    BY <1>3, <1>4, <1>6
  <2>2. i - (Len(fifo) - 1) = i + 1 - Len(fifo)
    BY <1>4
  <2> QED BY <2>1, <2>2, <1>4, <1>7
<1>9. fifo' \o Waiting = Tail(q)
  BY <1>6, <1>7, <1>8, SeqEqual
<1> QED BY <1>1, <1>5, <1>9

LEMMA PutStep ==
  TypeOK /\ TypeOK' /\ CopyInv /\ FlowInv /\ Publish => Promise!Put
<1> SUFFICES ASSUME TypeOK, TypeOK', CopyInv, FlowInv, Publish PROVE Promise!Put
  OBVIOUS
<1>1. n \in 1..Len(text) /\ Waiting' = Waiting \o SubSeq(text, 1, n)
  BY PublishAddsText
<1>2. fifo' = fifo /\ text' = SubSeq(text, n + 1, Len(text))
  BY DEF Publish, device
<1>3. Waiting \in Seq(Char) /\ fifo \in Seq(Char)
  BY WaitingIsSeq DEF WaitingInv, TypeOK
<1>4. SubSeq(text, 1, n) \in Seq(Char)
  <2>1. Len(text) \in Nat /\ \A i \in 1..Len(text) : text[i] \in Char
    BY LenProperties, ElementOfSeq DEF TypeOK
  <2>2. n \in Int /\ 1 \in Int /\ \A i \in 1..n : text[i] \in Char
    BY <1>1, <2>1
  <2> QED BY <2>2, SubSeqProperties
<1> HIDE DEF Waiting
<1>5. fifo' \o Waiting' = (fifo \o Waiting) \o SubSeq(text, 1, n)
  <2> DEFINE t == SubSeq(text, 1, n)
  <2>1. fifo' \o Waiting' = fifo \o (Waiting \o t) /\ t \in Seq(Char)
    BY <1>1, <1>2, <1>4
  <2> HIDE DEF t
  <2>2. fifo \o (Waiting \o t) = (fifo \o Waiting) \o t
    BY <1>3, <2>1, ConcatAssociative
  <2> QED BY <2>1, <2>2 DEF t
<1> QED BY <1>1, <1>2, <1>5 DEF Promise!Put

\* For rings and FIFOs of any length and any texts: the console implements
\* Channel, so the terminal takes what is printed character by character, none
\* lost, doubled or out of order.
THEOREM ConsoleDelivers == Spec => Delivers
<1> DEFINE Inv == TypeOK /\ CopyInv /\ FlowInv
<1>1. Init => Promise!Start
  <2> SUFFICES ASSUME Init PROVE text = <<>> /\ fifo \o Waiting = <<>>
    BY DEF Promise!Start
  <2>1. Used = 0 /\ fifo = <<>> /\ text = <<>>
    BY DEF Init, Used
  <2>2. Waiting \in Seq(Char) /\ Len(Waiting) = 0
    BY <2>1, TypeAtStart, WaitingIsSeq DEF WaitingInv
  <2> QED BY <2>1, <2>2, EmptySeq, ConcatEmptySeq
<1>2. ASSUME Inv, TypeOK', [Next]_vars
      PROVE  [Promise!Call \/ Promise!Put \/ Promise!Get]_<<text, fifo \o Waiting>>
  <2>1. CASE Printf
    <3>1. text = <<>> /\ text' \in Texts
      BY <1>2, <2>1 DEF Printf, FlowInv
    <3>2. fifo' = fifo /\ Waiting' = Waiting
      BY <2>1 DEF Printf, ring, device, Waiting, Used, Wrap
    <3> QED BY <3>1, <3>2 DEF Promise!Call
  <2>2. CASE Publish
    BY <1>2, <2>2, PutStep
  <2>3. CASE Show
    <3>1. text' = text
      BY <2>3 DEF Show, program
    <3> QED BY <1>2, <2>3, <3>1, ShowTakesFirst DEF Promise!Get
  <2>4. CASE TxPut
    <3>1. text' = text
      BY <2>4 DEF TxPut, program
    <3> QED BY <1>2, <2>4, <3>1, TxPutMovesOne
  <2>5. CASE Memcpy
    <3>1. text' = text /\ fifo' = fifo
      BY <2>5 DEF Memcpy, device
    <3> QED BY <1>2, <2>5, <3>1, MemcpyKeepsWaiting
  <2>6. CASE Write
    <3>1. fd[1].dev = "uart" /\ fd[1].mode = "WRONLY"
      BY <1>2, <2>6 DEF FlowInv, Boot, Write
    <3>2. UNCHANGED <<text, fifo, tx_buf, tx_in, tx_out>>
      BY <2>6, <3>1 DEF Write, Jump, ring, device
    <3> QED BY <3>2 DEF Waiting, Used, Wrap
  <2>7. CASE \/ InitDevice \/ Register \/ Redirect \/ Copy \/ Kick \/ Spin
             \/ Interrupt \/ Search \/ Control \/ RxTake \/ RxEmpty \/ RxStop
             \/ TxEnd \/ Again \/ Type \/ Pause \/ UNCHANGED vars
    <3>1. UNCHANGED <<text, fifo, tx_buf, tx_in, tx_out>>
      BY <2>7 DEF InitDevice, Register, Redirect, Copy, Kick, Spin, Jump,
                  Interrupt, Search, Control, RxTake, RxEmpty, RxStop, TxEnd, Again,
                  Type, Pause, vars, program, ring, device
    <3> QED BY <3>1 DEF Waiting, Used, Wrap
  <2> QED BY <1>2, <2>1, <2>2, <2>3, <2>4, <2>5, <2>6, <2>7 DEF Next, Program, Routine
<1>3. Spec => []Inv
  <2>1. Inv /\ [Next]_vars => Inv'
    BY ConsoleType, CopyStays, FlowStays
  <2>2. Init => Inv
    BY TypeAtStart, FlowAtStart
  <2> HIDE DEF Inv
  <2> QED BY <2>1, <2>2, PTL DEF Spec
<1>4. Inv => TypeOK
  OBVIOUS
<1> HIDE DEF Inv
<1> QED BY <1>1, <1>2, <1>3, <1>4, PTL DEF Spec, Delivers, Promise!CSpec
=============================================================================
