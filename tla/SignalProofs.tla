---------------------------- MODULE SignalProofs ----------------------------
(***************************************************************************)
(* Proofs about the two components that are made of signals.  Vga: the     *)
(* registered outputs belong to the pixel the counters name, and one whole *)
(* picture is shown between two frame ticks, for a line and a frame of any *)
(* size.  Hpi: what IO_write and IO_read promise, for any ports, words and *)
(* number of clocks between two statements, with Reset pressed at any time.*)
(***************************************************************************)
EXTENDS Vga, Hpi, SequenceTheorems, TLAPS

-----------------------------------------------------------------------------
(* Vga *)

\* The vertical sync pulse, by the counter.
Pulse == V.sync <= v_counter /\ v_counter < V.sync_end

\* The pixel at which a frame tick is registered: the sync signal has risen
\* there, after a pulse or, after Reset, from the cleared register.
TickPixel == \/ fresh /\ v_counter = 0 /\ h_counter = 1
             \/ v_counter = V.sync_end /\ h_counter = 0

\* The sync register is low during the pulse and where Reset has cleared it,
\* and that is only at the first pixel, before any pulse.
SyncInv == /\ VGA_VS <=> ~Pulse /\ ~(fresh /\ v_counter = 0 /\ h_counter = 0)
           /\ fresh => v_counter < V.sync

\* The edge detector sees the rise in the first half of the tick pixel and
\* announces it in the second.
EdgeInv == /\ half = 0 => /\ ~frame_clk_rising_edge
                          /\ VGA_VS /\ ~frame_clk_delayed <=> TickPixel
           /\ half = 1 => /\ frame_clk_delayed <=> VGA_VS
                          /\ frame_clk_rising_edge <=> TickPixel

\* The lines shown since the last tick, by the counters.
LinesInv == lines = IF v_counter < V.shown THEN v_counter
                    ELSE IF v_counter < V.sync_end \/ TickPixel THEN V.shown ELSE 0

BeamInv == SyncInv /\ EdgeInv /\ LinesInv

\* The numbers of a line and of a frame.
LEMMA Numbers ==
  /\ H.shown \in Nat /\ H.sync \in Nat /\ H.sync_end \in Nat /\ H.total \in Nat
  /\ 0 < H.shown /\ H.shown <= H.sync /\ H.sync < H.sync_end /\ H.sync_end < H.total
  /\ V.shown \in Nat /\ V.sync \in Nat /\ V.sync_end \in Nat /\ V.total \in Nat
  /\ 0 < V.shown /\ V.shown <= V.sync /\ V.sync < V.sync_end /\ V.sync_end < V.total
  /\ 3 < H.total
BY VgaAssumption, LineAssumption

\* What the type invariant says of each register.
LEMMA Registers ==
  ASSUME BeamTypeOK
  PROVE  /\ half \in {0, 1}
         /\ h_counter \in Nat /\ h_counter < H.total
         /\ v_counter \in Nat /\ v_counter < V.total
         /\ lines \in Nat
         /\ VGA_HS \in BOOLEAN /\ VGA_VS \in BOOLEAN /\ VGA_BLANK_N \in BOOLEAN
         /\ Reset_h \in BOOLEAN /\ fresh \in BOOLEAN
         /\ frame_clk_delayed \in BOOLEAN /\ frame_clk_rising_edge \in BOOLEAN
<1>1. /\ half \in {0, 1} /\ lines \in Nat
      /\ h_counter \in Nat /\ h_counter < H.total
      /\ v_counter \in Nat /\ v_counter < V.total
  BY Numbers, SMT DEF BeamTypeOK
<1>2. /\ VGA_HS \in BOOLEAN /\ VGA_VS \in BOOLEAN /\ VGA_BLANK_N \in BOOLEAN
      /\ Reset_h \in BOOLEAN /\ fresh \in BOOLEAN
      /\ frame_clk_delayed \in BOOLEAN /\ frame_clk_rising_edge \in BOOLEAN
  BY DEF BeamTypeOK
<1> QED BY <1>1, <1>2

\* The three kinds of clock edge: in the middle of a pixel, between two
\* pixels, and with the counters held at the first pixel by Reset.
MidPixel ==
  /\ half = 0 /\ half' = 1
  /\ UNCHANGED <<h_counter, v_counter, VGA_HS, VGA_VS, VGA_BLANK_N, fresh>>
  /\ lines' = IF frame_clk_rising_edge THEN 0 ELSE lines
  /\ Edge
NewPixel ==
  /\ half = 1 /\ half' = 0
  /\ h_counter' = NextH /\ v_counter' = NextV
  /\ VGA_HS' = ~HSync /\ VGA_VS' = ~VSync /\ VGA_BLANK_N' = Shown
  /\ fresh' = (fresh /\ ~VSync)
  /\ lines' = (IF frame_clk_rising_edge THEN 0 ELSE lines)
              + (IF LineEnds /\ v_counter < V.shown THEN 1 ELSE 0)
  /\ Edge
HeldPixel ==
  /\ half = 1 /\ half' = 0
  /\ h_counter' = 0 /\ v_counter' = 0 /\ lines' = 0 /\ fresh' = TRUE
  /\ VGA_HS' = FALSE /\ VGA_VS' = FALSE /\ VGA_BLANK_N' = FALSE
  /\ Edge

LEMMA BeamSteps ==
  ASSUME BeamTypeOK, BeamNext
  PROVE  (MidPixel \/ NewPixel \/ HeldPixel) /\ Reset_h' \in BOOLEAN
<1>1. PICK key \in BOOLEAN : BeamClock(key)
  BY DEF BeamNext
<1>2. half \in {0, 1} /\ fresh \in BOOLEAN /\ lines \in Nat
  BY Registers
<1>3. CASE half = 0
  BY <1>1, <1>2, <1>3, SMT DEF BeamClock, History, vga, MidPixel
<1>4. CASE half = 1 /\ Reset_h
  BY <1>1, <1>4, SMT DEF BeamClock, History, Pixel, HeldPixel
<1>5. CASE half = 1 /\ ~Reset_h
  BY <1>1, <1>5, SMT DEF BeamClock, History, Pixel, NewPixel
<1> QED BY <1>1, <1>2, <1>3, <1>4, <1>5 DEF BeamClock

\* Where the counters go.
LEMMA NextCounters ==
  ASSUME BeamTypeOK
  PROVE  /\ NextH \in Nat /\ NextH < H.total
         /\ NextV \in Nat /\ NextV < V.total
         /\ NextH = 0 <=> LineEnds
         /\ NextH = 1 <=> h_counter = 0
         /\ ~LineEnds => NextV = v_counter
         /\ LineEnds => NextV = IF v_counter + 1 = V.total THEN 0 ELSE v_counter + 1
BY Registers, Numbers, SMT DEF NextH, NextV, LineEnds

LEMMA BeamTypeStays == BeamTypeOK /\ BeamInv /\ [BeamNext]_beamVars => BeamTypeOK'
<1> SUFFICES ASSUME BeamTypeOK, BeamInv, [BeamNext]_beamVars PROVE BeamTypeOK'
  OBVIOUS
<1>1. CASE BeamNext
  <2>1. MidPixel \/ NewPixel \/ HeldPixel
    BY <1>1, BeamSteps
  <2>2. /\ half' \in {0, 1}
        /\ h_counter' \in Nat /\ h_counter' < H.total
        /\ v_counter' \in Nat /\ v_counter' < V.total
    BY <2>1, NextCounters, Numbers, Registers, SMT DEF MidPixel, NewPixel, HeldPixel
  <2>3. /\ VGA_HS' \in BOOLEAN /\ VGA_VS' \in BOOLEAN /\ VGA_BLANK_N' \in BOOLEAN
        /\ fresh' \in BOOLEAN /\ Reset_h' \in BOOLEAN
        /\ frame_clk_delayed' \in BOOLEAN /\ frame_clk_rising_edge' \in BOOLEAN
    BY <1>1, <2>1, BeamSteps, Registers
       DEF MidPixel, NewPixel, HeldPixel, HSync, VSync, Shown, Edge
  <2>4. lines \in Nat /\ lines <= V.shown /\ (v_counter < V.shown => lines < V.shown)
    BY Registers, Numbers, SMT DEF BeamInv, LinesInv
  <2>5. lines' \in Nat /\ lines' <= V.shown
    BY <2>1, <2>4, Numbers, SMT DEF MidPixel, NewPixel, HeldPixel
  <2>6. lines' \in 0..V.shown
    BY <2>5, Numbers, SMT
  <2>7. h_counter' \in 0..(H.total - 1) /\ v_counter' \in 0..(V.total - 1)
    BY <2>2, Numbers, SMT
  <2> QED BY <2>2, <2>3, <2>6, <2>7 DEF BeamTypeOK
<1>2. CASE UNCHANGED beamVars
  BY <1>2 DEF beamVars, vga, BeamTypeOK
<1> QED BY <1>1, <1>2

\* Between two pixels, seen from the new one: where the sync register has
\* risen a tick is due, and nowhere else.
LEMMA NewPixelSync ==
  ASSUME BeamTypeOK, SyncInv, NewPixel
  PROVE  SyncInv' /\ (~VGA_VS /\ VGA_VS' <=> TickPixel')
<1>1. /\ h_counter' \in Nat /\ v_counter' \in Nat
      /\ h_counter' = 0 <=> LineEnds
      /\ h_counter' = 1 <=> h_counter = 0
      /\ ~LineEnds => v_counter' = v_counter
      /\ LineEnds => v_counter' = IF v_counter + 1 = V.total THEN 0 ELSE v_counter + 1
  BY NextCounters DEF NewPixel
<1>2. VSync <=> V.sync <= v_counter' /\ v_counter' < V.sync_end
  BY DEF VSync, NewPixel
<1>3. /\ VGA_VS' <=> ~(V.sync <= v_counter' /\ v_counter' < V.sync_end)
      /\ fresh' <=> fresh /\ ~(V.sync <= v_counter' /\ v_counter' < V.sync_end)
  BY <1>2, Registers DEF NewPixel
<1>4. LineEnds => h_counter # 0
  BY Registers, Numbers, SMT DEF LineEnds
<1>5. fresh' => v_counter' < V.sync
  BY <1>1, <1>3, Registers, Numbers, SMT DEF SyncInv
<1>6. ~(fresh' /\ v_counter' = 0 /\ h_counter' = 0)
  BY <1>1, <1>3, Registers, Numbers, SMT DEF SyncInv
<1>7. SyncInv'
  BY <1>3, <1>5, <1>6 DEF SyncInv, Pulse
<1>8. ASSUME ~VGA_VS, VGA_VS' PROVE TickPixel'
  <2>1. CASE Pulse
    BY <1>1, <1>3, <1>8, <2>1, Registers, Numbers, SMT DEF Pulse, TickPixel
  <2>2. CASE fresh /\ v_counter = 0 /\ h_counter = 0
    BY <1>1, <1>3, <1>4, <1>8, <2>2 DEF TickPixel
  <2> QED BY <1>8, <2>1, <2>2 DEF SyncInv
<1>9. ASSUME TickPixel' PROVE ~VGA_VS /\ VGA_VS'
  <2>1. CASE fresh' /\ v_counter' = 0 /\ h_counter' = 1
    <3>1. fresh /\ h_counter = 0 /\ v_counter = 0
      BY <1>1, <1>3, <1>4, <2>1
    <3> QED BY <1>3, <2>1, <3>1, Numbers, SMT DEF SyncInv
  <2>2. CASE v_counter' = V.sync_end /\ h_counter' = 0
    <3>1. v_counter + 1 = V.sync_end
      BY <1>1, <2>2, Numbers, Registers, SMT
    <3>2. Pulse
      BY <3>1, Numbers, Registers, SMT DEF Pulse
    <3> QED BY <1>3, <2>2, <3>2, Numbers, SMT DEF SyncInv
  <2> QED BY <1>9, <2>1, <2>2 DEF TickPixel
<1> QED BY <1>7, <1>8, <1>9

LEMMA BeamInvStays == BeamTypeOK /\ BeamInv /\ [BeamNext]_beamVars => BeamInv'
<1> SUFFICES ASSUME BeamTypeOK, BeamInv, [BeamNext]_beamVars PROVE BeamInv'
  OBVIOUS
<1>1. CASE MidPixel
  <2>0. (frame_clk_delayed' <=> VGA_VS) /\ (frame_clk_rising_edge' <=> VGA_VS /\ ~frame_clk_delayed)
    BY <1>1, Registers DEF MidPixel, Edge
  <2>1. SyncInv' /\ (TickPixel' <=> TickPixel)
    BY <1>1 DEF MidPixel, BeamInv, SyncInv, TickPixel, Pulse
  <2>2. lines' = lines
    BY <1>1 DEF MidPixel, BeamInv, EdgeInv
  <2>3. LinesInv'
    BY <1>1, <2>1, <2>2 DEF MidPixel, BeamInv, LinesInv
  <2>4. EdgeInv'
    <3>1. half' = 1 /\ (VGA_VS' <=> VGA_VS) /\ (VGA_VS /\ ~frame_clk_delayed <=> TickPixel)
      BY <1>1 DEF MidPixel, BeamInv, EdgeInv
    <3> QED BY <2>1, <3>1, <2>0, SMT DEF EdgeInv
  <2> QED BY <2>1, <2>3, <2>4 DEF BeamInv
<1>2. CASE NewPixel
  <2>1. SyncInv' /\ (~VGA_VS /\ VGA_VS' <=> TickPixel')
    BY <1>2, NewPixelSync DEF BeamInv
  <2>2. (frame_clk_delayed <=> VGA_VS) /\ (frame_clk_rising_edge <=> TickPixel)
    BY <1>2 DEF NewPixel, BeamInv, EdgeInv
  <2>3. EdgeInv'
    <3>1. /\ frame_clk_delayed' <=> VGA_VS
          /\ frame_clk_rising_edge' <=> VGA_VS /\ ~frame_clk_delayed
      BY <1>2, Registers DEF NewPixel, Edge
    <3>2. half' = 0
      BY <1>2 DEF NewPixel
    <3> QED BY <2>1, <2>2, <3>1, <3>2, SMT DEF EdgeInv
  <2>4. LinesInv'
    <3>1. /\ h_counter' \in Nat /\ v_counter' \in Nat
          /\ h_counter' = 0 <=> LineEnds
          /\ h_counter' = 1 <=> h_counter = 0
          /\ ~LineEnds => v_counter' = v_counter
          /\ LineEnds => v_counter' = IF v_counter + 1 = V.total THEN 0 ELSE v_counter + 1
      BY <1>2, NextCounters DEF NewPixel
    <3>2. lines' = (IF TickPixel THEN 0 ELSE lines)
                   + (IF LineEnds /\ v_counter < V.shown THEN 1 ELSE 0)
      BY <1>2, <2>2 DEF NewPixel
    <3>3. LineEnds => ~TickPixel
      BY Registers, Numbers, SMT DEF LineEnds, TickPixel
    <3>4. CASE ~LineEnds
      BY <3>1, <3>2, <3>4, Registers, Numbers, SMT DEF BeamInv, LinesInv, TickPixel
    <3>5. CASE LineEnds
      BY <3>1, <3>2, <3>3, <3>5, Registers, Numbers, SMT DEF BeamInv, LinesInv, TickPixel
    <3> QED BY <3>4, <3>5
  <2> QED BY <2>1, <2>3, <2>4 DEF BeamInv
<1>3. CASE HeldPixel
  <2>1. SyncInv' /\ ~TickPixel' /\ LinesInv'
    BY <1>3, Numbers, SMT DEF HeldPixel, SyncInv, TickPixel, LinesInv, Pulse
  <2>2. frame_clk_delayed <=> VGA_VS
    BY <1>3 DEF HeldPixel, BeamInv, EdgeInv
  <2>3. EdgeInv'
    <3>1. /\ frame_clk_delayed' <=> VGA_VS
          /\ frame_clk_rising_edge' <=> VGA_VS /\ ~frame_clk_delayed
      BY <1>3, Registers DEF HeldPixel, Edge
    <3>2. half' = 0 /\ ~VGA_VS'
      BY <1>3 DEF HeldPixel
    <3> QED BY <2>1, <2>2, <3>1, <3>2, SMT DEF EdgeInv
  <2> QED BY <2>1, <2>3 DEF BeamInv
<1>4. CASE UNCHANGED beamVars
  BY <1>4 DEF beamVars, vga, BeamInv, SyncInv, EdgeInv, LinesInv, TickPixel, Pulse
<1> QED BY <1>1, <1>2, <1>3, <1>4, BeamSteps

LEMMA BeamInvariant == BeamSpec => [](BeamTypeOK /\ BeamInv)
<1>1. BeamInit => BeamTypeOK /\ BeamInv
  <2> SUFFICES ASSUME BeamInit PROVE BeamTypeOK /\ BeamInv
    OBVIOUS
  <2>1. BeamTypeOK
    <3>1. 0 \in 0..(H.total - 1) /\ 0 \in 0..(V.total - 1) /\ 0 \in 0..V.shown
      BY Numbers, SMT
    <3> QED BY <3>1 DEF BeamInit, BeamTypeOK
  <2>2. BeamInv
    BY Numbers, SMT DEF BeamInit, BeamInv, SyncInv, EdgeInv, LinesInv, TickPixel, Pulse
  <2> QED BY <2>1, <2>2
<1> QED BY <1>1, BeamTypeStays, BeamInvStays, PTL DEF BeamSpec

\* The counters stay within the line and the frame, and no more lines are
\* counted than a picture has.
THEOREM BeamTypeCorrect == BeamSpec => []BeamTypeOK
BY BeamInvariant, PTL

LEMMA SumIsZero == ASSUME NEW x \in Nat, NEW y \in Nat, x + y = 0 PROVE x = 0 /\ y = 0
OBVIOUS

\* The registered blanking and both sync signals belong to the pixel that the
\* registered counters name.
THEOREM BeamOutputsAligned == BeamSpec => []OutputsAligned
<1>1. BeamInit => OutputsAligned
  BY Numbers, SMT DEF BeamInit, OutputsAligned, Cleared
<1>2. BeamTypeOK /\ OutputsAligned /\ [BeamNext]_beamVars => OutputsAligned'
  <2> SUFFICES ASSUME BeamTypeOK, OutputsAligned, [BeamNext]_beamVars PROVE OutputsAligned'
    OBVIOUS
  <2>1. CASE MidPixel
    BY <2>1 DEF MidPixel, OutputsAligned, Cleared
  <2>2. CASE NewPixel
    <3>1. /\ VGA_BLANK_N' <=> h_counter' < H.shown /\ v_counter' < V.shown
          /\ VGA_HS' <=> ~(H.sync <= h_counter' /\ h_counter' < H.sync_end)
          /\ VGA_VS' <=> ~(V.sync <= v_counter' /\ v_counter' < V.sync_end)
      BY <2>2 DEF NewPixel, Shown, HSync, VSync
    <3>2. h_counter' \in Nat /\ v_counter' \in Nat
      BY <2>2, NextCounters DEF NewPixel
    <3>3. ~Cleared'
      <4>1. h_counter' + v_counter' = 0 => h_counter' = 0 /\ v_counter' = 0
        BY <3>2, SumIsZero
      <4>2. 0 < H.shown /\ 0 < V.shown
        BY Numbers
      <4> QED BY <3>1, <4>1, <4>2, Zenon DEF Cleared
    <3> QED BY <3>1, <3>3 DEF OutputsAligned
  <2>3. CASE HeldPixel
    BY <2>3, Numbers, SMT DEF HeldPixel, OutputsAligned, Cleared
  <2>4. CASE UNCHANGED beamVars
    BY <2>4 DEF beamVars, vga, OutputsAligned, Cleared
  <2> QED BY <2>1, <2>2, <2>3, <2>4, BeamSteps
<1> QED BY <1>1, <1>2, BeamInvariant, PTL DEF BeamSpec

\* The sprites move between two pictures and once for each: a frame tick
\* falls below the picture, after exactly its lines, or, caused by Reset,
\* into the first line before anything was shown.
THEOREM BeamWholePictures == BeamSpec => []WholePictures
<1>1. BeamTypeOK /\ BeamInv => WholePictures
  <2> SUFFICES ASSUME BeamTypeOK, BeamInv, frame_clk_rising_edge
               PROVE  IF fresh THEN v_counter = 0 /\ lines = 0
                               ELSE v_counter >= V.shown /\ lines = V.shown
    BY DEF WholePictures
  <2>1. TickPixel
    BY Registers DEF BeamInv, EdgeInv
  <2> QED BY <2>1, Registers, Numbers, SMT DEF BeamInv, SyncInv, LinesInv, TickPixel
<1> QED BY <1>1, BeamInvariant, PTL

-----------------------------------------------------------------------------
(* Hpi *)

Statements == [reg : {"address", "data", "cs", "r", "w", "reset", "temp"},
               val : Address \cup Word \cup {0, 1}]

\* The statements left are the last of the body of the call.
TodoInv ==
  /\ todo \in Seq(Statements) /\ call.op # "idle"
  /\ \A i \in 1..Len(todo) : todo[i] = Body(call)[Len(Body(call)) - Len(todo) + i]

\* Address and strobes when n statements of the present call are left.
Strobes(n, address, cs, r, w, reset) ==
  /\ call.op = "write" =>
       /\ n <= 5 => address = call.addr
       /\ cs = 0 <=> n \in 1..3
       /\ r = 1 /\ (w = 0 <=> n = 2) /\ reset = 1
  /\ call.op = "read" =>
       /\ n <= 5 => address = call.addr
       /\ cs = 0 <=> n \in 1..4
       /\ (r = 0 <=> n \in 2..3) /\ w = 1 /\ reset = 1
  /\ call.op = "init" =>
       /\ address = 0
       /\ cs = 0 <=> n \in (1..3) \cup (9..10)
       /\ (r = 0 <=> n >= 8) /\ (w = 0 <=> n >= 7) /\ (reset = 0 <=> n \in {2, 10})

\* The PIO registers hold what the statements executed so far have stored.
PioInv == /\ Strobes(Len(todo), pio.address, pio.cs, pio.r, pio.w, pio.reset)
          /\ call.op = "write" /\ Len(todo) <= 4 => pio.data = call.data
          /\ call.op = "init" => pio.data = 0

\* The pins follow a clock later, unless Reset turns them off.
PinsAt(n) == Strobes(n, otg.ADDR, otg.CS_N, otg.RD_N, otg.WR_N, otg.RST_N)
Off == [ADDR |-> 0, RD_N |-> 1, WR_N |-> 1, CS_N |-> 1, RST_N |-> 1]
PinsInv == \/ disturbed /\ otg = Off
           \/ wait < Gap - 1 /\ PinsAt(Len(todo))
           \/ wait = Gap - 1 /\ PinsAt(Len(todo) + 1)

\* The chip has the word of a write two clocks after the write strobe was
\* stored, and the interface the word of a read two clocks after the read
\* strobe was; nothing is written before the first call.
WordInv ==
  /\ call.op = "init" => port = [a \in Address |-> 0]
  /\ ~disturbed =>
       /\ call.op = "write" /\ (Len(todo) <= 1 \/ (Len(todo) = 2 /\ wait < Gap - 2))
            => port[call.addr] = call.data
       /\ call.op = "read" /\ Len(todo) = 3 /\ wait < Gap - 2
            => data_in = port[call.addr]
       /\ call.op = "read" /\ Len(todo) <= 2 => temp = port[call.addr]

BusInv == TodoInv /\ PioInv /\ PinsInv /\ WordInv

LEMMA CallFields ==
  ASSUME NEW c \in Call
  PROVE  /\ c.op \in {"idle", "init", "read", "write"}
         /\ c.op = "read" => c.addr \in Address
         /\ c.op = "write" => c.addr \in Address /\ c.data \in Word
<1>1. CASE c \in [op : {"idle", "init"}]
  BY <1>1
<1>2. CASE c \in [op : {"read"}, addr : Address]
  BY <1>2
<1>3. CASE c \in [op : {"write"}, addr : Address, data : Word]
  BY <1>3
<1> QED BY <1>1, <1>2, <1>3 DEF Call

\* The bodies of the three functions, statement by statement.
LEMMA InitStatements ==
  /\ InitBody \in Seq(Statements) /\ Len(InitBody) = 10
  /\ InitBody[1] = Store("reset", 1) /\ InitBody[2] = Store("cs", 1)
  /\ InitBody[3] = Store("r", 1) /\ InitBody[4] = Store("w", 1)
  /\ InitBody[5] = Store("address", 0) /\ InitBody[6] = Store("data", 0)
  /\ InitBody[7] = Store("cs", 0) /\ InitBody[8] = Store("reset", 0)
  /\ InitBody[9] = Store("reset", 1) /\ InitBody[10] = Store("cs", 1)
<1>1. \A x \in {"address", "data", "cs", "r", "w", "reset"}, y \in {0, 1} :
        Store(x, y) \in Statements
  BY DEF Store, Statements
<1>2. InitBody \in Seq(Statements)
  BY <1>1 DEF InitBody
<1> QED BY <1>2 DEF InitBody

LEMMA WriteStatements ==
  ASSUME NEW a \in Address, NEW d \in Word
  PROVE  /\ WriteBody(a, d) \in Seq(Statements) /\ Len(WriteBody(a, d)) = 6
         /\ WriteBody(a, d)[1] = Store("address", a) /\ WriteBody(a, d)[2] = Store("data", d)
         /\ WriteBody(a, d)[3] = Store("cs", 0) /\ WriteBody(a, d)[4] = Store("w", 0)
         /\ WriteBody(a, d)[5] = Store("w", 1) /\ WriteBody(a, d)[6] = Store("cs", 1)
<1>1. /\ Store("address", a) \in Statements /\ Store("data", d) \in Statements
      /\ \A x \in {"cs", "w"}, y \in {0, 1} : Store(x, y) \in Statements
  BY DEF Store, Statements
<1>2. WriteBody(a, d) \in Seq(Statements)
  BY <1>1 DEF WriteBody
<1> QED BY <1>2 DEF WriteBody

LEMMA ReadStatements ==
  ASSUME NEW a \in Address
  PROVE  /\ ReadBody(a) \in Seq(Statements) /\ Len(ReadBody(a)) = 6
         /\ ReadBody(a)[1] = Store("address", a) /\ ReadBody(a)[2] = Store("cs", 0)
         /\ ReadBody(a)[3] = Store("r", 0) /\ ReadBody(a)[4] = Load
         /\ ReadBody(a)[5] = Store("r", 1) /\ ReadBody(a)[6] = Store("cs", 1)
<1>1. /\ Store("address", a) \in Statements /\ Load \in Statements
      /\ \A x \in {"cs", "r"}, y \in {0, 1} : Store(x, y) \in Statements
  BY DEF Store, Load, Statements
<1>2. ReadBody(a) \in Seq(Statements)
  BY <1>1 DEF ReadBody
<1> QED BY <1>2 DEF ReadBody

\* A step of the software takes the statement that is due.
LEMMA DueStatement ==
  ASSUME TypeOK, TodoInv, todo # <<>>
  PROVE  /\ Len(todo) \in 1..Len(Body(call))
         /\ Head(todo) = Body(call)[Len(Body(call)) - Len(todo) + 1]
         /\ Tail(todo) \in Seq(Statements) /\ Len(Tail(todo)) = Len(todo) - 1
         /\ \A i \in 1..Len(Tail(todo)) :
              Tail(todo)[i] = Body(call)[Len(Body(call)) - Len(Tail(todo)) + i]
<1>1. Len(todo) \in Nat \ {0} /\ todo \in Seq(Statements)
  BY EmptySeq DEF TodoInv
<1>2. Len(Body(call)) \in Nat
  BY CallFields, InitStatements, WriteStatements, ReadStatements DEF TypeOK, TodoInv, Body
<1>3. /\ Head(todo) = todo[1] /\ Tail(todo) \in Seq(Statements)
      /\ Len(Tail(todo)) = Len(todo) - 1
      /\ \A i \in 1..Len(Tail(todo)) : Tail(todo)[i] = todo[i + 1]
  BY <1>1
<1>4. Len(todo) \in 1..Len(Body(call))
  BY <1>1, <1>2, SMT DEF TypeOK
<1>5. Head(todo) = Body(call)[Len(Body(call)) - Len(todo) + 1]
  BY <1>1, <1>3 DEF TodoInv
<1>6. ASSUME NEW i \in 1..Len(Tail(todo))
      PROVE  Tail(todo)[i] = Body(call)[Len(Body(call)) - Len(Tail(todo)) + i]
  <2>1. i \in Nat /\ i + 1 \in 1..Len(todo)
    BY <1>1, <1>3, SMT
  <2>2. Tail(todo)[i] = Body(call)[Len(Body(call)) - Len(todo) + (i + 1)]
    BY <1>3, <2>1 DEF TodoInv
  <2>3. Len(Body(call)) - Len(todo) + (i + 1) = Len(Body(call)) - Len(Tail(todo)) + i
    BY <1>1, <1>2, <1>3, <2>1, SMT
  <2> QED BY <2>2, <2>3
<1> QED BY <1>3, <1>4, <1>5, <1>6

\* What the statement does, by the function and by how many are left.
Stores(reg, val) == pio' = [pio EXCEPT ![reg] = val] /\ temp' = temp
LEMMA ExecuteEffect ==
  ASSUME TypeOK, TodoInv, Execute
  PROVE  LET n == Len(todo) IN
         /\ call.op = "write" =>
              /\ n \in 1..6
              /\ n = 6 => Stores("address", call.addr)
              /\ n = 5 => Stores("data", call.data)
              /\ n = 4 => Stores("cs", 0)
              /\ n = 3 => Stores("w", 0)
              /\ n = 2 => Stores("w", 1)
              /\ n = 1 => Stores("cs", 1)
         /\ call.op = "read" =>
              /\ n \in 1..6
              /\ n = 6 => Stores("address", call.addr)
              /\ n = 5 => Stores("cs", 0)
              /\ n = 4 => Stores("r", 0)
              /\ n = 3 => temp' = data_in /\ pio' = pio
              /\ n = 2 => Stores("r", 1)
              /\ n = 1 => Stores("cs", 1)
         /\ call.op = "init" =>
              /\ n \in 1..10
              /\ n = 10 => Stores("reset", 1)
              /\ n = 9 => Stores("cs", 1)
              /\ n = 8 => Stores("r", 1)
              /\ n = 7 => Stores("w", 1)
              /\ n = 6 => Stores("address", 0)
              /\ n = 5 => Stores("data", 0)
              /\ n = 4 => Stores("cs", 0)
              /\ n = 3 => Stores("reset", 0)
              /\ n = 2 => Stores("reset", 1)
              /\ n = 1 => Stores("cs", 1)
<1> DEFINE n == Len(todo)
<1>1. /\ n \in 1..Len(Body(call))
      /\ Head(todo) = Body(call)[Len(Body(call)) - n + 1]
  BY DueStatement DEF Execute
<1>2. call \in Call
  BY DEF TypeOK
<1>3. ASSUME NEW x \in {"address", "data", "cs", "r", "w", "reset"}, NEW y,
             Head(todo) = Store(x, y)
      PROVE  Stores(x, y)
  BY <1>3 DEF Execute, Store, Stores
<1>4. Head(todo) = Load => temp' = data_in /\ pio' = pio
  BY DEF Execute, Load
<1> HIDE DEF n
<1>5. CASE call.op = "write"
  <2>1. Body(call) = WriteBody(call.addr, call.data)
    BY <1>5 DEF Body
  <2>2. call.addr \in Address /\ call.data \in Word
    BY <1>2, <1>5, CallFields
  <2>3. /\ n \in 1..6
        /\ n = 6 => Head(todo) = Store("address", call.addr)
        /\ n = 5 => Head(todo) = Store("data", call.data)
        /\ n = 4 => Head(todo) = Store("cs", 0)
        /\ n = 3 => Head(todo) = Store("w", 0)
        /\ n = 2 => Head(todo) = Store("w", 1)
        /\ n = 1 => Head(todo) = Store("cs", 1)
    <3> DEFINE b == WriteBody(call.addr, call.data)
    <3>1. n \in 1..Len(b) /\ Head(todo) = b[Len(b) - n + 1]
      BY <1>1, <2>1
    <3>2. /\ Len(b) = 6 /\ b[1] = Store("address", call.addr) /\ b[2] = Store("data", call.data)
          /\ b[3] = Store("cs", 0) /\ b[4] = Store("w", 0)
          /\ b[5] = Store("w", 1) /\ b[6] = Store("cs", 1)
      BY <2>2, WriteStatements
    <3> HIDE DEF b
    <3> QED BY <3>1, <3>2
  <2> QED BY <1>3, <1>5, <2>3 DEF n
<1>6. CASE call.op = "read"
  <2>1. Body(call) = ReadBody(call.addr)
    BY <1>6 DEF Body
  <2>2. call.addr \in Address
    BY <1>2, <1>6, CallFields
  <2>3. /\ n \in 1..6
        /\ n = 6 => Head(todo) = Store("address", call.addr)
        /\ n = 5 => Head(todo) = Store("cs", 0)
        /\ n = 4 => Head(todo) = Store("r", 0)
        /\ n = 3 => Head(todo) = Load
        /\ n = 2 => Head(todo) = Store("r", 1)
        /\ n = 1 => Head(todo) = Store("cs", 1)
    <3> DEFINE b == ReadBody(call.addr)
    <3>1. n \in 1..Len(b) /\ Head(todo) = b[Len(b) - n + 1]
      BY <1>1, <2>1
    <3>2. /\ Len(b) = 6 /\ b[1] = Store("address", call.addr) /\ b[2] = Store("cs", 0)
          /\ b[3] = Store("r", 0) /\ b[4] = Load
          /\ b[5] = Store("r", 1) /\ b[6] = Store("cs", 1)
      BY <2>2, ReadStatements
    <3> HIDE DEF b
    <3> QED BY <3>1, <3>2
  <2> QED BY <1>3, <1>4, <1>6, <2>3 DEF n
<1>7. CASE call.op = "init"
  <2>1. Body(call) = InitBody
    BY <1>7 DEF Body
  <2>2. /\ n \in 1..10
        /\ n = 10 => Head(todo) = Store("reset", 1)
        /\ n = 9 => Head(todo) = Store("cs", 1)
        /\ n = 8 => Head(todo) = Store("r", 1)
        /\ n = 7 => Head(todo) = Store("w", 1)
        /\ n = 6 => Head(todo) = Store("address", 0)
        /\ n = 5 => Head(todo) = Store("data", 0)
        /\ n = 4 => Head(todo) = Store("cs", 0)
        /\ n = 3 => Head(todo) = Store("reset", 0)
        /\ n = 2 => Head(todo) = Store("reset", 1)
        /\ n = 1 => Head(todo) = Store("cs", 1)
    BY <1>1, <2>1, InitStatements
  <2> QED BY <1>3, <1>7, <2>2 DEF n
<1> QED BY <1>5, <1>6, <1>7 DEF n

LEMMA GapFacts == Gap \in Nat /\ 3 <= Gap
BY GapAssumption

\* A store changes one register.
LEMMA StoreFields ==
  ASSUME pio \in Pio, NEW v
  PROVE  /\ Stores("address", v) =>
              /\ pio'.address = v /\ pio'.data = pio.data /\ pio'.cs = pio.cs
              /\ pio'.r = pio.r /\ pio'.w = pio.w /\ pio'.reset = pio.reset
         /\ Stores("data", v) =>
              /\ pio'.address = pio.address /\ pio'.data = v /\ pio'.cs = pio.cs
              /\ pio'.r = pio.r /\ pio'.w = pio.w /\ pio'.reset = pio.reset
         /\ Stores("cs", v) =>
              /\ pio'.address = pio.address /\ pio'.data = pio.data /\ pio'.cs = v
              /\ pio'.r = pio.r /\ pio'.w = pio.w /\ pio'.reset = pio.reset
         /\ Stores("r", v) =>
              /\ pio'.address = pio.address /\ pio'.data = pio.data /\ pio'.cs = pio.cs
              /\ pio'.r = v /\ pio'.w = pio.w /\ pio'.reset = pio.reset
         /\ Stores("w", v) =>
              /\ pio'.address = pio.address /\ pio'.data = pio.data /\ pio'.cs = pio.cs
              /\ pio'.r = pio.r /\ pio'.w = v /\ pio'.reset = pio.reset
         /\ Stores("reset", v) =>
              /\ pio'.address = pio.address /\ pio'.data = pio.data /\ pio'.cs = pio.cs
              /\ pio'.r = pio.r /\ pio'.w = pio.w /\ pio'.reset = v
BY DEF Stores, Pio

\* A store of a value of its register keeps the type of the registers.
LEMMA StoreType ==
  ASSUME pio \in Pio, NEW v
  PROVE  /\ Stores("address", v) /\ v \in Address => pio' \in Pio
         /\ Stores("data", v) /\ v \in Word => pio' \in Pio
         /\ v \in {0, 1} => /\ Stores("cs", v) => pio' \in Pio
                            /\ Stores("r", v) => pio' \in Pio
                            /\ Stores("w", v) => pio' \in Pio
                            /\ Stores("reset", v) => pio' \in Pio
BY SMT DEF Stores, Pio

LEMMA ExecuteType == TypeOK /\ TodoInv /\ Execute => pio' \in Pio /\ temp' \in Word \cup {Z}
<1> SUFFICES ASSUME TypeOK, TodoInv, Execute PROVE pio' \in Pio /\ temp' \in Word \cup {Z}
  OBVIOUS
<1>1. pio \in Pio /\ call \in Call /\ temp \in Word \cup {Z} /\ data_in \in Word \cup {Z}
  BY DEF TypeOK
<1>2. 0 \in Address /\ 0 \in Word
  BY HpiAssumption
<1>3. temp' \in Word \cup {Z}
  BY <1>1 DEF Execute
<1>4. CASE call.op = "write"
  <2>1. call.addr \in Address /\ call.data \in Word
    BY <1>1, <1>4, CallFields
  <2> QED BY <1>1, <1>3, <1>4, <2>1, ExecuteEffect, StoreType
<1>5. CASE call.op = "read"
  <2>1. call.addr \in Address
    BY <1>1, <1>5, CallFields
  <2> QED BY <1>1, <1>3, <1>5, <2>1, ExecuteEffect, StoreType
<1>6. CASE call.op = "init"
  BY <1>1, <1>2, <1>3, <1>6, ExecuteEffect, StoreType
<1> QED BY <1>1, <1>4, <1>5, <1>6, CallFields DEF TodoInv

\* A call begins with its whole body to be executed.
LEMMA BodyBegins ==
  ASSUME NEW c \in Call, c.op # "idle"
  PROVE  /\ Body(c) \in Seq(Statements)
         /\ Len(Body(c)) = IF c.op = "init" THEN 10 ELSE 6
<1>1. CASE c.op = "init"
  BY <1>1, InitStatements DEF Body
<1>2. CASE c.op = "read"
  BY <1>2, CallFields, ReadStatements DEF Body
<1>3. CASE c.op = "write"
  BY <1>3, CallFields, WriteStatements DEF Body
<1> QED BY <1>1, <1>2, <1>3, CallFields

LEMMA BeginCallOps == BeginCall => call' \in Call /\ call'.op \in {"read", "write"}
<1> SUFFICES ASSUME BeginCall PROVE call' \in Call /\ call'.op \in {"read", "write"}
  OBVIOUS
<1>1. call' \in [op : {"read"}, addr : Address] \cup [op : {"write"}, addr : Address, data : Word]
      \/ (call' \in [op : {"idle", "init"}] /\ call' # [op |-> "init"] /\ call' # [op |-> "idle"])
  BY DEF BeginCall, Call
<1>2. \A c \in [op : {"idle", "init"}] : c = [op |-> "init"] \/ c = [op |-> "idle"]
  OBVIOUS
<1>3. call' \in Call
  BY DEF BeginCall
<1> QED BY <1>1, <1>2, <1>3

LEMMA TodoStays == TypeOK /\ TodoInv /\ [Next]_vars => TodoInv'
<1> SUFFICES ASSUME TypeOK, TodoInv, [Next]_vars PROVE TodoInv'
  OBVIOUS
<1>1. CASE Execute
  BY <1>1, DueStatement DEF Execute, TodoInv
<1>2. CASE BeginCall
  <2>1. call' \in Call /\ call'.op # "idle" /\ todo' = Body(call')
    BY <1>2, BeginCallOps DEF BeginCall
  <2>2. todo' \in Seq(Statements) /\ Len(Body(call')) = Len(todo') /\ Len(todo') \in Nat
    BY <2>1, BodyBegins
  <2>3. \A i \in 1..Len(todo') : Len(Body(call')) - Len(todo') + i = i
    BY <2>2, SMT
  <2> QED BY <2>1, <2>2, <2>3 DEF TodoInv
<1>3. CASE Busy \/ UNCHANGED vars
  BY <1>3 DEF Busy, vars, TodoInv
<1> QED BY <1>1, <1>2, <1>3 DEF Next, Clock

\* What is on the bus is a word, or nothing.
LEMMA BusType == TypeOK => Bus \in Word \cup {Z}
BY DEF TypeOK, Bus, Pio, Otg

LEMMA HpiTypeStays == TypeOK /\ TodoInv /\ [Next]_vars => TypeOK'
<1> SUFFICES ASSUME TypeOK, TodoInv, [Next]_vars PROVE TypeOK'
  OBVIOUS
<1>1. ASSUME NEW key \in BOOLEAN, Clock(key) PROVE TypeOK'
  <2>1. 0 \in Address /\ 0 \in Word
    BY HpiAssumption
  <2>2. Off \in Otg
    BY <2>1 DEF Off, Otg
  <2>3. otg' \in Otg
    BY <1>1, <2>2 DEF TypeOK, Clock, Pins, Pio, Otg, Off
  <2>4. buffer' \in Word /\ data_in' \in Word \cup {Z}
    BY <1>1, <2>1, BusType DEF TypeOK, Clock, Pins, Pio
  <2>5. port' \in [Address -> Word]
    BY <1>1, <2>1, BusType DEF TypeOK, Clock, Chip, Otg
  <2>6. disturbed' \in BOOLEAN
    BY <1>1 DEF Clock, TypeOK
  <2>7. pio' \in Pio /\ temp' \in Word \cup {Z}
    BY <1>1, ExecuteType DEF Clock, TypeOK, BeginCall, Busy
  <2>8. call' \in Call
    BY <1>1, BeginCallOps DEF Clock, TypeOK, Execute, Busy
  <2>9. wait' \in 0..(Gap - 1)
    BY <1>1, GapFacts, SMT DEF Clock, TypeOK, Execute, BeginCall, Busy
  <2>10. Len(todo') <= Len(Body(call'))
    <3>1. CASE Execute
      <4>1. Len(todo) \in 1..Len(Body(call)) /\ Len(todo') = Len(todo) - 1 /\ call' = call
        BY <3>1, DueStatement DEF Execute
      <4>2. Len(Body(call)) \in Nat
        BY BodyBegins DEF TypeOK, TodoInv
      <4> QED BY <4>1, <4>2, SMT
    <3>2. CASE BeginCall
      <4>1. todo' = Body(call') /\ Len(Body(call')) \in Nat
        BY <3>2, BeginCallOps, BodyBegins DEF BeginCall
      <4> QED BY <4>1, SMT
    <3>3. CASE Busy
      BY <3>3 DEF Busy, TypeOK
    <3> QED BY <1>1, <3>1, <3>2, <3>3 DEF Clock
  <2> QED BY <2>3, <2>4, <2>5, <2>6, <2>7, <2>8, <2>9, <2>10 DEF TypeOK
<1>2. CASE UNCHANGED vars
  BY <1>2 DEF vars, TypeOK
<1> QED BY <1>1, <1>2 DEF Next

\* The strobes a call begins with are those the last one ended with.
LEMMA PioStays == TypeOK /\ TodoInv /\ PioInv /\ [Next]_vars => PioInv'
<1> SUFFICES ASSUME TypeOK, TodoInv, PioInv, [Next]_vars PROVE PioInv'
  OBVIOUS
<1> DEFINE n == Len(todo)
<1>1. pio \in Pio
  BY DEF TypeOK
<1>2. CASE Execute
  <2>1. Len(todo') = n - 1 /\ n \in Nat /\ call' = call
    BY <1>2, DueStatement DEF Execute, TodoInv
  <2>2. CASE call.op = "write"
    <3>1. n \in 1..6
      BY <1>2, <2>2, ExecuteEffect
    <3>2. CASE n = 1
      <4>1. Stores("cs", 1)
        BY <1>2, <2>2, <3>2, ExecuteEffect
      <4> QED BY <1>1, <2>1, <2>2, <3>2, <4>1, StoreFields DEF PioInv, Strobes
    <3>3. CASE n = 2
      <4>1. Stores("w", 1)
        BY <1>2, <2>2, <3>3, ExecuteEffect
      <4> QED BY <1>1, <2>1, <2>2, <3>3, <4>1, StoreFields DEF PioInv, Strobes
    <3>4. CASE n = 3
      <4>1. Stores("w", 0)
        BY <1>2, <2>2, <3>4, ExecuteEffect
      <4> QED BY <1>1, <2>1, <2>2, <3>4, <4>1, StoreFields DEF PioInv, Strobes
    <3>5. CASE n = 4
      <4>1. Stores("cs", 0)
        BY <1>2, <2>2, <3>5, ExecuteEffect
      <4> QED BY <1>1, <2>1, <2>2, <3>5, <4>1, StoreFields DEF PioInv, Strobes
    <3>6. CASE n = 5
      <4>1. Stores("data", call.data)
        BY <1>2, <2>2, <3>6, ExecuteEffect
      <4> QED BY <1>1, <2>1, <2>2, <3>6, <4>1, StoreFields DEF PioInv, Strobes
    <3>7. CASE n = 6
      <4>1. Stores("address", call.addr)
        BY <1>2, <2>2, <3>7, ExecuteEffect
      <4> QED BY <1>1, <2>1, <2>2, <3>7, <4>1, StoreFields DEF PioInv, Strobes
    <3> QED BY <3>1, <3>2, <3>3, <3>4, <3>5, <3>6, <3>7
  <2>3. CASE call.op = "read"
    <3>1. n \in 1..6
      BY <1>2, <2>3, ExecuteEffect
    <3>2. CASE n = 1
      <4>1. Stores("cs", 1)
        BY <1>2, <2>3, <3>2, ExecuteEffect
      <4> QED BY <1>1, <2>1, <2>3, <3>2, <4>1, StoreFields DEF PioInv, Strobes
    <3>3. CASE n = 2
      <4>1. Stores("r", 1)
        BY <1>2, <2>3, <3>3, ExecuteEffect
      <4> QED BY <1>1, <2>1, <2>3, <3>3, <4>1, StoreFields DEF PioInv, Strobes
    <3>4. CASE n = 3
      <4>1. pio' = pio
        BY <1>2, <2>3, <3>4, ExecuteEffect
      <4> QED BY <2>1, <2>3, <3>4, <4>1 DEF PioInv, Strobes
    <3>5. CASE n = 4
      <4>1. Stores("r", 0)
        BY <1>2, <2>3, <3>5, ExecuteEffect
      <4> QED BY <1>1, <2>1, <2>3, <3>5, <4>1, StoreFields DEF PioInv, Strobes
    <3>6. CASE n = 5
      <4>1. Stores("cs", 0)
        BY <1>2, <2>3, <3>6, ExecuteEffect
      <4> QED BY <1>1, <2>1, <2>3, <3>6, <4>1, StoreFields DEF PioInv, Strobes
    <3>7. CASE n = 6
      <4>1. Stores("address", call.addr)
        BY <1>2, <2>3, <3>7, ExecuteEffect
      <4> QED BY <1>1, <2>1, <2>3, <3>7, <4>1, StoreFields DEF PioInv, Strobes
    <3> QED BY <3>1, <3>2, <3>3, <3>4, <3>5, <3>6, <3>7
  <2>4. CASE call.op = "init"
    <3>1. n \in 1..10
      BY <1>2, <2>4, ExecuteEffect
    <3>2. CASE n = 1
      <4>1. Stores("cs", 1)
        BY <1>2, <2>4, <3>2, ExecuteEffect
      <4> QED BY <1>1, <2>1, <2>4, <3>2, <4>1, StoreFields DEF PioInv, Strobes
    <3>3. CASE n = 2
      <4>1. Stores("reset", 1)
        BY <1>2, <2>4, <3>3, ExecuteEffect
      <4> QED BY <1>1, <2>1, <2>4, <3>3, <4>1, StoreFields DEF PioInv, Strobes
    <3>4. CASE n = 3
      <4>1. Stores("reset", 0)
        BY <1>2, <2>4, <3>4, ExecuteEffect
      <4> QED BY <1>1, <2>1, <2>4, <3>4, <4>1, StoreFields DEF PioInv, Strobes
    <3>5. CASE n = 4
      <4>1. Stores("cs", 0)
        BY <1>2, <2>4, <3>5, ExecuteEffect
      <4> QED BY <1>1, <2>1, <2>4, <3>5, <4>1, StoreFields DEF PioInv, Strobes
    <3>6. CASE n = 5
      <4>1. Stores("data", 0)
        BY <1>2, <2>4, <3>6, ExecuteEffect
      <4> QED BY <1>1, <2>1, <2>4, <3>6, <4>1, StoreFields DEF PioInv, Strobes
    <3>7. CASE n = 6
      <4>1. Stores("address", 0)
        BY <1>2, <2>4, <3>7, ExecuteEffect
      <4> QED BY <1>1, <2>1, <2>4, <3>7, <4>1, StoreFields DEF PioInv, Strobes
    <3>8. CASE n = 7
      <4>1. Stores("w", 1)
        BY <1>2, <2>4, <3>8, ExecuteEffect
      <4> QED BY <1>1, <2>1, <2>4, <3>8, <4>1, StoreFields DEF PioInv, Strobes
    <3>9. CASE n = 8
      <4>1. Stores("r", 1)
        BY <1>2, <2>4, <3>9, ExecuteEffect
      <4> QED BY <1>1, <2>1, <2>4, <3>9, <4>1, StoreFields DEF PioInv, Strobes
    <3>10. CASE n = 9
      <4>1. Stores("cs", 1)
        BY <1>2, <2>4, <3>10, ExecuteEffect
      <4> QED BY <1>1, <2>1, <2>4, <3>10, <4>1, StoreFields DEF PioInv, Strobes
    <3>11. CASE n = 10
      <4>1. Stores("reset", 1)
        BY <1>2, <2>4, <3>11, ExecuteEffect
      <4> QED BY <1>1, <2>1, <2>4, <3>11, <4>1, StoreFields DEF PioInv, Strobes
    <3> QED BY <3>1, <3>2, <3>3, <3>4, <3>5, <3>6, <3>7, <3>8, <3>9, <3>10, <3>11
  <2> QED BY <2>2, <2>3, <2>4, CallFields DEF TypeOK, TodoInv
<1>3. CASE BeginCall
  <2>1. /\ Len(todo) = 0 /\ pio' = pio
        /\ call'.op \in {"read", "write"} /\ Len(todo') = 6
    BY <1>3, BeginCallOps, BodyBegins DEF BeginCall
  <2>2. /\ pio.cs \in {0, 1} /\ pio.r \in {0, 1} /\ pio.w \in {0, 1} /\ pio.reset \in {0, 1}
    BY <1>1, SMT DEF Pio
  <2>3. pio.cs = 1 /\ pio.r = 1 /\ pio.w = 1 /\ pio.reset = 1
    BY <2>1, <2>2, CallFields, SMT DEF PioInv, Strobes, TypeOK, TodoInv
  <2> QED BY <2>1, <2>3, SMT DEF PioInv, Strobes
<1>4. CASE Busy \/ UNCHANGED vars
  BY <1>4 DEF Busy, vars, PioInv, Strobes
<1> QED BY <1>2, <1>3, <1>4 DEF Next, Clock

LEMMA PinsStay == TypeOK /\ TodoInv /\ PioInv /\ PinsInv /\ [Next]_vars => PinsInv'
<1> SUFFICES ASSUME TypeOK, TodoInv, PioInv, PinsInv, [Next]_vars PROVE PinsInv'
  OBVIOUS
<1>1. ASSUME Clock(TRUE) PROVE PinsInv'
  BY <1>1 DEF Clock, Pins, PinsInv, Off
<1>2. ASSUME Clock(FALSE) PROVE PinsInv'
  <2>1. /\ otg'.ADDR = pio.address /\ otg'.CS_N = pio.cs /\ otg'.RD_N = pio.r
        /\ otg'.WR_N = pio.w /\ otg'.RST_N = pio.reset
    BY <1>2 DEF Clock, Pins
  <2>2. wait \in 0..(Gap - 1)
    BY DEF TypeOK
  <2>3. CASE Execute
    <3>1. Len(todo') + 1 = Len(todo) /\ call' = call /\ wait' = Gap - 1
      BY <2>3, DueStatement DEF Execute, TodoInv
    <3> QED BY <2>1, <3>1 DEF PioInv, PinsInv, PinsAt, Strobes
  <2>4. CASE BeginCall
    <3>1. pio' = pio /\ wait' < Gap - 1
      BY <2>4, GapFacts, SMT DEF BeginCall
    <3>2. PioInv'
      BY PioStays
    <3> QED BY <2>1, <3>1, <3>2 DEF PioInv, PinsInv, PinsAt, Strobes
  <2>5. CASE Busy
    <3>1. todo' = todo /\ call' = call /\ wait' < Gap - 1
      BY <2>2, <2>5, GapFacts, SMT DEF Busy
    <3> QED BY <2>1, <3>1 DEF PioInv, PinsInv, PinsAt, Strobes
  <2> QED BY <1>2, <2>3, <2>4, <2>5 DEF Clock
<1>3. CASE UNCHANGED vars
  BY <1>3 DEF vars, PinsInv, PinsAt, Strobes
<1> QED BY <1>1, <1>2, <1>3 DEF Next

\* What the chip does at a clock edge: it is written only by a write whose
\* strobe is on, and surely once the pins have followed the strobe.
LEMMA ChipStep ==
  ASSUME TypeOK, BusInv, Chip
  PROVE  /\ call.op \in {"init", "read"} => port' = port
         /\ call.op = "write" /\ Len(todo) # 2 => port' = port
         /\ call.op = "write" /\ Len(todo) = 2 =>
              \/ port' = port /\ (disturbed \/ wait = Gap - 1)
              \/ port' = [port EXCEPT ![call.addr] = call.data]
<1> DEFINE n == Len(todo)
<1>1. /\ n \in Nat /\ wait \in 0..(Gap - 1) /\ Gap \in Nat
      /\ pio.w \in {0, 1} /\ otg.CS_N \in {0, 1} /\ otg.RD_N \in {0, 1}
      /\ otg.WR_N \in {0, 1} /\ otg.RST_N \in {0, 1} /\ otg.ADDR \in Address
  BY GapFacts, SMT DEF TypeOK, BusInv, TodoInv, Pio, Otg
<1>2. \/ disturbed /\ otg = Off
      \/ PinsAt(n)
      \/ wait = Gap - 1 /\ PinsAt(n + 1)
  BY DEF BusInv, PinsInv
<1>3. otg = Off => otg.CS_N = 1 /\ otg.WR_N = 1 /\ otg.RD_N = 1 /\ otg.RST_N = 1
  BY DEF Off
<1> HIDE DEF n
<1>4. CASE call.op = "init"
  <2>1. port = [a \in Address |-> 0]
    BY <1>4 DEF BusInv, WordInv
  <2>2. Bus \in {0, Z}
    BY <1>1, <1>4, <2>1 DEF Bus, BusInv, PioInv
  <2> QED BY <1>1, <1>4, <2>1, <2>2 DEF Chip
<1>5. CASE call.op = "read"
  <2>1. otg.WR_N = 1 /\ otg.RST_N = 1
    BY <1>2, <1>3, <1>5 DEF PinsAt, Strobes
  <2> QED BY <1>5, <2>1 DEF Chip
<1>6. CASE call.op = "write"
  <2>1. otg.RD_N = 1 /\ otg.RST_N = 1 /\ ~ChipDrives
    BY <1>2, <1>3, <1>6 DEF PinsAt, Strobes, ChipDrives
  <2>2. /\ pio.w = 0 <=> n = 2
        /\ n <= 4 => pio.data = call.data
    BY <1>6 DEF BusInv, PioInv, Strobes, n
  <2>3. Bus = IF n = 2 THEN pio.data ELSE Z
    BY <2>1, <2>2 DEF Bus
  <2>4. CASE n # 2
    BY <1>6, <2>1, <2>3, <2>4 DEF Chip, n
  <2>5. CASE n = 2
    <3>1. Bus = call.data /\ Bus # Z
      BY <1>6, <2>2, <2>3, <2>5, CallFields, HpiAssumption DEF TypeOK
    <3>2. otg.WR_N = 0 => otg.ADDR = call.addr
      BY <1>1, <1>2, <1>3, <1>6, <2>5, SMT DEF PinsAt, Strobes
    <3>3. ~disturbed /\ wait # Gap - 1 => otg.WR_N = 0 /\ otg.CS_N = 0
      BY <1>2, <1>6, <2>5 DEF PinsAt, Strobes
    <3>4. \/ port' = port /\ ~(otg.CS_N = 0 /\ otg.WR_N = 0)
          \/ port' = [port EXCEPT ![call.addr] = call.data]
      <4>1. otg.RST_N # 0
        BY <2>1
      <4>2. CASE otg.CS_N = 0 /\ otg.WR_N = 0
        BY <3>1, <3>2, <4>1, <4>2, Zenon DEF Chip
      <4>3. CASE ~(otg.CS_N = 0 /\ otg.WR_N = 0)
        BY <4>1, <4>3, Zenon DEF Chip
      <4> QED BY <4>2, <4>3
    <3> QED BY <1>6, <2>5, <3>3, <3>4 DEF n
  <2> QED BY <2>4, <2>5
<1> QED BY <1>4, <1>5, <1>6, CallFields DEF TypeOK, BusInv, TodoInv

LEMMA WordStays == TypeOK /\ BusInv /\ [Next]_vars => WordInv'
<1>0. BusInv /\ UNCHANGED vars => WordInv'
  BY DEF vars, BusInv, WordInv
<1> SUFFICES ASSUME TypeOK, BusInv, NEW key \in BOOLEAN, Clock(key) PROVE WordInv'
  BY <1>0 DEF Next
<1> DEFINE n == Len(todo)
<1>1. /\ n \in Nat /\ wait \in 0..(Gap - 1) /\ Gap \in Nat /\ 3 <= Gap
      /\ port \in [Address -> Word] /\ call \in Call /\ call.op # "idle"
  BY GapFacts DEF TypeOK, BusInv, TodoInv
<1>2. Chip
  BY DEF Clock
<1>3. CASE BeginCall
  <2>1. call'.op \in {"read", "write"} /\ Len(todo') = 6
    BY <1>3, BeginCallOps, BodyBegins DEF BeginCall
  <2> QED BY <2>1, SMT DEF WordInv
<1>4. CASE Execute \/ Busy
  <2>1. call' = call
    BY <1>4 DEF Execute, Busy
  <2>2. ~disturbed' => ~disturbed /\ ~key
    BY <1>4 DEF Clock, Execute, Busy, TypeOK
  <2>3. \/ Execute /\ Len(todo') = n - 1 /\ n \in Nat \ {0} /\ wait = 0 /\ wait' = Gap - 1
        \/ Busy /\ Len(todo') = n /\ temp' = temp /\ wait' = IF wait > 0 THEN wait - 1 ELSE 0
    BY <1>4, <1>1, DueStatement, SMT DEF Execute, Busy, BusInv
  <2>4. CASE call.op = "init"
    BY <1>2, <2>1, <2>4, ChipStep DEF BusInv, WordInv
  <2>5. CASE call.op = "write"
    <3>1. call.addr \in Address
      BY <1>1, <2>5, CallFields
    <3>2. ~disturbed /\ n = 2 /\ wait < Gap - 1 => port'[call.addr] = call.data
      BY <1>1, <1>2, <2>5, <3>1, ChipStep
    <3>3. n # 2 => port' = port
      BY <1>2, <2>5, ChipStep
    <3>4. ~disturbed /\ n <= 1 => port[call.addr] = call.data
      BY <2>5 DEF BusInv, WordInv
    <3> HIDE DEF n
    <3>5. ASSUME ~disturbed', Len(todo') <= 1 \/ (Len(todo') = 2 /\ wait' < Gap - 2)
          PROVE  port'[call.addr] = call.data
      <4>1. n <= 1 \/ (n = 2 /\ wait < Gap - 1)
        <5>1. CASE Len(todo') = n - 1 /\ wait = 0 /\ wait' = Gap - 1
          BY <1>1, <3>5, <5>1, SMT
        <5>2. CASE Len(todo') = n /\ wait' = IF wait > 0 THEN wait - 1 ELSE 0
          BY <1>1, <3>5, <5>2, SMT
        <5> QED BY <2>3, <5>1, <5>2
      <4> QED BY <1>1, <2>2, <3>2, <3>3, <3>4, <3>5, <4>1, SMT
    <3> QED BY <2>1, <2>5, <3>5 DEF WordInv
  <2>6. CASE call.op = "read"
    <3>1. port' = port
      BY <1>2, <2>6, ChipStep
    <3>2. ~disturbed /\ ~key /\ n = 3 /\ wait < Gap - 1 => data_in' = port[call.addr]
      <4> SUFFICES ASSUME ~disturbed, ~key, n = 3, wait < Gap - 1
                   PROVE  data_in' = port[call.addr]
        OBVIOUS
      <4>1. PinsAt(3)
        BY <1>1, SMT DEF BusInv, PinsInv
      <4>2. /\ otg.ADDR = call.addr /\ otg.CS_N = 0 /\ otg.RD_N = 0 /\ otg.RST_N = 1
            /\ pio.w = 1
        BY <2>6, <4>1 DEF PinsAt, Strobes, BusInv, PioInv
      <4> QED BY <4>2 DEF Clock, Pins, Bus, ChipDrives
    <3>3. ~disturbed /\ n = 3 /\ wait = 0 => data_in = port[call.addr]
      BY <1>1, <2>6, SMT DEF BusInv, WordInv
    <3>4. ~disturbed /\ n <= 2 => temp = port[call.addr]
      BY <2>6 DEF BusInv, WordInv
    <3>5. Execute => IF n = 3 THEN temp' = data_in ELSE temp' = temp
      BY <2>6, ExecuteEffect DEF BusInv, Stores
    <3> HIDE DEF n
    <3>6. ASSUME ~disturbed', Len(todo') = 3, wait' < Gap - 2
          PROVE  data_in' = port[call.addr]
      BY <1>1, <2>2, <2>3, <3>2, <3>6, SMT
    <3>7. ASSUME ~disturbed', Len(todo') <= 2
          PROVE  temp' = port[call.addr]
      BY <1>1, <2>2, <2>3, <3>3, <3>4, <3>5, <3>7, SMT
    <3> QED BY <2>1, <2>6, <3>1, <3>6, <3>7 DEF WordInv
  <2> QED BY <1>1, <2>4, <2>5, <2>6, CallFields
<1> QED BY <1>3, <1>4 DEF Clock

LEMMA HpiInit == Init => TypeOK /\ BusInv
<1> SUFFICES ASSUME Init PROVE TypeOK /\ BusInv
  OBVIOUS
<1>1. call = [op |-> "init"] /\ todo = InitBody /\ wait = 0 /\ Body(call) = InitBody
  BY DEF Init, Body
<1>2. call.op = "init" /\ call \in Call /\ Len(todo) = 10 /\ todo \in Seq(Statements)
  BY <1>1, InitStatements DEF Call
<1>3. Len(Body(call)) = 10
  BY <1>1, InitStatements
<1>4. TypeOK
  <2>1. wait \in 0..(Gap - 1)
    BY <1>1, GapFacts, SMT
  <2>2. pio \in Pio /\ otg \in Otg /\ port \in [Address -> Word]
    BY HpiAssumption DEF Init, Pio, Otg
  <2>3. /\ buffer \in Word /\ data_in \in Word \cup {Z} /\ temp \in Word \cup {Z}
        /\ disturbed \in BOOLEAN
    BY HpiAssumption DEF Init
  <2>4. Len(todo) <= Len(Body(call))
    BY <1>2, <1>3, SMT
  <2> QED BY <1>2, <2>1, <2>2, <2>3, <2>4 DEF TypeOK
<1>5. TodoInv
  <2>1. \A i \in 1..Len(todo) : Len(Body(call)) - Len(todo) + i = i
    BY <1>2, <1>3, SMT
  <2> QED BY <1>1, <1>2, <2>1 DEF TodoInv
<1>6. PioInv
  BY <1>2 DEF Init, PioInv, Strobes
<1>7. PinsInv
  BY <1>1, <1>2, GapFacts DEF Init, PinsInv, PinsAt, Strobes
<1>8. WordInv
  BY <1>2 DEF Init, WordInv
<1> QED BY <1>4, <1>5, <1>6, <1>7, <1>8 DEF BusInv

LEMMA HpiInvariant == Spec => [](TypeOK /\ BusInv)
<1>1. TypeOK /\ BusInv /\ [Next]_vars => (TypeOK /\ BusInv)'
  BY HpiTypeStays, TodoStays, PioStays, PinsStay, WordStays DEF BusInv
<1> QED BY <1>1, HpiInit, PTL DEF Spec

\* Every register of the interface and of the chip keeps to its values.
THEOREM HpiTypeCorrect == Spec => []TypeOK
BY HpiInvariant, PTL

\* When IO_write returns the word is in its port, if Reset was not pressed.
THEOREM HpiWriteLands == Spec => []WriteLands
<1>1. TypeOK /\ BusInv => WriteLands
  BY DEF BusInv, WordInv, WriteLands
<1> QED BY <1>1, HpiInvariant, PTL

\* IO_read returns the word of its port, if Reset was not pressed.
THEOREM HpiReadReturns == Spec => []ReadReturns
<1>1. TypeOK /\ BusInv => ReadReturns
  BY DEF BusInv, WordInv, ReadReturns
<1> QED BY <1>1, HpiInvariant, PTL

\* What a clock edge does to a call that has not returned, and between two
\* calls.
LEMMA CallStep ==
  ASSUME TypeOK, BusInv, (TypeOK /\ BusInv)', NEW key \in BOOLEAN, Clock(key),
         Execute \/ Busy, todo # <<>>
  PROVE  Promise!Serve
<1>1. call' = call /\ call.op \in {"init", "read", "write"} /\ Len(todo) \in Nat
  BY CallFields DEF Execute, Busy, TypeOK, BusInv, TodoInv
<1>2. \/ UNCHANGED port
      \/ call.op = "write" /\ port' = [port EXCEPT ![call.addr] = call.data]
  BY <1>1, ChipStep DEF Clock
<1>3. call.op # "read" => UNCHANGED temp
  <2>1. CASE Busy
    BY <2>1 DEF Busy
  <2>2. CASE Execute
    BY <1>1, <2>2, ExecuteEffect DEF BusInv, Stores
  <2> QED BY <2>1, <2>2
<1>4. disturbed' \in {disturbed, TRUE}
  BY DEF Clock, TypeOK
<1>5. ASSUME todo' = <<>>, ~disturbed' PROVE Promise!Kept'
  <2>1. Len(todo') = 0
    BY <1>5
  <2> QED BY <1>5, <2>1, SMT DEF BusInv, WordInv, Promise!Kept
<1> QED BY <1>1, <1>2, <1>3, <1>4, <1>5 DEF Promise!Serve

\* Reset in the middle of a call or not, every clock edge is a step of a
\* memory: the ports are written at once, by the call that is to write them
\* and before it returns, and nothing of a call is left over.
THEOREM HpiServes == Spec => Serves
<1>1. Init => Promise!PowerUp
  <2>1. InitBody # <<>>
    BY InitStatements
  <2> QED BY <2>1 DEF Init, Promise!PowerUp
<1>2. TypeOK /\ BusInv /\ (TypeOK /\ BusInv)' /\ [Next]_vars =>
        [Promise!Invoke \/ Promise!Serve \/ Promise!Press]_<<port, call, todo # <<>>, temp, disturbed>>
  <2> SUFFICES ASSUME TypeOK, BusInv, (TypeOK /\ BusInv)', NEW key \in BOOLEAN, Clock(key)
               PROVE  [Promise!Invoke \/ Promise!Serve \/ Promise!Press]_<<port, call, todo # <<>>, temp, disturbed>>
    BY DEF Next, vars
  <2>1. CASE todo # <<>> /\ (Execute \/ Busy)
    BY <2>1, CallStep
  <2>2. CASE BeginCall
    <3>1. todo = <<>> /\ Len(todo) = 0 /\ UNCHANGED temp
      BY <2>2 DEF BeginCall
    <3>2. todo' # <<>>
      <4>1. todo' = Body(call') /\ Len(Body(call')) = 6
        BY <2>2, BeginCallOps, BodyBegins DEF BeginCall
      <4> QED BY <4>1
    <3>3. call' \in Promise!Calls
      BY <2>2, BeginCallOps DEF BeginCall, Call, Promise!Calls
    <3>4. UNCHANGED port
      BY <3>1, ChipStep, CallFields DEF Clock, TypeOK, BusInv, TodoInv
    <3> QED BY <3>1, <3>2, <3>3, <3>4 DEF Promise!Invoke, TypeOK
  <2>3. CASE todo = <<>> /\ Busy
    <3>1. UNCHANGED <<todo, call, temp>> /\ Len(todo) = 0
      BY <2>3 DEF Busy
    <3>2. UNCHANGED port
      BY <3>1, ChipStep, CallFields DEF Clock, TypeOK, BusInv, TodoInv
    <3>3. disturbed' \in {disturbed, TRUE}
      BY <2>3, <3>1 DEF Clock, TypeOK
    <3> QED BY <2>3, <3>1, <3>2, <3>3 DEF Promise!Press
  <2>4. todo = <<>> => ~Execute
    BY DEF Execute
  <2> QED BY <2>1, <2>2, <2>3, <2>4 DEF Clock
<1> QED BY <1>1, <1>2, HpiInvariant, PTL DEF Spec, Serves, Promise!PortsSpec

\* The chip and the interface never drive the bus against each other.
THEOREM HpiNoContention == Spec => []NoContention
<1>1. TypeOK /\ BusInv => NoContention
  <2> SUFFICES ASSUME TypeOK, BusInv, ChipDrives, pio.w = 0,
                      call.op # "init" \/ Len(todo) <= Len(InitBody) - 4
               PROVE  FALSE
    BY DEF NoContention
  <2>1. Len(InitBody) = 10 /\ Len(todo) \in Nat
    BY InitStatements DEF BusInv, TodoInv
  <2>2. call.op = "write" /\ Len(todo) = 2
    BY <2>1, CallFields, SMT DEF TypeOK, BusInv, TodoInv, PioInv, Strobes
  <2>3. otg.RD_N = 1
    BY <2>2 DEF BusInv, PinsInv, PinsAt, Strobes, Off
  <2> QED BY <2>3 DEF ChipDrives
<1> QED BY <1>1, HpiInvariant, PTL
=============================================================================
