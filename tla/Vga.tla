------------------------------- MODULE Vga -------------------------------
(***************************************************************************)
(* The beam and the frame clock: the counters and sync registers of        *)
(* VGA_controller.sv, clocked by VGA_CLK, and the edge detector by which   *)
(* every sprite turns the vertical sync into one frame tick, clocked by    *)
(* Clk.  VGA_CLK is Clk divided by two.                                    *)
(***************************************************************************)
EXTENDS Integers

CONSTANTS
  H,    \* the line: shown, sync (first and last + 1), total, in pixels
  V     \* the frame: the same, in lines

ASSUME VgaAssumption ==
  \A d \in {H, V} :
    /\ {d.shown, d.sync, d.sync_end, d.total} \subseteq Nat
    /\ 0 < d.shown /\ d.shown <= d.sync /\ d.sync < d.sync_end
    /\ d.sync_end < d.total

\* A tick is registered two pixels after the sync pulse has ended.
ASSUME LineAssumption == 3 < H.total

VARIABLES
  half,                     \* which half of the VGA_CLK period it is
  h_counter, v_counter,     \* DrawX and DrawY
  VGA_HS, VGA_VS, VGA_BLANK_N,
  Reset_h,                  \* the registered push button
  frame_clk_delayed, frame_clk_rising_edge,  \* the edge detector
  lines,                    \* history: shown lines completed since the last tick
  fresh                     \* history: no sync pulse since VGA reset

vga == <<h_counter, v_counter, VGA_HS, VGA_VS, VGA_BLANK_N>>
beamVars == <<half, vga, Reset_h, frame_clk_delayed, frame_clk_rising_edge, lines, fresh>>

\* Every register powers up as 0, which is what Reset sets them to.
BeamInit == /\ half = 0 /\ h_counter = 0 /\ v_counter = 0
            /\ VGA_HS = FALSE /\ VGA_VS = FALSE /\ VGA_BLANK_N = FALSE
            /\ Reset_h = FALSE
            /\ frame_clk_delayed = FALSE /\ frame_clk_rising_edge = FALSE
            /\ lines = 0 /\ fresh = TRUE

LineEnds == h_counter + 1 = H.total

\* The next counters.
\* fault: the frame counter stays at the last line.
NextVStops == IF LineEnds /\ v_counter + 1 < V.total THEN v_counter + 1 ELSE v_counter
\* fault: the frame has one line too many.
NextVLate == IF ~LineEnds THEN v_counter ELSE IF v_counter = V.total THEN 0 ELSE v_counter + 1
NextH == IF LineEnds THEN 0 ELSE h_counter + 1
NextV == IF ~LineEnds THEN v_counter ELSE IF v_counter + 1 = V.total THEN 0 ELSE v_counter + 1

\* The next outputs are computed from the next counters, so that the
\* registered pulses and counters belong to the same pixel.
Shown == NextH < H.shown /\ NextV < V.shown
HSync == H.sync <= NextH /\ NextH < H.sync_end
\* fault: from the present counter.
VSyncLate == V.sync <= v_counter /\ v_counter < V.sync_end
VSync == V.sync <= NextV /\ NextV < V.sync_end

\* An edge of VGA_CLK.
Pixel == IF Reset_h
         THEN /\ h_counter' = 0 /\ v_counter' = 0
              /\ VGA_HS' = FALSE /\ VGA_VS' = FALSE /\ VGA_BLANK_N' = FALSE
         ELSE /\ h_counter' = NextH /\ v_counter' = NextV
              /\ VGA_HS' = ~HSync /\ VGA_VS' = ~VSync
              /\ VGA_BLANK_N' = Shown

\* An edge of Clk at the detector: the sync signal of a clock ago is
\* compared with that of two clocks ago.
\* fault: the delayed signal is left out.
EdgeLevel == /\ frame_clk_delayed' = VGA_VS
             /\ frame_clk_rising_edge' = VGA_VS
Edge == /\ frame_clk_delayed' = VGA_VS
        /\ frame_clk_rising_edge' = (VGA_VS /\ ~frame_clk_delayed)

\* The history: the sprites move at the edge that ends a tick.
History ==
  /\ fresh' = IF half = 1 /\ Reset_h THEN TRUE ELSE fresh /\ ~(half = 1 /\ VSync)
  /\ lines' = IF half = 1 /\ Reset_h THEN 0
              ELSE (IF frame_clk_rising_edge THEN 0 ELSE lines)
                   + (IF half = 1 /\ LineEnds /\ v_counter < V.shown THEN 1 ELSE 0)

BeamClock(key) == /\ half' = 1 - half
                  /\ IF half = 1 THEN Pixel ELSE UNCHANGED vga
                  /\ Edge
                  /\ Reset_h' = key
                  /\ History

BeamNext == \E key \in BOOLEAN : BeamClock(key)

BeamSpec == BeamInit /\ [][BeamNext]_beamVars

\* The oscillator never stops.
BeamFairSpec == BeamSpec /\ WF_beamVars(BeamNext)

-----------------------------------------------------------------------------
(* Properties *)

BeamTypeOK == /\ half \in {0, 1}
              /\ h_counter \in 0..(H.total - 1) /\ v_counter \in 0..(V.total - 1)
              /\ {VGA_HS, VGA_VS, VGA_BLANK_N, Reset_h} \subseteq BOOLEAN
              /\ {frame_clk_delayed, frame_clk_rising_edge, fresh} \subseteq BOOLEAN
              /\ lines \in 0..V.shown

\* Reset clears the outputs with the counters.
Cleared == h_counter + v_counter = 0 /\ ~VGA_BLANK_N

\* The registered outputs belong to the pixel the counters name: the screen
\* is unblanked on all shown pixels and on no other, and each sync pulse lies
\* on its pixels or lines, which are blanked; but at the very first pixel
\* after Reset the screen is blanked and both pulses are on.
OutputsAligned ==
  /\ VGA_BLANK_N => h_counter < H.shown /\ v_counter < V.shown
  /\ h_counter < H.shown /\ v_counter < V.shown => VGA_BLANK_N \/ Cleared
  /\ ~VGA_HS <=> (H.sync <= h_counter /\ h_counter < H.sync_end) \/ Cleared
  /\ ~VGA_VS <=> (V.sync <= v_counter /\ v_counter < V.sync_end) \/ Cleared

\* The sprites never move while a picture is being shown, and exactly one
\* whole picture is shown between two moves; the tick that Reset causes by
\* clearing the sync register falls into line 0, above every sprite.
WholePictures ==
  frame_clk_rising_edge =>
    IF fresh THEN v_counter = 0 /\ lines = 0
             ELSE v_counter >= V.shown /\ lines = V.shown

\* While Reset is not pressed frames keep coming.
FramesKeepComing == <>[]~Reset_h => []<>frame_clk_rising_edge
=============================================================================
