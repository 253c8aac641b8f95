------------------------------- MODULE Hpi -------------------------------
(***************************************************************************)
(* How the software reaches the USB chip.  IO_init, IO_write and IO_read   *)
(* (io_handler.c) are sequences of stores into the PIO registers of the    *)
(* SoC; hpi_io_intf.sv copies those registers to the pins of the chip one  *)
(* clock later, but drives the data bus from the PIO directly.  Nothing    *)
(* holds the software back while Reset is pressed: the processor has no    *)
(* reset (final_project.sv:91), the bus interface has.                     *)
(***************************************************************************)
EXTENDS Integers, Sequences

CONSTANTS
  Address,   \* the ports of the chip: HPI_DATA, HPI_MAILBOX, ...
  Word,      \* the data words, 0 among them
  Z,         \* a bus that nobody drives
  Gap        \* clocks from one store of the software to the next, at least

ASSUME HpiAssumption == 0 \in Address /\ 0 \in Word /\ Z \notin Word

\* The processor is a Nios II/e (final_project_soc.qsys), which takes six
\* clocks per instruction; three are enough for the bus.
ASSUME GapAssumption == Gap \in Nat /\ 3 <= Gap

VARIABLES
  pio,       \* the PIO output registers
  otg,       \* the registers of hpi_io_intf that drive the pins
  buffer,    \* from_sw_data_out_buffer
  data_in,   \* from_sw_data_in
  port,      \* the ports of the chip
  call,      \* the call the software is in
  todo,      \* its statements that are still to be executed
  wait,      \* clocks before the next of them can be executed
  temp,      \* temp of IO_read
  disturbed  \* history: Reset was pressed during the call

vars == <<pio, otg, buffer, data_in, port, call, todo, wait, temp, disturbed>>

Pio == [address : Address, data : Word, cs : 0..1, r : 0..1, w : 0..1, reset : 0..1]
Otg == [ADDR : Address, RD_N : 0..1, WR_N : 0..1, CS_N : 0..1, RST_N : 0..1]
Call == [op : {"idle", "init"}] \cup [op : {"read"}, addr : Address]
        \cup [op : {"write"}, addr : Address, data : Word]

-----------------------------------------------------------------------------
\* The statements: a store into a PIO register, or the load of IO_read.
Store(reg, val) == [reg |-> reg, val |-> val]
Load == [reg |-> "temp", val |-> 0]

InitBody == <<Store("reset", 1), Store("cs", 1), Store("r", 1), Store("w", 1),
              Store("address", 0), Store("data", 0),
              Store("cs", 0), Store("reset", 0), Store("reset", 1), Store("cs", 1)>>

\* fault: the strobe comes before the address.
WriteBodyEarlyStrobe(addr, data) ==
  <<Store("data", data), Store("cs", 0), Store("w", 0),
    Store("address", addr), Store("w", 1), Store("cs", 1)>>
\* fault: the chip is selected after the strobe.
WriteBodyLateSelect(addr, data) ==
  <<Store("address", addr), Store("data", data), Store("w", 0),
    Store("w", 1), Store("cs", 0), Store("cs", 1)>>
WriteBody(addr, data) ==
  <<Store("address", addr), Store("data", data), Store("cs", 0),
    Store("w", 0), Store("w", 1), Store("cs", 1)>>

\* fault: the bus is loaded before the strobe.
ReadBodyEarlyLoad(addr) ==
  <<Store("address", addr), Store("cs", 0), Load, Store("r", 0),
    Store("r", 1), Store("cs", 1)>>
\* fault: the chip is left selected for reading.
ReadBodyKeepsReading(addr) ==
  <<Store("address", addr), Store("cs", 0), Store("r", 0), Load>>
ReadBody(addr) ==
  <<Store("address", addr), Store("cs", 0), Store("r", 0), Load,
    Store("r", 1), Store("cs", 1)>>

Body(c) == IF c.op = "init" THEN InitBody
           ELSE IF c.op = "read" THEN ReadBody(c.addr) ELSE WriteBody(c.addr, c.data)

\* At power-up every register holds 0, so the active-low strobes are all on
\* until IO_init has turned them off.
Init == /\ pio = [address |-> 0, data |-> 0, cs |-> 0, r |-> 0, w |-> 0, reset |-> 0]
        /\ otg = [ADDR |-> 0, RD_N |-> 0, WR_N |-> 0, CS_N |-> 0, RST_N |-> 0]
        /\ buffer = 0 /\ data_in = 0 /\ temp = 0
        /\ port = [a \in Address |-> 0]
        /\ call = [op |-> "init"] /\ todo = InitBody /\ wait = 0
        /\ disturbed = FALSE

\* The chip drives the bus when it is selected and read; the interface when
\* the software writes.
ChipDrives == otg.CS_N = 0 /\ otg.RD_N = 0 /\ otg.RST_N = 1
Bus == IF pio.w = 0 THEN pio.data ELSE IF ChipDrives THEN port[otg.ADDR] ELSE Z

\* A clock edge at the interface.
Pins(key) ==
  /\ otg' = IF key THEN [ADDR |-> 0, RD_N |-> 1, WR_N |-> 1, CS_N |-> 1, RST_N |-> 1]
            ELSE [ADDR |-> pio.address, RD_N |-> pio.r, WR_N |-> pio.w,
                  CS_N |-> pio.cs, RST_N |-> pio.reset]
  /\ buffer' = IF key THEN 0 ELSE pio.data
  /\ data_in' = IF key THEN 0 ELSE Bus

\* The chip takes what is on the bus for as long as it is selected and
\* written.  The interface lets the bus go a clock before the strobe ends
\* (hpi_io_intf.sv:35, 43): the chip is assumed to keep the last word then.
Chip == port' = IF otg.RST_N = 0 THEN [a \in Address |-> 0]
                ELSE IF otg.CS_N = 0 /\ otg.WR_N = 0 /\ Bus # Z
                THEN [port EXCEPT ![otg.ADDR] = Bus] ELSE port

\* The software: the next statement of the call, the next call, or nothing.
Execute == /\ wait = 0 /\ todo # <<>>
           /\ LET s == Head(todo)
              IN  IF s.reg = "temp" THEN temp' = data_in /\ UNCHANGED pio
                  ELSE pio' = [pio EXCEPT ![s.reg] = s.val] /\ UNCHANGED temp
           /\ todo' = Tail(todo) /\ wait' = Gap - 1
           /\ UNCHANGED call
BeginCall == /\ wait = 0 /\ todo = <<>>
             /\ call' \in Call \ {[op |-> "init"], [op |-> "idle"]}
             /\ todo' = Body(call')
             /\ UNCHANGED <<pio, temp, wait>>
Busy == /\ wait' = IF wait > 0 THEN wait - 1 ELSE 0
        /\ UNCHANGED <<pio, temp, call, todo>>

Clock(key) == /\ Execute \/ BeginCall \/ Busy
              /\ Pins(key)
              /\ Chip
              /\ disturbed' = (key \/ (disturbed /\ ~(todo = <<>> /\ todo' # <<>>)))

Next == \E key \in BOOLEAN : Clock(key)

Spec == Init /\ [][Next]_vars

-----------------------------------------------------------------------------
(* Properties *)

TypeOK == /\ pio \in Pio /\ otg \in Otg
          /\ buffer \in Word /\ data_in \in Word \cup {Z} /\ temp \in Word \cup {Z}
          /\ port \in [Address -> Word]
          /\ call \in Call
          /\ Len(todo) <= Len(Body(call))
          /\ wait \in 0..(Gap - 1)
          /\ disturbed \in BOOLEAN

\* A write that Reset did not disturb has reached its port when IO_write
\* returns, although the bus is let go a clock before the strobe ends.
WriteLands ==
  call.op = "write" /\ todo = <<>> /\ ~disturbed => port[call.addr] = call.data

\* A read that Reset did not disturb returns the word of its port: the load
\* comes late enough for the two registers between the chip and the PIO.
ReadReturns ==
  call.op = "read" /\ Len(todo) <= 2 /\ ~disturbed => temp = port[call.addr]

\* The ports are what usb.c takes them for, the cells of a memory: although
\* a call is a handful of stores whose registers reach the pins one after
\* the other, and reads and writes share a bus, a word gets into its port at
\* once and between call and return, a read changes nothing, and no call
\* leaves anything behind that a later one would suffer from.  Reset in the
\* middle of a call can lose a write or repeat it, but never damages another
\* port.
Promise == INSTANCE Ports WITH busy <- todo # <<>>, answer <- temp
Serves == Promise!PortsSpec

\* The chip and the interface never drive the bus against each other, once
\* IO_init has turned the write strobe off (its fourth store).
NoContention ==
  call.op # "init" \/ Len(todo) <= Len(InitBody) - 4 => ~(ChipDrives /\ pio.w = 0)
=============================================================================
