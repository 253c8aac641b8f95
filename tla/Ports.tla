------------------------------- MODULE Ports -------------------------------
(***************************************************************************)
(* What usb.c takes for granted of IO_write and IO_read: the ports of the  *)
(* chip are cells of a memory.  A write puts its word into its port and    *)
(* nothing else anywhere, in one step between call and return; a read      *)
(* changes no port and returns the word of its port; between two calls     *)
(* nothing happens.  Only a call in which Reset was pressed may return     *)
(* with nothing done.  It knows nothing of clocks, strobes and a shared    *)
(* bus; Hpi is shown to implement it.                                      *)
(***************************************************************************)
EXTENDS Naturals

CONSTANTS Address, Word

VARIABLES port,       \* the words in the chip
          call,       \* the present call, or the last one
          busy,       \* it has not returned
          answer,     \* what IO_read returns
          disturbed   \* Reset was pressed during it

Calls == [op : {"read"}, addr : Address] \cup [op : {"write"}, addr : Address, data : Word]

\* The program begins in IO_init, which leaves the ports as they are.
PowerUp == /\ port = [a \in Address |-> 0] /\ answer = 0
           /\ call = [op |-> "init"] /\ busy = TRUE /\ disturbed = FALSE

\* What the caller relies on when the call returns.
Kept == /\ call.op = "write" => port[call.addr] = call.data
        /\ call.op = "read" => answer = port[call.addr]

Invoke == /\ ~busy /\ busy' /\ call' \in Calls
          /\ disturbed' \in BOOLEAN
          /\ UNCHANGED <<port, answer>>

Serve == /\ busy /\ UNCHANGED call
         /\ \/ UNCHANGED port
            \/ call.op = "write" /\ port' = [port EXCEPT ![call.addr] = call.data]
         /\ call.op # "read" => UNCHANGED answer
         /\ disturbed' \in {disturbed, TRUE}
         /\ ~busy' => Kept' \/ disturbed'

\* Reset is pressed while nobody calls.
Press == ~busy /\ disturbed' /\ UNCHANGED <<port, call, busy, answer>>

PortsSpec == PowerUp /\ [][Invoke \/ Serve \/ Press]_<<port, call, busy, answer, disturbed>>
=============================================================================
