------------------------------ MODULE UsbHost ------------------------------
(***************************************************************************)
(* The USB host program (main.c, usb.c) and the chip it drives.  The       *)
(* program enumerates a keyboard by a fixed series of transfer lists, then *)
(* sends the polling list for ever and stores the two key codes of each    *)
(* answer in the PIO registers the game reads.  The chip runs at the same  *)
(* time, so each access of the program to it is a step of its own.         *)
(* The chip is external: it runs the descriptors of the list its pointer   *)
(* names, rewrites the retry byte of the first when that one is done, and  *)
(* at the end writes the message register and raises the SIE1msg flag,     *)
(* which reading the message clears.  Insertions and removals are          *)
(* announced in the same register.                                         *)
(* Definitions marked "fault:" are the broken forms named by the mutants   *)
(* of PROJECT.json; nothing else refers to them.                           *)
(***************************************************************************)
EXTENDS Integers

CONSTANTS
  Last,      \* the lists of the enumeration are 1 (set address) .. Last
  Faked,     \* after this one the endpoint descriptor is written over
  Reports,   \* the first two key codes of a report of the keyboard
  Remains    \* what the lists leave where the codes are read from

Poll == Last + 1       \* the polling list
Descriptor == 0        \* the written endpoint descriptor, started as a list

ASSUME UsbHostAssumption == Last \in Nat \ {0} /\ Faked \in 1..(Last - 1)

VARIABLES
  pc,                   \* the statement the program is at
  step,                 \* the list it is at
  done,                 \* the message it read was HUSB_TDListDone
  keys,                 \* keycode: the word read from the report
  keycode, keycode_0,   \* the PIO registers
  shown,                \* history: the codes in them when keys was read
  pointer,              \* chip: HUSB_SIE1_pCurrentTDPtr, the list it names
  phase,                \* chip: how far it is with that list
  retry,                \* chip memory: the retry byte of the first descriptor
  report,               \* chip memory: the codes of the last report
  msg,                  \* chip: the message in HPI_SIE1_MSG_ADR
  flag,                 \* chip: the SIE1msg flag of HPI_STATUS
  news,                 \* chip: an insertion or removal is to be announced
  device,               \* a device is plugged in
  accepted,             \* history: lists whose first packet was acknowledged
                        \* without a retry since reset
  late,                 \* history: when the list in hand was started, the
                        \* answer to another was waiting to be read
  lost                  \* history: since then an answer was erased unread

codes == <<keys, keycode, keycode_0, shown>>
chip == <<pointer, phase, retry, report, msg, flag, news>>
world == <<device, accepted, late, lost>>
vars == <<pc, step, done, codes, chip, world>>

Labels == {"reset", "detect", "insert", "fake", "send", "wait", "read", "clear",
           "check", "getRetry", "clearRetry", "waitRetry", "readRetry",
           "keys", "store", "store_0", "unplugged", "removed"}

\* The retry byte: 0x13 while the first descriptor is active, 0x03 when it is
\* done without a retry, anything else when retries occurred.
RetryByte == {"active", "ok", "retried"}

\* At rest, at the first descriptor, or past it.
Phase == {"idle", "first", "rest"}
Running == phase # "idle"

\* HUSB_TDListDone and no other bit, or anything else but 0.
Message == {"none", "done", "other"}

Init == /\ pc = "reset" /\ step = 1 /\ done = FALSE
        /\ keys = Remains /\ keycode = 0 /\ keycode_0 = 0 /\ shown = <<0, 0>>
        /\ pointer = 1 /\ phase = "idle" /\ retry = "active" /\ report = Remains
        /\ msg = "none" /\ flag = FALSE /\ news = FALSE
        /\ device \in BOOLEAN /\ accepted = {} /\ late = FALSE /\ lost = FALSE

-----------------------------------------------------------------------------
\* The program.
Jump(label) == pc' = label /\ UNCHANGED <<step, done, codes, chip, world>>

\* USB_HOT_PLUG: the chip is reset and its message cleared; a device that is
\* there is news to it.  The two mailbox commands are acknowledged, or it all
\* begins again.
\* fault: the chip is not reset and goes on with its list.
ResetKeepsPhase(acknowledged) ==
         /\ pc = "reset"
         /\ pc' = (IF acknowledged THEN "detect" ELSE "reset") /\ step' = 1
         /\ msg' = "none" /\ flag' = FALSE /\ news' = device
         /\ accepted' = {} /\ late' = FALSE /\ lost' = FALSE
         /\ UNCHANGED <<done, codes, pointer, phase, retry, report, device>>
Reset(acknowledged) ==
         /\ pc = "reset"
         /\ pc' = (IF acknowledged THEN "detect" ELSE "reset") /\ step' = 1
         /\ phase' = "idle" /\ msg' = "none" /\ flag' = FALSE /\ news' = device
         /\ accepted' = {} /\ late' = FALSE /\ lost' = FALSE
         /\ UNCHANGED <<done, codes, pointer, retry, report, device>>

\* A device that shows up during the five tries is enumerated; one that is
\* inserted later begins with another reset.
Detect == pc = "detect" /\ Jump(IF device THEN "send" ELSE "insert")
Insert == pc = "insert" /\ device /\ Jump("reset")

\* A list is written and started: the first time, or once more because no
\* message has come.
\* fault: the retry byte is not written again.
StartKeepsRetry(list) ==
  /\ pointer' = list /\ phase' = "first" /\ late' = (msg = "done") /\ lost' = FALSE
  /\ UNCHANGED retry
\* fault: the pointer is written before the first list only.
StartOnce(list) ==
  /\ pointer' = list /\ phase' = (IF list = 1 THEN "first" ELSE phase)
  /\ retry' = "active" /\ late' = (msg = "done") /\ lost' = FALSE
Start(list) ==
  /\ pointer' = list /\ phase' = "first" /\ late' = (msg = "done") /\ lost' = FALSE
  /\ retry' = IF list = Descriptor THEN retry ELSE "active"
Send == /\ pc = "send" /\ pc' = "wait"
        /\ Start(step)
        /\ report' = IF step = Poll THEN report ELSE Remains
        /\ UNCHANGED <<step, done, codes, msg, flag, news, device, accepted>>
Wait == pc = "wait" /\ Jump(IF flag THEN "read" ELSE "send")

\* UsbWaitTDListDone: a message is read, then cleared, whatever has been
\* written there in between, until one was HUSB_TDListDone.
Read == /\ pc = "read" /\ pc' = "clear"
        /\ done' = (msg = "done") /\ flag' = FALSE
        /\ UNCHANGED <<step, codes, pointer, phase, retry, report, msg, news, world>>
Clear == /\ pc = "clear" /\ msg' = "none"
         /\ lost' = (lost \/ (msg = "done" /\ ~done))
         /\ pc' = IF ~done THEN "read" ELSE IF step = Poll THEN "keys" ELSE "check"
         /\ UNCHANGED <<step, done, codes, pointer, phase, retry, report, flag, news,
                        device, accepted, late>>

\* On to the next list; that of the written descriptor is not waited for.
NextList == /\ pc' = IF step = Faked THEN "fake" ELSE "send"
            /\ step' = step + 1
            /\ UNCHANGED <<done, codes, chip, world>>
Fake == /\ pc = "fake" /\ pc' = "send"
        /\ Start(Descriptor)
        /\ UNCHANGED <<step, done, codes, report, msg, flag, news, device, accepted>>

Check == /\ pc = "check"
         /\ IF retry = "ok" THEN NextList ELSE Jump("getRetry")

\* UsbGetRetryCnt: if the message is HUSB_TDListDone it is cleared, and the
\* flag of another one waited for.
\* fault: it waits when no message has come, instead of when one has.
GetRetryWaits == /\ pc = "getRetry"
                 /\ pc' = IF msg = "done" THEN "readRetry" ELSE "clearRetry"
                 /\ flag' = FALSE
                 /\ UNCHANGED <<step, done, codes, pointer, phase, retry, report, msg, news, world>>
GetRetry == /\ pc = "getRetry"
            /\ pc' = IF msg = "done" THEN "clearRetry" ELSE "readRetry"
            /\ flag' = FALSE
            /\ UNCHANGED <<step, done, codes, pointer, phase, retry, report, msg, news, world>>
ClearRetry == /\ pc = "clearRetry" /\ pc' = "waitRetry" /\ msg' = "none"
              /\ UNCHANGED <<step, done, codes, pointer, phase, retry, report, flag, news, world>>
WaitRetry == pc = "waitRetry" /\ flag /\ Jump("readRetry")

\* After the first list it all begins again; after the others the program
\* only looks again.
ReadRetry == /\ pc = "readRetry"
             /\ IF step = 1 THEN Jump("reset")
                ELSE IF retry = "ok" THEN NextList ELSE Jump("getRetry")

\* The answer to the polling list: two codes, stored one after the other,
\* while the game samples the registers at any clock.
Keys == /\ pc = "keys" /\ pc' = "store"
        /\ keys' = report /\ shown' = <<keycode, keycode_0>>
        /\ UNCHANGED <<step, done, keycode, keycode_0, chip, world>>
\* fault: the second register is stored first.
StoreSecond == /\ pc = "store" /\ pc' = "store_0" /\ keycode_0' = keys[2]
               /\ UNCHANGED <<step, done, keys, keycode, shown, chip, world>>
Store == /\ pc = "store" /\ pc' = "store_0" /\ keycode' = keys[1]
         /\ UNCHANGED <<step, done, keys, keycode_0, shown, chip, world>>
\* fault: both stores go to the same register.
StoreTwice_0 == /\ pc = "store_0" /\ pc' = "unplugged" /\ keycode' = keys[2]
                /\ UNCHANGED <<step, done, keys, keycode_0, shown, chip, world>>
Store_0 == /\ pc = "store_0" /\ pc' = "unplugged" /\ keycode_0' = keys[2]
           /\ UNCHANGED <<step, done, keys, keycode, shown, chip, world>>

\* A device that stays missing for seven more tries is waited for.
\* fault: it is only announced.
UnpluggedAnnounces == pc = "unplugged" /\ Jump("send")
Unplugged == pc = "unplugged" /\ Jump(IF device THEN "send" ELSE "removed")
Removed == pc = "removed" /\ device /\ Jump("reset")

Host == \/ \E acknowledged \in BOOLEAN : Reset(acknowledged)
        \/ Detect \/ Insert \/ Send \/ Wait \/ Read \/ Clear
        \/ Check \/ Fake \/ GetRetry \/ ClearRetry \/ WaitRetry \/ ReadRetry
        \/ Keys \/ Store \/ Store_0 \/ Unplugged \/ Removed

-----------------------------------------------------------------------------
\* The chip is through with the first descriptor: the device acknowledged
\* it, and the polling list, which has no other, brings a new report or none;
\* or there were retries, as there are when no device is plugged in.  The
\* written endpoint descriptor lies elsewhere and leaves the byte alone.
First == /\ phase = "first" /\ pointer # Descriptor /\ phase' = "rest"
         /\ \/ /\ device /\ retry' = "ok" /\ accepted' = accepted \cup {pointer}
               /\ report' \in IF pointer = Poll THEN {report} \cup Reports ELSE {report}
            \/ retry' = "retried" /\ UNCHANGED <<report, accepted>>
         /\ UNCHANGED <<pc, step, done, codes, pointer, msg, flag, news, device, late, lost>>

\* It ends the list and announces that, with or without retries of the other
\* descriptors, which the program does not look at; over a message that has
\* not been read, it writes HUSB_TDListDone or adds its bit.
End == /\ phase = "rest" \/ (phase = "first" /\ pointer = Descriptor)
       /\ phase' = "idle" /\ flag' = TRUE
       /\ msg' \in {"done"} \cup (IF msg = "other" THEN {"other"} ELSE {})
       /\ lost' = (lost \/ msg' = "other")
       /\ UNCHANGED <<pc, step, done, codes, pointer, retry, report, news, device, accepted, late>>

\* It announces an insertion or removal; a message that has not been read is
\* written over, or is HUSB_TDListDone alone no more.
Notice == /\ news /\ news' = FALSE
          /\ msg' = "other" /\ flag' = TRUE /\ lost' = (lost \/ msg = "done")
          /\ UNCHANGED <<pc, step, done, codes, pointer, phase, retry, report,
                         device, accepted, late>>

\* The keyboard is plugged in or removed.
Plug == /\ device' = ~device /\ news' = TRUE
        /\ UNCHANGED <<pc, step, done, codes, pointer, phase, retry, report, msg, flag,
                       accepted, late, lost>>

Next == Host \/ First \/ End \/ Notice \/ Plug

Spec == Init /\ [][Next]_vars

\* The program runs on, the chip gets through with the lists it has taken, in
\* the end between two sendings (10 ms), and in the end acknowledges the
\* mailbox commands.  The keyboard does what it likes, and whether the chip
\* announces that is left open.
FairSpec == Spec /\ WF_vars(Host) /\ WF_vars(First) /\ SF_vars(End) /\ WF_vars(Reset(TRUE))

-----------------------------------------------------------------------------
(* Properties *)

TypeOK == /\ pc \in Labels /\ step \in 1..Poll
          /\ keys \in Reports \cup {Remains} /\ report \in Reports \cup {Remains}
          /\ pointer \in 0..Poll /\ phase \in Phase /\ retry \in RetryByte
          /\ msg \in Message /\ accepted \subseteq 1..Poll
          /\ {done, flag, news, device, late, lost} \subseteq BOOLEAN

\* However late the answers come and however often a list is sent, the
\* program goes on to a list only when the device has acknowledged, since the
\* last reset, the first packet of every list before it: a message that came
\* for another list, or for no list, is never enough.  (No more than the first
\* packet: main.c:220 looks at the retry byte of the first descriptor only.)
StepsInOrder == \A k \in 1..(step - 1) : k \in accepted

\* The other way round, and up to the registers of the game: the keyboard
\* is never made to accept a list that the program is not at yet, not even
\* when lists are sent twice and answers taken for others, and nothing reaches
\* the registers before it has accepted them all since the last reset.
Promise == INSTANCE Session WITH Codes <- Reports \cup {Remains}
KeepsSession == Promise!SSpec

\* The program waits for an answer only while one is to come or is there,
\* unless the answer was erased unread: cleared with a message read before it
\* came, or spoiled by the notice of an insertion or removal.  It gets into
\* the wait of UsbGetRetryCnt only if the list in hand was started beside the
\* unread answer to another.
WaitsAreAnswered == /\ pc = "read" => Running \/ msg = "done" \/ lost
                    /\ pc = "waitRetry" => late

\* The waits that only an insertion or removal can end, or nothing.
Vain == \/ pc = "read" /\ lost
        \/ pc = "clear" /\ lost /\ ~done
        \/ pc = "waitRetry"

\* Once the device stays plugged in, the first packets need no retries and no
\* list is started any more beside an unread answer, the program gets to
\* polling, whatever went wrong before, or it waits for an answer that was
\* erased.
EnumerationEnds ==
  <>[](device /\ retry # "retried") /\ <>[][pc = "send" => msg # "done"]_vars
    => <>[](step = Poll) \/ <>[]Vain

\* A keyboard that is unplugged while it is polled is found missing (and
\* the chip reset when there is one again), unless the program waits for an
\* answer that was erased.
UnplugNoticed ==
  (step = Poll /\ ~device) ~> (pc = "removed" \/ step # Poll \/ device \/ Vain)

\* What the keyboard reports ends up in the registers of the game, also the
\* report that all keys are released; without any report, the words of the
\* last list do (main.c:518 reads what lies there).
ReportsArrive ==
  \A r \in Reports \cup {Remains} :
    <>[](step = Poll /\ device /\ report = r)
      => <>[](keycode = r[1] /\ keycode_0 = r[2]) \/ <>[]Vain

\* The game samples the registers between the two stores too (a frame begins
\* at any clock).  A key that was shown and is in the next report is there at
\* every sample, unless the keyboard moved it from the first place to the
\* second: when the first of two held keys is released, the other moves to
\* the first place and does not blink.
HeldKeysAreSeen ==
  pc \in {"store", "store_0"} =>
    \A k \in {shown[1], shown[2]} \cap {keys[1], keys[2]} :
      k \in {keycode, keycode_0} \/ (k = shown[1] /\ k # keys[1])

\* "Call the appropriate function again if it wasn't processed successfully"
\* (main.c:210): a list that ended with retries is sent again, or it all
\* begins again.
UnsuccessfulIsSentAgain ==
  (pc = "check" /\ retry = "retried") ~> pc \in {"send", "reset"}

\* "the keyboard has been removed!!!" (main.c:538): the program gets to say so
\* when a keyboard that was polled is gone and stays away.
RemovalIsSeen == (step = Poll /\ ~device) ~> (pc = "removed" \/ step # Poll \/ device)
=============================================================================
