------------------------- MODULE UsbHostProofs -------------------------
(***************************************************************************)
(* Safety of the USB host program for any number of lists, any place of    *)
(* the written descriptor and any reports.  StepsInOrder is not inductive: *)
(* that the program may leave a step follows from what the chip's pointer  *)
(* and retry byte stand for once the list of the step has been sent.       *)
(***************************************************************************)
EXTENDS UsbHost, TLAPS

Checking == {"check", "getRetry", "clearRetry", "waitRetry", "readRetry"}
Sent == {"wait", "read", "clear"} \cup Checking

SentInv == /\ pc \in Sent => pointer = step /\ (retry = "ok" => step \in accepted)
           /\ pc \in Checking => step # Poll

IInv == TypeOK /\ SentInv /\ StepsInOrder

(* Every action keeps the control state and the chip's state in range.      *)
LEMMA HostType == TypeOK /\ SentInv /\ [Next]_vars => TypeOK'
<1> SUFFICES ASSUME TypeOK, SentInv, [Next]_vars PROVE TypeOK'
  OBVIOUS
<1> USE UsbHostAssumption
<1>0. Last \in Nat /\ Poll \in Nat /\ 1 \in 1..Poll /\ Faked \in Nat
  BY DEF Poll
<1>13. ASSUME NEW list \in 0..Poll, Start(list)
       PROVE  /\ pointer' \in 0..Poll /\ phase' \in Phase /\ retry' \in RetryByte
              /\ late' \in BOOLEAN /\ lost' \in BOOLEAN
  BY <1>13 DEF Start, TypeOK, Phase, RetryByte
<1>1. ASSUME NEW a \in BOOLEAN, Reset(a) PROVE TypeOK'
  BY <1>0, <1>1 DEF TypeOK, Reset, codes, Labels, Phase, Message
<1>2. CASE Detect
  BY <1>2 DEF TypeOK, Detect, Jump, codes, chip, world, Labels
<1>3. CASE Insert
  BY <1>3 DEF TypeOK, Insert, Jump, codes, chip, world, Labels
<1>4. CASE Send
  <2>1. step \in 0..Poll
    BY <1>0 DEF TypeOK
  <2> QED
    BY <1>4, <1>13, <2>1 DEF TypeOK, Send, codes, Labels
<1>5. CASE Wait
  BY <1>5 DEF TypeOK, Wait, Jump, codes, chip, world, Labels
<1>6. CASE Read
  BY <1>6 DEF TypeOK, Read, codes, world, Labels
<1>7. CASE Clear
  BY <1>7 DEF TypeOK, Clear, codes, Labels, Message
<1>8. ASSUME NextList, pc \in Checking PROVE TypeOK'
  <2>1. step # Poll
    BY <1>8 DEF SentInv
  <2>2. step' \in 1..Poll
    BY <1>0, <1>8, <2>1 DEF NextList, TypeOK
  <2> QED
    BY <1>8, <2>2 DEF TypeOK, NextList, codes, chip, world, Labels
<1>9. CASE Check
  <2>1. CASE retry = "ok"
    BY <1>8, <1>9, <2>1 DEF Check, Checking
  <2>2. CASE retry # "ok"
    BY <1>9, <2>2 DEF TypeOK, Check, Jump, codes, chip, world, Labels
  <2> QED
    BY <2>1, <2>2
<1>10. CASE Fake
  <2>1. Descriptor \in 0..Poll
    BY <1>0 DEF Descriptor
  <2> QED
    BY <1>10, <1>13, <2>1 DEF TypeOK, Fake, codes, Labels
<1>11. CASE GetRetry
  BY <1>11 DEF TypeOK, GetRetry, codes, world, Labels
<1>12. CASE ClearRetry
  BY <1>12 DEF TypeOK, ClearRetry, codes, world, Labels, Message
<1>14. CASE ReadRetry
  <2>1. CASE step # 1 /\ retry = "ok"
    BY <1>8, <1>14, <2>1 DEF ReadRetry, Checking
  <2>2. CASE ~(step # 1 /\ retry = "ok")
    BY <1>14, <2>2 DEF TypeOK, ReadRetry, Jump, codes, chip, world, Labels
  <2> QED
    BY <2>1, <2>2
<1>15. CASE Keys
  BY <1>15 DEF TypeOK, Keys, chip, world, Labels
<1>16. CASE Store \/ Store_0
  BY <1>16 DEF TypeOK, Store, Store_0, chip, world, Labels
<1>17. CASE WaitRetry \/ Unplugged \/ Removed
  BY <1>17 DEF TypeOK, WaitRetry, Unplugged, Removed, Jump, codes, chip, world, Labels
<1>18. CASE First
  <2>1. accepted' \subseteq 1..Poll
    <3>1. pointer \in 1..Poll
      BY <1>0, <1>18 DEF First, TypeOK, Descriptor
    <3>2. accepted' = accepted \/ accepted' = accepted \cup {pointer}
      BY <1>18 DEF First
    <3> QED
      BY <3>1, <3>2 DEF TypeOK
  <2>2. report' \in Reports \cup {Remains}
    BY <1>18 DEF TypeOK, First
  <2> QED
    BY <1>18, <2>1, <2>2 DEF TypeOK, First, codes, Labels, RetryByte, Phase
<1>19. CASE End
  BY <1>19 DEF TypeOK, End, codes, Labels, Phase, Message
<1>20. CASE Notice
  BY <1>20 DEF TypeOK, Notice, codes, Labels, Message
<1>21. CASE Plug
  BY <1>21 DEF TypeOK, Plug, codes, Labels
<1>22. CASE UNCHANGED vars
  BY <1>22 DEF TypeOK, vars, codes, chip, world
<1> QED
  BY <1>1, <1>2, <1>3, <1>4, <1>5, <1>6, <1>7, <1>9, <1>10, <1>11, <1>12,
     <1>14, <1>15, <1>16, <1>17, <1>18, <1>19, <1>20, <1>21, <1>22 DEF Next, Host

(* The pointer and the retry byte keep speaking of the list of the step as  *)
(* long as the program checks it; nothing but Send leads there.             *)
LEMMA HostSent == TypeOK /\ SentInv /\ [Next]_vars => SentInv'
<1> SUFFICES ASSUME TypeOK, SentInv, [Next]_vars PROVE SentInv'
  OBVIOUS
<1> USE DEF SentInv, Sent, Checking
<1>0. step \in 1..Poll /\ step # Descriptor
  BY DEF TypeOK, Descriptor
<1>1. ASSUME NEW a \in BOOLEAN, Reset(a) PROVE SentInv'
  BY <1>1 DEF Reset
<1>2. CASE Detect \/ Insert \/ Wait \/ WaitRetry \/ Unplugged \/ Removed
  BY <1>2 DEF Detect, Insert, Wait, WaitRetry, Unplugged, Removed, Jump, chip, world
<1>3. CASE Send
  BY <1>3, <1>0 DEF Send, Start
<1>4. CASE Read \/ Clear \/ GetRetry \/ ClearRetry
  BY <1>4 DEF Read, Clear, GetRetry, ClearRetry, world
<1>5. CASE Check \/ ReadRetry
  BY <1>5 DEF Check, ReadRetry, NextList, Jump, chip, world
<1>6. CASE Fake
  BY <1>6 DEF Fake
<1>7. CASE Keys \/ Store \/ Store_0
  BY <1>7 DEF Keys, Store, Store_0
<1>8. CASE First
  BY <1>8, <1>0 DEF First
<1>9. CASE End \/ Notice \/ Plug
  BY <1>9 DEF End, Notice, Plug
<1>10. CASE UNCHANGED vars
  BY <1>10 DEF vars, chip, world
<1> QED
  BY <1>1, <1>2, <1>3, <1>4, <1>5, <1>6, <1>7, <1>8, <1>9, <1>10 DEF Next, Host

(* A step is left only from Check or ReadRetry, with its list accepted.    *)
LEMMA HostOrder == TypeOK /\ SentInv /\ StepsInOrder /\ [Next]_vars => StepsInOrder'
<1> SUFFICES ASSUME TypeOK, SentInv, StepsInOrder, [Next]_vars PROVE StepsInOrder'
  OBVIOUS
<1> USE DEF StepsInOrder
<1>0. Poll \in Nat /\ step \in 1..Poll
  BY UsbHostAssumption DEF TypeOK, Poll
<1>1. ASSUME NEW a \in BOOLEAN, Reset(a) PROVE StepsInOrder'
  BY <1>1 DEF Reset
<1>2. ASSUME step' = step, accepted \subseteq accepted' PROVE StepsInOrder'
  BY <1>2
<1>3. ASSUME NextList, pc \in Checking, retry = "ok" PROVE StepsInOrder'
  <2>1. step \in accepted
    BY <1>3 DEF SentInv, Sent
  <2>2. accepted' = accepted /\ step' = step + 1
    BY <1>3 DEF NextList, world
  <2>3. \A k \in 1..(step' - 1) : k = step \/ k \in 1..(step - 1)
    BY <1>0, <2>2
  <2> QED
    BY <2>1, <2>2, <2>3
<1>4. CASE Check \/ ReadRetry
  BY <1>2, <1>3, <1>4 DEF Check, ReadRetry, Checking, Jump, world
<1>5. CASE Detect \/ Insert \/ Wait \/ WaitRetry \/ Unplugged \/ Removed
  BY <1>2, <1>5 DEF Detect, Insert, Wait, WaitRetry, Unplugged, Removed, Jump, world
<1>6. CASE Send \/ Fake
  BY <1>2, <1>6 DEF Send, Fake
<1>7. CASE Read \/ Clear \/ GetRetry \/ ClearRetry
  BY <1>2, <1>7 DEF Read, Clear, GetRetry, ClearRetry, world
<1>8. CASE Keys \/ Store \/ Store_0
  BY <1>2, <1>8 DEF Keys, Store, Store_0, world
<1>9. CASE First \/ End \/ Notice \/ Plug
  BY <1>2, <1>9 DEF First, End, Notice, Plug
<1>10. CASE UNCHANGED vars
  BY <1>2, <1>10 DEF vars, world
<1> QED
  BY <1>1, <1>4, <1>5, <1>6, <1>7, <1>8, <1>9, <1>10 DEF Next, Host

LEMMA HostInit == Init => IInv
<1> SUFFICES ASSUME Init PROVE IInv
  OBVIOUS
<1>1. Poll \in Nat /\ 1 \in 1..Poll /\ 1 \in 0..Poll
  BY UsbHostAssumption DEF Poll
<1>2. TypeOK
  BY <1>1 DEF Init, TypeOK, Labels, RetryByte, Phase, Message
<1>3. SentInv
  BY DEF Init, SentInv, Sent, Checking
<1>4. StepsInOrder
  BY DEF Init, StepsInOrder
<1> QED
  BY <1>2, <1>3, <1>4 DEF IInv

(* The control state and the chip's state stay in range.                    *)
THEOREM HostTypeCorrect == Spec => []TypeOK
<1>1. IInv /\ [Next]_vars => IInv'
  BY HostType, HostSent, HostOrder DEF IInv
<1>2. IInv => TypeOK
  BY DEF IInv
<1> QED
  BY HostInit, <1>1, <1>2, PTL DEF Spec

(* The program never goes past a list whose first packet the device has not *)
(* acknowledged since the last reset, whatever the delays, repetitions and  *)
(* messages that came for something else.                                   *)
THEOREM HostStepsInOrder == Spec => []StepsInOrder
<1>1. IInv /\ [Next]_vars => IInv'
  BY HostType, HostSent, HostOrder DEF IInv
<1>2. IInv => StepsInOrder
  BY DEF IInv
<1> QED
  BY HostInit, <1>1, <1>2, PTL DEF Spec

(* What the registers hold while a word is stored: nothing else writes      *)
(* them, so the pair shown before is replaced code by code.                 *)
StoreInv == /\ pc = "store" => keycode = shown[1] /\ keycode_0 = shown[2]
            /\ pc = "store_0" => keycode = keys[1] /\ keycode_0 = shown[2]

LEMMA HostStores == StoreInv /\ [Next]_vars => StoreInv'
<1> SUFFICES ASSUME StoreInv, [Next]_vars PROVE StoreInv'
  OBVIOUS
<1> USE DEF StoreInv
<1>1. ASSUME NEW a \in BOOLEAN, Reset(a) PROVE StoreInv'
  BY <1>1 DEF Reset
<1>2. CASE Detect \/ Insert \/ Wait \/ WaitRetry \/ Unplugged \/ Removed
  BY <1>2 DEF Detect, Insert, Wait, WaitRetry, Unplugged, Removed, Jump
<1>3. CASE Send \/ Fake \/ Read \/ Clear \/ GetRetry \/ ClearRetry
  BY <1>3 DEF Send, Fake, Read, Clear, GetRetry, ClearRetry
<1>4. CASE Check \/ ReadRetry
  BY <1>4 DEF Check, ReadRetry, NextList, Jump
<1>5. CASE Keys
  BY <1>5 DEF Keys
<1>6. CASE Store \/ Store_0
  BY <1>6 DEF Store, Store_0
<1>7. CASE First \/ End \/ Notice \/ Plug
  BY <1>7 DEF First, End, Notice, Plug, codes
<1>8. CASE UNCHANGED vars
  BY <1>8 DEF vars, codes
<1> QED
  BY <1>1, <1>2, <1>3, <1>4, <1>5, <1>6, <1>7, <1>8 DEF Next, Host

(* A key that stays held is in the registers at every sample, whatever the  *)
(* reports, unless the keyboard moved it from the first place to the second.*)
THEOREM HostShowsHeldKeys == Spec => []HeldKeysAreSeen
<1>1. Init => StoreInv
  BY DEF Init, StoreInv
<1>2. StoreInv => HeldKeysAreSeen
  BY DEF StoreInv, HeldKeysAreSeen
<1> QED
  BY HostStores, <1>1, <1>2, PTL DEF Spec

(* Until the program has read an answer, the chip is still at the list sent *)
(* last, or has put its answer into the message register, or the answer was *)
(* erased.  A list started beside no unread answer gets one answer at most: *)
(* once that is read, the chip is at rest and the message is no answer.     *)
Waiting == pc \in {"wait", "read"} \/ (pc = "clear" /\ ~done)
Answered == pc \in {"check", "getRetry", "readRetry"}

AnswerInv ==
  /\ Waiting => Running \/ msg = "done" \/ lost
  /\ ~late => /\ Waiting /\ msg = "done" => ~Running
              /\ pc = "clear" /\ done => ~Running
              /\ Answered => ~Running /\ msg # "done"
              /\ pc \notin {"clearRetry", "waitRetry"}

LEMMA HostAnswers == TypeOK /\ AnswerInv /\ [Next]_vars => AnswerInv'
<1> SUFFICES ASSUME TypeOK, AnswerInv, [Next]_vars PROVE AnswerInv'
  OBVIOUS
<1> USE DEF AnswerInv, Waiting, Answered, Running
<1>0. done \in BOOLEAN /\ lost \in BOOLEAN /\ late \in BOOLEAN
  BY DEF TypeOK
<1>1. ASSUME NEW a \in BOOLEAN, Reset(a) PROVE AnswerInv'
  BY <1>1 DEF Reset
<1>2. CASE Detect \/ Insert \/ Unplugged \/ Removed
  BY <1>2 DEF Detect, Insert, Unplugged, Removed, Jump, codes, chip, world
<1>3. CASE Wait \/ WaitRetry
  BY <1>3 DEF Wait, WaitRetry, Jump, codes, chip, world
<1>4. CASE Send
  BY <1>4 DEF Send, Start
<1>5. CASE Fake
  BY <1>5 DEF Fake
<1>6. CASE Read
  BY <1>6, <1>0 DEF Read, world
<1>7. CASE Clear
  BY <1>7, <1>0 DEF Clear
<1>8. CASE GetRetry \/ ClearRetry
  BY <1>8 DEF GetRetry, ClearRetry, world
<1>9. CASE Check \/ ReadRetry
  BY <1>9 DEF Check, ReadRetry, NextList, Jump, codes, chip, world
<1>10. CASE Keys \/ Store \/ Store_0
  BY <1>10 DEF Keys, Store, Store_0
<1>11. CASE First
  BY <1>11 DEF First, codes
<1>12. CASE End
  BY <1>12, <1>0 DEF End, codes
<1>13. CASE Notice
  BY <1>13, <1>0 DEF Notice, codes
<1>14. CASE Plug
  BY <1>14 DEF Plug, codes
<1>15. CASE UNCHANGED vars
  BY <1>15 DEF vars, codes, chip, world
<1> QED
  BY <1>1, <1>2, <1>3, <1>4, <1>5, <1>6, <1>7, <1>8, <1>9, <1>10, <1>11, <1>12,
     <1>13, <1>14, <1>15 DEF Next, Host

(* The program waits for an answer that is to come or is there, unless it   *)
(* was erased unread, and gets into the wait of UsbGetRetryCnt only if the  *)
(* list in hand was started beside the unread answer to another.            *)
THEOREM HostWaitsAreAnswered == Spec => []WaitsAreAnswered
<1>1. Init => AnswerInv
  BY DEF Init, AnswerInv, Waiting, Answered
<1>2. AnswerInv => WaitsAreAnswered
  BY DEF AnswerInv, Waiting, WaitsAreAnswered
<1> QED
  BY HostTypeCorrect, HostAnswers, <1>1, <1>2, PTL DEF Spec

(* A list whose first descriptor the chip has yet to run is the one of the  *)
(* step or one the device has accepted before: the program leaves a step    *)
(* only when its list was accepted, even if that list was sent again and    *)
(* runs a second time.  The codes are read and stored at the polling list.  *)
AheadInv == /\ phase = "first" => pointer \in {Descriptor, step} \cup accepted
            /\ pc \in {"keys", "store", "store_0"} => step = Poll

LEMMA HostAhead == IInv /\ AheadInv /\ [Next]_vars => AheadInv'
<1> SUFFICES ASSUME IInv, AheadInv, [Next]_vars PROVE AheadInv'
  OBVIOUS
<1> USE DEF AheadInv
<1>1. ASSUME NEW a \in BOOLEAN, Reset(a) PROVE AheadInv'
  BY <1>1 DEF Reset
<1>2. CASE Detect \/ Insert \/ Wait \/ WaitRetry \/ Unplugged \/ Removed
  BY <1>2 DEF Detect, Insert, Wait, WaitRetry, Unplugged, Removed, Jump, chip, world
<1>3. CASE Send \/ Fake
  BY <1>3 DEF Send, Fake, Start
<1>4. CASE Read \/ Clear \/ GetRetry \/ ClearRetry
  BY <1>4 DEF Read, Clear, GetRetry, ClearRetry, world
<1>5. ASSUME NextList, pc \in Checking, retry = "ok" PROVE AheadInv'
  <2>1. pointer = step /\ step \in accepted
    BY <1>5 DEF IInv, SentInv, Sent
  <2> QED
    BY <1>5, <2>1 DEF NextList, chip, world
<1>6. CASE Check \/ ReadRetry
  <2>1. CASE NextList /\ retry = "ok"
    BY <1>5, <1>6, <2>1 DEF Check, ReadRetry, Checking
  <2>2. CASE Jump("getRetry") \/ Jump("reset")
    BY <2>2 DEF Jump, chip, world
  <2> QED
    BY <1>6, <2>1, <2>2 DEF Check, ReadRetry
<1>7. CASE Keys \/ Store \/ Store_0
  BY <1>7 DEF Keys, Store, Store_0, chip, world
<1>8. CASE First \/ End
  BY <1>8 DEF First, End
<1>9. CASE Notice \/ Plug
  BY <1>9 DEF Notice, Plug
<1>10. CASE UNCHANGED vars
  BY <1>10 DEF vars, chip, world
<1> QED
  BY <1>1, <1>2, <1>3, <1>4, <1>6, <1>7, <1>8, <1>9, <1>10 DEF Next, Host

(* Every step of the program and of the chip is a step of the session or    *)
(* a stutter.                                                               *)
LEMMA HostSession ==
  ASSUME IInv, AheadInv, [Next]_vars
  PROVE  \/ Promise!Restart \/ Promise!Accept \/ Promise!Advance \/ Promise!Show
         \/ UNCHANGED <<step, accepted, keycode, keycode_0>>
<1> DEFINE Goal == \/ Promise!Restart \/ Promise!Accept \/ Promise!Advance \/ Promise!Show
                   \/ UNCHANGED <<step, accepted, keycode, keycode_0>>
<1>0. Last \in Nat /\ Poll = Last + 1 /\ step \in 1..Poll
  BY UsbHostAssumption DEF Poll, IInv, TypeOK
<1>1. ASSUME NEW a \in BOOLEAN, Reset(a) PROVE Goal
  BY <1>1 DEF Reset, codes, Promise!Restart
<1>2. CASE Detect \/ Insert \/ Wait \/ WaitRetry \/ Unplugged \/ Removed
  BY <1>2 DEF Detect, Insert, Wait, WaitRetry, Unplugged, Removed, Jump, codes, world
<1>3. CASE Send \/ Fake
  BY <1>3 DEF Send, Fake, codes
<1>4. CASE Read \/ Clear \/ GetRetry \/ ClearRetry
  BY <1>4 DEF Read, Clear, GetRetry, ClearRetry, codes, world
<1>5. ASSUME NextList, pc \in Checking, retry = "ok" PROVE Promise!Advance
  <2>1. step \in accepted /\ step # Poll
    BY <1>5 DEF IInv, SentInv, Sent
  <2>2. step <= Last
    BY <1>0, <2>1, SMT
  <2> QED
    BY <1>5, <2>1, <2>2 DEF NextList, codes, world, Promise!Advance
<1>6. CASE Check \/ ReadRetry
  <2>1. CASE NextList /\ retry = "ok"
    BY <1>5, <1>6, <2>1 DEF Check, ReadRetry, Checking
  <2>2. CASE Jump("getRetry") \/ Jump("reset")
    BY <2>2 DEF Jump, codes, world
  <2> QED
    BY <1>6, <2>1, <2>2 DEF Check, ReadRetry
<1>7. CASE Store \/ Store_0
  <2>1. step = Poll /\ keys \in Reports \cup {Remains}
    BY <1>7 DEF Store, Store_0, AheadInv, IInv, TypeOK
  <2>2. 1..Last \subseteq accepted
    <3>1. step - 1 = Last
      BY <1>0, <2>1, SMT
    <3> QED
      BY <3>1 DEF IInv, StepsInOrder
  <2> QED
    BY <1>7, <2>1, <2>2 DEF Store, Store_0, world, Promise!Show
<1>8. CASE Keys \/ End \/ Notice \/ Plug
  BY <1>8 DEF Keys, End, Notice, Plug, codes, world
<1>9. CASE First
  <2>1. UNCHANGED <<step, keycode, keycode_0>>
    BY <1>9 DEF First, codes
  <2>2. accepted' = accepted \/ accepted' = accepted \cup {step}
    BY <1>9 DEF First, AheadInv
  <2> QED
    BY <2>1, <2>2 DEF Promise!Accept
<1>10. CASE UNCHANGED vars
  BY <1>10 DEF vars, codes, world
<1> QED
  BY <1>1, <1>2, <1>3, <1>4, <1>6, <1>7, <1>8, <1>9, <1>10 DEF Next, Host

(* The keyboard accepts the lists in their order, and only then do codes    *)
(* reach the registers of the game, for any number of lists and any reports.*)
THEOREM HostKeepsSession == Spec => KeepsSession
<1>1. Init => AheadInv /\ Promise!Begin
  BY DEF Init, AheadInv, Promise!Begin
<1>2. IInv /\ AheadInv /\ [Next]_vars => (IInv /\ AheadInv)'
  BY HostType, HostSent, HostOrder, HostAhead DEF IInv
<1>3. IInv /\ AheadInv /\ [Next]_vars =>
        [Promise!Restart \/ Promise!Accept \/ Promise!Advance \/ Promise!Show]_<<step, accepted, keycode, keycode_0>>
  BY HostSession
<1> QED
  BY HostInit, <1>1, <1>2, <1>3, PTL DEF Spec, KeepsSession, Promise!SSpec
=============================================================================
