---------------------------- MODULE MCUsbHost ----------------------------
(* The nine lists of main.c; the written descriptor follows the fifth.  No  *)
(* key, two keys (A and D), and the second of them alone, which is then in  *)
(* the first place.  The last list leaves the words of a descriptor where   *)
(* the codes are read from (usb.c:470): 0x20 and 0x05.                      *)
EXTENDS UsbHost
MCReports == {<<0, 0>>, <<4, 7>>, <<7, 0>>}
MCRemains == <<32, 5>>
==========================================================================
