------------------------- MODULE MCAppTaskSwitch -------------------------
EXTENDS AppTaskSwitch
(* Every kind of mode once: start-up, lingering (BT), plain (MUSIC, FM)    *)
(* and final (POWEROFF).                                                   *)
MCTask == {"POWERON", "BT", "MUSIC", "FM", "POWEROFF"}
MCTaskList == <<"BT", "MUSIC", "FM">>
MCBootTask == {"POWERON"}
MCFinalTask == {"POWEROFF"}
MCLingerTask == {"BT"}
=============================================================================
