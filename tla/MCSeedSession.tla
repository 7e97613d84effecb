-------------------------- MODULE MCSeedSession --------------------------
(* SeedSession with two tasks deriving, with all three, with the backup    *)
(* check of a device nobody is connected to, and with both.                *)
EXTENDS SeedSession, TLC

Tasked    == {{"host"}, {"gap"}}
Alone     == {{"backup"}}
Separate  == Tasked \cup Alone
Together  == {{"host", "gap"}}
Connected == {{"host", "backup"}}
=============================================================================
