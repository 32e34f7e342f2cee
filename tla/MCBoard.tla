------------------------------- MODULE MCBoard -------------------------------
(***************************************************************************)
(* Four boards: a reset line; a button with the error lamp; the voltage    *)
(* monitor with the error lamp; the lamp of the network.  12 V on a        *)
(* divider of 28 and an alarm at 10 %.                                     *)
(***************************************************************************)
EXTENDS Board, TLC

MCBoards == {{"reset"}, {"button", "ledR"}, {"vmon", "ledR"}, {"ledB"}}

MCNetworks == {"reset"} :> {"ap"} @@
              {"button", "ledR"} :> {"connected"} @@
              {"vmon", "ledR"} :> {"connected", "lost"} @@
              {"ledB"} :> {"ap", "connected", "connecting"}

MCMonitor == [target |-> 12000, threshold |-> 10, correction |-> 0]

MCReadings == {300, 439}
=============================================================================
