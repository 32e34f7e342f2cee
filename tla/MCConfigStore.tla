--------------------------- MODULE MCConfigStore ---------------------------
(***************************************************************************)
(* A small sector: a baud rate and two ports of two bytes each, the        *)
(* firmware target, and a text of at most two characters.                  *)
(***************************************************************************)
EXTENDS ConfigStore, TLC

MCBauds == {<<1, 0>>, <<1, 1>>}
MCPorts == {<<1, 0>>, <<2, 0>>}
MCTextLimits == 7 :> 2

MCDefaults == <<[pos |-> 9, type |-> "S", value |-> <<>>],
                [pos |-> 0, type |-> "I", value |-> <<1, 1>>],
                [pos |-> 7, type |-> "S", value |-> <<1>>],
                [pos |-> 2, type |-> "I", value |-> <<1, 0>>],
                [pos |-> 4, type |-> "I", value |-> <<2, 0>>],
                [pos |-> 6, type |-> "B", value |-> <<0>>]>>

(* A target, known or not; an unusable baud rate; a text that fits, one that *)
(* is empty, one too long; a text written across the target.                 *)
MCCommands == {[pos |-> 6, type |-> "B", value |-> <<1>>],
               [pos |-> 6, type |-> "B", value |-> <<2>>],
               [pos |-> 0, type |-> "I", value |-> <<2, 2>>],
               [pos |-> 7, type |-> "S", value |-> <<2, 1>>],
               [pos |-> 7, type |-> "S", value |-> <<>>],
               [pos |-> 7, type |-> "S", value |-> <<2, 2, 2>>],
               [pos |-> 5, type |-> "S", value |-> <<0, 1, 2>>]}

(* A new module, one that was in use, and one whose data port is damaged. *)
MCImages == {Erased,
             [a \in Addr |-> <<1, 0, 2, 0, 1, 0, 1, 2, 0, 255>>[a + 1]],
             [a \in Addr |-> <<1, 1, 1, 0, 0, 0, 1, 2, 0, 255>>[a + 1]]}

MCBoardReads == <<ReadCall(9, 1)>>
MCSetupReads == <<ReadCall(7, 2), ReadCall(6, 1)>>
MCListReads == <<ReadCall(0, 2), ReadCall(7, 2)>>
=============================================================================
