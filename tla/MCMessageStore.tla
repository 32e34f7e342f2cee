--------------------------- MODULE MCMessageStore ---------------------------
(***************************************************************************)
(* A text that just fits, one that is a character too long, and the text   *)
(* that the long one becomes.                                              *)
(***************************************************************************)
EXTENDS MessageStore

MCTexts == {<<"b", "a", "b", "a">>, <<"b", "a", "b", "a", "b">>,
            <<"b", ".", ".", ".">>}
=============================================================================
