------------------------------ MODULE Settings ------------------------------
(***************************************************************************)
(* What the settings of the module promise to whoever stores them, without *)
(* the buffer and the accessors that keep the promise: a store command or  *)
(* a reset takes effect as a whole or not at all, only a module that is    *)
(* serving, or that found its settings unusable, ever changes them, and a  *)
(* module serves only from settings it found usable.  It promises less of  *)
(* a loss of power during the write itself: the sector then holds the      *)
(* front of what was to be written and is erased behind it, and as nothing *)
(* marks it, the next boot may well find such settings usable.             *)
(***************************************************************************)
EXTENDS Integers, Sequences

CONSTANTS Writes,     \* the writes a command can ask for: [pos, bytes]
          Factory(_), \* the factory settings written over what is there
          Sound(_),   \* the settings let the module start
          Blank,      \* the value of an erased byte
          Torn        \* power may be lost while the sector is being written

VARIABLES config,     \* the settings a restart would find
          serving     \* the module is up and takes commands

Covers(w, a) == a \in w.pos .. w.pos + Len(w.bytes) - 1

(* image with the bytes of w in their place *)
Put(image, w) ==
  [a \in DOMAIN image |-> IF Covers(w, a) THEN w.bytes[a - w.pos + 1] ELSE image[a]]

MayChange == serving \/ ~ Sound(config)

(* what a store command, and what a reset, may make of the settings *)
Stored == {Put(config, w) : w \in IF serving THEN Writes ELSE {}}
Restored == IF MayChange THEN {Factory(config)} ELSE {}

Boot  == ~ serving /\ Sound(config) /\ serving' = TRUE /\ UNCHANGED config
Stop  == serving' = FALSE /\ UNCHANGED config
Store == config' \in Stored /\ UNCHANGED serving
Reset == config' \in Restored /\ UNCHANGED serving

(* the settings a write was to leave, as far as their first n bytes *)
Front(image, n) == [a \in DOMAIN image |-> IF a < n THEN image[a] ELSE Blank]

Tear ==
  /\ Torn /\ serving' = FALSE
  /\ \E image \in Stored \cup Restored, n \in DOMAIN config : config' = Front(image, n)

Spec == ~ serving /\ [][Boot \/ Stop \/ Store \/ Reset \/ Tear]_<<config, serving>>
=============================================================================
