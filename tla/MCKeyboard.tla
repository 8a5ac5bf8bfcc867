----------------------------- MODULE MCKeyboard -----------------------------
(* Keys for TLC: codes of set 1, with the prefix of the extended ones.     *)
EXTENDS Keyboard

Letter   == <<0, 16>>
Erase    == <<0, 14>>
PadEnter == <<224, 28>>

EditKeys   == {LeftShift, CapsLock, Letter, Erase, <<0, 15>>, PadEnter}
DownAtBoot == {LeftShift, PadEnter}
=============================================================================
