----------------------------- MODULE MCKeyboard -----------------------------
(* A keyboard of three ordinary keys, the first two of one column, and a    *)
(* modifier; its reports have room for two keys.                            *)
EXTENDS Keyboard

MCColumn == <<1, 1, 2, 3>>
MCModifiers == {4}
=============================================================================
