------------------------------ MODULE MCBuffer ------------------------------
(* Two buffers; one or two bytes are put in at a time.                     *)
EXTENDS Buffer

CONSTANTS one, two

MCByte == {one, two}
MCData == {<<one>>, <<two>>, <<one, two>>}
=============================================================================
