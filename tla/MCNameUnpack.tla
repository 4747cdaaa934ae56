----------------------------- MODULE MCNameUnpack -----------------------------
(***************************************************************************)
(* All messages of up to six bytes out of seven: the root, labels of one to *)
(* three bytes, a bitstring label, a pointer and a byte of an illegal type. *)
(* The small ones are also the offsets pointers lead to and numbers of bits. *)
(***************************************************************************)
EXTENDS NameUnpack

MCBytes == {0, 1, 2, 3, 65, 128, 192}
===============================================================================
