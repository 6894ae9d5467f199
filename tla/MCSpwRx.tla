------------------------------ MODULE MCSpwRx ------------------------------
(* Instance of SpwRx for TLC: packets of no, one and two bytes, whole,     *)
(* ended by an error marker, and without an end marker, and one of three   *)
(* bytes for a buffer of two.                                              *)
EXTENDS SpwRx

Ended(n) == [length |-> n, eop |-> TRUE, eep |-> FALSE]
MCPacket == {Ended(0), Ended(1), Ended(2), Ended(3),
             [length |-> 2, eop |-> TRUE, eep |-> TRUE],
             [length |-> 2, eop |-> FALSE, eep |-> FALSE]}
=============================================================================
