---------------------------- MODULE OrderedPath ----------------------------
(***************************************************************************)
(* What a byte-wise or frame-wise transmit path promises its callers: one  *)
(* call at a time; what the calls offer is delivered in their order, every *)
(* item once and nothing else; and a synchronous path returns from a call  *)
(* only when everything it was offered has been delivered.  The drivers    *)
(* have no such object; SerialTx and CanDriver are shown to implement it.  *)
(***************************************************************************)
EXTENDS Naturals, Sequences

VARIABLES synchronous,  \* does a call wait for its own delivery?
          open,         \* a call is under way
          offered,      \* the items of all calls, oldest first
          delivered     \* the items that have left

pathVars == <<synchronous, open, offered, delivered>>

Init == /\ synchronous \in BOOLEAN
        /\ open = FALSE
        /\ offered = <<>>
        /\ delivered = <<>>

(* A call adds items behind those offered before.                          *)
Call == /\ ~open
        /\ open' = TRUE
        /\ SubSeq(offered', 1, Len(offered)) = offered
        /\ UNCHANGED <<synchronous, delivered>>

Deliver == /\ Len(delivered) < Len(offered)
           /\ delivered' = Append(delivered, offered[Len(delivered) + 1])
           /\ UNCHANGED <<synchronous, open, offered>>

Return == /\ open
          /\ open' = FALSE
          /\ synchronous => delivered = offered
          /\ UNCHANGED <<synchronous, offered, delivered>>

Next == Call \/ Deliver \/ Return

Spec == Init /\ [][Next]_pathVars
=============================================================================
