---------------------------- MODULE OneSlotLink ----------------------------
(***************************************************************************)
(* What the SpaceWire transmit path promises its callers: the link holds   *)
(* at most one packet; a packet taken while the link is free is put on the *)
(* wire once, whole and unchanged, in the order the packets were taken,    *)
(* before the next one is taken.  The driver has no such object; SpwTx is  *)
(* shown to implement it.                                                  *)
(***************************************************************************)
EXTENDS Sequences

CONSTANTS Packet,   \* everything that can be offered to the link
          Free      \* no packet: the content of the slot of a free link

VARIABLES slot,     \* the packet the link holds, or Free
          sent      \* the packets put on the wire, oldest first

linkVars == <<slot, sent>>

LinkTypeOK == /\ slot \in Packet \cup {Free}
              /\ sent \in Seq(Packet)

Init == /\ slot = Free
        /\ sent = <<>>

Accept(p) == /\ slot = Free
             /\ slot' = p
             /\ UNCHANGED sent

Complete == /\ slot # Free
            /\ sent' = Append(sent, slot)
            /\ slot' = Free

Next == Complete \/ \E p \in Packet : Accept(p)

Spec == Init /\ [][Next]_linkVars
=============================================================================
