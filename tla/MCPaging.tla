------------------------------ MODULE MCPaging ------------------------------
(* A small instance: pages of one chat, and of one message.                *)
EXTENDS Paging

MCRooms == 1..3
MCLowPriority == {3}
MCEdited == {2}
=============================================================================
