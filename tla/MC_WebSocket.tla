----------------------------- MODULE MC_WebSocket -----------------------------
(* Three peers and two slots: streams, closing and reused slots.              *)
EXTENDS WebSocket

MCFileSize == [f \in {} |-> 0]
=============================================================================
