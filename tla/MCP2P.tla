--------------------------------- MODULE MCP2P ---------------------------------
(* One P2P deal of two rupees, bought or sold by the client. *)
EXTENDS P2P

MCDirections == {"BUY", "SELL"}
=============================================================================
