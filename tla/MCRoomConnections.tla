-------------------------- MODULE MCRoomConnections --------------------------
(* Two attempts under one connection id, and one of another client.        *)
EXTENDS RoomConnections

CONSTANTS h1, h2, h3, c1, c2

MCConnOf == [h \in Handles |-> IF h = h3 THEN c2 ELSE c1]
=============================================================================
