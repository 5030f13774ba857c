--------------------------- MODULE MCChatSession ---------------------------
(* Small instances of ChatSession for TLC.                                   *)
EXTENDS ChatSession

MCAllModes == {"auto", "prefix", "hybrid", "private"}
MCTurnKinds == {"plain", "prefix", "context", "dump", "reset", "added", "ignored"}
MCTurnFaults == {"lost", "dump", "error", "send"}
=============================================================================
