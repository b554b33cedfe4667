---------------------------- MODULE MCKeepalive -----------------------------
(* Keepalive on small machine words, with every text and every assignment. *)
EXTENDS Keepalive

MCParts == (0 .. MaxUint32 + 1) \cup {Blank, Junk}
MCTexts == UNION {[1 .. n -> MCParts] : n \in 1 .. 3}
MCInts == (-IntMax - 1) .. IntMax
=============================================================================
