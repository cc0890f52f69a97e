--------------------------- MODULE MCEmbedServer ----------------------------
(* EmbedServer for TLC.                                                    *)
EXTENDS EmbedServer, TLC

CONSTANTS r1, r2, r3, main

=============================================================================
