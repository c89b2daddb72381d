----------------------------- MODULE MCEmbedder -----------------------------
(* Instances of EmbedderProcess for TLC. *)
EXTENDS EmbedderProcess

CONSTANTS b1, b2

OneEach == [c \in EmbedCalls |-> 1]
Vectors1536 == [c \in EmbedCalls |-> {"fp32"}]

=============================================================================
