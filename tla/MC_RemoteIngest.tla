--------------------------- MODULE MC_RemoteIngest ---------------------------
(* Two sources and two clients; one source holds the same span twice.      *)
EXTENDS RemoteIngest, TLC

CONSTANTS docs, code, s1, s2, s3

MCSpansOf == [x \in {docs, code} |-> IF x = docs THEN <<s1, s2, s1>> ELSE <<s3>>]
============================================================================
