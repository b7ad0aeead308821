----------------------------- MODULE MCPipeline -----------------------------
(* A small instance of Pipeline: three logs, of which one is malformed and  *)
(* one makes two signals, two enricher workers and one-place channels        *)
(* behind a raw channel that fits the adapter's buffer.                      *)
EXTENDS Pipeline

CONSTANTS w1, w2

MCMainWiring == {TRUE}
MCBothWirings == {TRUE, FALSE}
MCWorkers == {w1, w2}
MCMalformed == {2}
MCSignalCount == <<2, 1, 1>>
\* As many logs as rawEvents and the forwarder's hands hold: it does wait, at the bound.
MCCapacity == [c \in Channels |-> CASE c = "events" -> 3 [] c = "raw" -> 2 [] OTHER -> 1]
=============================================================================
