----------------------------- MODULE MCWebSocket -----------------------------
(* A handful of frames for the model checker: the fragments of a message,  *)
(* control frames that may come between them, and frames to be refused.    *)
EXTENDS WebSocket

Frame(op, fin, len, masked) ==
  [op |-> op, fin |-> fin, len |-> len, masked |-> masked, rsv |-> FALSE]

MCFrames ==
  {Frame("text", TRUE, 1, FALSE), Frame("binary", FALSE, 2, FALSE),
   Frame("cont", FALSE, 2, FALSE), Frame("cont", TRUE, 1, TRUE),
   Frame("ping", TRUE, 1, TRUE), Frame("pong", TRUE, 0, FALSE), Frame("close", TRUE, 0, FALSE),
   Frame("text", TRUE, 3, FALSE), Frame("unknown", TRUE, 1, FALSE)}

(* The hypothesis of the theorems in WebSocketProofs about messages.       *)
ASSUME MCDataUnmasked == DataUnmasked
=============================================================================
