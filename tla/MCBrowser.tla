----------------------------- MODULE MCBrowser -------------------------------
(***************************************************************************)
(* The scripts of a page side by side: the white board on jSocket, the     *)
(* WebSocket of the wrapper on jSocket, and swfobject, which puts the      *)
(* movies of both into their pages.  They share no state, so a behaviour   *)
(* is one of the board, of the wrapper or of swfobject, and the others     *)
(* rest in one of their initial states.                                    *)
(***************************************************************************)
EXTENDS WhiteBoard, WebSocketWrapper, SwfObject

CONSTANTS teacher, student, e1, e2, e3

VARIABLE part    \* whose behaviour this is

vars == <<part, wbVars, wsVars, swfVars>>

Init ==
  /\ part \in {"board", "wrapper", "swfobject"}
  /\ WbInit /\ WsInit /\ SwfInit
  /\ part # "wrapper" => docComplete
  /\ part # "swfobject" => ~browser.ie /\ browser.real = 0 /\ bodyThere

Next ==
  \/ part = "board" /\ WbNext /\ UNCHANGED <<part, wsVars, swfVars>>
  \/ part = "wrapper" /\ WsNext /\ UNCHANGED <<part, wbVars, swfVars>>
  \/ part = "swfobject" /\ SwfNext /\ UNCHANGED <<part, wbVars, wsVars>>

Fairness ==
  /\ part = "board" => WbFairness
  /\ part = "swfobject" => SwfFairness

Spec == Init /\ [][Next]_vars /\ Fairness

\* Type invariant of the three.
TypeOK == WbTypeOK /\ WsTypeOK /\ SwfTypeOK

\* The flag jSocket tests before every call agrees with the movie's socket
\* whenever no news of the connection waits in a timer: callbacks are executed
\* in the order the movie made them, and close tells nobody.
FlagsAgree == ConnectedAgrees /\ FlagAgrees(sock)
=============================================================================
