-------------------------- MODULE WebSocketWrapper ---------------------------
(***************************************************************************)
(* WebSocket-wrapper.js: an object with the interface of a browser's       *)
(* WebSocket on top of an advanced jSocket, whose data callback announces  *)
(* a number of bytes that then have to be read from the movie.             *)
(*                                                                         *)
(* The handlers a page hangs on the object may return, throw, or call      *)
(* close; the page may also call send and close from anywhere else.        *)
(***************************************************************************)
EXTENDS JSocket

CONSTANTS
  MaxBytes,     \* bound: largest chunk the movie announces
  MaxChunks,    \* bound: chunks that arrive
  MaxSends      \* bound: calls of send

ASSUME WebSocketAssumption == MaxBytes \in Nat /\ MaxChunks \in Nat /\ MaxSends \in Nat

VARIABLES
  sock,           \* the jSocket
  readyState,
  docComplete,    \* document.readyState is "complete"
  chunks,         \* chunks arrived so far
  sent,           \* frames written
  messages,       \* "message" events dispatched
  closeCalled,    \* close was called
  closeFired      \* a "close" event was dispatched

wsVars ==
  <<sock, readyState, docComplete, chunks, sent, messages, closeCalled, closeFired>>

\* Shape of the variables.
WsTypeOK ==
  /\ SocketType(sock, {NoData} \cup {<<n>> : n \in 1..MaxBytes})
  /\ readyState \in {"CONNECTING", "OPEN", "CLOSING", "CLOSED"}
  /\ {docComplete, closeCalled, closeFired} \subseteq BOOLEAN
  /\ chunks \in 0..MaxChunks /\ sent \in 0..MaxSends /\ messages \in 0..MaxChunks

\* The constructor embeds the movie at once, or waits for the document.
WsInit ==
  /\ docComplete \in BOOLEAN
  /\ sock = IF docComplete THEN Setup(NewSocket) ELSE NewSocket
  /\ readyState = "CONNECTING"
  /\ chunks = 0 /\ sent = 0 /\ messages = 0
  /\ closeCalled = FALSE /\ closeFired = FALSE

-----------------------------------------------------------------------------
(* The document, the movie and the network.                                *)

OnlySock == UNCHANGED <<readyState, docComplete, chunks, sent, messages, closeCalled,
                        closeFired>>

DocumentComplete ==
  /\ ~docComplete
  /\ docComplete' = TRUE
  /\ UNCHANGED <<sock, readyState, chunks, sent, messages, closeCalled, closeFired>>

\* The interval timer finds the document complete, and is cleared.
SetupInterval ==
  /\ docComplete /\ MaySetup(sock)
  /\ sock' = Setup(sock)
  /\ OnlySock

WsMovie ==
  /\ \/ sock.swf = "loading" /\ sock' = MovieLoaded(sock)
     \/ sock.swf = "loaded" /\ sock' = MovieUsable(sock)
  /\ OnlySock

WsNetwork ==
  /\ \/ sock.flash = "connecting" /\ sock' \in {MovieConnected(sock), MovieError(sock)}
     \/ sock.flash = "open" /\ sock' = MovieClosed(sock)
  /\ OnlySock

WsArrives(size) ==
  /\ sock.flash = "open" /\ chunks < MaxChunks
  /\ sock' = MovieDataAdvanced(sock, size)
  /\ chunks' = chunks + 1
  /\ UNCHANGED <<readyState, docComplete, sent, messages, closeCalled, closeFired>>

-----------------------------------------------------------------------------
(* The object.                                                             *)

Handlers == {"returns", "throws", "closes"}

\* close on socket s: the state changes first; flush throws unless connected,
\* and then the socket is not closed.
CloseSocket(s) == IF MayWrite(s) THEN Close(s) ELSE s

CallClose ==
  /\ readyState' = "CLOSING"
  /\ sock' = CloseSocket(sock)
  /\ closeCalled' = TRUE
  /\ UNCHANGED <<docComplete, chunks, sent, messages, closeFired>>

\* send: a frame is written in three parts and flushed.
CallSend ==
  /\ MayWrite(sock) /\ sent < MaxSends
  /\ sent' = sent + 1
  /\ UNCHANGED <<sock, readyState, docComplete, chunks, messages, closeCalled, closeFired>>

WsOnInit ==
  /\ Fires(sock, "init")
  /\ sock' = ExecInit(sock)
  /\ OnlySock

\* onready connects.
WsOnProbe ==
  /\ Fires(sock, "probe")
  /\ sock' = IF sock.swf = "usable" THEN Connect(ProbeDone(sock)) ELSE ProbeAgain(sock)
  /\ OnlySock

\* onconnect(true): the handshake is written, or the write throws.
WsOnConnect ==
  /\ Fires(sock, "connect")
  /\ sock' = ExecConnect(sock)
  /\ OnlySock

\* onconnect(false) and onclose dispatch "close".  The handler runs before the
\* state becomes CLOSED; one that throws, as close does here, keeps it from that.
DispatchClose(handler) ==
  /\ \/ Fires(sock, "error") /\ sock' = Popped(sock)
     \/ Fires(sock, "close") /\ sock' = ExecClose(sock)
  /\ closeFired' = TRUE
  /\ closeCalled' = (closeCalled \/ handler = "closes")
  /\ readyState' = CASE handler = "returns" -> "CLOSED"
                     [] handler = "throws"  -> readyState
                     [] handler = "closes"  -> "CLOSING"
  /\ UNCHANGED <<docComplete, chunks, sent, messages>>

\* CONNECTING: the handshake is read and not looked at.  "open" is dispatched
\* before the state becomes OPEN, which hides a close the handler made.
DispatchOpen(handler) ==
  /\ Fires(sock, "data") /\ readyState = "CONNECTING"
  /\ LET size == First(sock).data[1]
         now  == Read(Popped(sock), size)
     IN  IF ~MayRead(sock, size)
         THEN sock' = Popped(sock) /\ UNCHANGED <<readyState, closeCalled>>
         ELSE /\ sock' = IF handler = "closes" THEN CloseSocket(now) ELSE now
              /\ readyState' = IF handler = "throws" THEN readyState ELSE "OPEN"
              /\ closeCalled' = (closeCalled \/ handler = "closes")
  /\ UNCHANGED <<docComplete, chunks, sent, messages, closeFired>>

\* The last byte of the frame is not read.
FrameBytesShort(size) == IF size < 2 THEN 1 ELSE 1 + (size - 2)

\* Bytes read for an announced size: one byte, the text, one byte; a text that
\* would have a negative length throws after the first.
FrameBytes(size) == IF size < 2 THEN 1 ELSE 2 + (size - 2)

\* Data is delivered whatever the state of the object.
DeliversAlways == TRUE

Delivers == readyState = "OPEN"

\* OPEN: the frame is read and "message" dispatched.  In any other state the
\* callback does nothing, and the bytes stay in the movie.
DispatchMessage(handler) ==
  /\ Fires(sock, "data") /\ readyState # "CONNECTING"
  /\ LET size == First(sock).data[1]
         now  == Read(Popped(sock), FrameBytes(size))
         read == Delivers /\ MayRead(sock, size)
     IN  IF ~read
         THEN sock' = Popped(sock) /\ UNCHANGED <<readyState, closeCalled, messages>>
         ELSE IF size < 2
         THEN sock' = now /\ UNCHANGED <<readyState, closeCalled, messages>>
         ELSE /\ messages' = messages + 1
              /\ sock' = IF handler = "closes" THEN CloseSocket(now) ELSE now
              /\ readyState' = IF handler = "closes" THEN "CLOSING" ELSE readyState
              /\ closeCalled' = (closeCalled \/ handler = "closes")
  /\ UNCHANGED <<docComplete, chunks, sent, closeFired>>

WsNext ==
  \/ DocumentComplete \/ SetupInterval \/ WsMovie \/ WsNetwork
  \/ \E size \in 1..MaxBytes : WsArrives(size)
  \/ CallClose \/ CallSend
  \/ WsOnInit \/ WsOnProbe \/ WsOnConnect
  \/ \E handler \in Handlers :
       DispatchClose(handler) \/ DispatchOpen(handler) \/ DispatchMessage(handler)

-----------------------------------------------------------------------------
\* What the callbacks of a sequence announce.
BytesOf(timers) ==
  LET first[k \in 0..Len(timers)] ==
        IF k = 0 THEN 0
        ELSE first[k - 1] + (IF timers[k].name = "data" THEN timers[k].data[1] ELSE 0)
  IN  first[Len(timers)]

\* While the object reads what arrives, the movie holds just the bytes that the
\* waiting callbacks announce: no callback reads into the bytes of a later one,
\* however short the chunks and whatever the handlers do.
BytesAccounted ==
  sock.flash = "open" /\ readyState \in {"CONNECTING", "OPEN"} =>
    sock.unread = BytesOf(sock.timers)

\* Once close was called, or "close" dispatched, the page gets no message, not
\* even from callbacks that already waited, and not even where the state is
\* OPEN because close was called by the "open" handler.
NoMessageAfterClose ==
  [][messages' # messages => ~closeCalled /\ ~closeFired]_wsVars
=============================================================================
