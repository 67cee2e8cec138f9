----------------------------- MODULE WhiteBoard ------------------------------
(***************************************************************************)
(* The white board (tools/white_board): the pages of a teacher and of      *)
(* students, each with a jSocket to the push server, and the web server    *)
(* the teacher's images are uploaded to.  A drawn image is uploaded, and   *)
(* when the upload has succeeded its name is sent to the channel.          *)
(*                                                                         *)
(* The push server is external here: it answers the connect request, takes *)
(* subscriptions, and passes a channel message on to the subscribed pages. *)
(* What it sends to a page is a stream, which the network cuts into chunks *)
(* as it likes.                                                            *)
(***************************************************************************)
EXTENDS JSocket, FiniteSets

CONSTANTS
  Pages,
  Teachers,     \* the pages whose user_type is 1
  MaxStrokes    \* bound: images drawn

ASSUME WhiteBoardAssumption == Teachers \subseteq Pages /\ MaxStrokes \in Nat

\* What a stream is made of: the answers to the connect request, channel
\* messages, which are the images they name, and the two halves of one.
HttpOk == -1
HttpError == -2
Front == -3
Back == -4
Images == 1..MaxStrokes
Items == Images \cup {HttpOk, HttpError, Front, Back}
NoImage == 0

VARIABLES
  js,         \* js[p]: the jSocket of a page
  canvas,     \* canvas[p]: setup_canvas was called
  board,      \* board[p]: the image a page shows
  strokes,    \* the images drawn so far are 1..strokes
  uploads,    \* upload requests: [page, image, state]
  stored,     \* files written by the web server
  subs,       \* push server: pages subscribed to the channel
  stream      \* stream[p]: what the push server has sent and the page not received

wbVars == <<js, canvas, board, strokes, uploads, stored, subs, stream>>

Uploads == [page : Pages, image : Images, state : {"sent", "written", "refused"}]

\* Shape of the variables.
WbTypeOK ==
  /\ \A p \in Pages : SocketType(js[p], Seq(Items))
  /\ canvas \in [Pages -> BOOLEAN]
  /\ board \in [Pages -> Images \cup {NoImage}]
  /\ strokes \in 0..MaxStrokes
  /\ uploads \subseteq Uploads
  /\ stored \subseteq Images
  /\ subs \subseteq Pages
  /\ stream \in [Pages -> Seq(Items)]

WbInit ==
  /\ js = [p \in Pages |-> NewSocket]
  /\ canvas = [p \in Pages |-> FALSE]
  /\ board = [p \in Pages |-> NoImage]
  /\ strokes = 0
  /\ uploads = {}
  /\ stored = {}
  /\ subs = {}
  /\ stream = [p \in Pages |-> << >>]

-----------------------------------------------------------------------------
(* The movie and the network.                                              *)

Becomes(p, s) == js' = [js EXCEPT ![p] = s]
OnlySocket == UNCHANGED <<canvas, board, strokes, uploads, stored, subs, stream>>

MovieSteps(p) ==
  /\ \/ js[p].swf = "loading" /\ Becomes(p, MovieLoaded(js[p]))
     \/ js[p].swf = "loaded" /\ Becomes(p, MovieUsable(js[p]))
  /\ OnlySocket

NetConnect(p) ==
  /\ js[p].flash = "connecting"
  /\ Becomes(p, MovieConnected(js[p])) \/ Becomes(p, MovieError(js[p]))
  /\ OnlySocket

\* The other end closes the connection; what was on its way is lost.
NetClose(p) ==
  /\ js[p].flash = "open"
  /\ Becomes(p, MovieClosed(js[p]))
  /\ subs' = subs \ {p}
  /\ stream' = [stream EXCEPT ![p] = << >>]
  /\ UNCHANGED <<canvas, board, strokes, uploads, stored>>

\* The first k items arrive as one chunk, or with the front half of the next.
NetData(p, k) ==
  /\ js[p].flash = "open"
  /\ k \in 1..Len(stream[p])
  /\ \/ /\ Becomes(p, MovieData(js[p], SubSeq(stream[p], 1, k)))
        /\ stream' = [stream EXCEPT ![p] = SubSeq(@, k + 1, Len(@))]
     \/ /\ stream[p][k] \in Images
        /\ Becomes(p, MovieData(js[p], Append(SubSeq(stream[p], 1, k - 1), Front)))
        /\ stream' = [stream EXCEPT ![p] = <<Back>> \o SubSeq(@, k + 1, Len(@))]
  /\ UNCHANGED <<canvas, board, strokes, uploads, stored, subs>>

-----------------------------------------------------------------------------
(* The scripts of the page (views/room.html).                              *)

\* The document is ready: client.setup.
PageReady(p) ==
  /\ MaySetup(js[p])
  /\ Becomes(p, Setup(js[p]))
  /\ OnlySocket

OnInit(p) ==
  /\ Fires(js[p], "init")
  /\ Becomes(p, ExecInit(js[p]))
  /\ OnlySocket

\* Looking for the movie; onReady connects.
OnProbe(p) ==
  /\ Fires(js[p], "probe")
  /\ Becomes(p, IF js[p].swf = "usable" THEN Connect(ProbeDone(js[p]))
                ELSE ProbeAgain(js[p]))
  /\ OnlySocket

\* onConnect(true): the connect request is written, if that does not throw, and
\* answered by the server in one of two ways.
OnConnect(p) ==
  /\ Fires(js[p], "connect")
  /\ Becomes(p, ExecConnect(js[p]))
  /\ IF MayWrite(ExecConnect(js[p]))
     THEN \E answer \in {HttpOk, HttpError} :
            stream' = [stream EXCEPT ![p] = Append(@, answer)]
     ELSE UNCHANGED stream
  /\ UNCHANGED <<canvas, board, strokes, uploads, stored, subs>>

\* onConnect(false) and onClose only write to the console.
OnErrorOrClose(p) ==
  /\ \/ Fires(js[p], "error") /\ Becomes(p, Popped(js[p]))
     \/ Fires(js[p], "close") /\ Becomes(p, ExecClose(js[p]))
  /\ OnlySocket

Contains(chunk, item) == \E i \in DOMAIN chunk : chunk[i] = item

\* The image of the first {...} of a chunk; a half in front of it, or no whole
\* message at all, makes JSON.parse throw.
FirstImage(chunk) == IF Head(chunk) \in Images THEN Head(chunk) ELSE NoImage

\* onData.  The answer to the connect request is looked for in the whole chunk:
\* subscribe, and let a teacher draw.  Otherwise a student shows the image.
OnData(p) ==
  /\ Fires(js[p], "data")
  /\ Becomes(p, Popped(js[p]))
  /\ LET chunk == First(js[p]).data
     IN  IF Contains(chunk, HttpOk)
         THEN /\ subs' = IF MayWrite(js[p]) THEN subs \cup {p} ELSE subs
              /\ canvas' = [canvas EXCEPT ![p] = @ \/ (MayWrite(js[p]) /\ p \in Teachers)]
              /\ UNCHANGED board
         ELSE /\ board' = [board EXCEPT ![p] =
                    IF /\ ~Contains(chunk, HttpError) /\ p \notin Teachers
                       /\ FirstImage(chunk) # NoImage
                    THEN FirstImage(chunk) ELSE @]
              /\ UNCHANGED <<subs, canvas>>
  /\ UNCHANGED <<strokes, uploads, stored, stream>>

\* onmouseup: update_board uploads what is on the canvas.
UpdateBoard(p) ==
  /\ canvas[p] /\ strokes < MaxStrokes
  /\ strokes' = strokes + 1
  /\ uploads' = uploads \cup {[page |-> p, image |-> strokes + 1, state |-> "sent"]}
  /\ UNCHANGED <<js, canvas, board, stored, subs, stream>>

-----------------------------------------------------------------------------
(* The web server (tools/white_board/app.js), and its answer.              *)

\* /upload_image: the file is written, or the writing fails.
UploadImage(u) ==
  /\ u.state = "sent"
  /\ \/ /\ uploads' = (uploads \ {u}) \cup {[u EXCEPT !.state = "written"]}
        /\ stored' = stored \cup {u.image}
     \/ /\ uploads' = (uploads \ {u}) \cup {[u EXCEPT !.state = "refused"]}
        /\ UNCHANGED stored
  /\ UNCHANGED <<js, canvas, board, strokes, subs, stream>>

\* The request is lost on its way; the page has no handler for that.
UploadLost(u) ==
  /\ u.state = "sent"
  /\ uploads' = uploads \ {u}
  /\ UNCHANGED <<js, canvas, board, strokes, stored, subs, stream>>

\* The name is sent as soon as the server has answered at all.
AnnouncedAny(u) == u.state # "sent"

\* The answer names an image rather than an error.
Announced(u) == u.state = "written"

\* success: the channel is told of the image, unless the write throws; the push
\* server passes it on to every subscribed page.
UploadAnswered(u) ==
  /\ u.state # "sent"
  /\ uploads' = uploads \ {u}
  /\ stream' = IF Announced(u) /\ MayWrite(js[u.page])
               THEN [p \in Pages |-> IF p \in subs THEN Append(stream[p], u.image)
                                     ELSE stream[p]]
               ELSE stream
  /\ UNCHANGED <<js, canvas, board, strokes, stored, subs>>

-----------------------------------------------------------------------------
Timers(p) ==
  \/ OnInit(p) \/ OnProbe(p) \/ OnConnect(p) \/ OnErrorOrClose(p) \/ OnData(p)

WbNext ==
  \/ \E p \in Pages :
       \/ PageReady(p) \/ MovieSteps(p) \/ NetConnect(p) \/ NetClose(p)
       \/ \E k \in 1..Len(stream[p]) : NetData(p, k)
       \/ Timers(p)
       \/ UpdateBoard(p)
  \/ \E u \in uploads : UploadImage(u) \/ UploadLost(u) \/ UploadAnswered(u)

\* Timers of the browser fire, and the player gets on with loading the movie.
WbFairness == \A p \in Pages : WF_wbVars(Timers(p)) /\ WF_wbVars(MovieSteps(p))

-----------------------------------------------------------------------------
\* The flag jSocket tests before every write agrees with the real socket
\* whenever no news of the connection waits in a timer: callbacks are executed
\* in the order the movie made them.
ConnectedAgrees == \A p \in Pages : FlagAgrees(js[p])

\* A student is only shown an image the web server has stored: however the
\* stream is cut, and whatever becomes of the upload, no name is announced of a
\* file that cannot be fetched.
ShownStored == \A p \in Pages : board[p] # NoImage => board[p] \in stored

\* A page that has called setup comes to hold a usable movie, whether the
\* player reports the movie before or after its variables can be used.
SetupEnds == \A p \in Pages : js[p].target ~> js[p].movie
=============================================================================
