------------------------------ MODULE JSocket -------------------------------
(***************************************************************************)
(* jSocket (jsocket.js, jsocket.advanced.js): a socket for a page's        *)
(* scripts, made of an object in JavaScript and of a Flash movie that owns *)
(* the real socket.  The movie's callbacks reach JavaScript through timers *)
(* of delay 0, which run in the order they were set.                       *)
(*                                                                         *)
(* A socket is a record, and the operators below say what becomes of it;   *)
(* the modules of the pages that use one build their actions from them.    *)
(*   target     setup was called                                           *)
(*   movie      the movie was found usable and is stored                   *)
(*   connected  the flag of the JavaScript object                          *)
(*   swf        "none", "loading", "loaded" or "usable": the movie itself  *)
(*   flash      the movie's socket: "closed", "connecting" or "open"       *)
(*   unread     the input the movie holds, for jSocketAdvanced             *)
(*   timers     callbacks that wait, [name, data]                          *)
(***************************************************************************)
EXTENDS Integers, Sequences

NoData == << >>

Callback(name, data) == [name |-> name, data |-> data]

NewSocket ==
  [target |-> FALSE, movie |-> FALSE, connected |-> FALSE, swf |-> "none",
   flash |-> "closed", unread |-> 0, timers |-> << >>]

-----------------------------------------------------------------------------
(* Calls of the page.  A call whose condition is false throws.             *)

MaySetup(s) == ~s.target

\* setup: the movie is put into the document by embedSWF.
Setup(s) == [s EXCEPT !.target = TRUE, !.swf = "loading"]

MayConnect(s) == s.movie

\* connect; `connected' is left as it is when an open connection is replaced.
Connect(s) == [s EXCEPT !.flash = "connecting"]

\* close: no callback will tell of it.
Close(s) == [s EXCEPT !.connected = FALSE, !.flash = "closed"]

AssertConnected(s) == s.connected /\ s.movie

\* write and flush, and every other call of the advanced movie: the flag is
\* tested first, then the movie throws if its socket is not open.
MayWrite(s) == AssertConnected(s) /\ s.flash = "open"

\* read calls of the advanced movie: only what has arrived can be read.
MayRead(s, n) == MayWrite(s) /\ n >= 0 /\ n <= s.unread
Read(s, n) == [s EXCEPT !.unread = @ - n]

-----------------------------------------------------------------------------
(* The movie.                                                              *)

\* flashCallback: the callback is executed from a timer.
FlashCallback(s, name, data) == [s EXCEPT !.timers = Append(@, Callback(name, data))]

\* The movie is constructed, and later its variables can be used.
MovieLoaded(s) == FlashCallback([s EXCEPT !.swf = "loaded"], "init", NoData)
MovieUsable(s) == [s EXCEPT !.swf = "usable"]

MovieConnected(s) == FlashCallback([s EXCEPT !.flash = "open"], "connect", NoData)
MovieError(s) == FlashCallback([s EXCEPT !.flash = "closed"], "error", NoData)
MovieClosed(s) == FlashCallback([s EXCEPT !.flash = "closed"], "close", NoData)
MovieData(s, data) == FlashCallback(s, "data", data)
MovieDataAdvanced(s, size) ==
  FlashCallback([s EXCEPT !.unread = @ + size], "data", <<size>>)

-----------------------------------------------------------------------------
(* executeFlashCallback, for the first timer; what the page's own handler  *)
(* then does is added by the page's module.                                *)

First(s) == Head(s.timers)
Fires(s, name) == s.timers # << >> /\ First(s).name = name
Popped(s) == [s EXCEPT !.timers = Tail(@)]

\* `init': start to look for the movie.
ExecInit(s) == FlashCallback(Popped(s), "probe", NoData)

\* The movie is looked for once and not again.
ProbeOnce(s) == Popped(s)

\* The movie cannot be used yet: look again later.
ProbeAgain(s) == FlashCallback(Popped(s), "probe", NoData)

\* The movie is usable: store it.  onReady follows.
ProbeDone(s) == [Popped(s) EXCEPT !.movie = TRUE]

\* The flag is only set, by either callback.
ExecCloseKept(s) == Popped(s)

ExecConnect(s) == [Popped(s) EXCEPT !.connected = TRUE]
ExecClose(s) == [Popped(s) EXCEPT !.connected = FALSE]

-----------------------------------------------------------------------------
SocketType(s, Data) ==
  /\ s.target \in BOOLEAN /\ s.movie \in BOOLEAN /\ s.connected \in BOOLEAN
  /\ s.swf \in {"none", "loading", "loaded", "usable"}
  /\ s.flash \in {"closed", "connecting", "open"}
  /\ s.unread \in Nat
  /\ \A i \in DOMAIN s.timers :
       /\ s.timers[i].name \in {"init", "probe", "connect", "error", "close", "data"}
       /\ s.timers[i].data \in Data

Waiting(s, names) == \E i \in DOMAIN s.timers : s.timers[i].name \in names

\* The flag of the JavaScript object agrees with the movie's socket as soon as
\* no news of the connection waits in a timer.
FlagAgrees(s) ==
  ~Waiting(s, {"connect", "close"}) => s.connected = (s.flash = "open")
=============================================================================
