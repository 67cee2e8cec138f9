----------------------------- MODULE SwfObject -------------------------------
(***************************************************************************)
(* swfobject.js: puts Flash movies into a page.  An element is either      *)
(* registered (static publishing: it is an object element already) or      *)
(* embedded (dynamic publishing: it is replaced by one).  Until the        *)
(* decision is made it is hidden; then it is the movie, its alternative    *)
(* content, or the one dialog that installs a newer player.  When the      *)
(* decision is made depends on the document, on the test of the player's   *)
(* version, which retries in timers, and on the install dialog.            *)
(*                                                                         *)
(* `w' holds the closure's variables and the elements of the document.  A  *)
(* browser has the W3C DOM here and no WebKit older than 312.  Versions    *)
(* are ranks: 0 is no player, and 2 the first that can show the dialog.    *)
(***************************************************************************)
EXTENDS Integers, Sequences, FiniteSets

CONSTANTS
  Static,        \* ids of object elements, to be registered
  Dynamic,       \* ids of other elements, to be replaced
  Direct,        \* ids the page calls createSWF and showExpressInstall for itself
  WithInstall,   \* ids for which the page gives an express install movie
  NoId,
  Required,      \* version the page's movies need
  ProbeLimit     \* retries of the version test (10 in the code)

Ids == Static \cup Dynamic

ASSUME SwfAssumption ==
  /\ Static \cap Dynamic = {} /\ WithInstall \subseteq Ids /\ Direct \subseteq Ids
  /\ NoId \notin Ids /\ Required \in Nat \ {0} /\ ProbeLimit \in Nat

Versions == 0..Required
InstallVersion == 2

VARIABLES
  w,         \* the library's variables and the elements
  browser,   \* [ie, real]: Internet Explorer on Windows; the true version
  bodyThere  \* the body can be appended to

swfVars == <<w, browser, bodyThere>>

ElementKinds == {"object", "div", "swf", "install", "alt", "none"}
Styles == {"unset", "visible", "hidden"}

\* Shape of the variables.
SwfTypeOK ==
  /\ w.el \in [Ids -> ElementKinds]
  /\ w.inline \in [Ids -> Styles] /\ w.css \in [Ids -> Styles]
  /\ {w.isDomLoaded, w.autoHideShow, w.isExpressInstallActive, w.testing, w.matched}
       \subseteq BOOLEAN
  /\ w.domLoadFnArr \in Seq(Dynamic) /\ w.regObjArr \in Seq(Static)
  /\ w.pv \in Versions /\ w.counter \in 0..ProbeLimit
  /\ w.storedId \in Ids \cup {NoId} /\ w.storedCallback \in BOOLEAN
  /\ w.loading \subseteq Ids /\ w.removing \subseteq Ids /\ w.requested \subseteq Ids
  /\ \A id \in Ids : w.called[id] \in Nat
  /\ browser.ie \in BOOLEAN /\ browser.real \in Versions
  /\ bodyThere \in BOOLEAN

\* `plugin': a version is known from the plug-in's description, which may be
\* wrong; Internet Explorer asks the player itself.
SwfInit ==
  /\ browser \in [ie : BOOLEAN, real : Versions]
  /\ \E described \in Versions :
       /\ (browser.ie \/ browser.real = 0) => described = browser.real
       /\ w = [el |-> [id \in Ids |-> IF id \in Static THEN "object" ELSE "div"],
               inline |-> [id \in Ids |-> "unset"], css |-> [id \in Ids |-> "unset"],
               isDomLoaded |-> FALSE, autoHideShow |-> TRUE,
               isExpressInstallActive |-> FALSE,
               domLoadFnArr |-> << >>, regObjArr |-> << >>,
               pv |-> described, counter |-> 0, testing |-> FALSE, matched |-> FALSE,
               storedId |-> NoId, storedCallback |-> FALSE,
               loading |-> {}, removing |-> {}, requested |-> {},
               called |-> [id \in Ids |-> 0]]
  /\ bodyThere \in BOOLEAN

Plugin == ~browser.ie /\ w.pv > 0

-----------------------------------------------------------------------------
(* Helpers of the library, on a value x of w.                              *)

\* getElementById finds the element; an old one that still loads counts.
Exists(x, id) == x.el[id] \in {"object", "div", "swf"} \/ id \in x.loading

HasPlayerVersion(x, version) == x.pv >= version

CanExpressInstallAgain(x) == HasPlayerVersion(x, InstallVersion)

CanExpressInstall(x) == ~x.isExpressInstallActive /\ HasPlayerVersion(x, InstallVersion)

\* setVisibility: on the element once the document is loaded, else by a rule.
SetVisibility(x, id, v) ==
  IF ~x.autoHideShow THEN x
  ELSE IF x.isDomLoaded /\ Exists(x, id) THEN [x EXCEPT !.inline[id] = v]
  ELSE [x EXCEPT !.css[id] = v]

CallBack(x, id) == [x EXCEPT !.called[id] = @ + 1]

\* An element gives way to another without its id.  In Internet Explorer one
\* that may still load is made invisible and stays; a timer takes it away when
\* it has loaded.
Replaced(x, id, kind) ==
  LET y == [x EXCEPT !.el[id] = kind]
  IN  IF browser.ie THEN {y, [y EXCEPT !.loading = @ \cup {id}]} ELSE {y}

DisplayAltContent(x, id) == Replaced(x, id, "alt")

\* createSWF: the new element has the id and none of the old one's style.
CreateSWF(x, id) ==
  IF Exists(x, id)
  THEN [x EXCEPT !.el[id] = "swf", !.inline[id] = "unset", !.loading = @ \ {id}]
  ELSE x

\* showExpressInstall: one slot remembers what the dialog replaces and whom to
\* call when it is through.
ShowExpressInstall(x, id, callback) ==
  LET y == [x EXCEPT !.isExpressInstallActive = TRUE, !.storedCallback = callback,
                     !.storedId = id]
  IN  IF ~Exists(x, id) THEN {y} ELSE Replaced(y, id, "install")

-----------------------------------------------------------------------------
(* The decisions.  Each gives the set of values w may have afterwards.     *)

\* What embedSWF does when the document is loaded.
EmbedNow(x, id) ==
  IF HasPlayerVersion(x, Required)
  THEN LET y == CreateSWF(x, id)
       IN  {CallBack(IF Exists(x, id) THEN SetVisibility(y, id, "visible") ELSE y, id)}
  ELSE IF id \in WithInstall /\ CanExpressInstall(x)
  THEN ShowExpressInstall(x, id, TRUE)
  ELSE {CallBack(SetVisibility(x, id, "visible"), id)}

\* matchVersions, for one registered element.
MatchOne(x, id) ==
  IF x.pv = 0 THEN {CallBack(SetVisibility(x, id, "visible"), id)}
  ELSE IF ~Exists(x, id) THEN {x}
  ELSE IF HasPlayerVersion(x, Required)
  THEN {CallBack(SetVisibility(x, id, "visible"), id)}
  ELSE IF id \in WithInstall /\ CanExpressInstall(x)
  THEN ShowExpressInstall(x, id, TRUE)
  ELSE {CallBack(y, id) : y \in DisplayAltContent(x, id)}

Decide(loop, x, id) == IF loop = "match" THEN MatchOne(x, id) ELSE EmbedNow(x, id)

\* One of the two loops: a decision for every id of a sequence, in order.
ForEach(loop, seq, x) ==
  LET after[k \in 0..Len(seq)] ==
        IF k = 0 THEN {x} ELSE UNION {Decide(loop, y, seq[k]) : y \in after[k - 1]}
  IN  after[Len(seq)]

MatchVersions(x) == ForEach("match", x.regObjArr, [x EXCEPT !.matched = TRUE])

\* The versions are not matched after a test that got no answer.
TestOverIfAnswered(x, answer) ==
  IF answer = "wait" THEN {[x EXCEPT !.testing = FALSE]} ELSE MatchVersions(x)

\* The test object is removed, and the versions matched with what is known.
TestOver(x, answer) ==
  MatchVersions([x EXCEPT !.testing = FALSE,
                          !.pv = IF answer = "version" THEN browser.real ELSE @])

\* The function inside testPlayerVersion.  The test object has no GetVariable
\* yet ("wait"), or answers with the true version or with nothing.
TestStep(x, answer) ==
  IF answer = "wait" /\ x.counter < ProbeLimit
  THEN {[x EXCEPT !.testing = TRUE, !.counter = @ + 1]}
  ELSE TestOver(x, answer)

Main(x, answer) == IF Plugin THEN TestStep(x, answer) ELSE MatchVersions(x)

Answers == {"wait", "version", "nothing"}

\* The functions are called at every event that tells of the loaded document.
CallsLoadFunctionsAlways == TRUE

CallsLoadFunctions == ~w.isDomLoaded

-----------------------------------------------------------------------------
(* Calls of the page.                                                      *)

NoBrowserChange == UNCHANGED <<browser, bodyThere>>

Requested(x, id) == [x EXCEPT !.requested = @ \cup {id}]

\* registerObject: hidden until matchVersions, whether or not that is over.
RegisterObject(id) ==
  /\ id \in Static \ (Direct \cup w.requested)
  /\ w' = SetVisibility([Requested(w, id) EXCEPT !.regObjArr = Append(@, id)],
                        id, "hidden")
  /\ NoBrowserChange

\* embedSWF with addDomLoadEvent.
EmbedSWF(id) ==
  /\ id \in Dynamic \ (Direct \cup w.requested)
  /\ LET x == SetVisibility(Requested(w, id), id, "hidden")
     IN  IF w.isDomLoaded THEN w' \in EmbedNow(x, id)
         ELSE w' = [x EXCEPT !.domLoadFnArr = Append(@, id)]
  /\ NoBrowserChange

\* The public showExpressInstall, called without a callback.
PageExpressInstall(id) ==
  /\ id \in Direct /\ w.el[id] # "swf"
  /\ w.isDomLoaded /\ CanExpressInstall(w)
  /\ w' \in ShowExpressInstall(w, id, FALSE)
  /\ NoBrowserChange

\* removeSWF: in Internet Explorer a timer does it.
RemoveSWF(id) ==
  /\ w.el[id] \in {"object", "swf"}
  /\ \/ w' = [w EXCEPT !.el[id] = "none", !.loading = @ \ {id}]
     \/ /\ browser.ie
        /\ w' = [w EXCEPT !.el[id] = "none", !.loading = @ \cup {id},
                          !.removing = @ \cup {id}]
  /\ NoBrowserChange

\* The public createSWF.
PageCreateSWF(id) ==
  /\ id \in Direct /\ Exists(w, id) /\ w.el[id] \notin {"swf", "install"}
  /\ w' = CreateSWF(w, id)
  /\ NoBrowserChange

SwitchOffAutoHideShow ==
  /\ w.autoHideShow
  /\ w' = [w EXCEPT !.autoHideShow = FALSE]
  /\ NoBrowserChange

-----------------------------------------------------------------------------
(* Events.                                                                 *)

BodyParsed ==
  /\ ~bodyThere
  /\ bodyThere' = TRUE
  /\ UNCHANGED <<w, browser>>

\* DOMContentLoaded, doScroll, readyState or load calls callDomLoadFunctions,
\* which gives up while it cannot append to the body.
DomLoadEvent(answer) ==
  /\ bodyThere
  /\ IF CallsLoadFunctions
     THEN \E x \in Main([w EXCEPT !.isDomLoaded = TRUE], answer) :
            w' \in ForEach("embed", w.domLoadFnArr, x)
     ELSE UNCHANGED w
  /\ NoBrowserChange

TestTimer(answer) ==
  /\ w.testing
  /\ w' \in TestStep(w, answer)
  /\ NoBrowserChange

\* The movie of the dialog calls expressInstallCallback: what it replaced comes
\* back, an object element as its alternative content.
ExpressInstallCallback ==
  /\ w.isExpressInstallActive /\ w.storedId # NoId
  /\ w.el[w.storedId] = "install"
  /\ LET id == w.storedId
         x  == [w EXCEPT !.isExpressInstallActive = FALSE,
                         !.el[id] = IF id \in Dynamic THEN "div" ELSE "alt",
                         !.loading = IF id \in Dynamic THEN @ \ {id} ELSE @]
         y  == IF id \in Dynamic THEN SetVisibility(x, id, "visible") ELSE x
     IN  w' = IF w.storedCallback THEN CallBack(y, id) ELSE y
  /\ NoBrowserChange

\* The old element has loaded, and the timer takes it away.  The timer of
\* removeSWF looks the id up again, and takes away what has it now.
RemoveTimer(id) ==
  /\ \/ /\ id \in w.loading \cap Static /\ id \notin w.removing
        /\ w' = [w EXCEPT !.loading = @ \ {id}]
     \/ /\ id \in w.removing
        /\ w' = [w EXCEPT !.loading = @ \ {id}, !.removing = @ \ {id},
                          !.el[id] = IF @ \in {"object", "div", "swf"} THEN "none" ELSE @]
  /\ NoBrowserChange

SwfNext ==
  \/ \E id \in Ids :
       \/ RegisterObject(id) \/ EmbedSWF(id) \/ PageExpressInstall(id)
       \/ RemoveSWF(id) \/ PageCreateSWF(id) \/ RemoveTimer(id)
  \/ SwitchOffAutoHideShow \/ BodyParsed \/ ExpressInstallCallback
  \/ \E answer \in Answers : DomLoadEvent(answer) \/ TestTimer(answer)

\* Documents finish loading, and timers fire.
SwfFairness ==
  /\ WF_swfVars(BodyParsed)
  /\ WF_swfVars(\E answer \in Answers : DomLoadEvent(answer))
  /\ WF_swfVars(\E answer \in Answers : TestTimer(answer))

-----------------------------------------------------------------------------
\* At most one express install dialog is in the page, as the library's comment
\* requires, whoever asks for it: elements decided in one turn, the page, or a
\* version test that ends later.
OneInstall == Cardinality({id \in Ids : w.el[id] = "install"}) <= 1

\* The page's callback for an element is called at most once, though several
\* events report that the document is loaded and the dialog answers later.
CallbackOnce == \A id \in Ids : w.called[id] <= 1

Hidden(id) ==
  /\ w.el[id] \in {"object", "div", "swf"}
  /\ w.inline[id] = "hidden" \/ (w.inline[id] = "unset" /\ w.css[id] = "hidden")

Decided(id) ==
  \/ w.el[id] \in {"none", "install"}
  \/ ~Hidden(id) /\ w.called[id] = 1

\* An element embedded at any time, or registered before the versions are
\* matched, is shown and reported, unless the page takes it away or switches
\* the hiding off in between: no answer of the version test keeps it hidden.
Revealed ==
  \A id \in Ids :
    id \in w.requested /\ w.called[id] = 0 /\ (id \in Dynamic \/ ~w.matched) ~>
      Decided(id) \/ ~w.autoHideShow
=============================================================================
