----------------------------- MODULE PageProofs ------------------------------
(***************************************************************************)
(* The scripts of a page, for any number of requests, uploads, elements    *)
(* and handlers: swfobject, and jQuery's requests with the uploads of its  *)
(* form plugin.                                                            *)
(***************************************************************************)
EXTENDS SwfObject, FormUpload, FiniteSetTheorems, WellFoundedInduction, TLAPS

\* Induction up to a bound.
LEMMA UpTo ==
  ASSUME NEW n \in Nat, NEW S, 0 \in S, \A k \in 0..(n - 1) : k \in S => k + 1 \in S
  PROVE  \A k \in 0..n : k \in S
<1> DEFINE Bad == {k \in Nat : k <= n /\ k \notin S}
<1> SUFFICES ASSUME Bad # {} PROVE FALSE
  OBVIOUS
<1>1. Bad \in SUBSET Nat
  OBVIOUS
<1>2. \E x \in Bad : \A y \in Bad : ~(<<y, x>> \in OpToRel(<, Nat))
  BY <1>1, NatLessThanWellFounded, WFMin, Zenon
<1>3. \A x, y \in Nat : y < x => <<y, x>> \in OpToRel(<, Nat)
  BY DEF OpToRel
<1>4. PICK x \in Bad : \A y \in Bad : ~(y < x)
  BY <1>2, <1>3, Zenon
<1>5. x \in Nat /\ x <= n /\ x \notin S /\ x # 0
  OBVIOUS
<1>6. x - 1 \in 0..(n - 1) /\ x - 1 < x /\ (x - 1) + 1 = x
  BY <1>5
<1>7. x - 1 \in Bad
  <2> HIDE DEF Bad
  <2>1. x - 1 \notin S
    BY <1>5, <1>6
  <2> QED
    BY <1>5, <1>6, <2>1 DEF Bad
<1> QED
  BY <1>4, <1>6, <1>7

-----------------------------------------------------------------------------
(* swfobject.                                                              *)

\* The values of w.
Library ==
  [el : [Ids -> ElementKinds], inline : [Ids -> Styles], css : [Ids -> Styles],
   isDomLoaded : BOOLEAN, autoHideShow : BOOLEAN, isExpressInstallActive : BOOLEAN,
   domLoadFnArr : Seq(Dynamic), regObjArr : Seq(Static),
   pv : Versions, counter : 0..ProbeLimit, testing : BOOLEAN, matched : BOOLEAN,
   storedId : Ids \cup {NoId}, storedCallback : BOOLEAN,
   loading : SUBSET Ids, removing : SUBSET Ids, requested : SUBSET Ids,
   called : [Ids -> Nat]]

\* What the decisions leave alone.
Kept(x, y) ==
  /\ y \in Library
  /\ y.isDomLoaded = x.isDomLoaded /\ y.matched = x.matched /\ y.testing = x.testing
  /\ y.domLoadFnArr = x.domLoadFnArr /\ y.regObjArr = x.regObjArr
  /\ y.requested = x.requested

SlotKept(x, y) ==
  /\ y.isExpressInstallActive = x.isExpressInstallActive
  /\ y.storedId = x.storedId /\ y.storedCallback = x.storedCallback

LEMMA SetVisibilityIs ==
  ASSUME NEW x \in Library, NEW id \in Ids, NEW v \in Styles
  PROVE  LET y == SetVisibility(x, id, v)
         IN  Kept(x, y) /\ SlotKept(x, y) /\ y.el = x.el /\ y.called = x.called
BY Zenon DEF SetVisibility, Kept, SlotKept, Library

LEMMA CallBackIs ==
  ASSUME NEW x \in Library, NEW id \in Ids
  PROVE  LET y == CallBack(x, id)
         IN  /\ Kept(x, y) /\ SlotKept(x, y) /\ y.el = x.el
             /\ y.called = [x.called EXCEPT ![id] = @ + 1]
<1>1. x.called \in [Ids -> Nat] /\ x.called[id] + 1 \in Nat
  BY DEF Library
<1>2. PICK f \in [Ids -> Nat] : f = [x.called EXCEPT ![id] = @ + 1]
  BY <1>1, Zenon
<1>3. CallBack(x, id) = [x EXCEPT !.called = f]
  BY <1>2 DEF CallBack, Library
<1>4. LET y == [x EXCEPT !.called = f]
      IN  Kept(x, y) /\ SlotKept(x, y) /\ y.el = x.el /\ y.called = f
  BY Zenon DEF Kept, SlotKept, Library
<1> QED
  BY <1>2, <1>3, <1>4

LEMMA ReplacedIs ==
  ASSUME NEW x \in Library, NEW id \in Ids, NEW kind \in ElementKinds,
         NEW y \in Replaced(x, id, kind)
  PROVE  /\ Kept(x, y) /\ SlotKept(x, y) /\ y.called = x.called
         /\ y.el = [x.el EXCEPT ![id] = kind]
<1> DEFINE z == [x EXCEPT !.el[id] = kind]
<1>1. Kept(x, z) /\ SlotKept(x, z) /\ z.called = x.called /\ z.el = [x.el EXCEPT ![id] = kind]
  BY Zenon DEF Kept, SlotKept, Library
<1>2. y = z \/ y = [z EXCEPT !.loading = @ \cup {id}]
  BY DEF Replaced
<1> HIDE DEF z
<1>3. LET u == [z EXCEPT !.loading = @ \cup {id}]
      IN  Kept(z, u) /\ SlotKept(z, u) /\ u.called = z.called /\ u.el = z.el
  BY <1>1, Zenon DEF Kept, SlotKept, Library
<1> QED
  BY <1>1, <1>2, <1>3, Zenon DEF Kept, SlotKept

LEMMA CreateSWFIs ==
  ASSUME NEW x \in Library, NEW id \in Ids
  PROVE  LET y == CreateSWF(x, id)
         IN  /\ Kept(x, y) /\ SlotKept(x, y) /\ y.called = x.called
             /\ y.el = x.el \/ y.el = [x.el EXCEPT ![id] = "swf"]
BY Zenon DEF CreateSWF, Kept, SlotKept, Library, ElementKinds, Styles

\* The slot is taken, and the element, if it is there, gives way to the dialog.
Installs(x, y, id, callback) ==
  /\ Kept(x, y) /\ y.called = x.called
  /\ y.isExpressInstallActive = TRUE
  /\ y.storedId = id /\ y.storedCallback = callback
  /\ y.el = x.el \/ y.el = [x.el EXCEPT ![id] = "install"]

LEMMA ShowExpressInstallIs ==
  ASSUME NEW x \in Library, NEW id \in Ids, NEW callback \in BOOLEAN,
         NEW y \in ShowExpressInstall(x, id, callback)
  PROVE  Installs(x, y, id, callback)
<1> DEFINE z == [x EXCEPT !.isExpressInstallActive = TRUE, !.storedCallback = callback,
                          !.storedId = id]
<1>1. /\ Kept(x, z) /\ z.called = x.called /\ z.el = x.el
      /\ z.isExpressInstallActive = TRUE /\ z.storedId = id /\ z.storedCallback = callback
  BY Zenon DEF Kept, Library
<1>2. y = z \/ y \in Replaced(z, id, "install")
  BY DEF ShowExpressInstall
<1> HIDE DEF z
<1>3. CASE y = z
  BY <1>1, <1>3 DEF Installs
<1>4. CASE y \in Replaced(z, id, "install")
  <2>1. z \in Library /\ "install" \in ElementKinds
    BY <1>1 DEF Kept, ElementKinds
  <2>2. /\ Kept(z, y) /\ SlotKept(z, y) /\ y.called = z.called
        /\ y.el = [z.el EXCEPT ![id] = "install"]
    BY <1>4, <2>1, ReplacedIs
  <2> QED
    BY <1>1, <2>2 DEF Kept, SlotKept, Installs
<1> QED
  BY <1>2, <1>3, <1>4

-----------------------------------------------------------------------------
\* The dialog is to call the page back for the element it replaced.
Pending(x) ==
  x.isExpressInstallActive /\ x.storedCallback /\ x.el[x.storedId] = "install"

\* Nobody has been called back for id, and the dialog will not either.
Fresh(x, id) == x.called[id] = 0 /\ ~(Pending(x) /\ x.storedId = id)

\* A dialog in the page is the one that the slot remembers, and a callback that
\* it will make has not been made.
SlotRight(x) ==
  /\ x \in Library
  /\ x.isExpressInstallActive => x.storedId \in Ids
  /\ \A id \in Ids : x.el[id] = "install" => x.isExpressInstallActive /\ id = x.storedId
  /\ \A id \in Ids : x.called[id] \in {0, 1}
  /\ Pending(x) => x.called[x.storedId] = 0

Distinct(s) == \A i, j \in 1..Len(s) : s[i] = s[j] => i = j

\* When the decisions of the two loops are still to come.
DecisionsOnce(x) ==
  /\ \A id \in Ids \ x.requested : Fresh(x, id)
  /\ ~x.isDomLoaded => ~x.matched /\ ~x.testing /\ \A id \in Dynamic : Fresh(x, id)
  /\ ~x.matched => \A id \in Static : Fresh(x, id)
  /\ x.testing => ~x.matched
  /\ Distinct(x.regObjArr) /\ Distinct(x.domLoadFnArr)
  /\ \A i \in 1..Len(x.regObjArr) : x.regObjArr[i] \in x.requested
  /\ \A i \in 1..Len(x.domLoadFnArr) : x.domLoadFnArr[i] \in x.requested

Once(x) == SlotRight(x) /\ DecisionsOnce(x)

SwfInv == Once(w)

-----------------------------------------------------------------------------
\* A decision about id disturbs nothing of the other elements.
Only(x, y, id) ==
  /\ Kept(x, y) /\ SlotRight(y)
  /\ \A j \in Ids \ {id} : Fresh(x, j) => Fresh(y, j)

\* The same slot, and perhaps another element that is not the dialog.
Shows(x, y, id) ==
  /\ Kept(x, y) /\ SlotKept(x, y) /\ y.called = x.called
  /\ \/ y.el = x.el
     \/ \E kind \in ElementKinds \ {"install"} : y.el = [x.el EXCEPT ![id] = kind]

LEMMA ShowsOnly ==
  ASSUME NEW x, SlotRight(x), NEW id \in Ids, NEW y, Shows(x, y, id)
  PROVE  Only(x, y, id) /\ (Fresh(x, id) => Fresh(y, id))
<1>1. x \in Library /\ y \in Library
  BY DEF SlotRight, Shows, Kept
<1>2. x.el \in [Ids -> ElementKinds] /\ y.el \in [Ids -> ElementKinds]
  BY <1>1 DEF Library
<1>3. \A j \in Ids : y.el[j] = "install" => x.el[j] = "install"
  BY <1>2, Zenon DEF Shows
<1>4. /\ y.isExpressInstallActive = x.isExpressInstallActive
      /\ y.storedId = x.storedId /\ y.storedCallback = x.storedCallback
      /\ y.called = x.called /\ Kept(x, y)
  BY DEF Shows, SlotKept
<1>5. Pending(y) /\ y.storedId \in Ids => Pending(x)
  BY <1>3, <1>4 DEF Pending
<1>6. \A j \in Ids : Fresh(x, j) => Fresh(y, j)
  BY <1>4, <1>5 DEF Fresh
<1>7. SlotRight(y)
  <2>1. \A j \in Ids : y.el[j] = "install" => y.isExpressInstallActive /\ j = y.storedId
    BY <1>3, <1>4, Zenon DEF SlotRight
  <2>2. \A j \in Ids : y.called[j] \in {0, 1}
    BY <1>4 DEF SlotRight
  <2>3. y.isExpressInstallActive => y.storedId \in Ids
    BY <1>4, Zenon DEF SlotRight
  <2>4. Pending(y) => y.called[y.storedId] = 0
    BY <1>4, <1>5, <2>3 DEF SlotRight, Pending
  <2> QED
    BY <1>1, <2>1, <2>2, <2>3, <2>4 DEF SlotRight
<1> QED
  BY <1>4, <1>6, <1>7 DEF Only

LEMMA CallBackOnly ==
  ASSUME NEW x, SlotRight(x), NEW id \in Ids, Fresh(x, id)
  PROVE  Only(x, CallBack(x, id), id)
<1> DEFINE y == CallBack(x, id)
<1>1. x \in Library
  BY DEF SlotRight
<1>2. /\ Kept(x, y) /\ SlotKept(x, y) /\ y.el = x.el
      /\ y.called = [x.called EXCEPT ![id] = @ + 1]
  BY <1>1, CallBackIs
<1>3. x.called \in [Ids -> Nat] /\ x.called[id] = 0
  BY <1>1 DEF Library, Fresh
<1> HIDE DEF y
<1>4. y.called[id] = 1 /\ \A j \in Ids \ {id} : y.called[j] = x.called[j]
  BY <1>2, <1>3
<1>5. (Pending(y) <=> Pending(x)) /\ y.storedId = x.storedId
  BY <1>2 DEF Pending, SlotKept
<1>6. \A j \in Ids \ {id} : Fresh(x, j) => Fresh(y, j)
  BY <1>4, <1>5 DEF Fresh
<1>7. SlotRight(y)
  <2>1. \A j \in Ids : y.el[j] = "install" => y.isExpressInstallActive /\ j = y.storedId
    BY <1>2, Zenon DEF SlotRight, SlotKept
  <2>2. \A j \in Ids : y.called[j] \in {0, 1}
    BY <1>4 DEF SlotRight
  <2>3. y.isExpressInstallActive => y.storedId \in Ids
    BY <1>2, Zenon DEF SlotRight, SlotKept
  <2>4. Pending(y) => y.called[y.storedId] = 0
    <3>1. SUFFICES ASSUME Pending(y) PROVE y.called[y.storedId] = 0
      OBVIOUS
    <3>2. Pending(x) /\ x.storedId # id /\ x.storedId \in Ids
      BY <1>5, <2>3, <3>1 DEF Fresh, Pending
    <3> QED
      BY <1>4, <1>5, <3>2 DEF SlotRight
  <2>5. y \in Library
    BY <1>2 DEF Kept
  <2> QED
    BY <2>1, <2>2, <2>3, <2>4, <2>5 DEF SlotRight
<1>8. Only(x, y, id)
  BY <1>2, <1>6, <1>7 DEF Only
<1> QED
  BY <1>8 DEF y

LEMMA InstallOnly ==
  ASSUME NEW x, SlotRight(x), NEW id \in Ids, NEW callback \in BOOLEAN,
         callback => Fresh(x, id),
         ~x.isExpressInstallActive, NEW y \in ShowExpressInstall(x, id, callback)
  PROVE  Only(x, y, id)
<1>1. x \in Library
  BY DEF SlotRight
<1>2. /\ Kept(x, y) /\ y.called = x.called
      /\ y.isExpressInstallActive = TRUE
      /\ y.storedId = id /\ y.storedCallback = callback
      /\ y.el = x.el \/ y.el = [x.el EXCEPT ![id] = "install"]
  <2>1. Installs(x, y, id, callback)
    BY <1>1, ShowExpressInstallIs, Zenon
  <2> QED
    BY <2>1, Zenon DEF Installs
<1>3. x.el \in [Ids -> ElementKinds]
  BY <1>1 DEF Library
<1>4. \A j \in Ids : x.el[j] # "install"
  BY DEF SlotRight
<1>5. \A j \in Ids : y.el[j] = "install" => j = id
  BY <1>2, <1>3, <1>4
<1>6. \A j \in Ids \ {id} : Fresh(x, j) => Fresh(y, j)
  BY <1>2 DEF Fresh
<1>7. SlotRight(y)
  <2>1. \A j \in Ids : y.called[j] \in {0, 1}
    BY <1>2 DEF SlotRight
  <2>2. Pending(y) => y.called[y.storedId] = 0
    BY <1>2 DEF Fresh, Pending
  <2>3. y \in Library
    BY <1>2 DEF Kept
  <2> QED
    BY <1>2, <1>5, <2>1, <2>2, <2>3 DEF SlotRight
<1> QED
  BY <1>2, <1>6, <1>7 DEF Only

LEMMA OnlyTwice ==
  ASSUME NEW x, NEW y, NEW z, NEW id \in Ids, Only(x, y, id), Only(y, z, id)
  PROVE  Only(x, z, id)
BY DEF Only, Kept

\* An element is shown, replaced or made visible, and the page told.
LEMMA TellOnly ==
  ASSUME NEW x, SlotRight(x), NEW id \in Ids, Fresh(x, id), NEW y, Shows(x, y, id)
  PROVE  Only(x, CallBack(y, id), id)
<1>1. Only(x, y, id) /\ Fresh(y, id)
  BY ShowsOnly
<1>2. Only(y, CallBack(y, id), id)
  BY <1>1, CallBackOnly DEF Only
<1> QED
  BY <1>1, <1>2, OnlyTwice

LEMMA VisibleShows ==
  ASSUME NEW x \in Library, NEW id \in Ids, NEW v \in Styles
  PROVE  Shows(x, SetVisibility(x, id, v), id)
BY SetVisibilityIs DEF Shows

LEMMA EmbedNowOnly ==
  ASSUME NEW x, SlotRight(x), NEW id \in Ids, Fresh(x, id), NEW y \in EmbedNow(x, id)
  PROVE  Only(x, y, id)
<1>1. x \in Library /\ "visible" \in Styles
  BY DEF SlotRight, Styles
<1> DEFINE z == CreateSWF(x, id)
<1>2. Shows(x, z, id)
  <2>1. "swf" \in ElementKinds \ {"install"}
    BY DEF ElementKinds
  <2> QED
    BY <1>1, <2>1, CreateSWFIs, Zenon DEF Shows
<1>3. z \in Library
  BY <1>2 DEF Shows, Kept
<1>4. Shows(x, SetVisibility(z, id, "visible"), id)
  BY <1>1, <1>2, <1>3, SetVisibilityIs DEF Shows, Kept, SlotKept
<1>5. Shows(x, SetVisibility(x, id, "visible"), id)
  BY <1>1, VisibleShows
<1>6. \/ y = CallBack(z, id) \/ y = CallBack(SetVisibility(z, id, "visible"), id)
      \/ y = CallBack(SetVisibility(x, id, "visible"), id)
      \/ ~x.isExpressInstallActive /\ y \in ShowExpressInstall(x, id, TRUE)
  BY Zenon DEF EmbedNow, CanExpressInstall
<1> HIDE DEF z
<1>7. ~x.isExpressInstallActive /\ y \in ShowExpressInstall(x, id, TRUE) => Only(x, y, id)
  BY InstallOnly, Zenon
<1> QED
  BY <1>2, <1>4, <1>5, <1>6, <1>7, TellOnly, Zenon

LEMMA MatchOneOnly ==
  ASSUME NEW x, SlotRight(x), NEW id \in Ids, Fresh(x, id), NEW y \in MatchOne(x, id)
  PROVE  Only(x, y, id)
<1>1. x \in Library /\ "visible" \in Styles /\ "alt" \in ElementKinds \ {"install"}
  BY DEF SlotRight, Styles, ElementKinds
<1>2. Shows(x, SetVisibility(x, id, "visible"), id)
  BY <1>1, VisibleShows
<1>3. ASSUME NEW z \in DisplayAltContent(x, id) PROVE Shows(x, z, id)
  <2>1. /\ Kept(x, z) /\ SlotKept(x, z) /\ z.called = x.called
        /\ z.el = [x.el EXCEPT ![id] = "alt"]
    BY <1>1, <1>3, ReplacedIs DEF DisplayAltContent
  <2> QED
    BY <1>1, <2>1, Zenon DEF Shows
<1>4. Only(x, x, id)
  BY <1>1 DEF Only, Kept
<1>5. \/ y = CallBack(SetVisibility(x, id, "visible"), id)
      \/ y = x
      \/ ~x.isExpressInstallActive /\ y \in ShowExpressInstall(x, id, TRUE)
      \/ \E z \in DisplayAltContent(x, id) : y = CallBack(z, id)
  BY Zenon DEF MatchOne, CanExpressInstall
<1>6. ~x.isExpressInstallActive /\ y \in ShowExpressInstall(x, id, TRUE) => Only(x, y, id)
  BY InstallOnly, Zenon
<1> QED
  BY <1>2, <1>3, <1>4, <1>5, <1>6, TellOnly, Zenon

LEMMA DecideOnly ==
  ASSUME NEW loop, NEW x, SlotRight(x), NEW id \in Ids, Fresh(x, id),
         NEW y \in Decide(loop, x, id)
  PROVE  Only(x, y, id)
BY EmbedNowOnly, MatchOneOnly DEF Decide

-----------------------------------------------------------------------------
(* The loops.                                                              *)

Turn(loop, s, Y, k) == UNION {Decide(loop, y, s[k]) : y \in Y}

\* a[k] is what the first k turns can leave.
Loops(a, loop, s, x, n) ==
  a = [k \in 0..n |-> IF k = 0 THEN {x} ELSE Turn(loop, s, a[k - 1], k)]

LEMMA LoopsExist ==
  ASSUME NEW loop, NEW s, NEW x, NEW n \in Nat
  PROVE  \E a : Loops(a, loop, s, x, n)
<1> DEFINE S == {m \in Nat : \E a : Loops(a, loop, s, x, m)}
<1>1. 0 \in S
  <2> DEFINE a == [k \in 0..0 |-> {x}]
  <2>1. Loops(a, loop, s, x, 0)
    BY DEF Loops
  <2> QED
    BY <2>1
<1>2. ASSUME NEW m \in 0..(n - 1), m \in S PROVE m + 1 \in S
  <2>1. PICK a : Loops(a, loop, s, x, m)
    BY <1>2
  <2> DEFINE b == [k \in 0..(m + 1) |-> IF k = m + 1 THEN Turn(loop, s, a[m], m + 1) ELSE a[k]]
  <2>2. \A k \in 0..m : a[k] = IF k = 0 THEN {x} ELSE Turn(loop, s, a[k - 1], k)
    BY <2>1, Zenon DEF Loops
  <2>3. ASSUME NEW k \in 0..(m + 1)
        PROVE  b[k] = IF k = 0 THEN {x} ELSE Turn(loop, s, b[k - 1], k)
    <3>1. CASE k = m + 1
      <4>1. b[k] = Turn(loop, s, a[m], m + 1) /\ b[m] = a[m] /\ k - 1 = m /\ k # 0
        BY <3>1
      <4> QED
        BY <3>1, <4>1
    <3>2. CASE k # m + 1 /\ k # 0
      <4>1. k \in 0..m /\ k - 1 \in 0..(m + 1) /\ k - 1 # m + 1
        BY <3>2
      <4>2. b[k] = a[k] /\ b[k - 1] = a[k - 1]
        BY <3>2, <4>1
      <4> QED
        BY <2>2, <3>2, <4>1, <4>2
    <3>3. CASE k = 0
      <4>1. k \in 0..m /\ k # m + 1
        BY <3>3
      <4> QED
        BY <2>2, <3>3, <4>1
    <3> QED
      BY <3>1, <3>2, <3>3
  <2>4. Loops(b, loop, s, x, m + 1)
    <3>1. b = [k \in 0..(m + 1) |-> b[k]]
      OBVIOUS
    <3> HIDE DEF b
    <3> QED
      BY <2>3, <3>1, Zenon DEF Loops
  <2> QED
    BY <2>4
<1> HIDE DEF S
<1>3. n \in S
  BY <1>1, <1>2, UpTo
<1> QED
  BY <1>3 DEF S

LEMMA ForEachLoops ==
  ASSUME NEW loop, NEW s, NEW x, Len(s) \in Nat
  PROVE  \E a : Loops(a, loop, s, x, Len(s)) /\ ForEach(loop, s, x) = a[Len(s)]
<1> DEFINE a == CHOOSE b : Loops(b, loop, s, x, Len(s))
<1>1. Loops(a, loop, s, x, Len(s))
  <2>1. \E b : Loops(b, loop, s, x, Len(s))
    BY LoopsExist
  <2> QED
    BY <2>1, Zenon
<1>2. ForEach(loop, s, x) = a[Len(s)]
  BY DEF ForEach, Loops, Turn
<1> HIDE DEF a
<1> QED
  BY <1>1, <1>2

\* A loop over different elements, none of which is decided: it disturbs
\* nothing of the elements that it does not go over.
LoopsOver(x, s) ==
  /\ SlotRight(x) /\ s \in Seq(Ids) /\ Distinct(s)
  /\ \A i \in 1..Len(s) : Fresh(x, s[i])

Passes(x, y, s) ==
  /\ Kept(x, y) /\ SlotRight(y)
  /\ \A j \in Ids : Fresh(x, j) /\ (\A i \in 1..Len(s) : s[i] # j) => Fresh(y, j)

LEMMA ForEachPasses ==
  ASSUME NEW loop, NEW s, NEW x, LoopsOver(x, s), NEW y \in ForEach(loop, s, x)
  PROVE  Passes(x, y, s)
<1> DEFINE n == Len(s)
           Good(z, k) == /\ Kept(x, z) /\ SlotRight(z)
                         /\ \A j \in Ids : Fresh(x, j) /\ (\A i \in 1..k : s[i] # j) => Fresh(z, j)
<1>1. s \in Seq(Ids) /\ n \in Nat
  BY DEF LoopsOver
<1>2. PICK a : Loops(a, loop, s, x, n) /\ ForEach(loop, s, x) = a[n]
  BY <1>1, ForEachLoops
<1> HIDE DEF n
<1>3. \A k \in 0..n : a[k] = IF k = 0 THEN {x} ELSE Turn(loop, s, a[k - 1], k)
  BY <1>2, Zenon DEF Loops
<1> DEFINE S == {k \in Nat : \A z \in a[k] : Good(z, k)}
<1>4. 0 \in S
  <2>1. a[0] = {x}
    BY <1>1, <1>3
  <2>2. x \in Library /\ SlotRight(x)
    BY DEF LoopsOver, SlotRight
  <2> QED
    BY <2>1, <2>2 DEF Kept
<1>5. ASSUME NEW k \in 0..(n - 1), k \in S PROVE k + 1 \in S
  <2>1. k + 1 \in 0..n /\ k + 1 # 0 /\ (k + 1) - 1 = k /\ k + 1 \in 1..n /\ k \in Nat
    BY <1>1
  <2>2. a[k + 1] = Turn(loop, s, a[k], k + 1)
    BY <1>3, <2>1
  <2>3. s[k + 1] \in Ids
    BY <1>1, <2>1 DEF n
  <2> SUFFICES ASSUME NEW z \in a[k + 1] PROVE Good(z, k + 1)
    BY <2>1
  <2>4. PICK u \in a[k] : z \in Decide(loop, u, s[k + 1])
    BY <2>2 DEF Turn
  <2>5. Good(u, k)
    BY <1>5, <2>1
  <2>6. Fresh(u, s[k + 1])
    <3>1. Fresh(x, s[k + 1])
      BY <2>1 DEF LoopsOver, n
    <3>2. ASSUME NEW i \in 1..k PROVE s[i] # s[k + 1]
      <4>1. i \in 1..n /\ i # k + 1
        BY <1>1, <2>1
      <4> QED
        BY <2>1, <4>1 DEF LoopsOver, Distinct, n
    <3> QED
      BY <2>3, <2>5, <3>1, <3>2
  <2>7. Only(u, z, s[k + 1])
    BY <2>3, <2>4, <2>5, <2>6, DecideOnly
  <2>8. Kept(x, z) /\ SlotRight(z)
    BY <2>5, <2>7 DEF Only, Kept
  <2>9. ASSUME NEW j \in Ids, Fresh(x, j), \A i \in 1..(k + 1) : s[i] # j
        PROVE  Fresh(z, j)
    <3>1. \A i \in 1..k : i \in 1..(k + 1)
      BY <2>1
    <3>2. k + 1 \in 1..(k + 1)
      BY <2>1
    <3>3. Fresh(u, j) /\ s[k + 1] # j
      BY <2>5, <2>9, <3>1, <3>2
    <3> QED
      BY <2>7, <3>3 DEF Only
  <2> QED
    BY <2>8, <2>9
<1> HIDE DEF S
<1>6. n \in S
  <2>1. \A k \in 0..n : k \in S
    BY <1>1, <1>4, <1>5, UpTo, Zenon
  <2> QED
    BY <1>1, <2>1
<1>7. Good(y, n)
  BY <1>2, <1>6 DEF S
<1> QED
  BY <1>7 DEF Passes, n

-----------------------------------------------------------------------------
(* The invariant, action by action.                                        *)

LEMMA SameOnce ==
  ASSUME NEW x, Once(x), NEW y, Kept(x, y), SlotRight(y),
         \A j \in Ids : Fresh(x, j) => Fresh(y, j)
  PROVE  Once(y)
<1>1. Static \subseteq Ids /\ Dynamic \subseteq Ids
  BY DEF Ids
<1> QED
  BY <1>1, Zenon DEF Once, DecisionsOnce, Kept

LEMMA ShowsOnce ==
  ASSUME NEW x, Once(x), NEW id \in Ids, NEW y, Shows(x, y, id)
  PROVE  Once(y)
<1>1. SlotRight(x)
  BY DEF Once
<1>2. Only(x, y, id) /\ (Fresh(x, id) => Fresh(y, id))
  BY <1>1, ShowsOnly
<1>3. Kept(x, y) /\ SlotRight(y) /\ \A j \in Ids : Fresh(x, j) => Fresh(y, j)
  BY <1>2 DEF Only
<1> QED
  BY <1>3, SameOnce

LEMMA RemoveSWFOnce ==
  ASSUME Once(w), NEW id \in Ids, RemoveSWF(id)
  PROVE  Once(w')
<1>1. w \in Library /\ "none" \in ElementKinds \ {"install"}
  BY DEF Once, SlotRight, ElementKinds
<1>2. CASE w' = [w EXCEPT !.el[id] = "none", !.loading = @ \ {id}]
  <2>1. /\ Kept(w, w') /\ SlotKept(w, w') /\ w'.called = w.called
        /\ w'.el = [w.el EXCEPT ![id] = "none"]
    BY <1>1, <1>2, Zenon DEF Kept, SlotKept, Library
  <2>2. Shows(w, w', id)
    BY <1>1, <2>1, Zenon DEF Shows
  <2> QED
    BY <2>2, ShowsOnce
<1>3. CASE w' = [w EXCEPT !.el[id] = "none", !.loading = @ \cup {id},
                          !.removing = @ \cup {id}]
  <2>1. /\ Kept(w, w') /\ SlotKept(w, w') /\ w'.called = w.called
        /\ w'.el = [w.el EXCEPT ![id] = "none"]
    BY <1>1, <1>3, Zenon DEF Kept, SlotKept, Library
  <2>2. Shows(w, w', id)
    BY <1>1, <2>1, Zenon DEF Shows
  <2> QED
    BY <2>2, ShowsOnce
<1> QED
  BY <1>2, <1>3 DEF RemoveSWF

LEMMA RemoveTimerOnce ==
  ASSUME Once(w), NEW id \in Ids, RemoveTimer(id)
  PROVE  Once(w')
<1>1. w \in Library /\ "none" \in ElementKinds \ {"install"}
  BY DEF Once, SlotRight, ElementKinds
<1>2. CASE w' = [w EXCEPT !.loading = @ \ {id}]
  <2>1. Kept(w, w') /\ SlotKept(w, w') /\ w'.called = w.called /\ w'.el = w.el
    BY <1>1, <1>2, Zenon DEF Kept, SlotKept, Library
  <2>2. Shows(w, w', id)
    BY <2>1, Zenon DEF Shows
  <2> QED
    BY <2>2, ShowsOnce
<1>3. CASE w' = [w EXCEPT !.loading = @ \ {id}, !.removing = @ \ {id},
                          !.el[id] = IF @ \in {"object", "div", "swf"} THEN "none" ELSE @]
  <2>1. PICK kind \in ElementKinds :
          /\ kind = IF w.el[id] \in {"object", "div", "swf"} THEN "none" ELSE w.el[id]
          /\ w' = [w EXCEPT !.loading = @ \ {id}, !.removing = @ \ {id}, !.el[id] = kind]
    BY <1>1, <1>3, Zenon DEF Library
  <2>2. /\ Kept(w, w') /\ SlotKept(w, w') /\ w'.called = w.called
        /\ w'.el = [w.el EXCEPT ![id] = kind]
    BY <1>1, <2>1, Zenon DEF Kept, SlotKept, Library
  <2>3. w.el \in [Ids -> ElementKinds]
    BY <1>1 DEF Library
  <2>4. kind # "install" \/ w'.el = w.el
    BY <2>1, <2>2, <2>3
  <2>5. Shows(w, w', id)
    BY <2>2, <2>4, Zenon DEF Shows
  <2> QED
    BY <2>5, ShowsOnce
<1> QED
  BY <1>2, <1>3 DEF RemoveTimer

LEMMA PageCreateSWFOnce ==
  ASSUME Once(w), NEW id \in Ids, PageCreateSWF(id)
  PROVE  Once(w')
<1>1. w \in Library /\ "swf" \in ElementKinds \ {"install"}
  BY DEF Once, SlotRight, ElementKinds
<1>2. /\ Kept(w, w') /\ SlotKept(w, w') /\ w'.called = w.called
      /\ w'.el = w.el \/ w'.el = [w.el EXCEPT ![id] = "swf"]
  BY <1>1, CreateSWFIs DEF PageCreateSWF
<1>3. Shows(w, w', id)
  BY <1>1, <1>2, Zenon DEF Shows
<1> QED
  BY <1>3, ShowsOnce

LEMMA SwitchOffOnce ==
  ASSUME Once(w), SwitchOffAutoHideShow
  PROVE  Once(w')
<1>1. w \in Library /\ SlotRight(w)
  BY DEF Once, SlotRight
<1>2. Kept(w, w') /\ SlotKept(w, w') /\ w'.called = w.called /\ w'.el = w.el
  BY <1>1, Zenon DEF Kept, SlotKept, Library, SwitchOffAutoHideShow
<1>3. SlotRight(w') /\ \A j \in Ids : Fresh(w, j) => Fresh(w', j)
  BY <1>1, <1>2, Zenon DEF SlotRight, Pending, SlotKept, Kept, Fresh
<1> QED
  BY <1>2, <1>3, SameOnce

LEMMA AppendIs ==
  ASSUME NEW S, NEW s \in Seq(S), NEW e \in S, Distinct(s), \A i \in 1..Len(s) : s[i] # e
  PROVE  /\ Append(s, e) \in Seq(S) /\ Distinct(Append(s, e))
         /\ Len(Append(s, e)) = Len(s) + 1 /\ Len(s) \in Nat
         /\ \A i \in 1..Len(Append(s, e)) : Append(s, e)[i] = e \/ \E j \in 1..Len(s) : Append(s, e)[i] = s[j]
<1>1. /\ Append(s, e) \in Seq(S) /\ Len(Append(s, e)) = Len(s) + 1 /\ Len(s) \in Nat
      /\ \A i \in 1..Len(s) : Append(s, e)[i] = s[i]
      /\ Append(s, e)[Len(s) + 1] = e
  OBVIOUS
<1>2. \A i \in 1..(Len(s) + 1) : i \in 1..Len(s) \/ i = Len(s) + 1
  BY <1>1
<1>3. ASSUME NEW i \in 1..(Len(s) + 1), NEW j \in 1..(Len(s) + 1),
             Append(s, e)[i] = Append(s, e)[j]
      PROVE  i = j
  BY <1>1, <1>2, <1>3 DEF Distinct
<1> QED
  BY <1>1, <1>2, <1>3 DEF Distinct

\* The page asks for an element: neither called back nor waiting in a loop.
LEMMA RequestedOnce ==
  ASSUME NEW x, Once(x), NEW id \in Ids \ x.requested
  PROVE  /\ Fresh(x, id)
         /\ \A i \in 1..Len(x.regObjArr) : x.regObjArr[i] # id
         /\ \A i \in 1..Len(x.domLoadFnArr) : x.domLoadFnArr[i] # id
         /\ Once(Requested(x, id)) /\ Fresh(Requested(x, id), id)
         /\ Requested(x, id).regObjArr = x.regObjArr
         /\ Requested(x, id).domLoadFnArr = x.domLoadFnArr
         /\ Requested(x, id).requested = x.requested \cup {id}
         /\ Requested(x, id).isDomLoaded = x.isDomLoaded
<1> DEFINE y == Requested(x, id)
<1>1. x \in Library /\ SlotRight(x) /\ DecisionsOnce(x)
  BY DEF Once, SlotRight
<1>2. /\ Fresh(x, id)
      /\ \A i \in 1..Len(x.regObjArr) : x.regObjArr[i] # id
      /\ \A i \in 1..Len(x.domLoadFnArr) : x.domLoadFnArr[i] # id
  BY <1>1 DEF DecisionsOnce
<1>3. /\ y \in Library /\ y.isDomLoaded = x.isDomLoaded /\ y.matched = x.matched
      /\ y.testing = x.testing /\ y.domLoadFnArr = x.domLoadFnArr
      /\ y.regObjArr = x.regObjArr /\ y.requested = x.requested \cup {id}
      /\ SlotKept(x, y) /\ y.el = x.el /\ y.called = x.called
  BY <1>1, Zenon DEF Library, SlotKept, Requested
<1> HIDE DEF y
<1>4. \A j : Fresh(y, j) <=> Fresh(x, j)
  BY <1>3, Zenon DEF Fresh, Pending, SlotKept
<1>5. SlotRight(y)
  BY <1>1, <1>3, Zenon DEF SlotRight, Pending, SlotKept
<1>6. DecisionsOnce(y)
  BY <1>1, <1>3, <1>4, Zenon DEF DecisionsOnce
<1> QED
  BY <1>2, <1>3, <1>4, <1>5, <1>6 DEF Once, y

LEMMA RegisterObjectOnce ==
  ASSUME Once(w), NEW id \in Ids, RegisterObject(id)
  PROVE  Once(w')
<1> DEFINE x == Requested(w, id)
           s == Append(x.regObjArr, id)
           y == [x EXCEPT !.regObjArr = s]
<1>1. id \in Static /\ id \in Ids \ w.requested
  BY DEF RegisterObject
<1>2. /\ Once(x) /\ Fresh(x, id) /\ id \in x.requested
      /\ \A i \in 1..Len(x.regObjArr) : x.regObjArr[i] # id
  BY <1>1, RequestedOnce
<1>3. w' = SetVisibility([x EXCEPT !.regObjArr = Append(@, id)], id, "hidden")
  BY DEF RegisterObject
<1> HIDE DEF x
<1>4. x \in Library /\ SlotRight(x) /\ DecisionsOnce(x) /\ Distinct(x.regObjArr)
  BY <1>2 DEF Once, SlotRight, DecisionsOnce
<1>5. x.regObjArr \in Seq(Static)
  BY <1>4 DEF Library
<1>6. /\ s \in Seq(Static) /\ Distinct(s)
      /\ \A i \in 1..Len(s) : s[i] = id \/ \E j \in 1..Len(x.regObjArr) : s[i] = x.regObjArr[j]
  BY <1>1, <1>2, <1>4, <1>5, AppendIs
<1>7. w' = SetVisibility(y, id, "hidden")
  BY <1>3, <1>4 DEF Library
<1> HIDE DEF s
<1>8. /\ y \in Library /\ y.isDomLoaded = x.isDomLoaded /\ y.matched = x.matched
      /\ y.testing = x.testing /\ y.domLoadFnArr = x.domLoadFnArr
      /\ y.regObjArr = s /\ y.requested = x.requested
      /\ SlotKept(x, y) /\ y.el = x.el /\ y.called = x.called
  BY <1>4, <1>6, Zenon DEF Library, SlotKept
<1> HIDE DEF y
<1>9. \A j : Fresh(y, j) <=> Fresh(x, j)
  BY <1>8, Zenon DEF Fresh, Pending, SlotKept
<1>10. SlotRight(y)
  BY <1>4, <1>8, Zenon DEF SlotRight, Pending, SlotKept
<1>11. \A i \in 1..Len(s) : s[i] \in x.requested
  BY <1>2, <1>4, <1>6 DEF DecisionsOnce
<1>12. DecisionsOnce(y)
  BY <1>4, <1>6, <1>8, <1>9, <1>11, Zenon DEF DecisionsOnce
<1>13. Shows(y, w', id)
  BY <1>7, <1>8, VisibleShows DEF Styles
<1> QED
  BY <1>10, <1>12, <1>13, ShowsOnce DEF Once

LEMMA EmbedSWFOnce ==
  ASSUME Once(w), NEW id \in Ids, EmbedSWF(id)
  PROVE  Once(w')
<1> DEFINE r == Requested(w, id)
           x == SetVisibility(r, id, "hidden")
<1>1. id \in Dynamic /\ id \in Ids \ w.requested
  BY DEF EmbedSWF
<1>2. /\ Once(r) /\ Fresh(r, id) /\ id \in r.requested
      /\ r.isDomLoaded = w.isDomLoaded
      /\ \A i \in 1..Len(r.domLoadFnArr) : r.domLoadFnArr[i] # id
  BY <1>1, RequestedOnce
<1>3. IF w.isDomLoaded THEN w' \in EmbedNow(x, id)
      ELSE w' = [x EXCEPT !.domLoadFnArr = Append(@, id)]
  BY DEF EmbedSWF
<1> HIDE DEF r
<1>4. r \in Library /\ SlotRight(r)
  BY <1>2 DEF Once, SlotRight
<1>5. Shows(r, x, id)
  BY <1>4, VisibleShows DEF Styles
<1>6. Once(x) /\ Fresh(x, id) /\ Kept(r, x)
  BY <1>2, <1>4, <1>5, ShowsOnce, ShowsOnly, Zenon DEF Shows
<1> HIDE DEF x
<1>7. /\ x \in Library /\ SlotRight(x) /\ DecisionsOnce(x) /\ id \in x.requested
      /\ x.isDomLoaded = w.isDomLoaded
      /\ \A i \in 1..Len(x.domLoadFnArr) : x.domLoadFnArr[i] # id
  BY <1>2, <1>6 DEF Once, SlotRight, Kept
<1>8. id \notin Static
  BY <1>1, SwfAssumption
<1>9. CASE w.isDomLoaded
  <2>1. Only(x, w', id)
    BY <1>3, <1>6, <1>7, <1>9, EmbedNowOnly
  <2>2. Kept(x, w') /\ SlotRight(w') /\ \A j \in Ids \ {id} : Fresh(x, j) => Fresh(w', j)
    BY <2>1 DEF Only
  <2>3. w'.isDomLoaded
    BY <1>7, <1>9, <2>2, Zenon DEF Kept
  <2>4. Static \subseteq Ids \ {id} /\ Ids \ x.requested \subseteq Ids \ {id}
    BY <1>7, <1>8 DEF Ids
  <2>5. DecisionsOnce(w')
    BY <1>7, <2>2, <2>3, <2>4, Zenon DEF DecisionsOnce, Kept
  <2> QED
    BY <2>2, <2>5 DEF Once
<1>10. CASE ~w.isDomLoaded
  <2> DEFINE s == Append(x.domLoadFnArr, id)
  <2>1. x.domLoadFnArr \in Seq(Dynamic) /\ Distinct(x.domLoadFnArr)
    BY <1>7 DEF Library, DecisionsOnce
  <2>2. /\ s \in Seq(Dynamic) /\ Distinct(s)
        /\ \A i \in 1..Len(s) :
             s[i] = id \/ \E j \in 1..Len(x.domLoadFnArr) : s[i] = x.domLoadFnArr[j]
    BY <1>1, <1>7, <2>1, AppendIs
  <2>3. w' = [x EXCEPT !.domLoadFnArr = s]
    BY <1>3, <1>7, <1>10 DEF Library
  <2> HIDE DEF s
  <2>4. /\ w' \in Library /\ w'.isDomLoaded = x.isDomLoaded /\ w'.matched = x.matched
        /\ w'.testing = x.testing /\ w'.domLoadFnArr = s
        /\ w'.regObjArr = x.regObjArr /\ w'.requested = x.requested
        /\ SlotKept(x, w') /\ w'.el = x.el /\ w'.called = x.called
    BY <1>7, <2>2, <2>3, Zenon DEF Library, SlotKept
  <2>5. \A j : Fresh(w', j) <=> Fresh(x, j)
    BY <2>4, Zenon DEF Fresh, Pending, SlotKept
  <2>6. SlotRight(w')
    BY <1>7, <2>4, Zenon DEF SlotRight, Pending, SlotKept
  <2>7. \A i \in 1..Len(s) : s[i] \in x.requested
    BY <1>7, <2>2 DEF DecisionsOnce
  <2>8. DecisionsOnce(w')
    BY <1>7, <2>2, <2>4, <2>5, <2>7, Zenon DEF DecisionsOnce
  <2> QED
    BY <2>6, <2>8 DEF Once
<1> QED
  BY <1>9, <1>10

LEMMA PageExpressInstallOnce ==
  ASSUME Once(w), NEW id \in Ids, PageExpressInstall(id)
  PROVE  Once(w')
<1>1. SlotRight(w) /\ w \in Library
  BY DEF Once, SlotRight
<1>2. ~w.isExpressInstallActive /\ w' \in ShowExpressInstall(w, id, FALSE)
  BY Zenon DEF PageExpressInstall, CanExpressInstall
<1>3. Only(w, w', id)
  BY <1>1, <1>2, InstallOnly, Zenon
<1>4. Installs(w, w', id, FALSE)
  BY <1>1, <1>2, ShowExpressInstallIs, Zenon
<1>5. Fresh(w, id) => Fresh(w', id)
  BY <1>4 DEF Installs, Fresh, Pending
<1>6. Kept(w, w') /\ SlotRight(w') /\ \A j \in Ids : Fresh(w, j) => Fresh(w', j)
  BY <1>3, <1>5 DEF Only
<1> QED
  BY <1>6, SameOnce

\* The dialog calls back once: the slot is free then, and the element is no
\* longer the dialog.
LEMMA ExpressInstallCallbackOnce ==
  ASSUME Once(w), ExpressInstallCallback
  PROVE  Once(w')
<1>1. PICK id \in Ids : id = w.storedId
  BY DEF Once, SlotRight, ExpressInstallCallback
<1>2. /\ w \in Library /\ SlotRight(w) /\ w.isExpressInstallActive
      /\ w.el[id] = "install"
  BY <1>1 DEF Once, SlotRight, ExpressInstallCallback
<1>3. PICK kind \in ElementKinds \ {"install"} : kind = IF id \in Dynamic THEN "div" ELSE "alt"
  BY DEF ElementKinds
<1>4. PICK loading \in SUBSET Ids :
        loading = IF id \in Dynamic THEN w.loading \ {id} ELSE w.loading
  BY <1>2, Zenon DEF Library
<1> DEFINE x == [w EXCEPT !.isExpressInstallActive = FALSE, !.el[id] = kind,
                          !.loading = loading]
           y == IF id \in Dynamic THEN SetVisibility(x, id, "visible") ELSE x
<1>5. w' = IF w.storedCallback THEN CallBack(y, id) ELSE y
  BY <1>1, <1>3, <1>4 DEF ExpressInstallCallback
<1>6. /\ Kept(w, x) /\ x.called = w.called /\ x.el = [w.el EXCEPT ![id] = kind]
      /\ x.isExpressInstallActive = FALSE /\ x.storedId = id
  BY <1>1, <1>2, Zenon DEF Kept, Library
<1> HIDE DEF x
<1>7. w.el \in [Ids -> ElementKinds] /\ w.called \in [Ids -> Nat]
  BY <1>2 DEF Library
<1>8. \A j \in Ids : x.el[j] # "install"
  BY <1>1, <1>2, <1>6, <1>7 DEF SlotRight
<1>9. ~Pending(x) /\ ~x.isExpressInstallActive /\ x \in Library
  BY <1>6 DEF Pending, Kept
<1>10. SlotRight(x)
  <2>1. \A j \in Ids : x.called[j] \in {0, 1}
    BY <1>2, <1>6 DEF SlotRight
  <2> QED
    BY <1>8, <1>9, <2>1, Zenon DEF SlotRight
<1>11. \A j \in Ids : Fresh(w, j) => Fresh(x, j)
  BY <1>6, <1>9 DEF Fresh
<1>12. Once(x)
  BY <1>6, <1>10, <1>11, SameOnce
<1>13. Once(y) /\ Kept(w, y) /\ (Fresh(x, id) => Fresh(y, id))
       /\ \A j \in Ids : Fresh(w, j) => Fresh(y, j)
  <2>1. CASE id \in Dynamic
    <3>1. Shows(x, y, id)
      BY <1>9, <2>1, VisibleShows DEF Styles
    <3>2. Only(x, y, id) /\ (Fresh(x, id) => Fresh(y, id)) /\ Once(y) /\ Kept(x, y)
      BY <1>10, <1>12, <3>1, ShowsOnly, ShowsOnce, SMTT(20) DEF Shows
    <3> HIDE DEF y
    <3> QED
      BY <1>6, <1>11, <3>2 DEF Only, Kept
  <2>2. CASE id \notin Dynamic
    BY <1>6, <1>11, <1>12, <2>2
  <2> QED
    BY <2>1, <2>2
<1> HIDE DEF y
<1>14. CASE ~w.storedCallback
  BY <1>5, <1>13, <1>14
<1>15. CASE w.storedCallback
  <2>1. Pending(w) /\ w.called[id] = 0 /\ ~Fresh(w, id)
    BY <1>1, <1>2, <1>15 DEF Pending, SlotRight, Fresh
  <2>2. Fresh(y, id)
    BY <1>6, <1>9, <1>13, <2>1 DEF Fresh
  <2>3. Only(y, w', id)
    BY <1>5, <1>13, <1>15, <2>2, CallBackOnly DEF Once
  <2>4. \A j \in Ids : Fresh(w, j) => Fresh(w', j)
    BY <1>13, <2>1, <2>3 DEF Only
  <2>5. Kept(w, w') /\ SlotRight(w')
    BY <1>13, <2>3 DEF Only, Kept
  <2> QED
    BY <2>4, <2>5, SameOnce
<1> QED
  BY <1>14, <1>15

-----------------------------------------------------------------------------
\* The document is loaded, and the versions are not matched.
Unmatched(x) ==
  /\ SlotRight(x) /\ x.isDomLoaded /\ ~x.matched
  /\ \A id \in Ids \ x.requested : Fresh(x, id)
  /\ \A id \in Static : Fresh(x, id)
  /\ Distinct(x.regObjArr) /\ Distinct(x.domLoadFnArr)
  /\ \A i \in 1..Len(x.regObjArr) : x.regObjArr[i] \in x.requested
  /\ \A i \in 1..Len(x.domLoadFnArr) : x.domLoadFnArr[i] \in x.requested

\* Nothing has been decided for the elements to be embedded.
EmbedsFresh(x) == \A id \in Dynamic : Fresh(x, id)

LEMMA MatchVersionsOnce ==
  ASSUME NEW x, Unmatched(x), ~x.testing, NEW y \in MatchVersions(x)
  PROVE  /\ Once(y) /\ y.isDomLoaded /\ y.domLoadFnArr = x.domLoadFnArr
         /\ EmbedsFresh(x) => EmbedsFresh(y)
<1> DEFINE z == [x EXCEPT !.matched = TRUE]
           s == x.regObjArr
<1>1. x \in Library
  BY DEF Unmatched, SlotRight
<1>2. s \in Seq(Static) /\ s \in Seq(Ids)
  <2>1. s \in Seq(Static) /\ Static \subseteq Ids
    BY <1>1 DEF Library, Ids
  <2> QED
    BY <2>1
<1>3. y \in ForEach("match", s, z)
  BY DEF MatchVersions
<1>4. /\ z \in Library /\ z.isDomLoaded = x.isDomLoaded /\ z.matched = TRUE
      /\ z.testing = x.testing /\ z.domLoadFnArr = x.domLoadFnArr
      /\ z.regObjArr = x.regObjArr /\ z.requested = x.requested
      /\ SlotKept(x, z) /\ z.el = x.el /\ z.called = x.called
  BY <1>1, Zenon DEF Library, SlotKept
<1> HIDE DEF z
<1>5. \A j : Fresh(z, j) <=> Fresh(x, j)
  BY <1>4, Zenon DEF Fresh, Pending, SlotKept
<1>6. SlotRight(z)
  BY <1>4, Zenon DEF Unmatched, SlotRight, Pending, SlotKept
<1>7. \A i \in 1..Len(s) : s[i] \in Static /\ s[i] \in x.requested
  BY <1>2 DEF Unmatched
<1>8. LoopsOver(z, s)
  BY <1>2, <1>5, <1>6, <1>7, Zenon DEF LoopsOver, Unmatched
<1>9. Passes(z, y, s)
  BY <1>3, <1>8, ForEachPasses
<1>10. Kept(z, y) /\ SlotRight(y)
  BY <1>9 DEF Passes
<1>11. \A j \in Ids : Fresh(x, j) /\ (\A i \in 1..Len(s) : s[i] # j) => Fresh(y, j)
  BY <1>5, <1>9, Zenon DEF Passes
<1> HIDE DEF s
<1>12. \A j \in Ids \ x.requested : Fresh(y, j)
  BY <1>7, <1>11 DEF Unmatched
<1>13. ASSUME EmbedsFresh(x) PROVE EmbedsFresh(y)
  <2>1. \A j \in Dynamic : j \in Ids /\ j \notin Static
    BY SwfAssumption DEF Ids
  <2> QED
    BY <1>7, <1>11, <1>13, <2>1 DEF EmbedsFresh
<1>14. /\ y.isDomLoaded /\ y.matched /\ ~y.testing /\ y.requested = x.requested
       /\ y.domLoadFnArr = x.domLoadFnArr /\ y.regObjArr = x.regObjArr
  BY <1>4, <1>10 DEF Kept, Unmatched
<1>15. DecisionsOnce(y)
  BY <1>12, <1>14, Zenon DEF DecisionsOnce, Unmatched
<1> QED
  BY <1>10, <1>13, <1>14, <1>15 DEF Once

\* A step of the version test ends it with the versions matched, or goes on.
LEMMA TestStepOnce ==
  ASSUME NEW x, Unmatched(x), NEW answer, browser.real \in Versions,
         NEW y \in TestStep(x, answer)
  PROVE  /\ Once(y) /\ y.isDomLoaded /\ y.domLoadFnArr = x.domLoadFnArr
         /\ EmbedsFresh(x) => EmbedsFresh(y)
<1>1. x \in Library /\ SlotRight(x)
  BY DEF Unmatched, SlotRight
<1>2. CASE x.counter < ProbeLimit /\ y = [x EXCEPT !.testing = TRUE, !.counter = @ + 1]
  <2>1. x.counter + 1 \in 0..ProbeLimit
    BY <1>1, <1>2, SwfAssumption DEF Library
  <2>2. PICK c \in 0..ProbeLimit : c = x.counter + 1
    BY <2>1
  <2>3. y = [x EXCEPT !.testing = TRUE, !.counter = c]
    BY <1>1, <1>2, <2>2 DEF Library
  <2>4. /\ y \in Library /\ y.isDomLoaded = x.isDomLoaded /\ y.matched = x.matched
        /\ y.domLoadFnArr = x.domLoadFnArr
        /\ y.regObjArr = x.regObjArr /\ y.requested = x.requested
        /\ SlotKept(x, y) /\ y.el = x.el /\ y.called = x.called
    BY <1>1, <2>3, Zenon DEF Library, SlotKept
  <2>5. \A j : Fresh(y, j) <=> Fresh(x, j)
    BY <2>4, Zenon DEF Fresh, Pending, SlotKept
  <2>6. SlotRight(y)
    BY <1>1, <2>4, Zenon DEF SlotRight, Pending, SlotKept
  <2>7. DecisionsOnce(y)
    BY <2>4, <2>5, Zenon DEF DecisionsOnce, Unmatched
  <2> QED
    BY <2>4, <2>5, <2>6, <2>7, Zenon DEF Once, EmbedsFresh, Unmatched
<1>3. CASE y \in TestOver(x, answer)
  <2>1. PICK version \in Versions : version = IF answer = "version" THEN browser.real ELSE x.pv
    BY <1>1 DEF Library
  <2> DEFINE z == [x EXCEPT !.testing = FALSE, !.pv = version]
  <2>2. y \in MatchVersions(z)
    BY <1>3, <2>1 DEF TestOver
  <2>3. /\ z \in Library /\ z.isDomLoaded = x.isDomLoaded /\ z.matched = x.matched
        /\ z.testing = FALSE /\ z.domLoadFnArr = x.domLoadFnArr
        /\ z.regObjArr = x.regObjArr /\ z.requested = x.requested
        /\ SlotKept(x, z) /\ z.el = x.el /\ z.called = x.called
    BY <1>1, Zenon DEF Library, SlotKept
  <2> HIDE DEF z
  <2>4. \A j : Fresh(z, j) <=> Fresh(x, j)
    BY <2>3, Zenon DEF Fresh, Pending, SlotKept
  <2>5. SlotRight(z)
    BY <1>1, <2>3, Zenon DEF SlotRight, Pending, SlotKept
  <2>6. Unmatched(z) /\ ~z.testing
    BY <2>3, <2>4, <2>5, Zenon DEF Unmatched
  <2>7. /\ Once(y) /\ y.isDomLoaded /\ y.domLoadFnArr = z.domLoadFnArr
        /\ EmbedsFresh(z) => EmbedsFresh(y)
    BY <2>2, <2>6, MatchVersionsOnce
  <2> QED
    BY <2>3, <2>4, <2>7, Zenon DEF EmbedsFresh
<1> QED
  BY <1>2, <1>3 DEF TestStep

LEMMA TestTimerOnce ==
  ASSUME Once(w), browser.real \in Versions, NEW answer, TestTimer(answer)
  PROVE  Once(w')
<1>1. w.testing /\ w' \in TestStep(w, answer)
  BY DEF TestTimer
<1>2. Unmatched(w)
  BY <1>1, Zenon DEF Once, DecisionsOnce, Unmatched
<1> QED
  BY <1>1, <1>2, TestStepOnce

\* The document is loaded: the versions are matched or tested, and every
\* element that waits for it is embedded.
LEMMA DomLoadEventOnce ==
  ASSUME Once(w), browser.real \in Versions, NEW answer, DomLoadEvent(answer)
  PROVE  Once(w')
<1>1. CASE w' = w
  BY <1>1
<1>2. CASE ~w.isDomLoaded
  <2> DEFINE x == [w EXCEPT !.isDomLoaded = TRUE]
             s == w.domLoadFnArr
  <2>1. PICK y \in Main(x, answer) : w' \in ForEach("embed", s, y)
    BY <1>2, Zenon DEF DomLoadEvent, CallsLoadFunctions
  <2>2. w \in Library /\ SlotRight(w) /\ DecisionsOnce(w)
    BY DEF Once, SlotRight
  <2>3. /\ x \in Library /\ x.isDomLoaded = TRUE /\ x.matched = w.matched
        /\ x.testing = w.testing /\ x.domLoadFnArr = w.domLoadFnArr
        /\ x.regObjArr = w.regObjArr /\ x.requested = w.requested
        /\ SlotKept(w, x) /\ x.el = w.el /\ x.called = w.called
    BY <2>2, Zenon DEF Library, SlotKept
  <2> HIDE DEF x
  <2>4. \A j : Fresh(x, j) <=> Fresh(w, j)
    BY <2>3, Zenon DEF Fresh, Pending, SlotKept
  <2>5. SlotRight(x)
    BY <2>2, <2>3, Zenon DEF SlotRight, Pending, SlotKept
  <2>6. Unmatched(x) /\ ~x.testing /\ EmbedsFresh(x)
    BY <1>2, <2>2, <2>3, <2>4, <2>5, Zenon DEF Unmatched, DecisionsOnce, EmbedsFresh
  <2>7. y \in TestStep(x, answer) \/ y \in MatchVersions(x)
    BY <2>1, Zenon DEF Main
  <2>8. Once(y) /\ y.isDomLoaded /\ y.domLoadFnArr = x.domLoadFnArr /\ EmbedsFresh(y)
    BY <2>6, <2>7, TestStepOnce, MatchVersionsOnce
  <2>9. s \in Seq(Ids) /\ \A i \in 1..Len(s) : s[i] \in Dynamic
    <3>1. s \in Seq(Dynamic) /\ Dynamic \subseteq Ids
      BY <2>2 DEF Library, Ids
    <3> QED
      BY <3>1
  <2>10. y.domLoadFnArr = s
    BY <2>3, <2>8
  <2> HIDE DEF s
  <2>11. LoopsOver(y, s)
    BY <2>8, <2>9, <2>10, Zenon DEF LoopsOver, Once, DecisionsOnce, EmbedsFresh
  <2>12. Passes(y, w', s)
    BY <2>1, <2>11, ForEachPasses
  <2>13. Kept(y, w') /\ SlotRight(w')
    BY <2>12 DEF Passes
  <2>14. ASSUME NEW j \in Ids \ y.requested PROVE Fresh(w', j)
    <3>1. Fresh(y, j) /\ \A i \in 1..Len(s) : s[i] # j
      BY <2>8, <2>10 DEF Once, DecisionsOnce
    <3> QED
      BY <2>12, <3>1 DEF Passes
  <2>15. ASSUME ~y.matched, NEW j \in Static PROVE Fresh(w', j)
    <3>1. j \in Ids /\ j \notin Dynamic
      BY SwfAssumption, SMTT(20) DEF Ids
    <3>2. Fresh(y, j) /\ \A i \in 1..Len(s) : s[i] # j
      BY <2>8, <2>9, <2>15, <3>1 DEF Once, DecisionsOnce
    <3> QED
      BY <2>12, <3>1, <3>2 DEF Passes
  <2>16. DecisionsOnce(w')
    BY <2>8, <2>13, <2>14, <2>15, Zenon DEF DecisionsOnce, Kept, Once
  <2> QED
    BY <2>13, <2>16 DEF Once
<1> QED
  BY <1>1, <1>2 DEF DomLoadEvent, CallsLoadFunctions

-----------------------------------------------------------------------------
LEMMA InitSwf == SwfInit => SwfInv /\ browser.real \in Versions
<1> SUFFICES ASSUME SwfInit PROVE SwfInv /\ browser.real \in Versions
  OBVIOUS
<1>1. browser.real \in Versions
  BY DEF SwfInit
<1>2. PICK described \in Versions :
        w = [el |-> [id \in Ids |-> IF id \in Static THEN "object" ELSE "div"],
             inline |-> [id \in Ids |-> "unset"], css |-> [id \in Ids |-> "unset"],
             isDomLoaded |-> FALSE, autoHideShow |-> TRUE,
             isExpressInstallActive |-> FALSE,
             domLoadFnArr |-> << >>, regObjArr |-> << >>,
             pv |-> described, counter |-> 0, testing |-> FALSE, matched |-> FALSE,
             storedId |-> NoId, storedCallback |-> FALSE,
             loading |-> {}, removing |-> {}, requested |-> {},
             called |-> [id \in Ids |-> 0]]
  BY Zenon DEF SwfInit
<1>3. w \in Library
  BY <1>2, SwfAssumption DEF Library, ElementKinds, Styles
<1>4. /\ ~w.isExpressInstallActive /\ ~w.testing /\ ~w.matched
      /\ \A id \in Ids : w.called[id] = 0 /\ w.el[id] # "install"
  BY <1>2
<1>5. Len(w.regObjArr) = 0 /\ Len(w.domLoadFnArr) = 0
  BY <1>2
<1>6. SlotRight(w)
  BY <1>3, <1>4 DEF SlotRight, Pending
<1>7. \A id \in Ids : Fresh(w, id)
  BY <1>4 DEF Fresh, Pending
<1>8. Static \subseteq Ids /\ Dynamic \subseteq Ids
  BY DEF Ids
<1>9. /\ Distinct(w.regObjArr) /\ Distinct(w.domLoadFnArr)
      /\ \A i \in 1..Len(w.regObjArr) : w.regObjArr[i] \in w.requested
      /\ \A i \in 1..Len(w.domLoadFnArr) : w.domLoadFnArr[i] \in w.requested
  BY <1>5 DEF Distinct
<1>10. DecisionsOnce(w)
  BY <1>4, <1>7, <1>8, <1>9, Zenon DEF DecisionsOnce
<1> QED
  BY <1>1, <1>6, <1>10 DEF SwfInv, Once

LEMMA NextSwf ==
  SwfInv /\ browser.real \in Versions /\ [SwfNext]_swfVars
    => SwfInv' /\ browser'.real \in Versions
<1> SUFFICES ASSUME Once(w), browser.real \in Versions, [SwfNext]_swfVars
             PROVE  Once(w') /\ browser'.real \in Versions
  BY DEF SwfInv
<1>1. browser' = browser
  BY Zenon DEF SwfNext, swfVars, NoBrowserChange, RegisterObject, EmbedSWF, PageExpressInstall,
         RemoveSWF, PageCreateSWF, RemoveTimer, SwitchOffAutoHideShow, BodyParsed,
         ExpressInstallCallback, DomLoadEvent, TestTimer
<1>2. ASSUME NEW id \in Ids,
             \/ RegisterObject(id) \/ EmbedSWF(id) \/ PageExpressInstall(id)
             \/ RemoveSWF(id) \/ PageCreateSWF(id) \/ RemoveTimer(id)
      PROVE  Once(w')
  BY <1>2, RegisterObjectOnce, EmbedSWFOnce, PageExpressInstallOnce, RemoveSWFOnce,
     PageCreateSWFOnce, RemoveTimerOnce
<1>3. SwitchOffAutoHideShow => Once(w')
  BY SwitchOffOnce
<1>4. BodyParsed \/ UNCHANGED swfVars => Once(w')
  BY DEF BodyParsed, swfVars
<1>5. ExpressInstallCallback => Once(w')
  BY ExpressInstallCallbackOnce
<1>6. ASSUME NEW answer \in Answers, DomLoadEvent(answer) \/ TestTimer(answer)
      PROVE  Once(w')
  BY <1>6, DomLoadEventOnce, TestTimerOnce
<1> QED
  BY <1>1, <1>2, <1>3, <1>4, <1>5, <1>6 DEF SwfNext

SwfSpec == SwfInit /\ [][SwfNext]_swfVars

LEMMA SpecSwfInv == SwfSpec => []SwfInv
<1>1. SwfInit => SwfInv /\ browser.real \in Versions
  BY InitSwf
<1>2. SwfInv /\ browser.real \in Versions /\ [SwfNext]_swfVars
        => SwfInv' /\ (browser.real \in Versions)'
  BY NextSwf
<1> QED
  BY <1>1, <1>2, PTL DEF SwfSpec

\* There is never a second install dialog, whatever elements, players and
\* orders of calls, events and timers there are (showExpressInstall).
THEOREM SpecOneInstall == SwfSpec => []OneInstall
<1>1. SwfInv => OneInstall
  <2> SUFFICES ASSUME SlotRight(w) PROVE OneInstall
    BY DEF SwfInv, Once
  <2> DEFINE D == {id \in Ids : w.el[id] = "install"}
  <2>1. D \subseteq {w.storedId}
    BY DEF SlotRight
  <2>2. IsFiniteSet({w.storedId}) /\ Cardinality({w.storedId}) = 1
    BY FS_Singleton, Zenon
  <2> HIDE DEF D
  <2>3. Cardinality(D) <= 1
    BY <2>1, <2>2, FS_Subset
  <2> QED
    BY <2>3 DEF OneInstall, D
<1> QED
  BY SpecSwfInv, <1>1, PTL

\* No callback of the page is called twice for an element, by the loops over
\* the elements, the version test or the dialog (matchVersions, embedSWF,
\* expressInstallCallback).
THEOREM SpecCallbackOnce == SwfSpec => []CallbackOnce
<1>1. SwfInv => CallbackOnce
  BY DEF SwfInv, Once, SlotRight, CallbackOnce
<1> QED
  BY SpecSwfInv, <1>1, PTL
-----------------------------------------------------------------------------
(* The names of JSONP callbacks.                                           *)

Request ==
  [phase : {"new", "open", "done"}, kind : Kinds, global : BOOLEAN, timeout : BOOLEAN,
   timer : BOOLEAN, net : {"none", "waiting", "ran", "over"}, name : Names \cup {NoName},
   overwritten : Reqs \cup {NoReq}, container : Reqs \cup {NoReq},
   result : Results \cup {"none"}]

OpenIn(R) == {r \in Reqs : R[r].phase = "open" /\ R[r].name # NoName}

\* The names in use and the free names are different names, all made before,
\* and the window has the functions of those in use.
Unique(R, old, win, last) ==
  /\ \A r \in OpenIn(R) :
       /\ R[r].name \in 1..last /\ win[R[r].name] = r
       /\ \A i \in 1..Len(old) : old[i] # R[r].name
       /\ \A q \in OpenIn(R) : R[q].name = R[r].name => q = r
  /\ old \in Seq(1..last)
  /\ \A i, j \in 1..Len(old) : old[i] = old[j] => i = j

\* A name that is in nobody's hands.
Taken(R, free, last, name) ==
  /\ name \in 1..last
  /\ \A r \in OpenIn(R) : R[r].name # name
  /\ \A i \in 1..Len(free) : free[i] # name

LEMMA JsonpTakes ==
  ASSUME MaxReqs \in Nat, lastName \in Nat, Unique(reqs, oldCallbacks, window, lastName),
         NEW last, last = IF JsonpCallback > lastName THEN JsonpCallback ELSE lastName
  PROVE  /\ Unique(reqs, NamesAfter, window, last)
         /\ Taken(reqs, NamesAfter, last, JsonpCallback)
         /\ last \in Nat /\ last <= lastName + 1
<1>1. oldCallbacks \in Seq(1..lastName) /\ Len(oldCallbacks) \in Nat
  BY DEF Unique
<1>2. CASE oldCallbacks = << >>
  <2>1. JsonpCallback = lastName + 1 /\ NamesAfter = << >> /\ last = lastName + 1
    BY <1>2 DEF JsonpCallback, NamesAfter
  <2>2. Len(<< >>) = 0 /\ << >> \in Seq(1..last)
    OBVIOUS
  <2>3. \A r \in OpenIn(reqs) : reqs[r].name \in 1..last /\ reqs[r].name # lastName + 1
    BY <2>1 DEF Unique
  <2> QED
    BY <1>2, <2>1, <2>2, <2>3 DEF Unique, Taken
<1>3. CASE oldCallbacks # << >>
  <2> DEFINE n == Len(oldCallbacks)
             f == NamesAfter
  <2>1. n \in Nat \ {0} /\ \A i \in 1..n : oldCallbacks[i] \in 1..lastName
    BY <1>1, <1>3
  <2>2. JsonpCallback = oldCallbacks[n] /\ f = SubSeq(oldCallbacks, 1, n - 1)
    BY <1>3 DEF JsonpCallback, NamesAfter
  <2>3. JsonpCallback \in 1..lastName /\ last = lastName
    BY <2>1, <2>2
  <2>4. /\ f \in Seq(1..lastName) /\ Len(f) = n - 1
        /\ \A i \in 1..(n - 1) : f[i] = oldCallbacks[i]
    <3>1. 1 \in Int /\ n - 1 \in Int /\ \A i \in 1..(n - 1) : oldCallbacks[i] \in 1..lastName
      BY <2>1
    <3>2. /\ f \in Seq(1..lastName) /\ Len(f) = IF 1 <= n - 1 THEN n - 1 - 1 + 1 ELSE 0
          /\ \A i \in 1..(n - 1 - 1 + 1) : f[i] = oldCallbacks[1 + i - 1]
      BY <2>1, <2>2, <3>1
    <3> HIDE DEF f, n
    <3>3. Len(f) = n - 1
      BY <2>1, <3>2
    <3>4. ASSUME NEW i \in 1..(n - 1) PROVE f[i] = oldCallbacks[i]
      <4>1. i \in 1..(n - 1 - 1 + 1) /\ 1 + i - 1 = i
        BY <2>1
      <4> QED
        BY <3>2, <4>1
    <3> QED
      BY <3>2, <3>3, <3>4
  <2> HIDE DEF f, n
  <2>5. \A i \in 1..Len(f) : i \in 1..n /\ f[i] = oldCallbacks[i] /\ i # n
    BY <2>1, <2>4
  <2>6. n \in 1..n
    BY <2>1
  <2>7. Unique(reqs, f, window, lastName)
    BY <2>4, <2>5, SMTT(20) DEF Unique, n
  <2>8. Taken(reqs, f, lastName, JsonpCallback)
    BY <2>2, <2>3, <2>5, <2>6 DEF Unique, Taken, n
  <2> QED
    BY <2>3, <2>7, <2>8 DEF f
<1> QED
  BY <1>2, <1>3

\* A request that is not open any more, with its name not put back yet.
LEMMA CloseUnique ==
  ASSUME NEW R, NEW old, NEW win, NEW last \in Nat, Unique(R, old, win, last),
         R \in [Reqs -> Request], NEW r \in Reqs, NEW s \in Request, s.phase # "open"
  PROVE  /\ Unique([R EXCEPT ![r] = s], old, win, last)
         /\ r \in OpenIn(R) => Taken([R EXCEPT ![r] = s], old, last, R[r].name)
         /\ \A name : Taken(R, old, last, name) => Taken([R EXCEPT ![r] = s], old, last, name)
<1> DEFINE P == [R EXCEPT ![r] = s]
<1>1. /\ \A q \in Reqs \ {r} : P[q] = R[q]
      /\ P[r] = s
  OBVIOUS
<1> HIDE DEF P
<1>2. \A q \in OpenIn(P) : q \in OpenIn(R) /\ q # r /\ P[q] = R[q]
  BY <1>1 DEF OpenIn
<1>3. Unique(P, old, win, last)
  BY <1>2 DEF Unique
<1>4. r \in OpenIn(R) => Taken(P, old, last, R[r].name)
  BY <1>2 DEF Taken, Unique
<1>5. \A name : Taken(R, old, last, name) => Taken(P, old, last, name)
  BY <1>2 DEF Taken
<1> QED
  BY <1>3, <1>4, <1>5, Zenon DEF P

\* A name is put back, whatever the window has under it then.
LEMMA FreeUnique ==
  ASSUME NEW R, NEW old, NEW win, NEW last \in Nat, Unique(R, old, win, last), last <= MaxReqs,
         NEW name, Taken(R, old, last, name), win \in [Names -> Reqs \cup {NoReq}], NEW v,
         MaxReqs \in Nat
  PROVE  Unique(R, Append(old, name), [win EXCEPT ![name] = v], last)
<1> DEFINE s == Append(old, name)
           x == [win EXCEPT ![name] = v]
<1>1. old \in Seq(1..last) /\ name \in 1..last /\ name \in Names
  BY DEF Unique, Taken, Names
<1>2. /\ s \in Seq(1..last) /\ Len(s) = Len(old) + 1 /\ Len(old) \in Nat
      /\ \A i \in 1..Len(old) : s[i] = old[i]
      /\ s[Len(old) + 1] = name
  BY <1>1
<1> HIDE DEF s
<1>3. \A i \in 1..Len(s) : i \in 1..Len(old) \/ i = Len(old) + 1
  BY <1>2
<1>4. \A r \in OpenIn(R) : R[r].name \in Names \ {name}
  BY DEF Unique, Taken, Names
<1>5. \A m \in Names \ {name} : x[m] = win[m]
  BY <1>1
<1> HIDE DEF x
<1>6. ASSUME NEW i \in 1..Len(s), NEW j \in 1..Len(s), s[i] = s[j]
      PROVE  i = j
  <2>1. \A k \in 1..Len(old) : s[k] = old[k] /\ old[k] # name
    BY <1>2 DEF Taken
  <2>2. i \in 1..Len(old) /\ j \in 1..Len(old) => i = j
    BY <1>6, <2>1 DEF Unique
  <2> QED
    BY <1>2, <1>3, <1>6, <2>1, <2>2
<1>7. ASSUME NEW r \in OpenIn(R), NEW i \in 1..Len(s) PROVE s[i] # R[r].name
  <2>1. R[r].name # name /\ \A k \in 1..Len(old) : old[k] # R[r].name
    BY DEF Unique, Taken
  <2> QED
    BY <1>2, <1>3, <2>1
<1>8. Unique(R, s, x, last)
  BY <1>2, <1>4, <1>5, <1>6, <1>7 DEF Unique
<1> QED
  BY <1>8 DEF s, x

\* A request is opened with a name that is in nobody's hands, or without one.
LEMMA OpenUnique ==
  ASSUME NEW R, NEW old, NEW win, NEW last \in Nat, Unique(R, old, win, last), last <= MaxReqs,
         R \in [Reqs -> Request], NEW r \in Reqs, NEW s \in Request, s.phase = "open",
         win \in [Names -> Reqs \cup {NoReq}], MaxReqs \in Nat,
         s.name # NoName => Taken(R, old, last, s.name)
  PROVE  Unique([R EXCEPT ![r] = s], old,
                IF s.name = NoName THEN win ELSE [win EXCEPT ![s.name] = r], last)
<1> DEFINE P == [R EXCEPT ![r] = s]
           x == IF s.name = NoName THEN win ELSE [win EXCEPT ![s.name] = r]
<1>1. P[r] = s /\ \A q \in Reqs \ {r} : P[q] = R[q]
  OBVIOUS
<1> HIDE DEF P
<1>2. \A q \in OpenIn(P) : \/ q = r /\ s.name # NoName
                           \/ q \in OpenIn(R) /\ q # r /\ P[q] = R[q]
  BY <1>1 DEF OpenIn
<1>3. s.name # NoName => x[s.name] = r /\ \A m \in Names \ {s.name} : x[m] = win[m]
  <2>1. s.name # NoName => s.name \in Names
    BY DEF Taken, Names
  <2> QED
    BY <2>1
<1>4. \A q \in OpenIn(R) : R[q].name \in Names
  BY DEF Unique, Names
<1>5. s.name = NoName => x = win
  OBVIOUS
<1> HIDE DEF x
<1>6. ASSUME NEW q \in OpenIn(P)
      PROVE  /\ P[q].name \in 1..last /\ x[P[q].name] = q
             /\ \A i \in 1..Len(old) : old[i] # P[q].name
  BY <1>1, <1>2, <1>3, <1>4, <1>5 DEF Unique, Taken
<1>7. ASSUME NEW q \in OpenIn(P), NEW t \in OpenIn(P), P[q].name = P[t].name
      PROVE  q = t
  BY <1>1, <1>2, <1>7 DEF Unique, Taken
<1>8. Unique(P, old, x, last)
  BY <1>6, <1>7 DEF Unique
<1> QED
  BY <1>8 DEF P, x

-----------------------------------------------------------------------------
(* jQuery.active.                                                          *)

OutstandingIn(R) == {r \in Reqs : R[r].phase = "open" /\ R[r].global}

Counts(q) == IF q.phase = "open" /\ q.global THEN 1 ELSE 0

LEMMA ReqsFinite == IsFiniteSet(Reqs)
BY AjaxAssumption, FS_Interval DEF Reqs

\* Two sets that one element tells apart.
LEMMA OneApart ==
  ASSUME NEW S, IsFiniteSet(S), NEW A \in SUBSET S, NEW B \in SUBSET S, NEW e,
         \A x \in S \ {e} : x \in A <=> x \in B
  PROVE  /\ Cardinality(A) \in Nat /\ Cardinality(B) \in Nat
         /\ Cardinality(B) = Cardinality(A) - (IF e \in A THEN 1 ELSE 0)
                               + (IF e \in B THEN 1 ELSE 0)
<1> DEFINE C == A \ {e}
<1>1. IsFiniteSet(C)
  BY FS_Subset
<1>2. A = (IF e \in A THEN C \cup {e} ELSE C) /\ B = (IF e \in B THEN C \cup {e} ELSE C)
  OBVIOUS
<1>3. e \notin C
  OBVIOUS
<1> HIDE DEF C
<1>4. Cardinality(C) \in Nat /\ Cardinality(C \cup {e}) = Cardinality(C) + 1
  BY <1>1, <1>3, FS_CardinalityType, FS_AddElement
<1>5. Cardinality(A) = Cardinality(C) + (IF e \in A THEN 1 ELSE 0)
  <2>1. CASE e \in A
    BY <1>2, <1>4, <2>1, Zenon
  <2>2. CASE e \notin A
    BY <1>2, <1>4, <2>2
  <2> QED
    BY <2>1, <2>2
<1>6. Cardinality(B) = Cardinality(C) + (IF e \in B THEN 1 ELSE 0)
  <2>1. CASE e \in B
    BY <1>2, <1>4, <2>1
  <2>2. CASE e \notin B
    BY <1>2, <1>4, <2>2
  <2> QED
    BY <2>1, <2>2
<1> QED
  BY <1>4, <1>5, <1>6

\* What a changed request changes in the count.
LEMMA CountIs ==
  ASSUME NEW R \in [Reqs -> Request], NEW r \in Reqs, NEW s \in Request
  PROVE  /\ Cardinality(OutstandingIn(R)) \in Nat
         /\ Cardinality(OutstandingIn([R EXCEPT ![r] = s]))
              = Cardinality(OutstandingIn(R)) - Counts(R[r]) + Counts(s)
<1> DEFINE P == [R EXCEPT ![r] = s]
           A == OutstandingIn(R)
           B == OutstandingIn(P)
<1>1. P[r] = s /\ \A q \in Reqs \ {r} : P[q] = R[q]
  OBVIOUS
<1>2. (r \in A <=> R[r].phase = "open" /\ R[r].global)
      /\ (r \in B <=> s.phase = "open" /\ s.global)
  BY <1>1 DEF OutstandingIn
<1>3. \A q \in Reqs \ {r} : q \in A <=> q \in B
  BY <1>1 DEF OutstandingIn
<1>4. A \in SUBSET Reqs /\ B \in SUBSET Reqs
  BY DEF OutstandingIn
<1> HIDE DEF P, A, B
<1>5. Counts(R[r]) = (IF r \in A THEN 1 ELSE 0) /\ Counts(s) = (IF r \in B THEN 1 ELSE 0)
  BY <1>2, Zenon DEF Counts
<1>6. /\ Cardinality(A) \in Nat /\ Cardinality(B) \in Nat
      /\ Cardinality(B) = Cardinality(A) - (IF r \in A THEN 1 ELSE 0)
                            + (IF r \in B THEN 1 ELSE 0)
  BY <1>3, <1>4, OneApart, ReqsFinite
<1> QED
  BY <1>5, <1>6, Zenon DEF P, A, B

-----------------------------------------------------------------------------
(* A request begins and ends.                                              *)

AjaxInv ==
  /\ reqs \in [Reqs -> Request] /\ started \in 0..MaxReqs /\ lastName \in 0..started
  /\ window \in [Names -> Reqs \cup {NoReq}] /\ active \in Int /\ doubled \in Int
  /\ \A r \in Reqs : r > started => reqs[r].phase = "new"
  /\ \A r \in Reqs : Awaits(reqs[r]) => reqs[r].phase = "open"
  /\ Unique(reqs, oldCallbacks, window, lastName)

\* The step keeps jQuery.active in step with the requests in progress.
Balanced ==
  active' + doubled' - Cardinality(OutstandingIn(reqs'))
    = active + doubled - Cardinality(OutstandingIn(reqs))

LEMMA SettledIs ==
  ASSUME NEW q \in Request, NEW result \in Results
  PROVE  /\ Settled(q, result) \in Request /\ Settled(q, result).phase = "done"
         /\ Settled(q, result).global = q.global
         /\ ~Awaits(Settled(q, result)) /\ Counts(Settled(q, result)) = 0
<1> DEFINE s == Settled(q, result)
           late == q.net = "waiting" /\ q.kind = "script"
<1>1. PICK kind \in Kinds : kind = IF late THEN q.kind ELSE "xhr"
  BY DEF Request, Kinds
<1>2. PICK net \in {"waiting", "over"} : net = IF late THEN q.net ELSE "over"
  OBVIOUS
<1>3. PICK name \in Names \cup {NoName} : name = IF late THEN q.name ELSE NoName
  BY DEF Request
<1>4. NewReq \in Request /\ NewReq.kind = "xhr" /\ NewReq.name = NoName
  BY DEF NewReq, Request, Kinds
<1>5. s = [NewReq EXCEPT !.phase = "done", !.result = result, !.global = q.global,
                         !.kind = kind, !.net = net, !.name = name]
  BY <1>1, <1>2, <1>3, <1>4, Zenon DEF Settled
<1> HIDE DEF s
<1>6. /\ s \in Request /\ s.phase = "done" /\ s.global = q.global
      /\ s.kind = kind /\ s.net = net
  BY <1>4, <1>5, Zenon DEF Request
<1>7. ~Awaits(s)
  BY <1>1, <1>2, <1>6 DEF Awaits
<1>8. Counts(s) = 0
  BY <1>6 DEF Counts
<1> QED
  BY <1>6, <1>7, <1>8 DEF s

\* A request is put into another state.
LEMMA PutTyped ==
  ASSUME AjaxInv, NEW r \in Reqs, NEW s \in Request, s.phase # "new",
         Awaits(s) => s.phase = "open",
         reqs' = [reqs EXCEPT ![r] = s],
         started' \in 0..MaxReqs, started <= started', r <= started'
  PROVE  /\ reqs' \in [Reqs -> Request]
         /\ \A q \in Reqs : q > started' => reqs'[q].phase = "new"
         /\ \A q \in Reqs : Awaits(reqs'[q]) => reqs'[q].phase = "open"
         /\ Cardinality(OutstandingIn(reqs')) \in Int
         /\ Cardinality(OutstandingIn(reqs))
              = Cardinality(OutstandingIn(reqs')) + Counts(reqs[r]) - Counts(s)
<1>1. reqs \in [Reqs -> Request] /\ MaxReqs \in Nat /\ started \in 0..MaxReqs
  BY AjaxAssumption DEF AjaxInv
<1>2. reqs' \in [Reqs -> Request] /\ reqs'[r] = s /\ \A q \in Reqs \ {r} : reqs'[q] = reqs[q]
  BY <1>1
<1>3. \A q \in Reqs : q > started' => reqs'[q].phase = "new"
  BY <1>1, <1>2 DEF AjaxInv, Reqs
<1>4. \A q \in Reqs : Awaits(reqs'[q]) => reqs'[q].phase = "open"
  BY <1>2, Zenon DEF AjaxInv
<1>5. /\ Cardinality(OutstandingIn(reqs)) \in Nat
      /\ Cardinality(OutstandingIn(reqs'))
           = Cardinality(OutstandingIn(reqs)) - Counts(reqs[r]) + Counts(s)
  BY <1>1, CountIs, Zenon
<1>6. Counts(reqs[r]) \in Int /\ Counts(s) \in Int
  BY DEF Counts
<1> QED
  BY <1>2, <1>3, <1>4, <1>5, <1>6

\* done() of an open request.
LEMMA DoneStep ==
  ASSUME AjaxInv, NEW r \in Reqs, reqs[r].phase = "open", NEW result \in Results,
         Done(r, reqs[r], result)
  PROVE  AjaxInv' /\ Balanced
<1> DEFINE q == reqs[r]
           s == Settled(q, result)
<1>1. /\ reqs \in [Reqs -> Request] /\ q \in Request /\ MaxReqs \in Nat
      /\ started \in 0..MaxReqs /\ lastName \in Nat /\ lastName <= MaxReqs
      /\ window \in [Names -> Reqs \cup {NoReq}] /\ active \in Int /\ doubled \in Int
      /\ q.overwritten \in Reqs \cup {NoReq}
  BY AjaxAssumption DEF AjaxInv, Request
<1>2. /\ s \in Request /\ s.phase = "done" /\ ~Awaits(s) /\ Counts(s) = 0
  BY <1>1, SettledIs
<1>3. /\ reqs' = [reqs EXCEPT ![r] = s] /\ started' = started /\ lastName' = lastName
      /\ doubled' = doubled /\ active' = IF q.global THEN active - 1 ELSE active
  BY DEF Done
<1>4. /\ r <= started' /\ started <= started' /\ started' \in 0..MaxReqs
      /\ s.phase # "new" /\ (Awaits(s) => s.phase = "open")
  BY <1>1, <1>2, <1>3 DEF AjaxInv, Reqs
<1> HIDE DEF s
<1>5. /\ reqs' \in [Reqs -> Request]
      /\ \A t \in Reqs : t > started' => reqs'[t].phase = "new"
      /\ \A t \in Reqs : Awaits(reqs'[t]) => reqs'[t].phase = "open"
      /\ Cardinality(OutstandingIn(reqs')) \in Int
      /\ Cardinality(OutstandingIn(reqs))
           = Cardinality(OutstandingIn(reqs')) + Counts(q) - Counts(s)
  BY <1>2, <1>3, <1>4, PutTyped, Zenon
<1>6. Counts(q) = IF q.global THEN 1 ELSE 0
  BY DEF Counts
<1>7. Balanced /\ active' \in Int
  <2>1. CASE q.global
    BY <1>1, <1>2, <1>3, <1>5, <1>6, <2>1 DEF Balanced
  <2>2. CASE ~q.global
    BY <1>1, <1>2, <1>3, <1>5, <1>6, <2>2 DEF Balanced
  <2> QED
    BY <2>1, <2>2
<1>8. Unique(reqs', oldCallbacks, window, lastName)
  BY <1>1, <1>2, <1>3, CloseUnique, Zenon DEF AjaxInv
<1>9. CASE q.name = NoName
  <2>1. oldCallbacks' = oldCallbacks /\ window' = window
    BY <1>9 DEF Done, CleanUp
  <2> QED
    BY <1>1, <1>3, <1>5, <1>7, <1>8, <2>1, SMTT(20) DEF AjaxInv
<1>10. CASE q.name # NoName
  <2>1. /\ oldCallbacks' = Append(oldCallbacks, q.name)
        /\ window' = [window EXCEPT ![q.name] = q.overwritten]
    BY <1>10 DEF Done, CleanUp
  <2>2. r \in OpenIn(reqs)
    BY <1>10 DEF OpenIn
  <2>3. Taken(reqs', oldCallbacks, lastName, q.name)
    BY <1>1, <1>2, <1>3, <2>2, CloseUnique, Zenon DEF AjaxInv
  <2>4. Unique(reqs', oldCallbacks', window', lastName)
    BY <1>1, <1>8, <2>1, <2>3, FreeUnique, Zenon
  <2>5. window' \in [Names -> Reqs \cup {NoReq}]
    BY <1>1, <2>1, Zenon
  <2> QED
    BY <1>1, <1>3, <1>5, <1>7, <2>4, <2>5, SMTT(20) DEF AjaxInv
<1> QED
  BY <1>9, <1>10

\* ajax() has the settings q of the next request, with a name of its own or none.
Calls(r, q, free, last) ==
  /\ started < MaxReqs /\ r = started + 1 /\ started' = r /\ lastName' = last
  /\ q \in Request /\ q.phase = "new" /\ last \in 0..r
  /\ Unique(reqs, free, window, last)
  /\ q.name # NoName => Taken(reqs, free, last, q.name)

LEMMA CallEnds ==
  ASSUME AjaxInv, NEW r, NEW q, NEW free, NEW last, Calls(r, q, free, last),
         NEW result \in Results,
         AjaxEnds(r, q, free, result) \/ (result = "error" /\ AjaxSendAborts(r, q, free))
  PROVE  AjaxInv' /\ Balanced
<1> DEFINE s == Settled(q, result)
<1>1. /\ reqs \in [Reqs -> Request] /\ MaxReqs \in Nat /\ started \in 0..MaxReqs
      /\ window \in [Names -> Reqs \cup {NoReq}] /\ active \in Int /\ doubled \in Int
  BY AjaxAssumption DEF AjaxInv
<1>2. /\ r \in Reqs /\ q \in Request /\ last \in Nat /\ last <= MaxReqs /\ last \in 0..r
      /\ q.overwritten \in Reqs \cup {NoReq} /\ r > started
      /\ Unique(reqs, free, window, last) /\ started' = r /\ lastName' = last
  BY <1>1 DEF Calls, Request, Reqs
<1>3. /\ s \in Request /\ s.phase = "done" /\ ~Awaits(s) /\ Counts(s) = 0
  BY <1>2, SettledIs
<1>4. reqs' = [reqs EXCEPT ![r] = s] /\ CleanUp(q, free, window)
  BY DEF AjaxEnds, AjaxSendAborts
<1>5. /\ r <= started' /\ started <= started' /\ started' \in 0..MaxReqs
      /\ s.phase # "new" /\ (Awaits(s) => s.phase = "open")
  BY <1>1, <1>2, <1>3 DEF Reqs
<1> HIDE DEF s
<1>6. /\ reqs' \in [Reqs -> Request]
      /\ \A t \in Reqs : t > started' => reqs'[t].phase = "new"
      /\ \A t \in Reqs : Awaits(reqs'[t]) => reqs'[t].phase = "open"
      /\ Cardinality(OutstandingIn(reqs')) \in Int
      /\ Cardinality(OutstandingIn(reqs))
           = Cardinality(OutstandingIn(reqs')) + Counts(reqs[r]) - Counts(s)
  BY <1>2, <1>3, <1>4, <1>5, PutTyped, Zenon
<1>7. reqs[r].phase = "new"
  BY <1>2 DEF AjaxInv
<1>8. Counts(reqs[r]) = 0
  BY <1>7 DEF Counts
<1>9. Balanced /\ active' \in Int /\ doubled' \in Int
  BY <1>1, <1>3, <1>6, <1>8 DEF Balanced, AjaxEnds, AjaxSendAborts
<1>10. /\ Unique(reqs', free, window, last)
       /\ q.name # NoName => Taken(reqs', free, last, q.name)
  BY <1>1, <1>2, <1>3, <1>4, CloseUnique, Zenon DEF Calls
<1>11. CASE q.name = NoName
  <2>1. oldCallbacks' = free /\ window' = window
    BY <1>4, <1>11 DEF CleanUp
  <2> QED
    BY <1>1, <1>2, <1>5, <1>6, <1>9, <1>10, <2>1 DEF AjaxInv
<1>12. CASE q.name # NoName
  <2>1. /\ oldCallbacks' = Append(free, q.name)
        /\ window' = [window EXCEPT ![q.name] = q.overwritten]
    BY <1>4, <1>12 DEF CleanUp
  <2>2. Unique(reqs', oldCallbacks', window', last)
    BY <1>1, <1>2, <1>10, <1>12, <2>1, FreeUnique, Zenon
  <2>3. window' \in [Names -> Reqs \cup {NoReq}]
    BY <1>1, <1>2, <2>1, Zenon
  <2> QED
    BY <1>1, <1>2, <1>5, <1>6, <1>9, <2>2, <2>3 DEF AjaxInv
<1> QED
  BY <1>11, <1>12

LEMMA CallSent ==
  ASSUME AjaxInv, NEW r, NEW q, NEW free, NEW last, Calls(r, q, free, last),
         AjaxSent(r, q, free)
  PROVE  AjaxInv' /\ Balanced
<1> DEFINE s == Sent(q)
<1>1. /\ reqs \in [Reqs -> Request] /\ MaxReqs \in Nat /\ started \in 0..MaxReqs
      /\ window \in [Names -> Reqs \cup {NoReq}] /\ active \in Int /\ doubled \in Int
  BY AjaxAssumption DEF AjaxInv
<1>2. /\ r \in Reqs /\ q \in Request /\ last \in Nat /\ last <= MaxReqs /\ last \in 0..r
      /\ r > started /\ Unique(reqs, free, window, last) /\ started' = r /\ lastName' = last
  BY <1>1 DEF Calls, Reqs
<1>3. /\ s \in Request /\ s.phase = "open" /\ s.global = q.global /\ s.name = q.name
  BY <1>2, Zenon DEF Sent, Request
<1>4. /\ reqs' = [reqs EXCEPT ![r] = s] /\ doubled' = doubled
      /\ active' = (IF q.global THEN active + 1 ELSE active) /\ oldCallbacks' = free
      /\ window' = IF s.name = NoName THEN window ELSE [window EXCEPT ![s.name] = r]
  BY <1>3 DEF AjaxSent
<1>5. /\ r <= started' /\ started <= started' /\ started' \in 0..MaxReqs
      /\ s.phase # "new" /\ (Awaits(s) => s.phase = "open")
  BY <1>1, <1>2, <1>3 DEF Reqs
<1> HIDE DEF s
<1>6. /\ reqs' \in [Reqs -> Request]
      /\ \A t \in Reqs : t > started' => reqs'[t].phase = "new"
      /\ \A t \in Reqs : Awaits(reqs'[t]) => reqs'[t].phase = "open"
      /\ Cardinality(OutstandingIn(reqs')) \in Int
      /\ Cardinality(OutstandingIn(reqs))
           = Cardinality(OutstandingIn(reqs')) + Counts(reqs[r]) - Counts(s)
  BY <1>2, <1>3, <1>4, <1>5, PutTyped, Zenon
<1>7. reqs[r].phase = "new"
  BY <1>2 DEF AjaxInv
<1>8. Counts(reqs[r]) = 0 /\ Counts(s) = IF q.global THEN 1 ELSE 0
  BY <1>3, <1>7 DEF Counts
<1>9. Balanced /\ active' \in Int /\ doubled' \in Int
  <2>1. CASE q.global
    BY <1>1, <1>4, <1>6, <1>8, <2>1, SMTT(20) DEF Balanced
  <2>2. CASE ~q.global
    BY <1>1, <1>4, <1>6, <1>8, <2>2 DEF Balanced
  <2> QED
    BY <2>1, <2>2, SMTT(20)
<1>10. s.name # NoName => Taken(reqs, free, last, s.name)
  BY <1>3 DEF Calls
<1>11. Unique(reqs', oldCallbacks', window', last)
  BY <1>1, <1>2, <1>3, <1>4, <1>10, OpenUnique, Zenon
<1>12. window' \in [Names -> Reqs \cup {NoReq}]
  BY <1>1, <1>2, <1>4, Zenon
<1> QED
  BY <1>1, <1>2, <1>5, <1>6, <1>9, <1>11, <1>12 DEF AjaxInv

LEMMA SettingsIs ==
  ASSUME AjaxInv, NEW kind \in Kinds, NEW global \in BOOLEAN, NEW timeout \in BOOLEAN,
         NEW name \in Names \cup {NoName}
  PROVE  LET q == Settings(kind, global, timeout, name)
         IN  q \in Request /\ q.phase = "new" /\ q.name = name
             /\ q.global = FiresGlobals(kind, global)
<1>1. NewReq \in Request /\ NewReq.phase = "new"
  BY DEF NewReq, Request, Kinds
<1>2. PICK g \in BOOLEAN : g = FiresGlobals(kind, global)
  BY Zenon DEF FiresGlobals
<1>3. PICK o \in Reqs \cup {NoReq} : o = IF name = NoName THEN NoReq ELSE window[name]
  BY DEF AjaxInv
<1> DEFINE q == [NewReq EXCEPT !.kind = kind, !.global = g, !.timeout = timeout,
                               !.name = name, !.overwritten = o]
<1>4. Settings(kind, global, timeout, name) = q
  BY <1>2, <1>3, Zenon DEF Settings
<1>5. q \in Request /\ q.phase = "new" /\ q.name = name /\ q.global = g
  BY <1>1, Zenon DEF Request
<1> HIDE DEF q
<1> QED
  BY <1>2, <1>4, <1>5, Zenon

LEMMA AjaxStep ==
  ASSUME AjaxInv, NEW kind \in Kinds, NEW global \in BOOLEAN, NEW timeout \in BOOLEAN,
         Ajax(kind, global, timeout)
  PROVE  AjaxInv' /\ Balanced
<1> DEFINE r    == started + 1
           name == IF kind # "xhr" THEN JsonpCallback ELSE NoName
           free == IF kind # "xhr" THEN NamesAfter ELSE oldCallbacks
           last == IF name > lastName THEN name ELSE lastName
           q    == Settings(kind, global, timeout, name)
<1>1. /\ started < MaxReqs /\ started' = r /\ lastName' = last
      /\ \/ \E result \in Results : AjaxEnds(r, q, free, result)
         \/ AjaxSendAborts(r, q, free)
         \/ AjaxSent(r, q, free)
  BY DEF Ajax
<1>2. /\ MaxReqs \in Nat /\ started \in 0..MaxReqs /\ lastName \in Nat /\ lastName <= started
      /\ Unique(reqs, oldCallbacks, window, lastName)
  BY AjaxAssumption DEF AjaxInv
<1>3. /\ Unique(reqs, free, window, last) /\ last \in 0..r /\ name \in Names \cup {NoName}
      /\ name # NoName => Taken(reqs, free, last, name)
  <2>1. CASE kind = "xhr"
    BY <1>2, <2>1 DEF NoName
  <2>2. CASE kind # "xhr"
    <3>1. last = IF JsonpCallback > lastName THEN JsonpCallback ELSE lastName
      BY <2>2, Zenon
    <3>2. /\ Unique(reqs, NamesAfter, window, last)
          /\ Taken(reqs, NamesAfter, last, JsonpCallback)
          /\ last \in Nat /\ last <= lastName + 1
      BY <1>2, <3>1, JsonpTakes
    <3>3. free = NamesAfter /\ name = JsonpCallback
      BY <2>2, SMTT(20)
    <3> HIDE DEF free, name, last
    <3>4. last \in 0..r /\ name \in 1..last /\ last <= MaxReqs
      BY <1>1, <1>2, <3>2, <3>3 DEF Taken
    <3> QED
      BY <1>2, <3>2, <3>3, <3>4 DEF Names
  <2> QED
    BY <2>1, <2>2
<1> HIDE DEF free, name, last
<1>4. q \in Request /\ q.phase = "new" /\ q.name = name
  BY <1>3, SettingsIs, Zenon
<1> HIDE DEF q
<1>5. Calls(r, q, free, last)
  BY <1>1, <1>3, <1>4 DEF Calls
<1> HIDE DEF r
<1>6. ASSUME NEW result \in Results, AjaxEnds(r, q, free, result)
      PROVE  AjaxInv' /\ Balanced
  BY <1>5, <1>6, CallEnds
<1>7. CASE AjaxSendAborts(r, q, free)
  <2>1. "error" \in Results
    BY DEF Results
  <2> QED
    BY <1>5, <1>7, <2>1, CallEnds
<1>8. CASE AjaxSent(r, q, free)
  BY <1>5, <1>8, CallSent
<1> QED
  BY <1>1, <1>6, <1>7, <1>8

\* Steps that leave every request as open, as named and as global as it was.
Alike(R, P) ==
  /\ P \in [Reqs -> Request]
  /\ \A r \in Reqs : P[r].phase = R[r].phase /\ P[r].name = R[r].name
                     /\ P[r].global = R[r].global /\ (Awaits(P[r]) => Awaits(R[r]))

LEMMA AlikeStep ==
  ASSUME AjaxInv, Alike(reqs, reqs'),
         UNCHANGED <<started, active, oldCallbacks, lastName, window, doubled>>
  PROVE  AjaxInv' /\ Balanced
<1>1. OpenIn(reqs') = OpenIn(reqs) /\ OutstandingIn(reqs') = OutstandingIn(reqs)
  BY Zenon DEF OpenIn, OutstandingIn, Alike
<1>2. \A r \in OpenIn(reqs) : reqs'[r].name = reqs[r].name
  BY DEF OpenIn, Alike
<1>3. Unique(reqs', oldCallbacks', window', lastName')
  <2>1. oldCallbacks' = oldCallbacks /\ window' = window /\ lastName' = lastName
    OBVIOUS
  <2>2. Unique(reqs, oldCallbacks, window, lastName)
    BY DEF AjaxInv
  <2> QED
    BY <1>1, <1>2, <2>1, <2>2 DEF Unique
<1>4. Balanced
  BY <1>1 DEF Balanced
<1> QED
  BY <1>3, <1>4, Zenon DEF AjaxInv, Alike

LEMMA ScriptAlike ==
  ASSUME AjaxInv, NEW r \in Reqs, ScriptRuns(r) \/ ScriptLost(r)
  PROVE  Alike(reqs, reqs')
<1>1. reqs \in [Reqs -> Request]
  BY DEF AjaxInv
<1>2. CASE ScriptLost(r)
  <2>1. reqs' = [reqs EXCEPT ![r].net = "over"]
    BY <1>2 DEF ScriptLost
  <2>2. Alike(reqs, reqs')
    BY <1>1, <2>1 DEF Alike, Request, Awaits
  <2> QED
    BY <2>2
<1>3. CASE ScriptRuns(r)
  <2> DEFINE i == IF window[reqs[r].name] = NoReq THEN r ELSE window[reqs[r].name]
             P == [reqs EXCEPT ![r].net = "ran"]
  <2>1. Alike(reqs, P)
    BY <1>1 DEF Alike, Request, Awaits
  <2>2. reqs' = [P EXCEPT ![i].container = IF window[reqs[r].name] = NoReq THEN @ ELSE r]
    BY <1>3 DEF ScriptRuns
  <2> HIDE DEF P
  <2>3. Alike(P, reqs')
    <3>1. P \in [Reqs -> Request]
      BY <2>1 DEF Alike
    <3>2. CASE window[reqs[r].name] = NoReq
      BY <2>2, <3>1, <3>2 DEF Alike, Request, Awaits
    <3>3. CASE window[reqs[r].name] # NoReq
      <4>1. PICK j : j = window[reqs[r].name]
        OBVIOUS
      <4>2. reqs' = [P EXCEPT ![j].container = r]
        BY <2>2, <3>3, <4>1
      <4>3. ASSUME NEW q \in Request
            PROVE  LET s == [q EXCEPT !.container = r]
                   IN  /\ s \in Request /\ s.phase = q.phase /\ s.name = q.name
                       /\ s.global = q.global /\ s.net = q.net /\ s.kind = q.kind
        BY DEF Request
      <4>4. \A t \in Reqs : reqs'[t] = IF t = j THEN [P[t] EXCEPT !.container = r] ELSE P[t]
        BY <3>1, <4>2
      <4>5. ASSUME NEW t \in Reqs
            PROVE  /\ reqs'[t] \in Request
                   /\ reqs'[t].phase = P[t].phase /\ reqs'[t].name = P[t].name
                   /\ reqs'[t].global = P[t].global /\ (Awaits(reqs'[t]) => Awaits(P[t]))
        <5>1. P[t] \in Request
          BY <3>1
        <5>2. CASE t = j
          <6>1. reqs'[t] = [P[t] EXCEPT !.container = r]
            BY <4>4, <5>2
          <6> QED
            BY <4>3, <5>1, <6>1, Zenon DEF Awaits
        <5>3. CASE t # j
          BY <4>4, <5>1, <5>3, Zenon
        <5> QED
          BY <5>2, <5>3
      <4>6. reqs' \in [Reqs -> Request]
        BY <3>1, <4>2, <4>5, Zenon
      <4> QED
        BY <4>5, <4>6, Zenon DEF Alike
    <3> QED
      BY <3>2, <3>3
  <2> QED
    BY <2>1, <2>3, Zenon DEF Alike
<1> QED
  BY <1>2, <1>3

LEMMA ScriptStep ==
  ASSUME AjaxInv, NEW r \in Reqs, ScriptRuns(r) \/ ScriptLost(r)
  PROVE  AjaxInv' /\ Balanced
<1>1. Alike(reqs, reqs')
  BY ScriptAlike
<1> QED
  BY <1>1, AlikeStep DEF ScriptRuns, ScriptLost

LEMMA AjaxNextStep ==
  ASSUME AjaxInv, AjaxNext
  PROVE  AjaxInv' /\ Balanced
<1>1. ASSUME NEW kind \in Kinds, NEW global \in BOOLEAN, NEW timeout \in BOOLEAN,
             Ajax(kind, global, timeout)
      PROVE  AjaxInv' /\ Balanced
  BY <1>1, AjaxStep, Zenon
<1>2. ASSUME NEW r \in Reqs, NEW result \in Results, reqs[r].phase = "open",
             Done(r, reqs[r], result)
      PROVE  AjaxInv' /\ Balanced
  BY <1>2, DoneStep
<1>3. ASSUME NEW r \in Reqs, Abort(r) \/ Timeout(r) \/ Answer(r) \/ ScriptLoaded(r)
      PROVE  AjaxInv' /\ Balanced
  <2>1. "error" \in Results /\ "success" \in Results
    BY DEF Results
  <2>2. reqs[r].phase = "open"
    BY <1>3 DEF AjaxInv, Abort, Timeout, Answer, ScriptLoaded, NotDone
  <2>3. \E result \in Results : Done(r, reqs[r], result)
    BY <1>3, <2>1, Zenon DEF Abort, Timeout, Answer, ScriptLoaded
  <2> QED
    BY <1>2, <2>2, <2>3
<1>4. ASSUME NEW r \in Reqs, ScriptRuns(r) \/ ScriptLost(r)
      PROVE  AjaxInv' /\ Balanced
  BY <1>4, ScriptStep
<1> QED
  BY <1>1, <1>3, <1>4, Zenon DEF AjaxNext

\* A request in progress goes on with the name and the events it was called with.
LEMMA AjaxSteady ==
  ASSUME AjaxInv, AjaxNext, NEW r \in Reqs, r <= started, reqs'[r].phase = "open"
  PROVE  /\ reqs[r].phase = "open" /\ reqs'[r].name = reqs[r].name
         /\ reqs'[r].global = reqs[r].global
<1> DEFINE Goal == /\ reqs[r].phase = "open" /\ reqs'[r].name = reqs[r].name
                   /\ reqs'[r].global = reqs[r].global
<1>1. reqs \in [Reqs -> Request] /\ started \in Nat
  BY DEF AjaxInv
<1>2. ASSUME NEW t \in Reqs, NEW s, reqs' = [reqs EXCEPT ![t] = s], t # r
      PROVE  Goal
  BY <1>1, <1>2
<1>3. ASSUME NEW kind \in Kinds, NEW global \in BOOLEAN, NEW timeout \in BOOLEAN,
             Ajax(kind, global, timeout)
      PROVE  Goal
  <2>1. started + 1 \in Reqs /\ started + 1 # r
    BY <1>1, <1>3, AjaxAssumption DEF Ajax, Reqs
  <2>2. \E s : reqs' = [reqs EXCEPT ![started + 1] = s]
    BY <1>3, Zenon DEF Ajax, AjaxEnds, AjaxSendAborts, AjaxSent
  <2> QED
    BY <1>2, <2>1, <2>2
<1>4. ASSUME NEW t \in Reqs, Abort(t) \/ Timeout(t) \/ Answer(t) \/ ScriptLoaded(t)
      PROVE  Goal
  <2>1. PICK result \in Results : reqs' = [reqs EXCEPT ![t] = Settled(reqs[t], result)]
    BY <1>4, Zenon DEF Abort, Timeout, Answer, ScriptLoaded, Done, Results
  <2>2. CASE t = r
    <3>1. reqs'[r] = Settled(reqs[r], result) /\ reqs[r] \in Request
      BY <1>1, <2>1, <2>2
    <3>2. reqs'[r].phase = "done"
      BY <3>1, SettledIs
    <3> QED
      BY <3>2
  <2> QED
    BY <1>2, <2>1, <2>2
<1>5. ASSUME NEW t \in Reqs, ScriptRuns(t) \/ ScriptLost(t)
      PROVE  Goal
  <2>1. Alike(reqs, reqs')
    BY <1>5, ScriptAlike
  <2> QED
    BY <2>1 DEF Alike
<1> QED
  BY <1>3, <1>4, <1>5, Zenon DEF AjaxNext

-----------------------------------------------------------------------------
(* Uploads.                                                                *)

UploadPhases == {"new", "waiting", "submitted", "processed", "given up"}

UploadState ==
  [phase : UploadPhases, counted : BOOLEAN, timeout : BOOLEAN, timer : BOOLEAN,
   aborted : BOOLEAN, checking : BOOLEAN, listening : BOOLEAN, requeued : BOOLEAN,
   domCheckCount : Int]

CountedIn(U) == {u \in Uploads : U[u].counted /\ U[u].phase # "processed"}

Weight(x) == IF x.counted /\ x.phase # "processed" THEN 1 ELSE 0

\* A request that is to start an upload counts while it is open, and uses no name.
KeepAliveRight ==
  /\ keepAlive \subseteq [req : Reqs, global : BOOLEAN, timeout : BOOLEAN]
  /\ \A k \in keepAlive : /\ k.req <= started
                          /\ reqs[k.req].phase = "open"
                               => reqs[k.req].global /\ reqs[k.req].name = NoName

\* The uploads that are not begun do not count.
UploadsRight ==
  /\ uploads \in [Uploads -> UploadState] /\ begun \in 0..MaxUploads
  /\ \A u \in Uploads : u > begun => ~uploads[u].counted

FormInv == AjaxInv /\ UploadsRight /\ KeepAliveRight /\ ActiveAccounted

\* What a changed upload changes in the count.
LEMMA WeightIs ==
  ASSUME NEW U \in [Uploads -> UploadState], NEW u \in Uploads, NEW x \in UploadState
  PROVE  /\ Cardinality(CountedIn(U)) \in Nat
         /\ Cardinality(CountedIn([U EXCEPT ![u] = x]))
              = Cardinality(CountedIn(U)) - Weight(U[u]) + Weight(x)
<1> DEFINE P == [U EXCEPT ![u] = x]
           A == CountedIn(U)
           B == CountedIn(P)
<1>1. P[u] = x /\ \A v \in Uploads \ {u} : P[v] = U[v]
  OBVIOUS
<1>2. (u \in A <=> U[u].counted /\ U[u].phase # "processed")
      /\ (u \in B <=> x.counted /\ x.phase # "processed")
  BY <1>1 DEF CountedIn
<1>3. \A v \in Uploads \ {u} : v \in A <=> v \in B
  BY <1>1 DEF CountedIn
<1>4. A \in SUBSET Uploads /\ B \in SUBSET Uploads
  BY DEF CountedIn
<1>5. IsFiniteSet(Uploads)
  BY FormAssumption, FS_Interval DEF Uploads
<1> HIDE DEF P, A, B
<1>6. Weight(U[u]) = (IF u \in A THEN 1 ELSE 0) /\ Weight(x) = (IF u \in B THEN 1 ELSE 0)
  BY <1>2, Zenon DEF Weight
<1>7. /\ Cardinality(A) \in Nat /\ Cardinality(B) \in Nat
      /\ Cardinality(B) = Cardinality(A) - (IF u \in A THEN 1 ELSE 0)
                            + (IF u \in B THEN 1 ELSE 0)
  BY <1>3, <1>4, <1>5, OneApart
<1> QED
  BY <1>6, <1>7, Zenon DEF P, A, B

LEMMA UploadPhasesAre ==
  /\ "new" \in UploadPhases /\ "waiting" \in UploadPhases /\ "submitted" \in UploadPhases
  /\ "processed" \in UploadPhases
BY Zenon DEF UploadPhases

\* What fileUpload leaves of an upload weighs what it adds to jQuery.active.
LEMMA OutcomesWeigh ==
  ASSUME NEW global \in BOOLEAN, NEW timeout \in BOOLEAN, NEW o \in Outcomes(global, timeout)
  PROVE  o.x \in UploadState /\ o.d = Weight(o.x) /\ o.d \in Int
<1> DEFINE new == [NewUpload EXCEPT !.phase = "waiting", !.counted = global, !.timeout = timeout]
           one == IF global THEN 1 ELSE 0
           givenUp == "given up"
           cancelled == [new EXCEPT !.phase = givenUp, !.counted = FALSE]
           stopped == [new EXCEPT !.phase = givenUp, !.aborted = TRUE]
<1>0. givenUp \in UploadPhases /\ givenUp # "processed"
  BY Zenon DEF UploadPhases
<1>1. NewUpload \in UploadState
  BY FormAssumption, UploadPhasesAre DEF NewUpload, UploadState
<1>2. new \in UploadState /\ new.phase = "waiting" /\ new.counted = global
  BY <1>1, UploadPhasesAre, Zenon DEF UploadState
<1>3. o = [x |-> cancelled, d |-> 0] \/ o = [x |-> stopped, d |-> one]
      \/ o = [x |-> new, d |-> one] \/ o = [x |-> Submitted(new), d |-> one]
  BY Zenon DEF Outcomes
<1> HIDE DEF new, givenUp
<1>4. cancelled \in UploadState /\ ~cancelled.counted
  BY <1>0, <1>2, Zenon DEF UploadState
<1>5. stopped \in UploadState /\ stopped.counted = global /\ stopped.phase # "processed"
  BY <1>0, <1>2, Zenon DEF UploadState
<1>6. /\ Submitted(new) \in UploadState /\ Submitted(new).counted = global
      /\ Submitted(new).phase # "processed"
  BY <1>2, UploadPhasesAre, Zenon DEF UploadState, Submitted
<1>7. one \in Int
  OBVIOUS
<1> HIDE DEF cancelled, stopped
<1>8. CASE o = [x |-> cancelled, d |-> 0]
  BY <1>4, <1>8 DEF Weight
<1>9. ASSUME NEW x \in UploadState, x.counted = global, x.phase # "processed",
             o = [x |-> x, d |-> one]
      PROVE  o.x \in UploadState /\ o.d = Weight(o.x) /\ o.d \in Int
  BY <1>7, <1>9, Zenon DEF Weight
<1> HIDE DEF one
<1>10. new.phase # "processed"
  BY <1>2
<1> QED
  BY <1>2, <1>3, <1>5, <1>6, <1>8, <1>9, <1>10, Zenon

\* The rest of the invariant when the requests are as they were.
LEMMA ActiveOnly ==
  ASSUME AjaxInv, active' \in Int,
         UNCHANGED <<reqs, started, oldCallbacks, lastName, window, doubled>>
  PROVE  AjaxInv'
<1>1. Unique(reqs', oldCallbacks', window', lastName')
  BY DEF AjaxInv
<1> QED
  BY <1>1, Zenon DEF AjaxInv

\* What ActiveAccounted says with the counts named.
LEMMA AccountedIs ==
  /\ ActiveAccounted <=> active = Cardinality(OutstandingIn(reqs))
                                    + Cardinality(CountedIn(uploads)) - doubled
  /\ ActiveAccounted' <=> active' = Cardinality(OutstandingIn(reqs'))
                                      + Cardinality(CountedIn(uploads')) - doubled'
BY DEF ActiveAccounted, Outstanding, UploadsCounted, OutstandingIn, CountedIn

LEMMA WeightsAre == \A x : Weight(x) \in {0, 1}
BY DEF Weight

\* A step of one upload.
Weighed(u, x, d) ==
  /\ u \in Uploads /\ x \in UploadState /\ x.counted = uploads[u].counted
  /\ d = Weight(x) - Weight(uploads[u])

LEMMA UploadStep ==
  ASSUME FormInv, NEW u, NEW x, NEW d, Weighed(u, x, d), Upload(u, x, d)
  PROVE  FormInv'
<1>1. /\ uploads' = [uploads EXCEPT ![u] = x] /\ active' = active + d
      /\ UNCHANGED <<begun, keepAlive, reqs, started, oldCallbacks, lastName, window, doubled>>
  BY DEF Upload
<1>2. /\ u \in Uploads /\ x \in UploadState /\ x.counted = uploads[u].counted
      /\ d = Weight(x) - Weight(uploads[u])
  BY DEF Weighed
<1>3. AjaxInv /\ active \in Int /\ doubled \in Int /\ uploads \in [Uploads -> UploadState]
  BY DEF FormInv, AjaxInv, UploadsRight
<1>4. Weight(x) \in Int /\ Weight(uploads[u]) \in Int
  BY WeightsAre
<1>5. AjaxInv'
  BY <1>1, <1>2, <1>3, <1>4, ActiveOnly
<1>6. /\ Cardinality(CountedIn(uploads)) \in Nat
      /\ Cardinality(CountedIn(uploads'))
           = Cardinality(CountedIn(uploads)) - Weight(uploads[u]) + Weight(x)
  BY <1>1, <1>2, <1>3, WeightIs, Zenon
<1>7. Cardinality(OutstandingIn(reqs)) \in Nat
  <2>1. OutstandingIn(reqs) \subseteq Reqs
    BY DEF OutstandingIn
  <2> QED
    BY <2>1, ReqsFinite, FS_Subset, FS_CardinalityType, SMTT(20)
<1>8. ActiveAccounted'
  <2>1. active = Cardinality(OutstandingIn(reqs)) + Cardinality(CountedIn(uploads)) - doubled
    BY AccountedIs DEF FormInv
  <2>2. active' = Cardinality(OutstandingIn(reqs')) + Cardinality(CountedIn(uploads')) - doubled'
    BY <1>1, <1>2, <1>3, <1>4, <1>6, <1>7, <2>1
  <2> QED
    BY <2>2, AccountedIs
<1>9. /\ uploads' \in [Uploads -> UploadState]
      /\ \A v \in Uploads : uploads'[v].counted = uploads[v].counted
  BY <1>1, <1>2, <1>3
<1>10. UploadsRight'
  BY <1>1, <1>9 DEF FormInv, UploadsRight
<1>11. KeepAliveRight'
  BY <1>1 DEF FormInv, KeepAliveRight
<1> QED
  BY <1>5, <1>8, <1>10, <1>11 DEF FormInv

\* What the steps make of an upload.
LEMMA UploadKinds ==
  ASSUME NEW x \in UploadState
  PROVE  /\ [x EXCEPT !.timer = FALSE] \in UploadState
         /\ [x EXCEPT !.timer = FALSE].counted = x.counted
         /\ [x EXCEPT !.timer = FALSE].phase = x.phase
         /\ [x EXCEPT !.requeued = FALSE] \in UploadState
         /\ [x EXCEPT !.requeued = FALSE].counted = x.counted
         /\ [x EXCEPT !.requeued = FALSE].phase = x.phase
         /\ [x EXCEPT !.checking = FALSE, !.timer = FALSE] \in UploadState
         /\ [x EXCEPT !.checking = FALSE, !.timer = FALSE].counted = x.counted
         /\ [x EXCEPT !.checking = FALSE, !.timer = FALSE].phase = x.phase
         /\ Checked(x) \in UploadState /\ Checked(x).counted = x.counted
         /\ Checked(x).phase = x.phase
         /\ Aborted(x) \in UploadState /\ Aborted(x).counted = x.counted
         /\ Aborted(x).phase = x.phase
         /\ Submitted(x) \in UploadState /\ Submitted(x).counted = x.counted
         /\ Submitted(x).phase = "submitted"
         /\ Processed(x) \in UploadState /\ Processed(x).counted = x.counted
         /\ Processed(x).phase = "processed"
         /\ [x EXCEPT !.domCheckCount = @ - 1, !.requeued = TRUE, !.listening = FALSE]
              \in UploadState
         /\ [x EXCEPT !.domCheckCount = @ - 1, !.requeued = TRUE, !.listening = FALSE].counted
              = x.counted
         /\ [x EXCEPT !.domCheckCount = @ - 1, !.requeued = TRUE, !.listening = FALSE].phase
              = x.phase
<1>1. /\ [x EXCEPT !.timer = FALSE] \in UploadState
      /\ [x EXCEPT !.timer = FALSE].counted = x.counted
      /\ [x EXCEPT !.timer = FALSE].phase = x.phase
  BY Zenon DEF UploadState
<1>2. /\ [x EXCEPT !.requeued = FALSE] \in UploadState
      /\ [x EXCEPT !.requeued = FALSE].counted = x.counted
      /\ [x EXCEPT !.requeued = FALSE].phase = x.phase
  BY Zenon DEF UploadState
<1>3. /\ [x EXCEPT !.checking = FALSE, !.timer = FALSE] \in UploadState
      /\ [x EXCEPT !.checking = FALSE, !.timer = FALSE].counted = x.counted
      /\ [x EXCEPT !.checking = FALSE, !.timer = FALSE].phase = x.phase
  BY Zenon DEF UploadState
<1>4. Checked(x) \in UploadState /\ Checked(x).counted = x.counted /\ Checked(x).phase = x.phase
  BY Zenon DEF UploadState, Checked
<1>5. Aborted(x) \in UploadState /\ Aborted(x).counted = x.counted /\ Aborted(x).phase = x.phase
  BY Zenon DEF UploadState, Aborted
<1>6. /\ Submitted(x) \in UploadState /\ Submitted(x).counted = x.counted
      /\ Submitted(x).phase = "submitted"
  BY UploadPhasesAre, Zenon DEF UploadState, Submitted
<1>7. /\ Processed(x) \in UploadState /\ Processed(x).counted = x.counted
      /\ Processed(x).phase = "processed"
  BY UploadPhasesAre, Zenon DEF UploadState, Processed
<1>8. LET y == [x EXCEPT !.domCheckCount = @ - 1, !.requeued = TRUE, !.listening = FALSE]
      IN  y \in UploadState /\ y.counted = x.counted /\ y.phase = x.phase
  <2>1. PICK n \in Int : n = x.domCheckCount - 1
    BY DEF UploadState
  <2> QED
    BY <2>1, Zenon DEF UploadState
<1> QED
  BY <1>1, <1>2, <1>3, <1>4, <1>5, <1>6, <1>7, <1>8, Zenon

\* A step that leaves an upload counted, or not, and processed, or not.
LEMMA SameWeight ==
  ASSUME NEW u \in Uploads, NEW x \in UploadState, x.counted = uploads[u].counted,
         x.phase = "processed" <=> uploads[u].phase = "processed"
  PROVE  Weighed(u, x, 0)
<1>1. Weight(x) = Weight(uploads[u])
  BY Zenon DEF Weight
<1>2. Weight(x) \in Int
  BY WeightsAre
<1>3. Weight(x) - Weight(uploads[u]) = 0
  BY <1>1, <1>2
<1> QED
  BY <1>3 DEF Weighed

\* An upload in the state that a callback has left before it calls cb.
Carried(u, x) ==
  /\ u \in Uploads /\ x \in UploadState /\ x.counted = uploads[u].counted
  /\ x.phase = uploads[u].phase

LEMMA CarriedWeighs ==
  ASSUME NEW u, NEW x, Carried(u, x)
  PROVE  Weighed(u, x, 0) /\ Weighed(u, Aborted(x), 0)
<1>1. u \in Uploads /\ x \in UploadState /\ x.counted = uploads[u].counted
      /\ x.phase = uploads[u].phase
  BY DEF Carried
<1>2. /\ Aborted(x) \in UploadState /\ Aborted(x).counted = uploads[u].counted
      /\ Aborted(x).phase = uploads[u].phase
  BY <1>1, UploadKinds, Zenon
<1>3. Weighed(u, x, 0)
  BY <1>1, SameWeight
<1>4. Weighed(u, Aborted(x), 0)
  BY <1>1, <1>2, SameWeight
<1> QED
  BY <1>3, <1>4

LEMMA CbAbortsStep ==
  ASSUME FormInv, NEW u, NEW x, Carried(u, x), CbAborts(u, x)
  PROVE  FormInv'
<1>1. PICK y \in {x, Aborted(x)} : Upload(u, y, 0)
  BY Zenon DEF CbAborts
<1>2. Weighed(u, x, 0) /\ Weighed(u, Aborted(x), 0)
  BY CarriedWeighs
<1> QED
  BY <1>1, <1>2, UploadStep

LEMMA CbDocumentStep ==
  ASSUME FormInv, NEW u, NEW x, Carried(u, x), NEW document, CbDocument(u, x, document)
  PROVE  FormInv'
<1> DEFINE y == [x EXCEPT !.domCheckCount = @ - 1, !.requeued = TRUE, !.listening = FALSE]
<1>1. \/ Upload(u, x, 0) \/ Upload(u, Aborted(x), 0) \/ Upload(u, y, 0)
      \/ ~CbIgnores(x) /\ Upload(u, Processed(x), IF x.counted THEN -1 ELSE 0)
  BY Zenon DEF CbDocument
<1>2. Weighed(u, x, 0) /\ Weighed(u, Aborted(x), 0)
  BY CarriedWeighs
<1>3. y \in UploadState /\ y.counted = x.counted /\ y.phase = x.phase
  BY UploadKinds, Zenon DEF Carried
<1> HIDE DEF y
<1>4. Weighed(u, y, 0)
  BY <1>3, SameWeight DEF Carried
<1>5. ASSUME ~CbIgnores(x)
      PROVE  Weighed(u, Processed(x), IF x.counted THEN -1 ELSE 0)
  <2>1. /\ Processed(x) \in UploadState /\ Processed(x).counted = x.counted
        /\ Processed(x).phase = "processed"
    BY UploadKinds, Zenon DEF Carried
  <2>2. x.phase # "processed" /\ uploads[u].counted = x.counted /\ uploads[u].phase = x.phase
    BY <1>5, Zenon DEF CbIgnores, Carried
  <2>3. Weight(Processed(x)) = 0
    BY <2>1 DEF Weight
  <2>4. Weight(uploads[u]) = IF x.counted THEN 1 ELSE 0
    BY <2>2, Zenon DEF Weight
  <2>5. Weight(Processed(x)) - Weight(uploads[u]) = IF x.counted THEN -1 ELSE 0
    <3>1. CASE x.counted
      BY <2>3, <2>4, <3>1
    <3>2. CASE ~x.counted
      <4>1. (IF x.counted THEN -1 ELSE 0) = 0 /\ Weight(uploads[u]) = 0
        BY <2>4, <3>2, Zenon
      <4> QED
        BY <2>3, <4>1
    <3> QED
      BY <3>1, <3>2
  <2> QED
    BY <2>1, <2>2, <2>5, Zenon DEF Weighed, Carried
<1> QED
  BY <1>1, <1>2, <1>4, <1>5, UploadStep, Zenon

LEMMA UploadsStep ==
  ASSUME FormInv, NEW u \in Uploads,
         \/ DoSubmit(u) \/ AbortUpload(u) \/ UploadTimeout(u)
         \/ IframeLoaded(u) \/ Requeued(u) \/ CheckState(u)
  PROVE  FormInv'
<1> DEFINE x == uploads[u]
           unset == [x EXCEPT !.timer = FALSE]
           taken == [x EXCEPT !.requeued = FALSE]
           seen == [x EXCEPT !.checking = FALSE, !.timer = FALSE]
<1>1. x \in UploadState
  BY DEF FormInv, UploadsRight
<1>2. Carried(u, x) /\ Carried(u, unset) /\ Carried(u, taken) /\ Carried(u, seen)
  BY <1>1, UploadKinds, Zenon DEF Carried
<1>3. CASE DoSubmit(u)
  <2>1. x.phase # "processed" /\ Upload(u, Submitted(x), 0)
    BY <1>3 DEF DoSubmit
  <2>2. /\ Submitted(x) \in UploadState /\ Submitted(x).counted = x.counted
        /\ Submitted(x).phase # "processed"
    BY <1>1, UploadKinds, Zenon
  <2>3. Weighed(u, Submitted(x), 0)
    BY <2>1, <2>2, SameWeight
  <2> QED
    BY <2>1, <2>3, UploadStep
<1>4. CASE AbortUpload(u)
  <2>1. Weighed(u, Aborted(x), 0)
    BY <1>1, SameWeight, UploadKinds, Zenon
  <2> QED
    BY <1>4, <2>1, UploadStep DEF AbortUpload
<1>5. CASE UploadTimeout(u)
  BY <1>2, <1>5, CbAbortsStep, Zenon DEF UploadTimeout
<1>6. CASE IframeLoaded(u)
  BY <1>2, <1>6, CbDocumentStep, Zenon DEF IframeLoaded
<1>7. CASE Requeued(u)
  BY <1>2, <1>7, CbDocumentStep, Zenon DEF Requeued
<1>8. CASE CheckState(u)
  <2>1. Weighed(u, Checked(x), 0)
    BY <1>1, SameWeight, UploadKinds, Zenon
  <2>2. Upload(u, Checked(x), 0) \/ CbAborts(u, seen)
    BY <1>8 DEF CheckState
  <2> QED
    BY <1>2, <2>1, <2>2, CbAbortsStep, UploadStep, Zenon
<1> QED
  BY <1>3, <1>4, <1>5, <1>6, <1>7, <1>8

\* fileUpload begins an upload.
LEMMA FileUploadStep ==
  ASSUME UploadsRight, NEW x \in UploadState, FileUpload(x)
  PROVE  /\ UploadsRight'
         /\ Cardinality(CountedIn(uploads)) \in Nat
         /\ Cardinality(CountedIn(uploads')) = Cardinality(CountedIn(uploads)) + Weight(x)
<1> DEFINE u == begun + 1
<1>1. /\ uploads \in [Uploads -> UploadState] /\ begun \in 0..MaxUploads /\ MaxUploads \in Nat
      /\ begun < MaxUploads /\ begun' = u /\ uploads' = [uploads EXCEPT ![u] = x]
  BY FormAssumption DEF UploadsRight, FileUpload
<1>2. u \in Uploads /\ u \in 0..MaxUploads /\ u > begun
  BY <1>1 DEF Uploads
<1>3. \A v \in Uploads : v > u => v > begun /\ v # u
  BY <1>1 DEF Uploads
<1> HIDE DEF u
<1>4. UploadsRight'
  BY <1>1, <1>2, <1>3 DEF UploadsRight
<1>5. Weight(uploads[u]) = 0
  BY <1>2, Zenon DEF Weight, UploadsRight
<1>6. Weight(x) \in Int
  BY WeightsAre
<1>7. /\ Cardinality(CountedIn(uploads)) \in Nat
      /\ Cardinality(CountedIn(uploads'))
           = Cardinality(CountedIn(uploads)) - Weight(uploads[u]) + Weight(x)
  BY <1>1, <1>2, WeightIs, Zenon
<1> QED
  BY <1>4, <1>5, <1>6, <1>7

LEMMA OutstandingType ==
  ASSUME NEW R
  PROVE  Cardinality(OutstandingIn(R)) \in Nat
<1>1. OutstandingIn(R) \subseteq Reqs
  BY DEF OutstandingIn
<1> QED
  BY <1>1, ReqsFinite, FS_Subset, FS_CardinalityType

LEMMA AjaxSubmitStep ==
  ASSUME FormInv, NEW global \in BOOLEAN, NEW timeout \in BOOLEAN, AjaxSubmit(global, timeout)
  PROVE  FormInv'
<1>1. PICK o \in Outcomes(global, timeout) : FileUpload(o.x) /\ active' = active + o.d
  BY DEF AjaxSubmit
<1>2. o.x \in UploadState /\ o.d = Weight(o.x) /\ o.d \in Int
  BY OutcomesWeigh
<1>3. UNCHANGED <<keepAlive, reqs, started, oldCallbacks, lastName, window, doubled>>
  BY DEF AjaxSubmit
<1>4. AjaxInv /\ active \in Int /\ doubled \in Int /\ UploadsRight /\ KeepAliveRight
  BY DEF FormInv, AjaxInv
<1>5. /\ UploadsRight' /\ Cardinality(CountedIn(uploads)) \in Nat
      /\ Cardinality(CountedIn(uploads')) = Cardinality(CountedIn(uploads)) + o.d
  BY <1>1, <1>2, <1>4, FileUploadStep
<1>6. AjaxInv'
  BY <1>1, <1>2, <1>3, <1>4, ActiveOnly
<1>7. KeepAliveRight'
  BY <1>3, <1>4 DEF KeepAliveRight
<1>8. ActiveAccounted'
  <2>1. active = Cardinality(OutstandingIn(reqs)) + Cardinality(CountedIn(uploads)) - doubled
    BY AccountedIs DEF FormInv
  <2>2. Cardinality(OutstandingIn(reqs)) \in Nat
    BY OutstandingType
  <2>3. active' = Cardinality(OutstandingIn(reqs')) + Cardinality(CountedIn(uploads')) - doubled'
    BY <1>1, <1>2, <1>3, <1>4, <1>5, <2>1, <2>2
  <2> QED
    BY <2>3, AccountedIs
<1> QED
  BY <1>5, <1>6, <1>7, <1>8 DEF FormInv

\* A step of the requests alone keeps the account.
LEMMA BalancedAccounts ==
  ASSUME FormInv, AjaxInv', Balanced, uploads' = uploads
  PROVE  ActiveAccounted'
<1>1. active = Cardinality(OutstandingIn(reqs)) + Cardinality(CountedIn(uploads)) - doubled
  BY AccountedIs DEF FormInv
<1>2. /\ Cardinality(OutstandingIn(reqs)) \in Nat /\ Cardinality(OutstandingIn(reqs')) \in Nat
      /\ Cardinality(CountedIn(uploads)) \in Nat
  <2>1. CountedIn(uploads) \subseteq Uploads /\ IsFiniteSet(Uploads)
    BY FormAssumption, FS_Interval DEF CountedIn, Uploads
  <2> QED
    BY <2>1, OutstandingType, FS_Subset, FS_CardinalityType
<1>3. active \in Int /\ doubled \in Int /\ active' \in Int /\ doubled' \in Int
  BY DEF FormInv, AjaxInv
<1>4. active' = Cardinality(OutstandingIn(reqs')) + Cardinality(CountedIn(uploads')) - doubled'
  BY <1>1, <1>2, <1>3 DEF Balanced
<1> QED
  BY <1>4, AccountedIs

LEMMA RequestsBesideStep ==
  ASSUME FormInv, RequestsBeside
  PROVE  FormInv'
<1>1. /\ AjaxNext /\ keepAlive' = {k \in keepAlive : reqs'[k.req].phase = "open"}
      /\ uploads' = uploads /\ begun' = begun
  BY DEF RequestsBeside
<1>2. AjaxInv /\ UploadsRight /\ KeepAliveRight
  BY DEF FormInv
<1>3. AjaxInv' /\ Balanced
  BY <1>1, <1>2, AjaxNextStep
<1>4. ActiveAccounted'
  BY <1>1, <1>3, BalancedAccounts
<1>5. UploadsRight'
  BY <1>1, <1>2 DEF UploadsRight
<1>6. started <= started' /\ started \in Nat /\ started' \in Nat
  <2>1. started \in Nat /\ started' \in Nat
    BY <1>2, <1>3 DEF AjaxInv
  <2>2. started' = started \/ started' = started + 1
    BY <1>1, Zenon DEF AjaxNext, Ajax, Abort, Timeout, Answer, ScriptRuns, ScriptLoaded,
                       ScriptLost, Done
  <2> QED
    BY <2>1, <2>2
<1>7. KeepAliveRight'
  <2>1. keepAlive' \subseteq [req : Reqs, global : BOOLEAN, timeout : BOOLEAN]
    BY <1>1, <1>2 DEF KeepAliveRight
  <2>2. ASSUME NEW k \in keepAlive'
        PROVE  /\ k.req <= started'
               /\ reqs'[k.req].phase = "open"
                    => reqs'[k.req].global /\ reqs'[k.req].name = NoName
    <3>1. k \in keepAlive /\ reqs'[k.req].phase = "open" /\ k.req \in Reqs /\ k.req <= started
      BY <1>1, <1>2, <2>1 DEF KeepAliveRight
    <3>2. /\ reqs[k.req].phase = "open" /\ reqs'[k.req].name = reqs[k.req].name
          /\ reqs'[k.req].global = reqs[k.req].global
      BY <1>1, <1>2, <3>1, AjaxSteady
    <3>3. k.req <= started'
      BY <1>6, <3>1 DEF Reqs
    <3> QED
      BY <1>2, <3>1, <3>2, <3>3, Zenon DEF KeepAliveRight
  <2> QED
    BY <2>1, <2>2 DEF KeepAliveRight
<1> QED
  BY <1>3, <1>4, <1>5, <1>7 DEF FormInv

\* ajaxSubmit calls ajax() as any other code of the page.
LEMMA KeepAliveCalls ==
  ASSUME FormInv, NEW global \in BOOLEAN, NEW timeout \in BOOLEAN,
         AjaxSubmitKeepAlive(global, timeout)
  PROVE  LET q == Settings("xhr", TRUE, FALSE, NoName)
         IN  /\ Calls(started + 1, q, oldCallbacks, lastName)
             /\ q \in Request /\ q.global /\ q.name = NoName
<1> DEFINE q == Settings("xhr", TRUE, FALSE, NoName)
<1>1. AjaxInv /\ lastName \in 0..started /\ started \in 0..MaxReqs /\ MaxReqs \in Nat
      /\ Unique(reqs, oldCallbacks, window, lastName)
  BY AjaxAssumption DEF FormInv, AjaxInv
<1>2. started < MaxReqs /\ started' = started + 1 /\ lastName' = lastName
  BY DEF AjaxSubmitKeepAlive
<1>3. "xhr" \in Kinds /\ NoName \in Names \cup {NoName} /\ TRUE \in BOOLEAN /\ FALSE \in BOOLEAN
  BY DEF Kinds
<1>4. /\ q \in Request /\ q.phase = "new" /\ q.name = NoName
      /\ q.global = FiresGlobals("xhr", TRUE)
  BY <1>1, <1>3, SettingsIs, Zenon
<1>5. FiresGlobals("xhr", TRUE)
  BY DEF FiresGlobals, Inspected
<1> HIDE DEF q
<1>6. lastName \in 0..(started + 1)
  BY <1>1
<1>7. Calls(started + 1, q, oldCallbacks, lastName)
  BY <1>1, <1>2, <1>4, <1>6, Zenon DEF Calls
<1> QED
  BY <1>4, <1>5, <1>7, Zenon DEF q

LEMMA KeepAliveStep ==
  ASSUME FormInv, NEW global \in BOOLEAN, NEW timeout \in BOOLEAN,
         AjaxSubmitKeepAlive(global, timeout)
  PROVE  FormInv'
<1> DEFINE r == started + 1
           q == Settings("xhr", TRUE, FALSE, NoName)
           k == [req |-> r, global |-> global, timeout |-> timeout]
<1>1. Calls(r, q, oldCallbacks, lastName) /\ q \in Request /\ q.global /\ q.name = NoName
  BY KeepAliveCalls, Zenon
<1>2. /\ started < MaxReqs /\ started' = r /\ uploads' = uploads /\ begun' = begun
      /\ \/ AjaxEnds(r, q, oldCallbacks, "error") /\ keepAlive' = keepAlive
         \/ AjaxSendAborts(r, q, oldCallbacks) /\ keepAlive' = keepAlive
         \/ AjaxSent(r, q, oldCallbacks) /\ keepAlive' = keepAlive \cup {k}
  BY Zenon DEF AjaxSubmitKeepAlive
<1>3. /\ AjaxInv /\ UploadsRight /\ KeepAliveRight /\ reqs \in [Reqs -> Request]
      /\ started \in 0..MaxReqs /\ MaxReqs \in Nat
  BY AjaxAssumption DEF FormInv, AjaxInv
<1> HIDE DEF q
<1>4. r \in Reqs /\ started <= r /\ r \in Int /\ \A s \in Reqs : s <= started => s <= r /\ s # r
  BY <1>2, <1>3 DEF Reqs
<1> HIDE DEF r, k
<1>5. AjaxInv' /\ Balanced
  <2>1. "error" \in Results
    BY DEF Results
  <2>2. CASE AjaxEnds(r, q, oldCallbacks, "error") \/ AjaxSendAborts(r, q, oldCallbacks)
    BY <1>1, <1>3, <2>1, <2>2, CallEnds
  <2>3. CASE AjaxSent(r, q, oldCallbacks)
    BY <1>1, <1>3, <2>3, CallSent
  <2> QED
    BY <1>2, <2>2, <2>3
<1>6. ActiveAccounted'
  BY <1>2, <1>5, BalancedAccounts
<1>7. UploadsRight'
  BY <1>2, <1>3 DEF UploadsRight
<1>8. ASSUME NEW s, reqs' = [reqs EXCEPT ![r] = s], NEW m \in keepAlive
      PROVE  /\ m.req <= started'
             /\ reqs'[m.req].phase = "open"
                  => reqs'[m.req].global /\ reqs'[m.req].name = NoName
  <2>1. m.req \in Reqs /\ m.req <= started
    BY <1>3 DEF KeepAliveRight
  <2>2. reqs'[m.req] = reqs[m.req] /\ m.req <= started'
    BY <1>2, <1>3, <1>4, <1>8, <2>1, Zenon
  <2> QED
    BY <1>3, <2>2, Zenon DEF KeepAliveRight
<1>9. CASE keepAlive' = keepAlive
  <2>1. PICK s : reqs' = [reqs EXCEPT ![r] = s]
    BY <1>2, Zenon DEF AjaxEnds, AjaxSendAborts, AjaxSent
  <2>2. KeepAliveRight'
    BY <1>3, <1>8, <1>9, <2>1, Zenon DEF KeepAliveRight
  <2> QED
    BY <1>5, <1>6, <1>7, <2>2 DEF FormInv
<1>10. CASE AjaxSent(r, q, oldCallbacks) /\ keepAlive' = keepAlive \cup {k}
  <2>1. reqs' = [reqs EXCEPT ![r] = Sent(q)]
    BY <1>10 DEF AjaxSent
  <2>2. Sent(q).global = q.global /\ Sent(q).name = q.name
    BY <1>1, Zenon DEF Sent, Request
  <2>3. /\ k \in [req : Reqs, global : BOOLEAN, timeout : BOOLEAN] /\ k.req = r
    BY <1>4 DEF k
  <2>4. reqs'[k.req].global /\ reqs'[k.req].name = NoName /\ k.req <= started'
    <3>1. reqs'[k.req] = Sent(q) /\ k.req <= started'
      BY <1>2, <1>3, <1>4, <2>1, <2>3
    <3> QED
      BY <1>1, <2>2, <3>1, Zenon
  <2>5. KeepAliveRight'
    BY <1>3, <1>8, <1>10, <2>1, <2>3, <2>4, Zenon DEF KeepAliveRight
  <2> QED
    BY <1>5, <1>6, <1>7, <2>5 DEF FormInv
<1> QED
  BY <1>2, <1>9, <1>10

\* The answer of a closeKeepAlive request: done(), with an upload begun inside it.
LEMMA KeepAliveAnsweredStep ==
  ASSUME FormInv, NEW k \in keepAlive, KeepAliveAnswered(k)
  PROVE  FormInv'
<1> DEFINE r == k.req
           s == Settled(reqs[r], "success")
<1>1. /\ AjaxInv /\ UploadsRight /\ KeepAliveRight /\ reqs \in [Reqs -> Request]
      /\ started \in 0..MaxReqs /\ MaxReqs \in Nat /\ active \in Int /\ doubled \in Int
      /\ lastName \in Nat /\ Unique(reqs, oldCallbacks, window, lastName)
  BY AjaxAssumption DEF FormInv, AjaxInv
<1>2. r \in Reqs /\ r <= started /\ k.global \in BOOLEAN /\ k.timeout \in BOOLEAN
  BY <1>1 DEF KeepAliveRight
<1>3. /\ reqs[r].phase = "open" /\ keepAlive' = keepAlive \ {k}
      /\ reqs' = [reqs EXCEPT ![r] = s]
      /\ UNCHANGED <<started, oldCallbacks, lastName, window, doubled>>
  BY DEF KeepAliveAnswered, NotDone
<1>4. reqs[r].global
  BY <1>1, <1>3 DEF KeepAliveRight
<1>5. s \in Request /\ s.phase = "done" /\ ~Awaits(s) /\ Counts(s) = 0
  <2>1. reqs[r] \in Request /\ "success" \in Results
    BY <1>1, <1>2 DEF Results
  <2> QED
    BY <2>1, SettledIs
<1> HIDE DEF s, r
<1>6. Counts(reqs[r]) = 1
  BY <1>3, <1>4, Zenon DEF Counts
<1>7. /\ s.phase # "new" /\ (Awaits(s) => s.phase = "open") /\ started' \in 0..MaxReqs
      /\ started <= started' /\ r <= started'
  BY <1>1, <1>2, <1>3, <1>5
<1>8. /\ reqs' \in [Reqs -> Request]
      /\ \A t \in Reqs : t > started' => reqs'[t].phase = "new"
      /\ \A t \in Reqs : Awaits(reqs'[t]) => reqs'[t].phase = "open"
      /\ Cardinality(OutstandingIn(reqs')) \in Int
      /\ Cardinality(OutstandingIn(reqs))
           = Cardinality(OutstandingIn(reqs')) + Counts(reqs[r]) - Counts(s)
  BY <1>1, <1>2, <1>3, <1>5, <1>7, PutTyped, Zenon
<1>9. Unique(reqs', oldCallbacks', window', lastName')
  <2>1. s.phase # "open"
    BY <1>5
  <2>2. Unique([reqs EXCEPT ![r] = s], oldCallbacks, window, lastName)
    BY <1>1, <1>2, <1>5, <2>1, CloseUnique, Zenon
  <2> QED
    BY <1>3, <2>2
<1>10. active' \in Int => AjaxInv'
  BY <1>1, <1>3, <1>8, <1>9, Zenon DEF AjaxInv
<1>11. KeepAliveRight'
  <2>1. \A m \in keepAlive' : m \in keepAlive /\ m.req \in Reqs
    BY <1>1, <1>3 DEF KeepAliveRight
  <2>2. ASSUME NEW m \in keepAlive'
        PROVE  /\ m.req <= started'
               /\ reqs'[m.req].phase = "open"
                    => reqs'[m.req].global /\ reqs'[m.req].name = NoName
    <3>1. m \in keepAlive /\ m.req \in Reqs
      BY <2>1
    <3>2. CASE m.req = r
      BY <1>1, <1>3, <1>5, <3>1, <3>2 DEF KeepAliveRight
    <3>3. CASE m.req # r
      <4>1. reqs'[m.req] = reqs[m.req]
        BY <1>1, <1>3, <3>1, <3>3
      <4> QED
        BY <1>1, <1>3, <3>1, <4>1, Zenon DEF KeepAliveRight
    <3> QED
      BY <3>2, <3>3
  <2>3. keepAlive' \subseteq [req : Reqs, global : BOOLEAN, timeout : BOOLEAN]
    BY <1>1, <1>3 DEF KeepAliveRight
  <2> QED
    BY <2>2, <2>3 DEF KeepAliveRight
<1>12. /\ active = Cardinality(OutstandingIn(reqs)) + Cardinality(CountedIn(uploads)) - doubled
       /\ Cardinality(OutstandingIn(reqs)) = Cardinality(OutstandingIn(reqs')) + 1
  BY <1>5, <1>6, <1>8, AccountedIs DEF FormInv
<1>13. ASSUME UploadsRight', NEW d \in Int, active' = active + d - 1,
              Cardinality(CountedIn(uploads)) \in Nat,
              Cardinality(CountedIn(uploads')) = Cardinality(CountedIn(uploads)) + d
       PROVE  FormInv'
  <2>1. active' \in Int
    BY <1>1, <1>13
  <2>2. active' = Cardinality(OutstandingIn(reqs')) + Cardinality(CountedIn(uploads')) - doubled'
    <3> DEFINE a == Cardinality(OutstandingIn(reqs'))
               b == Cardinality(CountedIn(uploads))
               c == Cardinality(CountedIn(uploads'))
    <3>1. a \in Int /\ b \in Int /\ doubled \in Int /\ doubled' = doubled
      BY <1>1, <1>3, <1>8, <1>13
    <3>2. active = a + 1 + b - doubled /\ c = b + d /\ active' = active + d - 1
      BY <1>12, <1>13
    <3> HIDE DEF a, b, c
    <3>3. active' = a + c - doubled'
      BY <3>1, <3>2
    <3> QED
      BY <3>3, Zenon DEF a, c
  <2>3. ActiveAccounted'
    BY <2>2, AccountedIs
  <2> QED
    BY <1>10, <1>11, <1>13, <2>1, <2>3 DEF FormInv
<1>14. ASSUME NEW o \in Outcomes(k.global, k.timeout), FileUpload(o.x),
              active' = active + o.d - 1
       PROVE  FormInv'
  <2>1. o.x \in UploadState /\ o.d = Weight(o.x) /\ o.d \in Int
    BY <1>2, OutcomesWeigh
  <2>2. /\ UploadsRight' /\ Cardinality(CountedIn(uploads)) \in Nat
        /\ Cardinality(CountedIn(uploads')) = Cardinality(CountedIn(uploads)) + o.d
    BY <1>1, <1>14, <2>1, FileUploadStep
  <2> QED
    BY <1>13, <1>14, <2>1, <2>2
<1>15. CASE active' = active - 1 /\ uploads' = uploads /\ begun' = begun
  <2>1. UploadsRight'
    BY <1>1, <1>15 DEF UploadsRight
  <2>2. Cardinality(CountedIn(uploads)) \in Nat
    <3>1. CountedIn(uploads) \subseteq Uploads /\ IsFiniteSet(Uploads)
      BY FormAssumption, FS_Interval DEF CountedIn, Uploads
    <3> QED
      BY <3>1, FS_Subset, FS_CardinalityType
  <2>3. /\ active' = active + 0 - 1
        /\ Cardinality(CountedIn(uploads')) = Cardinality(CountedIn(uploads)) + 0
    BY <1>1, <1>15, <2>2
  <2> QED
    BY <1>13, <2>1, <2>2, <2>3
<1> QED
  BY <1>14, <1>15, Zenon DEF KeepAliveAnswered

-----------------------------------------------------------------------------
(* The requests and the uploads of a page.                                 *)

FormSpec == AjaxInit /\ FormInit /\ [][FormNext]_<<ajaxVars, formVars>>

LEMMA FormInitInv == AjaxInit /\ FormInit => FormInv
<1> SUFFICES ASSUME AjaxInit, FormInit PROVE FormInv
  OBVIOUS
<1>1. NewReq \in Request /\ NewReq.phase = "new" /\ ~Awaits(NewReq)
  BY DEF NewReq, Request, Kinds, Awaits
<1>2. reqs \in [Reqs -> Request] /\ \A r \in Reqs : reqs[r].phase = "new" /\ ~Awaits(reqs[r])
  BY <1>1 DEF AjaxInit
<1>3. OpenIn(reqs) = {} /\ OutstandingIn(reqs) = {}
  BY <1>2 DEF OpenIn, OutstandingIn
<1>4. Unique(reqs, oldCallbacks, window, lastName)
  BY <1>3 DEF Unique, AjaxInit
<1>5. AjaxInv
  BY <1>2, <1>4, AjaxAssumption DEF AjaxInv, AjaxInit, NoReq
<1>6. NewUpload \in UploadState /\ ~NewUpload.counted
  BY FormAssumption, UploadPhasesAre DEF NewUpload, UploadState
<1>7. UploadsRight
  BY <1>6, FormAssumption DEF UploadsRight, FormInit
<1>8. CountedIn(uploads) = {}
  BY <1>6 DEF CountedIn, FormInit
<1>9. ActiveAccounted
  <2>1. Cardinality(OutstandingIn(reqs)) = 0 /\ Cardinality(CountedIn(uploads)) = 0
    BY <1>3, <1>8, FS_EmptySet
  <2> QED
    BY <2>1, AccountedIs DEF AjaxInit
<1>10. KeepAliveRight
  BY DEF KeepAliveRight, FormInit
<1> QED
  BY <1>5, <1>7, <1>9, <1>10 DEF FormInv

LEMMA FormStep == FormInv /\ [FormNext]_<<ajaxVars, formVars>> => FormInv'
<1> SUFFICES ASSUME FormInv, [FormNext]_<<ajaxVars, formVars>> PROVE FormInv'
  OBVIOUS
<1>1. ASSUME NEW global \in BOOLEAN, NEW timeout \in BOOLEAN, AjaxSubmit(global, timeout)
      PROVE  FormInv'
  BY <1>1, AjaxSubmitStep
<1>2. ASSUME NEW global \in BOOLEAN, NEW timeout \in BOOLEAN,
             AjaxSubmitKeepAlive(global, timeout)
      PROVE  FormInv'
  BY <1>2, KeepAliveStep
<1>3. ASSUME NEW k \in keepAlive, KeepAliveAnswered(k) PROVE FormInv'
  BY <1>3, KeepAliveAnsweredStep
<1>4. CASE RequestsBeside
  BY <1>4, RequestsBesideStep
<1>5. ASSUME NEW u \in Uploads,
             \/ DoSubmit(u) \/ AbortUpload(u) \/ UploadTimeout(u)
             \/ IframeLoaded(u) \/ Requeued(u) \/ CheckState(u)
      PROVE  FormInv'
  BY <1>5, UploadsStep
<1>6. CASE UNCHANGED <<ajaxVars, formVars>>
  <2>1. /\ UNCHANGED <<reqs, started, active, oldCallbacks, lastName, window, doubled>>
        /\ UNCHANGED <<uploads, begun, keepAlive>>
    BY <1>6 DEF ajaxVars, formVars
  <2>2. AjaxInv'
    BY <2>1, ActiveOnly DEF FormInv, AjaxInv
  <2>3. UploadsRight' /\ KeepAliveRight'
    BY <2>1, Zenon DEF FormInv, UploadsRight, KeepAliveRight
  <2>4. ActiveAccounted'
    BY <2>1, AccountedIs DEF FormInv
  <2> QED
    BY <2>2, <2>3, <2>4 DEF FormInv
<1> QED
  BY <1>1, <1>2, <1>3, <1>4, <1>5, <1>6, Zenon DEF FormNext

\* A JSONP callback name serves one request at a time (jsonpCallback and the clean-up
\* of the jsonp prefilter of jQuery), whatever the number of requests and uploads,
\* and however they end.
THEOREM SpecNamesUnique == FormSpec => []NamesUnique
<1>1. FormInv => NamesUnique
  BY DEF FormInv, AjaxInv, Unique, OpenIn, NamesUnique
<1> QED
  BY <1>1, FormInitInv, FormStep, PTL DEF FormSpec

\* jQuery.active is the number of the requests and uploads in progress that fire
\* global events, less the requests that were aborted in ajaxSend (ajax() and done()
\* of jQuery, fileUpload() and cb() of its form plugin), whatever their number.
THEOREM SpecActiveAccounted == FormSpec => []ActiveAccounted
<1>1. FormInv => ActiveAccounted
  BY DEF FormInv
<1> QED
  BY <1>1, FormInitInv, FormStep, PTL DEF FormSpec
=============================================================================
