---------------------- MODULE CassandraDeliveryProofs ----------------------
(***************************************************************************)
(* The numbers of a user's messages over Cassandra, for any messages and   *)
(* any number of faults, expiries and restarts (NumbersShared and          *)
(* NumberedKept), and the cached users of its channel (CacheRight).        *)
(***************************************************************************)
EXTENDS CassandraDelivery, FiniteSetTheorems, WellFoundedInduction, TLAPS

\* Questions on the way to a message's number.
Ask == {"GetMaxSeq", "GetChannelUsers"}

Done == {numbered[i].msg : i \in DOMAIN numbered}

Save(e) == Query("SaveMessage", e.msg, e.seq, 0)

\* Shapes, and no number is higher than the count of numbers given.
Counted ==
  /\ numbered \in Seq([msg : Messages, seq : Nat])
  /\ \A i \in DOMAIN numbered : 1 <= numbered[i].seq /\ numbered[i].seq <= i
  /\ Cardinality(Done) = Len(numbered)
  /\ max_seq \in Int /\ -1 <= max_seq /\ max_seq <= Len(numbered)
  /\ \A a \in answers : a.seq \in Nat /\ a.seq <= Len(numbered)
  /\ message \in [Seqs -> Messages \cup {NoMsg}]
  /\ published \subseteq Messages /\ lost \subseteq DOMAIN numbered

\* A message is numbered once, and until then asked about in one place.
Once ==
  /\ \A i, j \in DOMAIN numbered : numbered[i].msg = numbered[j].msg => i = j
  /\ \A i \in DOMAIN numbered : numbered[i].msg \in published
  /\ \A q \in queries : q.kind \in Ask =>
       q.msg \in published /\ \A i \in DOMAIN numbered : numbered[i].msg # q.msg
  /\ \A a \in answers : a.query.kind \in Ask =>
       a.query.msg \in published /\ \A i \in DOMAIN numbered : numbered[i].msg # a.query.msg
  /\ \A q, r \in queries : q.kind \in Ask /\ r.kind \in Ask /\ q.msg = r.msg => q = r
  /\ \A a, b \in answers :
       a.query.kind \in Ask /\ b.query.kind \in Ask /\ a.query.msg = b.query.msg => a = b
  /\ \A q \in queries, a \in answers :
       q.kind \in Ask /\ a.query.kind \in Ask => q.msg # a.query.msg

\* A save that waits is the save of a numbered message that is not lost.
Saving ==
  \A q \in queries : q.kind = "SaveMessage" =>
    \E i \in DOMAIN numbered : i \notin lost /\ q = Save(numbered[i])

\* A row of the table is that of a numbered message whose save is over.
Saved ==
  \A s \in Seqs : message[s] # NoMsg =>
    \E i \in DOMAIN numbered :
      numbered[i].msg = message[s] /\ numbered[i].seq = s /\ Save(numbered[i]) \notin queries

\* The counter, an answer, or else the table knows of every number in use.
Known ==
  /\ max_seq = -1 => \A q \in queries : q.kind # "SaveMessage"
  /\ \A i \in DOMAIN numbered :
       i \notin lost /\ max_seq # -1 => numbered[i].seq <= max_seq
  /\ \A a \in answers : a.query.kind = "GetMaxSeq" /\ a.ok =>
       \A i \in DOMAIN numbered :
         i \notin lost => numbered[i].seq <= a.seq \/ numbered[i].seq <= max_seq

IInv == Counted /\ Once /\ Saving /\ Saved /\ Known /\ NumbersShared /\ NumberedKept
-----------------------------------------------------------------------------
(* Facts about the data.                                                   *)

\* A set of naturals with a bound has a greatest element.
LEMMA MaxIs ==
  ASSUME NEW n \in Nat, NEW S \in SUBSET (0..n), S # {}
  PROVE  Max(S) \in S /\ \A y \in S : y <= Max(S)
<1> DEFINE Back == {d \in 0..n : n - d \in S}
<1>1. Back \in SUBSET Nat /\ Back # {}
  <2>1. PICK x \in S : TRUE
    BY Zenon
  <2>2. n - x \in 0..n /\ n - (n - x) = x
    OBVIOUS
  <2>3. n - x \in Back /\ Back \subseteq 0..n
    BY <2>1, <2>2
  <2> HIDE DEF Back
  <2> QED
    BY <2>3
<1>2. \E d \in Back : \A e \in Back : ~(<<e, d>> \in OpToRel(<, Nat))
  BY <1>1, NatLessThanWellFounded, WFMin, Zenon
<1>3. \A d, e \in Nat : e < d => <<e, d>> \in OpToRel(<, Nat)
  BY DEF OpToRel
<1>4. PICK d \in Back : \A e \in Back : ~(e < d)
  BY <1>1, <1>2, <1>3, Zenon
<1>5. d \in 0..n /\ n - d \in S
  BY <1>4
<1>6. ASSUME NEW y \in S
      PROVE  n - d >= y
  <2>1. n - y \in 0..n /\ n - (n - y) = y
    OBVIOUS
  <2>2. n - y \in Back
    BY <2>1
  <2>3. ~(n - y < d)
    BY <1>4, <2>2
  <2> QED
    BY <1>5, <2>3
<1>7. \E x \in S : \A y \in S : x >= y
  BY <1>5, <1>6
<1>8. Max(S) \in S /\ \A y \in S : Max(S) >= y
  BY <1>7, Zenon DEF Max
<1> QED
  BY <1>8

\* The answer to GetMaxSeq: the highest row, or 0.
LEMMA HighestIs ==
  ASSUME message \in [Seqs -> Messages \cup {NoMsg}]
  PROVE  /\ HighestSeq \in Nat
         /\ \A s \in Seqs : message[s] # NoMsg => s <= HighestSeq
         /\ HighestSeq # 0 => HighestSeq \in Seqs /\ message[HighestSeq] # NoMsg
<1> DEFINE S == {0} \cup {s \in Seqs : message[s] # NoMsg}
<1>1. MaxSeq \in Nat
  BY DeliveryAssumption, FS_CardinalityType DEF MaxSeq
<1>2. S \in SUBSET (0..MaxSeq) /\ S # {}
  BY <1>1 DEF Seqs
<1>3. Max(S) \in S /\ \A y \in S : y <= Max(S)
  BY <1>1, <1>2, MaxIs, Zenon
<1>4. HighestSeq = Max(S)
  BY DEF HighestSeq
<1>5. /\ \A s \in Seqs : message[s] # NoMsg => s \in S
      /\ \A x \in S : x # 0 => x \in Seqs /\ message[x] # NoMsg
  OBVIOUS
<1> HIDE DEF S
<1>6. HighestSeq \in S /\ \A y \in S : y <= HighestSeq
  BY <1>3, <1>4
<1>7. HighestSeq \in Nat
  BY <1>1, <1>2, <1>6
<1> QED
  BY <1>5, <1>6, <1>7, Zenon

\* A sequence and its elements, and one element more.
LEMMA SeqFacts ==
  ASSUME NEW S, NEW s \in Seq(S), NEW x \in S
  PROVE  /\ Len(s) \in Nat /\ DOMAIN s = 1..Len(s)
         /\ \A i \in DOMAIN s : s[i] \in S
         /\ Append(s, x) \in Seq(S) /\ Len(Append(s, x)) = Len(s) + 1
         /\ DOMAIN Append(s, x) = 1..Len(s) + 1
         /\ \A i \in DOMAIN s : Append(s, x)[i] = s[i]
         /\ Append(s, x)[Len(s) + 1] = x
OBVIOUS

\* What is known of the messages with a number.
LEMMA Entries ==
  ASSUME Counted
  PROVE  /\ Len(numbered) \in Nat /\ DOMAIN numbered = 1..Len(numbered)
         /\ \A i \in DOMAIN numbered :
              /\ i \in Nat /\ i <= Len(numbered)
              /\ numbered[i].msg \in Messages /\ numbered[i].msg # NoMsg
              /\ numbered[i].seq \in Nat /\ 1 <= numbered[i].seq /\ numbered[i].seq <= i
<1>1. Len(numbered) \in Nat /\ DOMAIN numbered = 1..Len(numbered)
  BY DEF Counted
<1>2. numbered \in Seq([msg : Messages, seq : Nat])
  BY DEF Counted
<1>3. \A i \in DOMAIN numbered : numbered[i] \in [msg : Messages, seq : Nat]
  <2> DEFINE R == [msg : Messages, seq : Nat]
  <2> HIDE DEF R
  <2>1. numbered \in Seq(R)
    BY <1>2 DEF R
  <2>2. \A i \in DOMAIN numbered : numbered[i] \in R
    BY <2>1
  <2> QED
    BY <2>2 DEF R
<1>4. \A i \in DOMAIN numbered : numbered[i].msg \in Messages /\ numbered[i].seq \in Nat
  BY <1>3
<1>5. \A i \in DOMAIN numbered : 1 <= numbered[i].seq /\ numbered[i].seq <= i
  BY DEF Counted
<1> QED
  BY <1>1, <1>4, <1>5, DeliveryAssumption

\* There is a number for every message: the count of numbers given is at most
\* that of messages, and less while one has no number.
LEMMA Room ==
  ASSUME Counted
  PROVE  /\ Len(numbered) \in Nat /\ MaxSeq \in Nat /\ Len(numbered) <= MaxSeq
         /\ \A m \in Messages :
              (\A i \in DOMAIN numbered : numbered[i].msg # m) =>
                /\ Len(numbered) + 1 <= MaxSeq
                /\ Cardinality(Done \cup {m}) = Len(numbered) + 1
<1>1. Done \in SUBSET Messages /\ Len(numbered) \in Nat /\ Cardinality(Done) = Len(numbered)
  BY Entries DEF Counted, Done
<1>2. MaxSeq \in Nat /\ IsFiniteSet(Done) /\ Cardinality(Done) <= MaxSeq
  BY <1>1, DeliveryAssumption, FS_CardinalityType, FS_Subset DEF MaxSeq
<1>3. ASSUME NEW m \in Messages, \A i \in DOMAIN numbered : numbered[i].msg # m
      PROVE  Len(numbered) + 1 <= MaxSeq /\ Cardinality(Done \cup {m}) = Len(numbered) + 1
  <2>1. m \notin Done /\ Done \cup {m} \in SUBSET Messages
    BY <1>1, <1>3 DEF Done
  <2>2. Cardinality(Done \cup {m}) = Len(numbered) + 1
    BY <1>1, <1>2, <2>1, FS_AddElement, Zenon
  <2>3. Cardinality(Done \cup {m}) <= MaxSeq
    BY <2>1, DeliveryAssumption, FS_Subset DEF MaxSeq
  <2> QED
    BY <2>2, <2>3
<1> QED
  BY <1>1, <1>2, <1>3
-----------------------------------------------------------------------------
(* Kinds of steps.                                                         *)

\* A step that gives no number, loses none, and touches no save and no question
\* for a number except to drop it.
LEMMA Aside ==
  ASSUME IInv, UNCHANGED <<numbered, max_seq, message, lost>>,
         published \subseteq published', published' \subseteq Messages,
         \A q \in queries' : q.kind \in Ask \cup {"SaveMessage"} => q \in queries,
         \A q \in queries : q.kind = "SaveMessage" => q \in queries',
         \A a \in answers' : a.query.kind \in Ask => a \in answers,
         \A a \in answers' : a.seq \in Nat /\ a.seq <= Len(numbered)
  PROVE  IInv'
<1>1. Counted'
  BY DEF IInv, Counted, Done
<1>2. Once'
  BY DEF IInv, Once
<1>3. Saving'
  BY DEF IInv, Saving, Save, Ask
<1>4. Saved'
  <2>1. \A i \in DOMAIN numbered : Save(numbered[i]).kind = "SaveMessage" /\ Save(numbered'[i]) = Save(numbered[i])
    BY DEF Save, Query
  <2>2. \A i \in DOMAIN numbered : Save(numbered[i]) \notin queries => Save(numbered'[i]) \notin queries'
    BY <2>1 DEF Ask
  <2> QED
    BY <2>2 DEF IInv, Saved
<1>5. Known'
  BY DEF IInv, Known, Ask
<1>6. NumbersShared'
  BY DEF IInv, NumbersShared
<1>7. NumberedKept'
  BY DEF IInv, NumberedKept, Query
<1> QED
  BY <1>1, <1>2, <1>3, <1>4, <1>5, <1>6, <1>7 DEF IInv

\* A question q is answered.  If it was for the highest number, and has been
\* answered well, the answer is the highest row's.
LEMMA Answered ==
  ASSUME IInv, UNCHANGED <<numbered, max_seq, message, lost, published>>,
         NEW q \in queries, q.kind \in Ask, queries' = queries \ {q},
         NEW ok, NEW seq, NEW rows, NEW user,
         answers' = answers \cup {Answer(q, ok, seq, rows, user)},
         seq = 0 \/ seq = HighestSeq,
         ok /\ q.kind = "GetMaxSeq" => seq = HighestSeq
  PROVE  IInv'
<1> DEFINE new == Answer(q, ok, seq, rows, user)
<1>1. new.query = q /\ new.seq = seq /\ new.ok = ok
  BY DEF Answer
<1>2. /\ HighestSeq \in Nat
      /\ \A s \in Seqs : message[s] # NoMsg => s <= HighestSeq
      /\ HighestSeq # 0 => HighestSeq \in Seqs /\ message[HighestSeq] # NoMsg
  BY HighestIs DEF IInv, Counted
<1>3. Len(numbered) \in Nat /\ MaxSeq \in Nat /\ Len(numbered) <= MaxSeq
  BY Room DEF IInv
<1>4. \A i \in DOMAIN numbered :
        /\ i \in Nat /\ i <= Len(numbered) /\ numbered[i].msg # NoMsg
        /\ numbered[i].seq \in Nat /\ 1 <= numbered[i].seq /\ numbered[i].seq <= i
  BY Entries DEF IInv
<1>5. seq \in Nat /\ seq <= Len(numbered)
  <2>1. CASE seq = 0
    BY <2>1, <1>3
  <2>2. CASE seq = HighestSeq /\ seq # 0
    <3>1. PICK i \in DOMAIN numbered : numbered[i].seq = seq
      BY <1>2, <2>2 DEF IInv, Saved
    <3> QED
      BY <1>2, <1>3, <1>4, <2>2, <3>1
  <2> QED
    BY <2>1, <2>2
<1> HIDE DEF new
<1>6. answers' = answers \cup {new}
  BY DEF new
<1>7. \A r \in queries : r.kind = "SaveMessage" => r \in queries'
  BY DEF Ask
<1>8. Counted'
  BY <1>1, <1>5, <1>6 DEF IInv, Counted, Done
<1>9. Once'
  BY <1>1, <1>6 DEF IInv, Once
<1>10. Saving'
  BY DEF IInv, Saving, Save
<1>11. Saved'
  BY DEF IInv, Saved, Save
<1>12. Known'
  <2>1. ASSUME ok, q.kind = "GetMaxSeq", NEW i \in DOMAIN numbered, i \notin lost
        PROVE  numbered[i].seq <= seq \/ numbered[i].seq <= max_seq
    <3>1. CASE max_seq = -1
      <4>1. Save(numbered[i]) \notin queries
        BY <3>1 DEF IInv, Known, Save, Query
      <4>2. message[numbered[i].seq] = numbered[i].msg
        BY <2>1, <4>1 DEF IInv, NumberedKept, Save
      <4>3. numbered[i].seq \in Seqs /\ numbered[i].msg # NoMsg
        BY <1>3, <1>4 DEF Seqs
      <4> QED
        BY <1>2, <2>1, <4>2, <4>3
    <3>2. CASE max_seq # -1
      BY <2>1, <3>2 DEF IInv, Known
    <3> QED
      BY <3>1, <3>2
  <2>2. \A a \in answers' : a.query.kind = "GetMaxSeq" /\ a.ok =>
          \A i \in DOMAIN numbered :
            i \notin lost => numbered[i].seq <= a.seq \/ numbered[i].seq <= max_seq
    BY <1>1, <1>6, <2>1 DEF IInv, Known
  <2> QED
    BY <2>2 DEF IInv, Known
<1>13. NumbersShared'
  BY DEF IInv, NumbersShared
<1>14. NumberedKept'
  <2>1. \A i \in DOMAIN numbered : Save(numbered[i]) \in queries => Save(numbered[i]) \in queries'
    BY <1>7 DEF Save, Query
  <2> QED
    BY <2>1 DEF IInv, NumberedKept, Save
<1> QED
  BY <1>8, <1>9, <1>10, <1>11, <1>12, <1>13, <1>14 DEF IInv
\* Message m is waiting for nothing and has no number.
Fresh(m) ==
  /\ \A i \in DOMAIN numbered : numbered[i].msg # m
  /\ \A q \in queries : q.kind \in Ask => q.msg # m

\* A question is asked for a message that had none.
LEMMA Asked ==
  ASSUME IInv, UNCHANGED <<numbered, max_seq, message, lost>>,
         published \subseteq published', published' \subseteq Messages, answers' \subseteq answers,
         NEW m \in published', Fresh(m),
         \A a \in answers' : a.query.kind \in Ask => a.query.msg # m,
         NEW kind \in Ask, queries' = queries \cup {Query(kind, m, 0, 0)}
  PROVE  IInv'
<1> DEFINE new == Query(kind, m, 0, 0)
<1>1. new.kind \in Ask /\ new.kind # "SaveMessage" /\ new.msg = m
  BY DEF Query, Ask
<1> HIDE DEF new
<1>2. queries' = queries \cup {new}
  BY DEF new
<1>3. Counted'
  BY DEF IInv, Counted, Done
<1>4. Once'
  BY <1>1, <1>2 DEF IInv, Once, Fresh
<1>5. Saving'
  BY <1>1, <1>2 DEF IInv, Saving, Save
<1>6. Saved'
  <2>1. \A i \in DOMAIN numbered : Save(numbered[i]).kind = "SaveMessage" /\ Save(numbered'[i]) = Save(numbered[i])
    BY DEF Save, Query
  <2>2. \A i \in DOMAIN numbered : Save(numbered[i]) \notin queries => Save(numbered'[i]) \notin queries'
    BY <1>1, <1>2, <2>1
  <2> QED
    BY <2>2 DEF IInv, Saved
<1>7. Known'
  BY <1>1, <1>2 DEF IInv, Known
<1>8. NumbersShared'
  BY DEF IInv, NumbersShared
<1>9. NumberedKept'
  BY DEF IInv, NumberedKept
<1> QED
  BY <1>3, <1>4, <1>5, <1>6, <1>7, <1>8, <1>9 DEF IInv

\* A message gets the number after base, where base is not below the counter or
\* any number whose row is not lost.
LEMMA Numbering ==
  ASSUME IInv, UNCHANGED <<message, lost>>,
         published \subseteq published', published' \subseteq Messages, answers' \subseteq answers,
         NEW m \in published', Fresh(m),
         \A a \in answers' : a.query.kind \in Ask => a.query.msg # m,
         NEW base \in Nat, max_seq <= base, base <= Len(numbered),
         \A i \in DOMAIN numbered : i \notin lost => numbered[i].seq <= base,
         DoSendSave(m, base, queries)
  PROVE  IInv'
<1> DEFINE row == [msg |-> m, seq |-> base + 1]
           n == Len(numbered) + 1
           save == Query("SaveMessage", m, base + 1, 0)
<1>1. /\ max_seq' = base + 1 /\ numbered' = Append(numbered, row)
      /\ queries' = queries \cup {save}
  BY DEF DoSendSave
<1>2. /\ Len(numbered) \in Nat /\ DOMAIN numbered = 1..Len(numbered)
      /\ \A i \in DOMAIN numbered :
           /\ i \in Nat /\ i <= Len(numbered)
           /\ numbered[i].msg \in Messages /\ numbered[i].msg # NoMsg
           /\ numbered[i].seq \in Nat /\ 1 <= numbered[i].seq /\ numbered[i].seq <= i
  BY Entries DEF IInv
<1>3. row.msg = m /\ row.seq = base + 1 /\ row \in [msg : Messages, seq : Nat]
  OBVIOUS
<1>4. save.kind = "SaveMessage" /\ save.kind \notin Ask /\ save.msg = m
  BY DEF Query, Ask
<1> HIDE DEF row, save
<1>5. /\ numbered' \in Seq([msg : Messages, seq : Nat]) /\ Len(numbered') = n
      /\ DOMAIN numbered' = 1..n /\ numbered'[n] = row
      /\ \A i \in DOMAIN numbered : numbered'[i] = numbered[i]
  <2>1. numbered \in Seq([msg : Messages, seq : Nat])
    BY DEF IInv, Counted
  <2> QED
    BY <1>1, <1>3, <2>1, SeqFacts
<1>6. \A i \in DOMAIN numbered' : i \in DOMAIN numbered \/ i = n
  BY <1>2, <1>5
<1>7. n \notin DOMAIN numbered /\ n \in DOMAIN numbered' /\ n \notin lost
      /\ DOMAIN numbered \subseteq DOMAIN numbered'
  BY <1>2, <1>5 DEF IInv, Counted
<1>8. Save(numbered'[n]) = save /\ \A i \in DOMAIN numbered : Save(numbered'[i]) = Save(numbered[i])
  BY <1>3, <1>5 DEF Save, save
<1>9. \A i \in DOMAIN numbered : Save(numbered[i]) # save
  <2>1. \A i \in DOMAIN numbered : Save(numbered[i]).msg = numbered[i].msg
    BY DEF Save, Query
  <2> QED
    BY <1>4, <2>1 DEF Fresh
<1>10. Counted'
  <2>1. Done' = Done \cup {m}
    <3>1. Done' = {numbered'[i].msg : i \in DOMAIN numbered'}
      BY DEF Done
    <3> QED
      BY <1>2, <1>3, <1>5, <1>6, <1>7, <3>1 DEF Done
  <2>2. Cardinality(Done') = n
    BY <2>1, Room DEF IInv, Fresh
  <2>3. \A i \in DOMAIN numbered' : 1 <= numbered'[i].seq /\ numbered'[i].seq <= i
    BY <1>2, <1>3, <1>5, <1>6
  <2>4. max_seq' \in Int /\ -1 <= max_seq' /\ max_seq' <= n
    BY <1>1, <1>2
  <2>5. \A a \in answers' : a.seq \in Nat /\ a.seq <= n
    BY <1>2 DEF IInv, Counted
  <2>6. message' \in [Seqs -> Messages \cup {NoMsg}] /\ lost' \subseteq DOMAIN numbered'
    BY <1>7 DEF IInv, Counted
  <2> QED
    BY <1>5, <2>2, <2>3, <2>4, <2>5, <2>6 DEF Counted
<1>11. Once'
  <2>1. \A i \in DOMAIN numbered' : numbered'[i].msg \in published'
    BY <1>3, <1>5, <1>6 DEF IInv, Once
  <2>2. \A i, j \in DOMAIN numbered' : numbered'[i].msg = numbered'[j].msg => i = j
    BY <1>3, <1>5, <1>6 DEF IInv, Once, Fresh
  <2>3. \A q \in queries' : q.kind \in Ask =>
          /\ q \in queries /\ q.msg \in published'
          /\ \A i \in DOMAIN numbered' : numbered'[i].msg # q.msg
    BY <1>1, <1>3, <1>4, <1>5, <1>6 DEF IInv, Once, Fresh
  <2>4. \A a \in answers' : a.query.kind \in Ask =>
          /\ a \in answers /\ a.query.msg \in published'
          /\ \A i \in DOMAIN numbered' : numbered'[i].msg # a.query.msg
    BY <1>3, <1>5, <1>6 DEF IInv, Once
  <2> QED
    BY <2>1, <2>2, <2>3, <2>4 DEF IInv, Once
<1>12. Saving'
  BY <1>1, <1>7, <1>8 DEF IInv, Saving
<1>13. Saved'
  <2>1. ASSUME NEW s \in Seqs, message[s] # NoMsg
        PROVE  \E i \in DOMAIN numbered' :
                 numbered'[i].msg = message[s] /\ numbered'[i].seq = s /\ Save(numbered'[i]) \notin queries'
    <3>1. PICK i \in DOMAIN numbered :
            numbered[i].msg = message[s] /\ numbered[i].seq = s /\ Save(numbered[i]) \notin queries
      BY <2>1 DEF IInv, Saved
    <3> QED
      BY <1>1, <1>5, <1>7, <1>8, <1>9, <3>1, Zenon
  <2> QED
    BY <2>1 DEF Saved
<1>14. Known'
  <2>1. max_seq' # -1
    BY <1>1
  <2>2. \A i \in DOMAIN numbered' : i \notin lost' => numbered'[i].seq <= max_seq'
    BY <1>1, <1>2, <1>3, <1>5, <1>6
  <2> QED
    BY <2>1, <2>2 DEF Known
<1>15. NumbersShared'
  <2>1. ASSUME NEW i \in DOMAIN numbered', NEW j \in DOMAIN numbered', i < j,
               numbered'[i].seq = numbered'[j].seq
        PROVE  i \in lost
    <3>1. i \in DOMAIN numbered
      BY <1>2, <1>5, <2>1
    <3>2. CASE j \in DOMAIN numbered
      BY <1>5, <2>1, <3>1, <3>2 DEF IInv, NumbersShared
    <3>3. CASE j = n
      BY <1>2, <1>3, <1>5, <2>1, <3>1, <3>3
    <3> QED
      BY <1>6, <3>2, <3>3
  <2> QED
    BY <2>1 DEF NumbersShared
<1>16. NumberedKept'
  <2>1. ASSUME NEW i \in DOMAIN numbered', i \notin lost
        PROVE  Save(numbered'[i]) \in queries' \/ message[numbered'[i].seq] = numbered'[i].msg
    <3>1. CASE i = n
      BY <1>1, <1>8, <3>1
    <3>2. CASE i \in DOMAIN numbered
      BY <1>1, <1>5, <1>8, <2>1, <3>2 DEF IInv, NumberedKept, Save
    <3> QED
      BY <1>6, <3>1, <3>2
  <2> QED
    BY <2>1 DEF NumberedKept, Save
<1> QED
  BY <1>10, <1>11, <1>12, <1>13, <1>14, <1>15, <1>16 DEF IInv
\* SendSave of a message that is published, and that no question is about.
LEMMA Sending ==
  ASSUME IInv, UNCHANGED <<message, lost>>,
         published \subseteq published', published' \subseteq Messages, answers' \subseteq answers,
         NEW m \in published', Fresh(m),
         \A a \in answers' : a.query.kind \in Ask => a.query.msg # m,
         SendSave(m)
  PROVE  IInv'
<1>1. CASE m \in Transient
  <2>1. UNCHANGED <<numbered, max_seq, queries>>
    BY <1>1 DEF SendSave
  <2>2. \A a \in answers' : a.seq \in Nat /\ a.seq <= Len(numbered)
    BY DEF IInv, Counted
  <2> QED
    BY <2>1, <2>2, Aside
<1>2. CASE m \notin Transient /\ max_seq = -1
  <2>1. queries' = queries \cup {Query("GetMaxSeq", m, 0, 0)} /\ UNCHANGED <<numbered, max_seq>>
    BY <1>2 DEF SendSave
  <2>2. "GetMaxSeq" \in Ask
    BY DEF Ask
  <2> QED
    BY <2>1, <2>2, Asked
<1>3. CASE m \notin Transient /\ max_seq # -1
  <2>1. DoSendSave(m, max_seq, queries)
    BY <1>3 DEF SendSave
  <2>2. max_seq \in Nat /\ max_seq <= max_seq /\ max_seq <= Len(numbered)
    BY <1>3 DEF IInv, Counted
  <2>3. \A i \in DOMAIN numbered : i \notin lost => numbered[i].seq <= max_seq
    BY <1>3 DEF IInv, Known
  <2> QED
    BY <2>1, <2>2, <2>3, Numbering
<1> QED
  BY <1>1, <1>2, <1>3

\* A save is carried out.
LEMMA Writing ==
  ASSUME IInv, UNCHANGED <<numbered, max_seq, answers, published, lost>>,
         NEW q \in queries, q.kind = "SaveMessage", queries' = queries \ {q},
         message' = [message EXCEPT ![q.seq] = q.msg]
  PROVE  IInv'
<1>1. PICK k \in DOMAIN numbered : k \notin lost /\ q = Save(numbered[k])
  BY DEF IInv, Saving
<1>2. q.seq = numbered[k].seq /\ q.msg = numbered[k].msg
  BY <1>1 DEF Save, Query
<1>3. /\ Len(numbered) \in Nat /\ MaxSeq \in Nat /\ Len(numbered) <= MaxSeq
      /\ \A i \in DOMAIN numbered :
           /\ i \in Nat /\ i <= Len(numbered)
           /\ numbered[i].msg \in Messages /\ numbered[i].msg # NoMsg
           /\ numbered[i].seq \in Nat /\ 1 <= numbered[i].seq /\ numbered[i].seq <= i
  BY Entries, Room DEF IInv
<1>4. q.seq \in Seqs /\ q.msg \in Messages
  BY <1>2, <1>3 DEF Seqs
<1>5. /\ message' \in [Seqs -> Messages \cup {NoMsg}] /\ message'[q.seq] = q.msg
      /\ \A s \in Seqs : s # q.seq => message'[s] = message[s]
  BY <1>4 DEF IInv, Counted
<1>6. \A i \in DOMAIN numbered : i # k => Save(numbered[i]) # q
  <2>1. \A i \in DOMAIN numbered : Save(numbered[i]).msg = numbered[i].msg
    BY DEF Save, Query
  <2> QED
    BY <1>2, <2>1 DEF IInv, Once
<1>7. Counted'
  BY <1>5 DEF IInv, Counted, Done
<1>8. Once'
  BY DEF IInv, Once
<1>9. Saving'
  BY DEF IInv, Saving, Save
<1>10. Saved'
  <2>1. ASSUME NEW s \in Seqs, message'[s] # NoMsg
        PROVE  \E i \in DOMAIN numbered :
                 /\ numbered[i].msg = message'[s] /\ numbered[i].seq = s
                 /\ Save(numbered[i]) \notin queries'
    <3>1. CASE s = q.seq
      BY <1>1, <1>2, <1>5, <3>1
    <3>2. CASE s # q.seq
      BY <1>5, <2>1, <3>2 DEF IInv, Saved
    <3> QED
      BY <3>1, <3>2
  <2> QED
    BY <2>1 DEF Saved
<1>11. Known'
  BY DEF IInv, Known
<1>12. NumbersShared'
  BY DEF IInv, NumbersShared
<1>13. NumberedKept'
  <2>1. ASSUME NEW i \in DOMAIN numbered, i \notin lost
        PROVE  Save(numbered[i]) \in queries' \/ message'[numbered[i].seq] = numbered[i].msg
    <3>1. CASE i = k
      BY <1>2, <1>5, <3>1
    <3>2. CASE i # k
      <4>1. numbered[i].seq # numbered[k].seq
        <5>1. i < k \/ k < i
          BY <1>3, <3>2
        <5> QED
          BY <1>1, <2>1, <5>1 DEF IInv, NumbersShared
      <4>2. numbered[i].seq \in Seqs
        BY <1>3 DEF Seqs
      <4>3. Save(numbered[i]) \in queries \/ message[numbered[i].seq] = numbered[i].msg
        BY <2>1 DEF IInv, NumberedKept, Save
      <4> QED
        BY <1>2, <1>5, <1>6, <3>2, <4>1, <4>2, <4>3
    <3> QED
      BY <3>1, <3>2
  <2> QED
    BY <2>1 DEF NumberedKept, Save
<1> QED
  BY <1>7, <1>8, <1>9, <1>10, <1>11, <1>12, <1>13 DEF IInv

\* Message m loses its row: its save fails, or the row expires.
LEMMA Losing ==
  ASSUME IInv, UNCHANGED <<numbered, max_seq, answers, published>>,
         NEW k \in DOMAIN numbered, lost' = lost \cup Named(numbered[k].msg),
         queries' = queries \ {Save(numbered[k])},
         \/ message' = message
         \/ /\ Save(numbered[k]) \notin queries
            /\ \E s \in Seqs : /\ message[s] = numbered[k].msg
                               /\ message' = [message EXCEPT ![s] = NoMsg]
  PROVE  IInv'
<1>1. Named(numbered[k].msg) = {k}
  BY DEF IInv, Once, Named
<1>2. lost' = lost \cup {k}
  BY <1>1
<1>3. \A i \in DOMAIN numbered : i # k => Save(numbered[i]) # Save(numbered[k])
  <2>1. \A i \in DOMAIN numbered : Save(numbered[i]).msg = numbered[i].msg
    BY DEF Save, Query
  <2> QED
    BY <2>1 DEF IInv, Once
<1>4. /\ message' \in [Seqs -> Messages \cup {NoMsg}]
      /\ \A s \in Seqs : message'[s] # NoMsg => message'[s] = message[s]
      /\ \A s \in Seqs : message[s] # numbered[k].msg => message'[s] = message[s]
  BY DEF IInv, Counted
<1>5. Counted'
  BY <1>2, <1>4 DEF IInv, Counted, Done
<1>6. Once'
  BY DEF IInv, Once
<1>7. Saving'
  <2>1. ASSUME NEW q \in queries', q.kind = "SaveMessage"
        PROVE  \E i \in DOMAIN numbered : i \notin lost' /\ q = Save(numbered[i])
    <3>1. PICK i \in DOMAIN numbered : i \notin lost /\ q = Save(numbered[i])
      BY <2>1 DEF IInv, Saving
    <3> QED
      BY <1>2, <3>1
  <2> QED
    BY <2>1 DEF Saving
<1>8. Saved'
  <2>1. ASSUME NEW s \in Seqs, message'[s] # NoMsg
        PROVE  \E i \in DOMAIN numbered :
                 /\ numbered[i].msg = message'[s] /\ numbered[i].seq = s
                 /\ Save(numbered[i]) \notin queries'
    BY <1>4, <2>1 DEF IInv, Saved
  <2> QED
    BY <2>1 DEF Saved
<1>9. Known'
  BY <1>2 DEF IInv, Known
<1>10. NumbersShared'
  BY <1>2 DEF IInv, NumbersShared
<1>11. NumberedKept'
  <2>1. ASSUME NEW i \in DOMAIN numbered, i \notin lost'
        PROVE  Save(numbered[i]) \in queries' \/ message'[numbered[i].seq] = numbered[i].msg
    <3>1. i # k /\ i \notin lost /\ numbered[i].msg # numbered[k].msg
      BY <1>2, <2>1 DEF IInv, Once
    <3>2. Save(numbered[i]) \in queries \/ message[numbered[i].seq] = numbered[i].msg
      BY <3>1 DEF IInv, NumberedKept, Save
    <3>3. numbered[i].seq \in Seqs
      BY Entries, Room DEF IInv, Seqs
    <3> QED
      BY <1>3, <1>4, <3>1, <3>2, <3>3
  <2> QED
    BY <2>1 DEF NumberedKept, Save
<1> QED
  BY <1>5, <1>6, <1>7, <1>8, <1>9, <1>10, <1>11 DEF IInv
-----------------------------------------------------------------------------
(* The invariant.                                                          *)

\* It holds at the start.
LEMMA InitIInv == Init => IInv
<1> SUFFICES ASSUME Init PROVE IInv
  OBVIOUS
<1>1. numbered = << >> /\ DOMAIN numbered = {} /\ Len(numbered) = 0
  <2>1. numbered = << >>
    BY Zenon DEF Init
  <2>2. DOMAIN << >> = {} /\ Len(<< >>) = 0
    OBVIOUS
  <2> QED
    BY <2>1, <2>2, Zenon
<1>2. Cardinality(Done) = 0
  <2>1. Done = {}
    BY <1>1 DEF Done
  <2> QED
    BY <2>1, FS_EmptySet, Zenon
<1>3. Counted
  <2>1. numbered \in Seq([msg : Messages, seq : Nat])
    <3>1. << >> \in Seq([msg : Messages, seq : Nat])
      OBVIOUS
    <3> QED
      BY <1>1, <3>1, Zenon
  <2>2. message \in [Seqs -> Messages \cup {NoMsg}]
    BY Zenon DEF Init
  <2>3. max_seq \in Int /\ -1 <= max_seq /\ max_seq <= Len(numbered)
    <3>1. max_seq = -1
      BY Zenon DEF Init
    <3> QED
      BY <1>1, <3>1
  <2>4. answers = {} /\ published = {} /\ lost = {}
    BY Zenon DEF Init
  <2> QED
    BY <1>1, <1>2, <2>1, <2>2, <2>3, <2>4, Zenon DEF Counted
<1>4. Once /\ Saving /\ Saved /\ Known /\ NumbersShared /\ NumberedKept
  BY <1>1, Zenon DEF Init, Once, Saving, Saved, Known, NumbersShared, NumberedKept
<1> QED
  BY <1>3, <1>4 DEF IInv

\* A message that was not published before is in nobody's hands.
LEMMA Unpublished ==
  ASSUME IInv, NEW m, m \notin published
  PROVE  Fresh(m) /\ \A a \in answers : a.query.kind \in Ask => a.query.msg # m
BY DEF IInv, Once, Fresh

\* A publication keeps it.
LEMMA PubIInv ==
  ASSUME IInv, NEW m \in Messages, Pub(m) \/ PubChannel(m)
  PROVE  IInv'
<1>1. m \notin published /\ published' = published \cup {m} /\ UNCHANGED <<answers, message, lost>>
  BY Zenon DEF Pub, PubChannel
<1>2. published \subseteq published' /\ published' \subseteq Messages /\ m \in published'
  BY <1>1 DEF IInv, Counted
<1>3. Fresh(m) /\ \A a \in answers' : a.query.kind \in Ask => a.query.msg # m
  BY <1>1, Unpublished
<1>4. \A a \in answers' : a.seq \in Nat /\ a.seq <= Len(numbered)
  BY <1>1 DEF IInv, Counted
<1>5. CASE SendSave(m)
  BY <1>1, <1>2, <1>3, <1>5, Sending
<1>6. CASE /\ queries' = queries \cup {Query("GetChannelUsers", m, 0, 0)}
           /\ UNCHANGED <<max_seq, numbered>>
  <2>1. "GetChannelUsers" \in Ask
    BY DEF Ask
  <2> QED
    BY <1>1, <1>2, <1>3, <1>6, <2>1, Asked
<1>7. CASE UNCHANGED <<queries, max_seq, numbered>>
  BY <1>1, <1>2, <1>4, <1>7, Aside
<1> QED
  BY <1>5, <1>6, <1>7, Zenon DEF Pub, PubChannel

\* The callbacks keep it.
LEMMA CallbackIInv ==
  ASSUME IInv, NEW a \in answers, GotMaxSeq(a) \/ GotMessages(a) \/ GotChannelUsers(a)
  PROVE  IInv'
<1>1. answers' = answers \ {a} /\ UNCHANGED <<message, lost, published>>
  BY Zenon DEF GotMaxSeq, GotMessages, GotChannelUsers
<1>2. \A b \in answers' : b.seq \in Nat /\ b.seq <= Len(numbered)
  BY <1>1, SMTT(20) DEF IInv, Counted
<1>3. published \subseteq published' /\ published' \subseteq Messages
  BY <1>1 DEF IInv, Counted
<1>4. CASE UNCHANGED <<queries, max_seq, numbered>>
  BY <1>1, <1>2, <1>3, <1>4, Aside
<1>5. ASSUME a.query.kind \in Ask
      PROVE  /\ a.query.msg \in published' /\ Fresh(a.query.msg)
             /\ \A b \in answers' : b.query.kind \in Ask => b.query.msg # a.query.msg
  BY <1>1, <1>5 DEF IInv, Once, Fresh
<1>6. CASE a.query.kind = "GetMaxSeq" /\ a.ok /\ DoSendSave(a.query.msg, CounterAfter(a.seq), queries)
  <2>1. a.query.kind \in Ask
    BY <1>6 DEF Ask
  <2>2. /\ CounterAfter(a.seq) \in Nat /\ max_seq <= CounterAfter(a.seq)
        /\ a.seq <= CounterAfter(a.seq) /\ CounterAfter(a.seq) <= Len(numbered)
    BY DEF IInv, Counted, CounterAfter
  <2>3. \A i \in DOMAIN numbered : i \notin lost =>
          numbered[i].seq <= a.seq \/ numbered[i].seq <= max_seq
    BY <1>6 DEF IInv, Known
  <2>4. \A i \in DOMAIN numbered : i \notin lost => numbered[i].seq <= CounterAfter(a.seq)
    <3>1. \A i \in DOMAIN numbered : numbered[i].seq \in Nat
      BY Entries DEF IInv
    <3>2. max_seq \in Int /\ a.seq \in Nat
      BY DEF IInv, Counted
    <3> QED
      BY <2>2, <2>3, <3>1, <3>2
  <2>5. answers' \subseteq answers
    BY <1>1
  <2> QED
    BY <1>1, <1>3, <1>5, <1>6, <2>1, <2>2, <2>4, <2>5, Numbering
<1>7. CASE a.query.kind = "GetChannelUsers" /\ SendSave(a.query.msg)
  <2>1. a.query.kind \in Ask
    BY <1>7 DEF Ask
  <2>2. answers' \subseteq answers
    BY <1>1
  <2> QED
    BY <1>1, <1>3, <1>5, <1>7, <2>1, <2>2, Sending
<1> QED
  BY <1>4, <1>6, <1>7, Zenon DEF GotMaxSeq, GotMessages, GotChannelUsers

\* The database keeps it.
LEMMA QueryIInv ==
  ASSUME IInv, NEW q \in queries, ReadQuery(q) \/ WriteQuery(q) \/ FailedQuery(q)
  PROVE  IInv'
<1>1. UNCHANGED <<numbered, max_seq, published>>
  BY Zenon DEF ReadQuery, WriteQuery, FailedQuery, server
<1>2. published \subseteq published' /\ published' \subseteq Messages
  BY <1>1 DEF IInv, Counted
<1>3. \A a \in answers : a.seq \in Nat /\ a.seq <= Len(numbered)
  BY DEF IInv, Counted
<1>4. Len(numbered) \in Nat
  BY Entries DEF IInv
<1>5. CASE ReadQuery(q)
  <2>1. UNCHANGED <<message, lost>>
    BY <1>5 DEF ReadQuery
  <2>2. CASE q.kind = "GetMaxSeq"
    BY <1>1, <1>5, <2>1, <2>2, Answered, Zenon DEF ReadQuery, Ask
  <2>3. CASE q.kind = "GetChannelUsers"
    BY <1>1, <1>5, <2>1, <2>3, Answered, Zenon DEF ReadQuery, Ask
  <2>4. CASE q.kind \in {"GetLastAck", "GetMessage"}
    <3>1. /\ \A r \in queries' : r.kind \in Ask \cup {"SaveMessage"} => r \in queries
          /\ \A r \in queries : r.kind = "SaveMessage" => r \in queries'
      <4>1. \/ queries' = queries \ {q}
            \/ queries' = (queries \ {q}) \cup {Query("GetMessage", NoMsg, last_ack, q.no)}
        BY <1>5, <2>4, Zenon DEF ReadQuery
      <4>2. Query("GetMessage", NoMsg, last_ack, q.no).kind = "GetMessage"
        BY SMTT(20) DEF Query
      <4> QED
        BY <2>4, <4>1, <4>2 DEF Ask
    <3>2. /\ \A a \in answers' : a.query.kind \in Ask => a \in answers
          /\ \A a \in answers' : a.seq \in Nat /\ a.seq <= Len(numbered)
      BY <1>3, <1>4, <1>5, <2>4 DEF ReadQuery, Answer, Ask
    <3> QED
      BY <1>1, <1>2, <2>1, <3>1, <3>2, Aside
  <2> QED
    BY <1>5, <2>2, <2>3, <2>4, Zenon DEF ReadQuery
<1>6. CASE WriteQuery(q)
  <2>1. UNCHANGED <<answers, lost>> /\ queries' = queries \ {q}
    BY <1>6 DEF WriteQuery
  <2>2. CASE q.kind = "SaveMessage"
    BY <1>1, <1>6, <2>1, <2>2, Writing, SMTT(20) DEF WriteQuery
  <2>3. CASE q.kind # "SaveMessage"
    <3>1. message' = message
      BY <1>6, <2>3 DEF WriteQuery
    <3>2. \A r \in queries : r.kind = "SaveMessage" => r \in queries'
      BY <2>1, <2>3
    <3> QED
      BY <1>1, <1>2, <1>3, <2>1, <3>1, <3>2, Aside
  <2> QED
    BY <2>2, <2>3
<1>7. CASE FailedQuery(q)
  <2>1. message' = message /\ queries' = queries \ {q}
    BY <1>7, SMTT(20) DEF FailedQuery
  <2>2. CASE q.kind = "SaveMessage"
    <3>1. PICK k \in DOMAIN numbered : q = Save(numbered[k])
      BY <2>2 DEF IInv, Saving
    <3>2. q.msg = numbered[k].msg
      BY <3>1 DEF Save, Query
    <3>3. answers' = answers /\ lost' = lost \cup Named(q.msg)
      BY <1>7, <2>2 DEF FailedQuery
    <3> QED
      BY <1>1, <2>1, <3>1, <3>2, <3>3, Losing
  <2>3. CASE q.kind \in Ask
    <3>1. answers' = answers \cup {Answer(q, FALSE, 0, << >>, FALSE)} /\ lost' = lost
      BY <1>7, <2>3, Zenon DEF FailedQuery, Ask
    <3> QED
      BY <1>1, <2>1, <2>3, <3>1, Answered, Zenon
  <2>4. CASE q.kind \notin Ask \cup {"SaveMessage"}
    <3>1. lost' = lost /\ \A r \in queries : r.kind = "SaveMessage" => r \in queries'
      BY <1>7, <2>1, <2>4 DEF FailedQuery
    <3>2. /\ \A a \in answers' : a.query.kind \in Ask => a \in answers
          /\ \A a \in answers' : a.seq \in Nat /\ a.seq <= Len(numbered)
      <4>1. \/ answers' = answers
            \/ answers' = answers \cup {Answer(q, FALSE, 0, << >>, FALSE)}
            \/ answers' = answers \cup {Answer(Query("GetMessage", NoMsg, 0, q.no),
                                               FALSE, 0, << >>, FALSE)}
        BY <1>7, <2>4, Zenon DEF FailedQuery
      <4> QED
        BY <1>3, <1>4, <2>4, <4>1 DEF Answer, Query, Ask
    <3> QED
      BY <1>1, <1>2, <2>1, <3>1, <3>2, Aside
  <2> QED
    BY <2>2, <2>3, <2>4
<1> QED
  BY <1>5, <1>6, <1>7

\* Every step keeps it.
LEMMA NextIInv == IInv /\ [Next]_vars => IInv'
<1> SUFFICES ASSUME IInv, [Next]_vars PROVE IInv'
  OBVIOUS
<1> USE DEF Ask
<1>1. /\ \A a \in answers : a.seq \in Nat /\ a.seq <= Len(numbered)
      /\ published \subseteq Messages
  BY DEF IInv, Counted
<1>2. CASE \E m \in Messages : Pub(m) \/ PubChannel(m)
  BY <1>2, PubIInv
<1>3. CASE Connect
  <2>1. /\ queries' = queries \cup {Query("GetLastAck", NoMsg, 0, sessions + 1)}
        /\ UNCHANGED <<numbered, max_seq, message, lost, answers, published>>
    BY <1>3 DEF Connect
  <2>2. Query("GetLastAck", NoMsg, 0, sessions + 1).kind = "GetLastAck"
    BY DEF Query
  <2> QED
    BY <1>1, <2>1, <2>2, Aside
<1>4. CASE OnUserDisconnect
  <2>1. UNCHANGED <<queries, numbered, max_seq, message, lost, answers, published>>
    BY <1>4 DEF OnUserDisconnect
  <2> QED
    BY <1>1, <2>1, Aside
<1>5. CASE UpdateUserAck
  <2>1. /\ queries' = queries \cup {Query("UpdateAck", NoMsg, Head(toack), acks + 1)}
        /\ UNCHANGED <<numbered, max_seq, message, lost, answers, published>>
    BY <1>5 DEF UpdateUserAck
  <2>2. Query("UpdateAck", NoMsg, Head(toack), acks + 1).kind = "UpdateAck"
    BY DEF Query
  <2> QED
    BY <1>1, <2>1, <2>2, Aside
<1>6. CASE Subscribe
  <2>1. /\ queries' = queries \cup {Query("AddUserToChannel", NoMsg, 0, subs + 1)}
        /\ UNCHANGED <<numbered, max_seq, message, lost, answers, published>>
    BY <1>6, Zenon DEF Subscribe
  <2>2. Query("AddUserToChannel", NoMsg, 0, subs + 1).kind = "AddUserToChannel"
    BY DEF Query
  <2> QED
    BY <1>1, <2>1, <2>2, Aside
<1>7. CASE Unsubscribe
  <2>1. /\ queries' = queries \cup {Query("RemoveUserFromChannel", NoMsg, 0, subs + 1)}
        /\ UNCHANGED <<numbered, max_seq, message, lost, answers, published>>
    BY <1>7, Zenon DEF Unsubscribe
  <2>2. Query("RemoveUserFromChannel", NoMsg, 0, subs + 1).kind = "RemoveUserFromChannel"
    BY DEF Query
  <2> QED
    BY <1>1, <2>1, <2>2, Aside
<1>8. CASE \E a \in answers : GotMaxSeq(a) \/ GotMessages(a) \/ GotChannelUsers(a)
  BY <1>8, CallbackIInv
<1>9. CASE \E q \in queries : ReadQuery(q) \/ WriteQuery(q) \/ FailedQuery(q)
  BY <1>9, QueryIInv
<1>10. CASE \E s \in Seqs : Expire(s)
  <2>1. PICK s \in Seqs : Expire(s)
    BY <1>10
  <2>2. PICK k \in DOMAIN numbered :
          numbered[k].msg = message[s] /\ Save(numbered[k]) \notin queries
    BY <2>1 DEF Expire, IInv, Saved
  <2>3. queries' = queries \ {Save(numbered[k])}
    BY <2>1, <2>2 DEF Expire
  <2> QED
    BY <2>1, <2>2, <2>3, Losing, Zenon DEF Expire, server
<1>11. CASE Restart
  <2>1. /\ UNCHANGED <<numbered, queries, message, published, lost>>
        /\ queries = {} /\ answers' = {} /\ max_seq' = -1
    BY <1>11, Zenon DEF Restart
  <2>2. Counted'
    BY <2>1, Entries, SMTT(20) DEF IInv, Counted, Done
  <2>3. Once' /\ Saving' /\ Saved' /\ Known' /\ NumbersShared' /\ NumberedKept'
    BY <2>1 DEF IInv, Once, Saving, Saved, Known, NumbersShared, NumberedKept
  <2> QED
    BY <2>2, <2>3 DEF IInv
<1>12. CASE UNCHANGED vars
  <2>1. UNCHANGED <<queries, numbered, max_seq, message, lost, answers, published>>
    BY <1>12 DEF vars
  <2> QED
    BY <1>1, <2>1, Aside
<1> QED
  BY <1>2, <1>3, <1>4, <1>5, <1>6, <1>7, <1>8, <1>9, <1>10, <1>11, <1>12 DEF Next

\* Two messages of a user share a number only if the row of the first was lost:
\* any number of questions for the highest number may be on their way at once,
\* and answered in any order, before and after restarts.
THEOREM NumbersSharedTheorem == Spec => []NumbersShared
<1>1. IInv => NumbersShared
  BY DEF IInv
<1> QED
  BY <1>1, InitIInv, NextIInv, PTL DEF Spec

\* A message that has a number is being saved or in the table under its number,
\* unless its row was lost: no save overwrites the row of another message.
THEOREM NumberedKeptTheorem == Spec => []NumberedKept
<1>1. IInv => NumberedKept
  BY DEF IInv
<1> QED
  BY <1>1, InitIInv, NextIInv, PTL DEF Spec

-----------------------------------------------------------------------------
(* The cached users of the channel.                                        *)

IsChange(q) == q.kind \in {"AddUserToChannel", "RemoveUserFromChannel"}

\* As long as nothing overlapped and nothing failed: one change at a time, none
\* while the cache is filled, and a change has reached the cache before the
\* table; an answer that waits still says what the table says.
CacheInv ==
  /\ faults \in Nat /\ channel \in {"no entry", "user", "not"}
  /\ ~overlap /\ faults = 0 =>
       /\ \A q, r \in queries : IsChange(q) /\ IsChange(r) => q = r
       /\ Changing => ~Filling
       /\ \A q \in queries : IsChange(q) /\ channel # "no entry" =>
            (channel = "user" <=> q.kind = "AddUserToChannel")
       /\ \A a \in answers : a.query.kind = "GetChannelUsers" /\ a.ok => (a.user <=> subscribed)
       /\ CacheRight

\* Steps that only add or remove queries and answers of other kinds.
LEMMA CacheAside ==
  ASSUME CacheInv, UNCHANGED <<channel, subscribed, overlap, faults>>,
         \A q \in queries' : q \in queries \/ q.kind \notin
             {"AddUserToChannel", "RemoveUserFromChannel", "GetChannelUsers"},
         \A q \in queries : q \in queries' \/ q.kind \notin
             {"AddUserToChannel", "RemoveUserFromChannel", "GetChannelUsers"},
         \A a \in answers' : a \in answers \/ a.query.kind # "GetChannelUsers"
  PROVE  CacheInv'
BY Zenon DEF CacheInv, IsChange, Changing, Filling, CacheRight

\* What SendSave adds to the queries.
LEMMA CacheSendSave ==
  ASSUME NEW m, SendSave(m) \/ \E base : DoSendSave(m, base, queries)
  PROVE  /\ \A q \in queries' : q \in queries \/ q.kind \notin
              {"AddUserToChannel", "RemoveUserFromChannel", "GetChannelUsers"}
         /\ queries \subseteq queries'
<1>1. \/ queries' = queries
      \/ queries' = queries \cup {Query("GetMaxSeq", m, 0, 0)}
      \/ \E seq : queries' = queries \cup {Query("SaveMessage", m, seq, 0)}
  BY ZenonT(30) DEF SendSave, DoSendSave
<1>2. /\ Query("GetMaxSeq", m, 0, 0).kind = "GetMaxSeq"
      /\ \A seq : Query("SaveMessage", m, seq, 0).kind = "SaveMessage"
  BY DEF Query
<1> QED
  BY <1>1, <1>2

LEMMA CachePub ==
  ASSUME CacheInv, NEW m \in Messages, Pub(m) \/ PubChannel(m)
  PROVE  CacheInv'
<1>1. CASE Pub(m)
  BY <1>1, CacheSendSave, CacheAside, ZenonT(30) DEF Pub
<1>2. CASE PubChannel(m) /\ channel = "user"
  BY <1>2, CacheSendSave, CacheAside DEF PubChannel
<1>3. CASE PubChannel(m) /\ channel = "not"
  BY <1>3, CacheAside, SMTT(20) DEF PubChannel
<1>4. CASE PubChannel(m) /\ channel = "no entry"
  <2>1. /\ overlap' = (overlap \/ Changing)
        /\ queries' = queries \cup {Query("GetChannelUsers", m, 0, 0)}
        /\ UNCHANGED <<channel, answers, subscribed, faults>>
    BY <1>4, Zenon DEF PubChannel
  <2>2. Query("GetChannelUsers", m, 0, 0).kind = "GetChannelUsers"
    BY DEF Query
  <2> QED
    BY <1>4, <2>1, <2>2, Zenon DEF CacheInv, IsChange, Changing, Filling, CacheRight
<1> QED
  BY <1>1, <1>2, <1>3, <1>4, Zenon DEF CacheInv, PubChannel

\* A change is put into the cache, and a query for it is sent.
LEMMA CacheChange ==
  ASSUME CacheInv, Subscribe \/ Unsubscribe
  PROVE  CacheInv'
<1>1. PICK k \in {"AddUserToChannel", "RemoveUserFromChannel"} :
        /\ channel' = IF channel = "no entry" THEN channel
                      ELSE IF k = "AddUserToChannel" THEN "user" ELSE "not"
        /\ overlap' = (overlap \/ Changing \/ Filling)
        /\ queries' = queries \cup {Query(k, NoMsg, 0, subs + 1)}
        /\ UNCHANGED <<answers, subscribed, faults>>
  BY Zenon DEF Subscribe, Unsubscribe
<1>2. Query(k, NoMsg, 0, subs + 1).kind = k
  BY DEF Query
<1>3. Changing'
  BY <1>1, <1>2, Zenon DEF Changing
<1>4. CASE overlap' \/ faults' # 0
  BY <1>1, <1>4, Zenon DEF CacheInv
<1>5. CASE ~overlap' /\ faults' = 0
  <2>1. ~overlap /\ faults = 0 /\ ~Changing /\ ~Filling
    BY <1>1, <1>5, Zenon
  <2>2. \A q \in queries : ~IsChange(q)
    BY <2>1 DEF Changing, IsChange
  <2>3. ~Filling'
    BY <1>1, <1>2, <2>1, Zenon DEF Filling
  <2>4. \A q \in queries' : IsChange(q) => q = Query(k, NoMsg, 0, subs + 1)
    BY <1>1, <2>2, Zenon
  <2>5. \A a \in answers' : a.query.kind # "GetChannelUsers"
    BY <1>1, <2>1, ZenonT(30) DEF Filling
  <2> QED
    BY <1>1, <1>2, <1>3, <2>3, <2>4, <2>5, Zenon DEF CacheInv, CacheRight
<1> QED
  BY <1>4, <1>5

LEMMA CacheCallback ==
  ASSUME CacheInv, NEW a \in answers, GotMaxSeq(a) \/ GotMessages(a) \/ GotChannelUsers(a)
  PROVE  CacheInv'
<1>1. CASE GotMaxSeq(a)
  <2>1. UNCHANGED queries \/ \E base : DoSendSave(a.query.msg, base, queries)
    BY <1>1 DEF GotMaxSeq
  <2> QED
    BY <1>1, <2>1, CacheSendSave, CacheAside DEF GotMaxSeq
<1>2. CASE GotMessages(a)
  BY <1>2, CacheAside, SMTT(20) DEF GotMessages
<1>3. CASE GotChannelUsers(a)
  <2>1. /\ answers' = answers \ {a} /\ a.query.kind = "GetChannelUsers"
        /\ channel' = IF a.ok /\ channel = "no entry"
                      THEN IF a.user THEN "user" ELSE "not"
                      ELSE channel
        /\ UNCHANGED <<subscribed, overlap, faults>>
    BY <1>3, ZenonT(30) DEF GotChannelUsers
  <2>2. /\ \A q \in queries' : q \in queries \/ q.kind \notin
             {"AddUserToChannel", "RemoveUserFromChannel", "GetChannelUsers"}
        /\ queries \subseteq queries'
    BY <1>3, CacheSendSave, Zenon DEF GotChannelUsers
  <2>3. Filling
    BY <2>1, ZenonT(30) DEF Filling
  <2>4. channel' \in {"no entry", "user", "not"}
    BY <2>1, Zenon DEF CacheInv
  <2>5. CASE ~overlap /\ faults = 0
    <3>1. ~Changing
      BY <2>3, <2>5, Zenon DEF CacheInv
    <3>2. \A q \in queries' : ~IsChange(q)
      BY <2>2, <3>1 DEF Changing, IsChange
    <3>3. a.ok => (a.user <=> subscribed)
      BY <2>1, <2>5, Zenon DEF CacheInv
    <3>4. CacheRight'
      BY <2>1, <2>5, <3>1, <3>3, Zenon DEF CacheInv, CacheRight
    <3>5. ~Changing'
      BY <3>2 DEF Changing, IsChange
    <3> QED
      BY <2>1, <2>4, <2>5, <3>2, <3>4, <3>5, Zenon DEF CacheInv
  <2> QED
    BY <2>1, <2>4, <2>5, ZenonT(30) DEF CacheInv
<1> QED
  BY <1>1, <1>2, <1>3

LEMMA CacheQuery ==
  ASSUME CacheInv, NEW q \in queries, ReadQuery(q) \/ WriteQuery(q) \/ FailedQuery(q)
  PROVE  CacheInv'
<1>1. CASE ReadQuery(q) /\ q.kind = "GetChannelUsers"
  <2>1. /\ queries' = queries \ {q}
        /\ answers' = answers \cup {Answer(q, TRUE, 0, << >>, subscribed)}
        /\ UNCHANGED <<channel, subscribed, overlap, faults>>
    BY <1>1, Zenon DEF ReadQuery, server
  <2>2. /\ Answer(q, TRUE, 0, << >>, subscribed).user = subscribed
        /\ Answer(q, TRUE, 0, << >>, subscribed).query = q
    BY DEF Answer
  <2>3. Filling /\ (Changing' => Changing)
    BY <1>1, <2>1 DEF Filling, Changing
  <2>4. \A b \in answers' : b \in answers \/ (b.user <=> subscribed)
    BY <2>1, <2>2, Zenon
  <2> QED
    BY <1>1, <2>1, <2>3, <2>4, Zenon DEF CacheInv, IsChange, Changing, CacheRight
<1>2. CASE ReadQuery(q) /\ q.kind # "GetChannelUsers"
  <2>1. q.kind \in {"GetMaxSeq", "GetLastAck", "GetMessage"}
    BY <1>2, Zenon DEF ReadQuery
  <2>2. UNCHANGED <<channel, subscribed, overlap, faults>>
    BY <1>2 DEF ReadQuery, server
  <2>3. \A r \in queries' : r \in queries \/ r.kind = "GetMessage"
    <3>1. \/ queries' = queries \ {q}
          \/ queries' = (queries \ {q}) \cup {Query("GetMessage", NoMsg, last_ack, q.no)}
      BY <1>2, Zenon DEF ReadQuery
    <3>2. Query("GetMessage", NoMsg, last_ack, q.no).kind = "GetMessage"
      BY DEF Query
    <3> QED
      BY <3>1, <3>2
  <2>4. \A b \in answers' : b \in answers \/ b.query = q
    <3>1. \/ answers' = answers
          \/ \E ok, seq, rows, subscribes :
               answers' = answers \cup {Answer(q, ok, seq, rows, subscribes)}
      BY <1>2, Zenon DEF ReadQuery
    <3>2. \A ok, seq, rows, subscribes : Answer(q, ok, seq, rows, subscribes).query = q
      BY DEF Answer
    <3> QED
      BY <3>1, <3>2
  <2>5. \A r \in queries : r \in queries' \/ r = q
    BY <1>2, ZenonT(30) DEF ReadQuery
  <2> QED
    BY <2>1, <2>2, <2>3, <2>4, <2>5, CacheAside
<1>3. CASE WriteQuery(q)
  <2>1. queries' = queries \ {q} /\ UNCHANGED <<channel, overlap, answers, faults>>
    BY <1>3 DEF WriteQuery, server
  <2>2. CASE ~IsChange(q)
    BY <1>3, <2>1, <2>2, CacheAside, Zenon DEF WriteQuery, IsChange
  <2>3. CASE IsChange(q)
    <3>1. subscribed' = (q.kind = "AddUserToChannel")
      BY <1>3, <2>3 DEF WriteQuery, IsChange
    <3>2. Changing
      BY <2>3 DEF Changing, IsChange
    <3>3. CASE ~overlap /\ faults = 0
      <4>1. \A r \in queries' : ~IsChange(r)
        BY <2>1, <2>3, <3>3, ZenonT(30) DEF CacheInv
      <4>2. \A b \in answers' : b.query.kind # "GetChannelUsers"
        BY <2>1, <3>2, <3>3, ZenonT(30) DEF CacheInv, Filling
      <4>3. CacheRight'
        BY <2>1, <2>3, <3>1, <3>3, Zenon DEF CacheInv, CacheRight
      <4>4. ~Changing'
        BY <4>1, SMTT(20) DEF Changing, IsChange
      <4> QED
        BY <2>1, <4>1, <4>2, <4>3, <4>4, Zenon DEF CacheInv
    <3> QED
      BY <2>1, <3>3, Zenon DEF CacheInv
  <2> QED
    BY <2>2, <2>3
<1>4. CASE FailedQuery(q)
  <2>1. faults' = faults + 1 /\ channel' = channel
    BY <1>4 DEF FailedQuery, server
  <2>2. faults \in Nat
    BY Zenon DEF CacheInv
  <2>3. faults' \in Nat /\ faults' # 0
    BY <2>1, <2>2
  <2> QED
    BY <2>1, <2>3, Zenon DEF CacheInv
<1> QED
  BY <1>1, <1>2, <1>3, <1>4, SMTT(20)

LEMMA NextCacheInv == CacheInv /\ [Next]_vars => CacheInv'
<1> SUFFICES ASSUME CacheInv, [Next]_vars PROVE CacheInv'
  OBVIOUS
<1>1. CASE \E m \in Messages : Pub(m) \/ PubChannel(m)
  BY <1>1, CachePub
<1>2. CASE Connect
  BY <1>2, CacheAside DEF Connect, Query
<1>3. CASE OnUserDisconnect
  BY <1>3, CacheAside DEF OnUserDisconnect
<1>4. CASE UpdateUserAck
  BY <1>4, CacheAside DEF UpdateUserAck, Query
<1>5. CASE Subscribe \/ Unsubscribe
  BY <1>5, CacheChange
<1>6. CASE \E a \in answers : GotMaxSeq(a) \/ GotMessages(a) \/ GotChannelUsers(a)
  BY <1>6, CacheCallback
<1>7. CASE \E q \in queries : ReadQuery(q) \/ WriteQuery(q) \/ FailedQuery(q)
  BY <1>7, CacheQuery
<1>8. CASE \E s \in Seqs : Expire(s)
  BY <1>8, CacheAside DEF Expire, server
<1>9. CASE Restart
  BY <1>9, Zenon DEF Restart, CacheInv, IsChange, Changing, Filling, CacheRight
<1>10. CASE UNCHANGED vars
  BY <1>10, CacheAside DEF vars
<1> QED
  BY <1>1, <1>2, <1>3, <1>4, <1>5, <1>6, <1>7, <1>8, <1>9, <1>10 DEF Next

\* The cached users of a channel are those of the table, whatever the order in
\* which the database carries out and answers queries, unless a change is on
\* its way, failed, or overlapped with another or with the filling of the cache.
THEOREM CacheRightTheorem == Spec => []CacheRight
<1>1. Init => CacheInv
  <2>1. 0 \in Nat
    OBVIOUS
  <2> QED
    BY <2>1, Zenon DEF Init, CacheInv, IsChange, Changing, Filling, CacheRight
<1>2. CacheInv => CacheRight
  BY Zenon DEF CacheInv, CacheRight
<1> QED
  BY <1>1, <1>2, NextCacheInv, PTL DEF Spec
=============================================================================
