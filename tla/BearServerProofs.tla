--------------------------- MODULE BearServerProofs ---------------------------
(***************************************************************************)
(* Proofs about the furniture service, for any list it starts with whose   *)
(* ids increase and any number of requests.                                *)
(***************************************************************************)
EXTENDS BearServer, SequenceTheorems, TLAPS

IInv == ServerTypeOK /\ IdsIncrease

\* splice(index, 1) at an index of the list: the bears before it stay where they
\* are, those after it move up by one.
LEMMA RemoveAtFacts ==
  ASSUME NEW S, NEW s \in Seq(S), NEW k \in 1..Len(s)
  PROVE  /\ RemoveAt(s, k) \in Seq(S)
         /\ Len(RemoveAt(s, k)) = Len(s) - 1
         /\ \A i \in 1..(Len(s) - 1) :
              RemoveAt(s, k)[i] = IF i < k THEN s[i] ELSE s[i+1]
<1> DEFINE a == SubSeq(s, 1, k-1)
           b == SubSeq(s, k+1, Len(s))
<1>1. RemoveAt(s, k) = a \o b
  BY DEF RemoveAt
<1>2. a \in Seq(S) /\ Len(a) = k-1 /\ \A i \in 1..(k-1) : a[i] = s[i]
  OBVIOUS
<1>3. b \in Seq(S) /\ Len(b) = Len(s)-k /\ \A i \in 1..(Len(s)-k) : b[i] = s[k+i]
  OBVIOUS
<1> HIDE DEF a, b
<1>4. Len(a \o b) = Len(s) - 1 /\ a \o b \in Seq(S)
  <2>1. Len(a \o b) = Len(a) + Len(b) /\ a \o b \in Seq(S)
    BY <1>2, <1>3, ConcatProperties
  <2>2. Len(s) \in Nat
    OBVIOUS
  <2> QED
    BY <1>2, <1>3, <2>1, <2>2
<1>5. ASSUME NEW i \in 1..(Len(s) - 1)
      PROVE  (a \o b)[i] = IF i < k THEN s[i] ELSE s[i+1]
  <2>1. (a \o b)[i] = IF i <= Len(a) THEN a[i] ELSE b[i - Len(a)]
    BY <1>2, <1>3, ConcatProperties
  <2>2. CASE i < k
    <3>1. i \in 1..(k-1)
      BY <2>2
    <3>2. i <= Len(a)
      BY <1>2, <3>1
    <3> QED
      BY <1>2, <2>1, <2>2, <3>1, <3>2
  <2>3. CASE ~(i < k)
    <3>1. i - Len(a) \in 1..(Len(s)-k) /\ k + (i - Len(a)) = i + 1 /\ ~(i <= Len(a))
      BY <1>2, <2>3
    <3>2. b[i - Len(a)] = s[k + (i - Len(a))]
      BY <1>3, <3>1
    <3> QED
      BY <2>1, <2>3, <3>1, <3>2
  <2> QED
    BY <2>2, <2>3
<1> QED
  BY <1>1, <1>4, <1>5

\* Leaving out one element keeps the ids increasing.
LEMMA RemoveAtIncreasing ==
  ASSUME NEW s \in Seq(Bear), NEW k \in 1..Len(s), Increasing(s)
  PROVE  RemoveAt(s, k) \in Seq(Bear) /\ Increasing(RemoveAt(s, k))
<1> DEFINE r == RemoveAt(s, k)
<1>1. /\ r \in Seq(Bear) /\ Len(r) = Len(s) - 1
      /\ \A i \in 1..(Len(s) - 1) : r[i] = IF i < k THEN s[i] ELSE s[i+1]
  BY RemoveAtFacts
<1> HIDE DEF r
<1>2. ASSUME NEW i \in 1..Len(r), NEW j \in 1..Len(r), i < j
      PROVE  r[i].id < r[j].id
  <2> DEFINE old(n) == IF n < k THEN n ELSE n + 1
  <2>1. old(i) \in 1..Len(s) /\ old(j) \in 1..Len(s) /\ old(i) < old(j)
    BY <1>1, <1>2
  <2>2. r[i] = s[old(i)] /\ r[j] = s[old(j)]
    BY <1>1
  <2>3. s[old(i)].id < s[old(j)].id
    BY <2>1 DEF Increasing
  <2> QED
    BY <2>2, <2>3
<1> QED
  BY <1>1, <1>2 DEF r, Increasing

\* splice(-1, 1): the last bear goes.
LEMMA FrontIncreasing ==
  ASSUME NEW s \in Seq(Bear), s # <<>>, Increasing(s)
  PROVE  Front(s) \in Seq(Bear) /\ Increasing(Front(s))
<1>1. Len(s) \in Nat /\ Len(s) >= 1
  BY EmptySeq
<1>2. /\ Front(s) \in Seq(Bear) /\ Len(Front(s)) = Len(s) - 1
      /\ \A i \in 1..(Len(s) - 1) : Front(s)[i] = s[i]
  <2>1. \A i \in 1..(Len(s) - 1) : s[i] \in Bear
    OBVIOUS
  <2>2. Len(s) - 1 \in Int /\ Len(s) - 1 - 1 + 1 = Len(s) - 1
    BY <1>1
  <2>3. /\ SubSeq(s, 1, Len(s) - 1) \in Seq(Bear)
        /\ Len(SubSeq(s, 1, Len(s) - 1)) = Len(s) - 1
        /\ \A i \in 1..(Len(s) - 1) : SubSeq(s, 1, Len(s) - 1)[i] = s[i]
    BY <1>1, <2>1, <2>2, SubSeqProperties
  <2> QED
    BY <2>3 DEF Front
<1>3. ASSUME NEW i \in 1..Len(Front(s)), NEW j \in 1..Len(Front(s)), i < j
      PROVE  Front(s)[i].id < Front(s)[j].id
  <2>1. i \in 1..(Len(s) - 1) /\ j \in 1..(Len(s) - 1)
    BY <1>2
  <2>2. s[i].id < s[j].id
    BY <1>1, <1>3, <2>1 DEF Increasing
  <2> QED
    BY <1>2, <2>1, <2>2
<1> QED
  BY <1>2, <1>3 DEF Increasing

\* The id that a new bear gets is greater than every id of the list.
LEMMA NextIdIsNew ==
  ASSUME NEW s \in Seq(Bear), Increasing(s)
  PROVE  NextId(s) \in Nat /\ \A i \in 1..Len(s) : s[i].id < NextId(s)
<1>1. CASE s = <<>>
  BY <1>1 DEF NextId
<1>2. CASE s # <<>>
  <2>1. Len(s) \in 1..Len(s)
    BY <1>2, EmptySeq
  <2>2. ASSUME NEW i \in 1..Len(s) PROVE s[i].id \in Nat
    <3>1. s[i] \in Bear
      OBVIOUS
    <3> QED
      BY <3>1 DEF Bear
  <2>3. ASSUME NEW i \in 1..Len(s) PROVE s[i].id <= s[Len(s)].id
    <3>1. CASE i = Len(s)
      BY <2>2, <3>1
    <3>2. CASE i # Len(s)
      <4>1. i < Len(s)
        BY <3>2
      <4>2. s[i].id < s[Len(s)].id
        BY <2>1, <4>1 DEF Increasing
      <4> QED
        BY <2>1, <2>2, <4>2
    <3> QED
      BY <3>1, <3>2
  <2> QED
    BY <1>2, <2>1, <2>2, <2>3 DEF NextId
<1> QED
  BY <1>1, <1>2

\* A new bear at the end keeps the ids increasing.
LEMMA AppendIncreasing ==
  ASSUME NEW s \in Seq(Bear), Increasing(s), NEW form \in Forms
  PROVE  LET t == Append(s, [id |-> NextId(s), form |-> form])
         IN  t \in Seq(Bear) /\ Increasing(t)
<1> DEFINE bear == [id |-> NextId(s), form |-> form]
           t == Append(s, bear)
<1>1. bear \in Bear /\ \A i \in 1..Len(s) : s[i].id < bear.id
  BY NextIdIsNew DEF Bear
<1> HIDE DEF bear
<1>2. /\ t \in Seq(Bear) /\ Len(t) = Len(s) + 1
      /\ \A i \in 1..Len(s) : t[i] = s[i]
      /\ t[Len(s) + 1] = bear
  BY <1>1, AppendProperties
<1> HIDE DEF t
<1>3. ASSUME NEW i \in 1..Len(t), NEW j \in 1..Len(t), i < j
      PROVE  t[i].id < t[j].id
  <2>1. i \in 1..Len(s)
    BY <1>2, <1>3
  <2>2. CASE j \in 1..Len(s)
    BY <1>2, <1>3, <2>1, <2>2 DEF Increasing
  <2>3. CASE j = Len(s) + 1
    BY <1>1, <1>2, <2>1, <2>3
  <2> QED
    BY <1>2, <2>2, <2>3
<1> QED
  BY <1>2, <1>3 DEF t, bear, Increasing

\* What a change of one bear's form keeps.
LEMMA PutIncreasing ==
  ASSUME NEW s \in Seq(Bear), Increasing(s), NEW k \in 1..Len(s), NEW form \in Forms
  PROVE  LET t == [s EXCEPT ![k].form = form]
         IN  t \in Seq(Bear) /\ Increasing(t)
<1> DEFINE t == [s EXCEPT ![k].form = form]
<1>1. \A i \in 1..Len(s) : s[i] \in Bear
  OBVIOUS
<1>2. [s[k] EXCEPT !.form = form] \in Bear /\ [s[k] EXCEPT !.form = form].id = s[k].id
  BY <1>1 DEF Bear
<1>3. t = [s EXCEPT ![k] = [s[k] EXCEPT !.form = form]]
  OBVIOUS
<1>4. t \in Seq(Bear) /\ Len(t) = Len(s) /\ \A i \in 1..Len(s) : t[i].id = s[i].id
  BY <1>2, <1>3, ExceptSeq
<1> HIDE DEF t
<1>5. Increasing(t)
  BY <1>4 DEF Increasing
<1> QED
  BY <1>4, <1>5 DEF t

\* Every request, and a restart, keeps the list well formed and its ids increasing.
LEMMA RequestStep ==
  ASSUME IInv, [ServerNext]_bears
  PROVE  IInv'
<1> USE DEF IInv, ServerTypeOK, IdsIncrease
<1>1. ASSUME NEW form \in Forms, Post(form) PROVE IInv'
  BY <1>1, AppendIncreasing DEF Post
<1>2. ASSUME NEW id \in Nat, NEW form \in Forms, Put(id, form) PROVE IInv'
  BY <1>2, PutIncreasing DEF Put, FindIndex
<1>3. ASSUME NEW id \in Nat, Delete(id) PROVE IInv'
  BY <1>3, RemoveAtIncreasing, FrontIncreasing DEF Delete, FindIndex
<1>4. CASE Restart
  BY <1>4, BearAssumption DEF Restart
<1>5. CASE UNCHANGED bears
  BY <1>5
<1> QED
  BY <1>1, <1>2, <1>3, <1>4, <1>5 DEF ServerNext

\* No two bears of the service ever share an id, and they stay in the order of
\* their ids, whatever is created, updated, deleted or lost in a restart
\* (index.js computes an id from the last bear only).
THEOREM IdsStayIncreasing == ServerSpec => [](ServerTypeOK /\ IdsIncrease)
<1>1. ServerInit => IInv
  BY BearAssumption DEF ServerInit, IInv, ServerTypeOK, IdsIncrease
<1>2. IInv /\ [ServerNext]_bears => IInv'
  BY RequestStep
<1> QED
  BY <1>1, <1>2, PTL DEF ServerSpec, IInv

\* A DELETE for an id that the list holds removes exactly one bear, the one with
\* that id: every bear with another id is still there.
THEOREM DeleteSparesTheOthers ==
  ASSUME ServerTypeOK, NEW id \in Nat, FindIndex(id) # {}, Delete(id)
  PROVE  /\ Len(bears') = Len(bears) - 1
         /\ \A i \in 1..Len(bears) :
              bears[i].id # id => \E j \in 1..Len(bears') : bears'[j] = bears[i]
<1>1. PICK k \in FindIndex(id) : bears' = RemoveAt(bears, k)
  BY DEF Delete
<1>2. k \in 1..Len(bears) /\ bears[k].id = id
  BY <1>1 DEF FindIndex
<1>3. /\ Len(bears') = Len(bears) - 1
      /\ \A i \in 1..(Len(bears) - 1) :
           bears'[i] = IF i < k THEN bears[i] ELSE bears[i+1]
  BY <1>1, <1>2, RemoveAtFacts DEF ServerTypeOK
<1>4. ASSUME NEW i \in 1..Len(bears), bears[i].id # id
      PROVE  \E j \in 1..Len(bears') : bears'[j] = bears[i]
  <2>1. i # k
    BY <1>2, <1>4
  <2>2. CASE i < k
    <3>1. i \in 1..(Len(bears) - 1)
      BY <1>2, <2>2 DEF ServerTypeOK
    <3> QED
      BY <1>3, <2>2, <3>1
  <2>3. CASE i > k
    <3>1. i - 1 \in 1..(Len(bears) - 1) /\ ~(i - 1 < k) /\ (i - 1) + 1 = i
      BY <1>2, <2>3 DEF ServerTypeOK
    <3>2. bears'[i - 1] = bears[i]
      BY <1>3, <3>1
    <3> QED
      BY <1>3, <3>1, <3>2
  <2> QED
    BY <1>2, <2>1, <2>2, <2>3 DEF ServerTypeOK
<1> QED
  BY <1>3, <1>4

-----------------------------------------------------------------------------
(* The list implements the table. *)

RowsOf(s) == {s[i] : i \in DOMAIN s}

\* Increasing ids make the bears distinct.
LEMMA RowsAreDistinct ==
  ASSUME NEW s \in Seq(Bear), Increasing(s), NEW i \in 1..Len(s), NEW j \in 1..Len(s),
         i # j
  PROVE  s[i] # s[j]
<1>1. i < j \/ j < i
  OBVIOUS
<1>2. s[i].id \in Nat /\ s[j].id \in Nat
  <2>1. s[i] \in Bear /\ s[j] \in Bear
    OBVIOUS
  <2>2. QED
    BY <2>1 DEF Bear
<1>3. s[i].id < s[j].id \/ s[j].id < s[i].id
  BY <1>1 DEF Increasing
<1>4. QED
  BY <1>2, <1>3

LEMMA RemoveAtRows ==
  ASSUME NEW s \in Seq(Bear), Increasing(s), NEW k \in 1..Len(s)
  PROVE  RowsOf(RemoveAt(s, k)) = RowsOf(s) \ {s[k]}
<1> DEFINE r == RemoveAt(s, k)
<1>1. /\ r \in Seq(Bear) /\ Len(r) = Len(s) - 1
      /\ \A i \in 1..(Len(s) - 1) : r[i] = IF i < k THEN s[i] ELSE s[i+1]
  BY RemoveAtFacts
<1> HIDE DEF r
<1>2. DOMAIN r = 1..(Len(s) - 1) /\ DOMAIN s = 1..Len(s)
  BY <1>1
<1>3. ASSUME NEW i \in 1..(Len(s) - 1) PROVE r[i] \in RowsOf(s) \ {s[k]}
  <2>1. PICK j \in 1..Len(s) : r[i] = s[j] /\ j # k
    <3>1. CASE i < k
      BY <1>1, <3>1
    <3>2. CASE ~(i < k)
      BY <1>1, <3>2
    <3>3. QED
      BY <3>1, <3>2
  <2>2. QED
    BY <1>2, <2>1, RowsAreDistinct DEF RowsOf
<1>4. ASSUME NEW j \in 1..Len(s), j # k PROVE s[j] \in RowsOf(r)
  <2>1. PICK i \in 1..(Len(s) - 1) : r[i] = s[j]
    <3>1. CASE j < k
      <4>1. j \in 1..(Len(s) - 1)
        BY <3>1
      <4>2. QED
        BY <1>1, <3>1, <4>1
    <3>2. CASE j > k
      <4>1. j - 1 \in 1..(Len(s) - 1) /\ ~(j - 1 < k) /\ (j - 1) + 1 = j
        BY <3>2
      <4>2. QED
        BY <1>1, <4>1
    <3>3. QED
      BY <1>4, <3>1, <3>2
  <2>2. QED
    BY <1>2, <2>1 DEF RowsOf
<1>5. RowsOf(r) \subseteq RowsOf(s) \ {s[k]}
  BY <1>2, <1>3 DEF RowsOf
<1>6. RowsOf(s) \ {s[k]} \subseteq RowsOf(r)
  BY <1>2, <1>4 DEF RowsOf
<1>7. QED
  BY <1>5, <1>6 DEF r

LEMMA FrontRows ==
  ASSUME NEW s \in Seq(Bear), Increasing(s), s # <<>>
  PROVE  RowsOf(Front(s)) = RowsOf(s) \ {s[Len(s)]}
<1>1. Len(s) \in 1..Len(s)
  BY EmptySeq
<1>2. Front(s) = RemoveAt(s, Len(s))
  <2>1. /\ Front(s) = SubSeq(s, 1, Len(s) - 1)
        /\ RemoveAt(s, Len(s)) = SubSeq(s, 1, Len(s) - 1) \o SubSeq(s, Len(s) + 1, Len(s))
    BY DEF Front, RemoveAt
  <2>2. SubSeq(s, Len(s) + 1, Len(s)) = <<>> /\ SubSeq(s, 1, Len(s) - 1) \in Seq(Bear)
    BY <1>1
  <2>3. QED
    BY <2>1, <2>2, ConcatEmptySeq
<1>3. QED
  BY <1>1, <1>2, RemoveAtRows

LEMMA AppendRows ==
  ASSUME NEW s \in Seq(Bear), NEW bear \in Bear
  PROVE  RowsOf(Append(s, bear)) = RowsOf(s) \union {bear}
<1>1. /\ DOMAIN Append(s, bear) = 1..(Len(s) + 1) /\ DOMAIN s = 1..Len(s)
      /\ \A i \in 1..Len(s) : Append(s, bear)[i] = s[i]
      /\ Append(s, bear)[Len(s) + 1] = bear
  BY AppendProperties
<1>2. 1..(Len(s) + 1) = 1..Len(s) \union {Len(s) + 1}
  OBVIOUS
<1>3. QED
  BY <1>1, <1>2 DEF RowsOf

LEMMA PutRows ==
  ASSUME NEW s \in Seq(Bear), Increasing(s), NEW k \in 1..Len(s), NEW form \in Forms
  PROVE  RowsOf([s EXCEPT ![k].form = form])
           = (RowsOf(s) \ {s[k]}) \union {[s[k] EXCEPT !.form = form]}
<1> DEFINE t == [s EXCEPT ![k].form = form]
<1>1. DOMAIN t = 1..Len(s) /\ DOMAIN s = 1..Len(s)
  OBVIOUS
<1>2. t[k] = [s[k] EXCEPT !.form = form] /\ \A i \in 1..Len(s) : i # k => t[i] = s[i]
  OBVIOUS
<1>3. \A i \in 1..Len(s) : i # k => s[i] # s[k]
  BY RowsAreDistinct
<1> HIDE DEF t
<1>4. QED
  BY <1>1, <1>2, <1>3 DEF RowsOf, t

LEMMA TableStep ==
  ASSUME IInv, [ServerNext]_bears
  PROVE  [Table!TableNext]_(RowsOf(bears))
<1> USE DEF IInv, ServerTypeOK, IdsIncrease
<1> DEFINE rows == RowsOf(bears)
<1>0. rows = {bears[i] : i \in DOMAIN bears} /\ DOMAIN bears = 1..Len(bears)
  BY DEF RowsOf
<1>1. ASSUME NEW form \in Forms, Post(form) PROVE Table!Create
  <2> DEFINE bear == [id |-> NextId(bears), form |-> form]
  <2>1. bear \in Bear /\ \A i \in 1..Len(bears) : bears[i].id < bear.id
    BY NextIdIsNew DEF Bear
  <2>2. bear.form \in Forms
    OBVIOUS
  <2> HIDE DEF bear
  <2>3. rows' = rows \union {bear}
    BY <1>1, <2>1, AppendRows DEF Post, bear
  <2>4. \A other \in rows : other.id < bear.id
    BY <1>0, <2>1
  <2>5. QED
    BY <2>2, <2>3, <2>4 DEF Table!Create, RowsOf
<1>2. ASSUME NEW id \in Nat, NEW form \in Forms, Put(id, form) PROVE Table!Change
  <2>1. PICK k \in 1..Len(bears) : bears' = [bears EXCEPT ![k].form = form]
    BY <1>2 DEF Put, FindIndex
  <2>2. rows' = (rows \ {bears[k]}) \union {[bears[k] EXCEPT !.form = form]}
    BY <2>1, PutRows
  <2>3. bears[k] \in rows
    BY <1>0
  <2>4. QED
    BY <2>2, <2>3 DEF Table!Change, RowsOf
<1>3. ASSUME NEW id \in Nat, Delete(id) PROVE Table!Remove \/ UNCHANGED rows
  <2>1. ASSUME NEW k \in 1..Len(bears), bears' = RemoveAt(bears, k) PROVE Table!Remove
    <3>1. rows' = rows \ {bears[k]} /\ bears[k] \in rows
      BY <1>0, <2>1, RemoveAtRows
    <3>2. QED
      BY <3>1 DEF Table!Remove, RowsOf
  <2>2. CASE bears # <<>> /\ bears' = Front(bears)
    <3>1. Len(bears) \in 1..Len(bears)
      BY <2>2, EmptySeq
    <3>2. rows' = rows \ {bears[Len(bears)]} /\ bears[Len(bears)] \in rows
      BY <1>0, <2>2, <3>1, FrontRows
    <3>3. QED
      BY <3>2 DEF Table!Remove, RowsOf
  <2>3. CASE bears' = bears
    BY <2>3
  <2>4. QED
    BY <1>3, <2>1, <2>2, <2>3 DEF Delete, FindIndex
<1>4. ASSUME Restart PROVE Table!Reset
  BY <1>4 DEF Restart, Table!Reset
<1>5. CASE UNCHANGED bears
  BY <1>5
<1>6. QED
  BY <1>1, <1>2, <1>3, <1>4, <1>5 DEF ServerNext, Table!TableNext

\* The service implements the table for any list it starts with whose ids increase:
\* positions in the list never make a request touch two rows.
THEOREM ServiceIsATable == ServerSpec => ImplementsTable
<1>1. ServerInit =>
        {bears[i] : i \in DOMAIN bears} = {InitialBears[i] : i \in DOMAIN InitialBears}
  BY DEF ServerInit
<1>2. IInv /\ [ServerNext]_bears =>
        [Table!TableNext]_({bears[i] : i \in DOMAIN bears})
  BY TableStep DEF RowsOf
<1>3. ServerSpec => []IInv
  BY IdsStayIncreasing DEF IInv
<1>4. QED
  BY <1>1, <1>2, <1>3, PTL DEF ServerSpec, ImplementsTable, Table!TableSpec

=============================================================================
