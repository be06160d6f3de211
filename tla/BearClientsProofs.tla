-------------------------- MODULE BearClientsProofs --------------------------
(***************************************************************************)
(* Whatever browsers, other programs, lost messages and restarts do, the   *)
(* service under them behaves as BearServer says, for any number of        *)
(* clients and requests; so its theorems hold with the clients around it.  *)
(* And a client that works alone keeps an exact copy of the list, because  *)
(* the store's filter and map do to a list whose ids increase what the     *)
(* server's splice and assignment do to it.                                *)
(***************************************************************************)
EXTENDS BearClients, BearServerProofs, FoldTheorems

\* The forms that requests carry were filled in at some client.
RequestsKnown ==
  /\ slots = [s \in Slots |-> slots[s]]
  /\ \A s \in Slots : slots[s] # Idle /\ slots[s].req.op \in {"post", "put"} =>
       slots[s].req.form \in Forms

LEMMA FillStep ==
  ASSUME RequestsKnown, NEW s \in Slots, NEW value, Fill(s, value),
         value = Idle \/ (value.req.op \in {"post", "put"} => value.req.form \in Forms)
  PROVE  RequestsKnown'
BY DEF RequestsKnown, Fill

LEMMA SendStep ==
  ASSUME RequestsKnown, NEW c, NEW req, Send(c, req),
         req.op \in {"post", "put"} => req.form \in Forms
  PROVE  RequestsKnown' /\ UNCHANGED bears
<1>1. PICK s \in Slots : Fill(s, Sent(c, req))
  BY DEF Send
<1>2. Sent(c, req).req = req
  BY DEF Sent
<1>3. QED
  BY <1>1, <1>2, FillStep DEF Send

\* A handler changes the list as one of the service's requests; an id that is not in
\* the list is as good as any other such id.
LEMMA HandlerIsARequest ==
  ASSUME ServerTypeOK, IdsIncrease, NEW id
  PROVE  /\ \A form \in Forms : Put(id, form) => ServerNext
         /\ Delete(id) => ServerNext
<1>1. ASSUME NEW k \in FindIndex(id) PROVE id \in Nat
  <2>1. bears[k] \in Bear /\ bears[k].id = id
    BY <1>1 DEF FindIndex, ServerTypeOK
  <2>2. QED
    BY <2>1 DEF Bear
<1>2. ASSUME NEW form \in Forms, Put(id, form) PROVE ServerNext
  BY <1>1, <1>2 DEF Put, ServerNext
<1>3. ASSUME Delete(id) PROVE ServerNext
  <2>1. CASE FindIndex(id) # {}
    BY <1>1, <1>3, <2>1 DEF ServerNext
  <2>2. CASE FindIndex(id) = {}
    <3>1. NextId(bears) \in Nat /\ \A i \in 1..Len(bears) : bears[i].id < NextId(bears)
      BY NextIdIsNew DEF ServerTypeOK, IdsIncrease
    <3>2. \A i \in 1..Len(bears) : bears[i].id # NextId(bears)
      <4>1. \A i \in 1..Len(bears) : bears[i] \in Bear
        BY DEF ServerTypeOK
      <4>2. QED
        BY <3>1, <4>1 DEF Bear
    <3>3. FindIndex(NextId(bears)) = {}
      BY <3>2 DEF FindIndex
    <3>4. Delete(NextId(bears))
      BY <1>3, <2>2, <3>3 DEF Delete
    <3>5. QED
      BY <3>1, <3>4 DEF ServerNext
  <2>3. QED
    BY <2>1, <2>2
<1>4. QED
  BY <1>2, <1>3

LEMMA ClientStep ==
  ASSUME RequestsKnown, IInv, [Next]_vars
  PROVE  RequestsKnown' /\ [ServerNext]_bears
<1> USE DEF IInv
<1>1. ASSUME NEW c \in Clients, GetBears(c) \/ AddBear(c) \/ UpdateBear(c) \/ DeleteBear(c)
      PROVE  RequestsKnown' /\ UNCHANGED bears
  <2>1. CASE GetBears(c)
    BY <2>1, SendStep DEF GetBears
  <2>2. CASE AddBear(c)
    BY <2>2, SendStep DEF AddBear
  <2>3. CASE UpdateBear(c)
    BY <2>3, SendStep DEF UpdateBear
  <2>4. CASE DeleteBear(c)
    BY <2>4, SendStep DEF DeleteBear
  <2>5. QED
    BY <1>1, <2>1, <2>2, <2>3, <2>4
<1>2. ASSUME NEW s \in Slots, Handle(s) PROVE RequestsKnown' /\ [ServerNext]_bears
  <2> DEFINE req == slots[s].req
             data == IF req.op = "get" THEN bears ELSE <<>>
  <2>1. slots[s].stage = "sent" /\ Fill(s, Answered(slots[s].by, req, data))
    BY <1>2 DEF Handle
  <2>2. slots[s] # Idle
    BY <2>1 DEF Idle
  <2>3. req.op \in {"post", "put"} => req.form \in Forms
    BY <2>2 DEF RequestsKnown
  <2>4. Answered(slots[s].by, req, data).req = req
    BY DEF Answered
  <2>5. \/ UNCHANGED bears
        \/ req.op = "post" /\ Post(req.form)
        \/ req.op = "put" /\ Put(req.id, req.form)
        \/ Delete(req.id)
    BY <1>2 DEF Handle
  <2> HIDE DEF req, data
  <2>6. RequestsKnown'
    BY <2>1, <2>3, <2>4, FillStep
  <2>7. [ServerNext]_bears
    BY <2>3, <2>5, HandlerIsARequest DEF ServerNext
  <2>8. QED
    BY <2>6, <2>7
<1>3. ASSUME NEW s \in Slots,
             HandleFails(s) \/ Receive(s) \/ LoseRequest(s) \/ LoseAnswer(s)
      PROVE  RequestsKnown' /\ UNCHANGED bears
  <2>1. Fill(s, Idle) /\ UNCHANGED bears
    BY <1>3 DEF HandleFails, PutFails, Receive, LoseRequest, LoseAnswer
  <2>2. QED
    BY <2>1, FillStep
<1>4. CASE HandleElsewhere
  <2>1. UNCHANGED slots
    BY <1>4 DEF HandleElsewhere
  <2>2. \/ \E form \in Forms : Post(form)
        \/ \E id \in 0..MaxId, form \in Forms : Put(id, form)
        \/ \E id \in 0..MaxId : Delete(id)
    BY <1>4 DEF HandleElsewhere
  <2>3. ServerNext
    BY <2>2, HandlerIsARequest DEF ServerNext
  <2>4. QED
    BY <2>1, <2>3 DEF RequestsKnown, Idle
<1>5. CASE ServerRestarts
  BY <1>5 DEF ServerRestarts, ServerNext, RequestsKnown, Idle
<1>6. CASE UNCHANGED vars
  BY <1>6 DEF vars, RequestsKnown, Idle
<1>7. QED
  BY <1>1, <1>2, <1>3, <1>4, <1>5, <1>6 DEF Next

\* With clients, other programs, a failing network and restarts, the service still
\* takes only the steps of BearServer, and never gives two bears one id.
THEOREM IdsIncreaseUnderClients == Spec => ServerSpec /\ []IdsIncrease
<1>1. Init => ServerInit /\ RequestsKnown /\ IInv
  BY BearAssumption DEF Init, ServerInit, RequestsKnown, Idle, IInv, ServerTypeOK,
                        IdsIncrease
<1>2. RequestsKnown /\ IInv /\ [Next]_vars => RequestsKnown' /\ [ServerNext]_bears
  BY ClientStep
<1>3. IInv /\ [ServerNext]_bears => IInv'
  BY RequestStep
<1>4. IInv => IdsIncrease
  BY DEF IInv
<1>5. QED
  BY <1>1, <1>2, <1>3, <1>4, PTL DEF Spec, ServerSpec

\* So it implements the table with the clients around it too.
THEOREM TableUnderClients == Spec => ImplementsTable
BY IdsIncreaseUnderClients, ServiceIsATable, PTL

-----------------------------------------------------------------------------
(* What the store does to a list. *)

\* bears.filter looks at one bear after the other.
Filters(f, s, id) ==
  /\ f[0] = <<>>
  /\ \A m \in 1..Len(s) :
       f[m] = IF s[m].id # id THEN Append(f[m-1], s[m]) ELSE f[m-1]

LEMMA MaxOfPrefix ==
  ASSUME NEW n \in Nat, NEW m \in 1..n
  PROVE  Max(1..m) = m /\ (1..m) \ {Max(1..m)} = 1..(m-1)
<1>1. 1..m \in SUBSET (1..n) /\ m \in 1..m
  OBVIOUS
<1>2. Max(1..m) \in 1..m /\ m <= Max(1..m)
  BY <1>1, GreatestIndex
<1>3. Max(1..m) = m
  BY <1>2
<1> QED
  BY <1>3

LEMMA WithoutIsAFilter ==
  ASSUME NEW s \in Seq(Bear), NEW id
  PROVE  \E f \in [0..Len(s) -> Seq(Bear)] : Filters(f, s, id) /\ Without(s, id) = f[Len(s)]
<1> DEFINE n == Len(s)
           D == 1..n
           Value(g, S) ==
             IF S = {} THEN <<>>
             ELSE IF s[Max(S)].id # id THEN Append(g[S \ {Max(S)}], s[Max(S)])
                  ELSE g[S \ {Max(S)}]
           take == [S \in SUBSET D |-> Max(S)]
           Step == [v \in Seq(Bear) |-> [i \in D |->
                      IF s[i].id # id THEN Append(v, s[i]) ELSE v]]
           g == CHOOSE g : g = [S \in SUBSET D |-> Value(g, S)]
<1>1. n \in Nat /\ DOMAIN s = D /\ IsFiniteSet(D) /\ \A i \in D : s[i] \in Bear
  <2>1. n \in Nat /\ DOMAIN s = D /\ \A i \in D : s[i] \in Bear
    OBVIOUS
  <2> QED
    BY <2>1, FS_Interval
<1>2. Chooses(take, D)
  BY <1>1, GreatestIndex DEF Chooses
<1>3. Step \in [Seq(Bear) -> [D -> Seq(Bear)]]
  BY <1>1, AppendProperties
<1> HIDE DEF take, Step, g, D
<1>4. PICK f \in [SUBSET D -> Seq(Bear)] : IsFold(f, D, <<>>, Step, take)
  <2>1. <<>> \in Seq(Bear)
    OBVIOUS
  <2> QED
    BY <1>1, <1>2, <1>3, <2>1, FoldExists
<1>5. ASSUME NEW S \in SUBSET D, S # {}
      PROVE  /\ Step[f[S \ {take[S]}]][take[S]] =
                  IF s[take[S]].id # id THEN Append(f[S \ {take[S]}], s[take[S]])
                  ELSE f[S \ {take[S]}]
             /\ take[S] = Max(S)
  <2>1. f[S \ {take[S]}] \in Seq(Bear) /\ take[S] \in D
    BY <1>2, <1>4, <1>5 DEF Chooses
  <2> QED
    BY <2>1 DEF Step, take
<1>6. \A S \in SUBSET D : f[S] = Value(f, S)
  BY <1>4, <1>5 DEF IsFold
<1>7. f = [S \in SUBSET D |-> Value(f, S)]
  <2> HIDE DEF Value
  <2> QED
    BY <1>4, <1>6
<1>8. g = [S \in SUBSET D |-> Value(g, S)]
  <2> HIDE DEF Value
  <2> QED
    BY <1>7 DEF g
<1>9. Without(s, id) = g[D]
  BY <1>1 DEF Without, FoldLeft, MapThenFoldSet, g
<1>10. \A S \in SUBSET D : g[S] = Value(g, S)
  <2> HIDE DEF Value
  <2> QED
    BY <1>8
<1>11. \A m \in 0..n : 1..m \in SUBSET D
  BY <1>1 DEF D
<1>12. \A m \in 1..n : /\ 1..m # {} /\ Max(1..m) = m /\ (1..m) \ {Max(1..m)} = 1..(m-1)
                       /\ m - 1 \in 0..n
  BY <1>1, MaxOfPrefix
<1>13. ASSUME NEW h, \A S \in SUBSET D : h[S] = Value(h, S)
       PROVE  /\ h[1..0] = <<>>
              /\ \A m \in 1..n : h[1..m] =
                   IF s[m].id # id THEN Append(h[1..(m-1)], s[m]) ELSE h[1..(m-1)]
  <2>1. h[1..0] = <<>>
    <3>1. 1..0 = {} /\ {} \in SUBSET D
      OBVIOUS
    <3>2. h[{}] = Value(h, {})
      BY <1>13
    <3> QED
      BY <3>1, <3>2
  <2>2. ASSUME NEW m \in 1..n
        PROVE  h[1..m] =
                 IF s[m].id # id THEN Append(h[1..(m-1)], s[m]) ELSE h[1..(m-1)]
    <3> DEFINE S == 1..m
               T == 1..(m-1)
    <3>1. S \in SUBSET D /\ S # {} /\ Max(S) = m /\ S \ {Max(S)} = T
      BY <1>1, <1>11, <1>12
    <3> HIDE DEF S, T
    <3>2. h[S] = Value(h, S)
      BY <1>13, <3>1
    <3>3. h[S] = IF s[m].id # id THEN Append(h[T], s[m]) ELSE h[T]
      BY <3>1, <3>2
    <3> QED
      BY <3>3 DEF S, T
  <2> QED
    BY <2>1, <2>2
<1> HIDE DEF Value
<1> DEFINE P == {m \in Nat : m <= n => f[1..m] = g[1..m]}
<1>14. 0 \in P /\ \A m \in P : m + 1 \in P
  <2>1. 0 \in P
    BY <1>6, <1>10, <1>13
  <2>2. ASSUME NEW m \in P, m + 1 <= n PROVE f[1..(m + 1)] = g[1..(m + 1)]
    <3>1. m + 1 \in 1..n /\ (m + 1) - 1 = m
      BY <1>1, <2>2
    <3> DEFINE k == m + 1
    <3>2. f[1..(k-1)] = g[1..(k-1)]
      BY <1>1, <2>2, <3>1
    <3> HIDE DEF k
    <3>3. k \in 1..n
      BY <3>1 DEF k
    <3>4. f[1..k] = IF s[k].id # id THEN Append(f[1..(k-1)], s[k]) ELSE f[1..(k-1)]
      BY <1>6, <1>13, <3>3
    <3>5. g[1..k] = IF s[k].id # id THEN Append(g[1..(k-1)], s[k]) ELSE g[1..(k-1)]
      BY <1>10, <1>13, <3>3
    <3> QED
      BY <3>2, <3>4, <3>5 DEF k
  <2> QED
    BY <2>1, <2>2
<1>15. P = Nat
  <2>1. P \in SUBSET Nat
    OBVIOUS
  <2> HIDE DEF P
  <2> QED
    BY <1>14, <2>1, AllNat
<1> DEFINE h == [m \in 0..n |-> f[1..m]]
<1>16. h \in [0..n -> Seq(Bear)]
  BY <1>4, <1>11
<1>17. Without(s, id) = h[n]
  BY <1>1, <1>9, <1>15 DEF D
<1>18. Filters(h, s, id)
  <2>1. h[0] = <<>>
    BY <1>1, <1>6, <1>13
  <2>2. ASSUME NEW m \in 1..n
        PROVE  h[m] = IF s[m].id # id THEN Append(h[m-1], s[m]) ELSE h[m-1]
    <3>1. f[1..m] = IF s[m].id # id THEN Append(f[1..(m-1)], s[m]) ELSE f[1..(m-1)]
      BY <1>6, <1>13
    <3>2. h[m] = f[1..m] /\ h[m-1] = f[1..(m-1)]
      BY <1>1, <1>12
    <3> QED
      BY <3>1, <3>2
  <2> QED
    BY <2>1, <2>2 DEF Filters
<1> QED
  BY <1>16, <1>17, <1>18

\* On a list whose ids increase the filter takes away what splice would, and nothing
\* else.
LEMMA WithoutIsSplice ==
  ASSUME NEW s \in Seq(Bear), Increasing(s), NEW k \in 1..Len(s)
  PROVE  Without(s, s[k].id) = RemoveAt(s, k)
<1> DEFINE n == Len(s)
           id == s[k].id
           Kept(t, m) == IF m < k
                         THEN Len(t) = m /\ \A i \in 1..m : t[i] = s[i]
                         ELSE /\ Len(t) = m - 1
                              /\ \A i \in 1..(m-1) : t[i] = IF i < k THEN s[i] ELSE s[i+1]
<1>1. PICK f \in [0..n -> Seq(Bear)] : Filters(f, s, id) /\ Without(s, id) = f[n]
  BY WithoutIsAFilter
<1>2. n \in Nat /\ k \in 1..n
  OBVIOUS
<1>3. ASSUME NEW m \in 1..n, m # k PROVE s[m].id # id
  <2>1. s[m].id \in Nat /\ s[k].id \in Nat
    <3>1. s[m] \in Bear /\ s[k] \in Bear
      OBVIOUS
    <3> QED
      BY <3>1 DEF Bear
  <2>2. m < k \/ k < m
    BY <1>2, <1>3
  <2>3. s[m].id < s[k].id \/ s[k].id < s[m].id
    BY <2>2 DEF Increasing
  <2> QED
    BY <2>1, <2>3
<1> DEFINE P == {m \in Nat : m <= n => Kept(f[m], m)}
<1> HIDE DEF n, id
<1>4. 0 \in P
  BY <1>1, <1>2 DEF Filters
<1>5. ASSUME NEW m \in Nat, m + 1 <= n, Kept(f[m], m) PROVE Kept(f[m + 1], m + 1)
  <2> DEFINE t == f[m]
             u == f[m + 1]
  <2>1. /\ m + 1 \in 1..n /\ m \in 0..n /\ m + 1 \in 0..n
    BY <1>2, <1>5
  <2>2. t \in Seq(Bear) /\ u \in Seq(Bear) /\ s[m + 1] \in Bear
    BY <1>1, <2>1 DEF n
  <2>3. u = IF s[m + 1].id # id THEN Append(t, s[m + 1]) ELSE t
    <3>1. (m + 1) - 1 = m
      OBVIOUS
    <3> QED
      BY <1>1, <2>1, <3>1 DEF Filters, n
  <2> HIDE DEF t, u
  <2>4. CASE m + 1 = k
    <3>1. u = t /\ ~(m + 1 < k) /\ m < k
      BY <2>3, <2>4 DEF id
    <3>2. Len(t) = m /\ \A i \in 1..m : t[i] = s[i]
      BY <1>5, <3>1 DEF t
    <3>3. \A i \in 1..m : i < k
      BY <2>4
    <3> QED
      BY <3>1, <3>2, <3>3 DEF u
  <2>5. CASE m + 1 # k
    <3>1. u = Append(t, s[m + 1])
      BY <1>3, <2>1, <2>3, <2>5
    <3>2. /\ Len(u) = Len(t) + 1 /\ u[Len(t) + 1] = s[m + 1]
          /\ \A i \in 1..Len(t) : u[i] = t[i]
      BY <2>2, <3>1, AppendProperties
    <3>3. CASE m < k
      <4>1. m + 1 < k /\ Len(t) = m /\ \A i \in 1..m : t[i] = s[i]
        BY <1>2, <1>5, <2>5, <3>3 DEF t
      <4>2. ASSUME NEW i \in 1..(m + 1) PROVE u[i] = s[i]
        <5>1. i \in 1..m \/ i = m + 1
          OBVIOUS
        <5> QED
          BY <3>2, <4>1, <5>1
      <4> QED
        BY <3>2, <4>1, <4>2 DEF u
    <3>4. CASE ~(m < k)
      <4>1. /\ Len(t) = m - 1 /\ ~(m + 1 < k)
            /\ \A i \in 1..(m-1) : t[i] = IF i < k THEN s[i] ELSE s[i+1]
        BY <1>2, <1>5, <3>4 DEF t
      <4>2. ASSUME NEW i \in 1..m PROVE u[i] = IF i < k THEN s[i] ELSE s[i+1]
        <5>1. i \in 1..(m-1) \/ i = m
          OBVIOUS
        <5>2. CASE i \in 1..(m-1)
          BY <3>2, <4>1, <5>2
        <5>3. CASE i = m
          <6>1. u[m] = s[m + 1]
            BY <3>2, <4>1
          <6> QED
            BY <3>4, <5>3, <6>1
        <5> QED
          BY <5>1, <5>2, <5>3
      <4>3. Len(u) = m /\ (m + 1) - 1 = m
        BY <3>2, <4>1
      <4> QED
        BY <4>1, <4>2, <4>3 DEF u
    <3> QED
      BY <3>3, <3>4
  <2> QED
    BY <2>4, <2>5
<1>6. P = Nat
  <2> HIDE DEF Kept
  <2>1. P \in SUBSET Nat /\ \A m \in P : m + 1 \in P
    <3>1. ASSUME NEW m \in P, m + 1 <= n PROVE Kept(f[m + 1], m + 1)
      <4>1. m \in Nat /\ m <= n
        BY <1>2, <3>1
      <4> QED
        BY <1>5, <3>1, <4>1
    <3> QED
      BY <3>1
  <2> HIDE DEF P
  <2> QED
    BY <1>4, <2>1, AllNat
<1>7. Kept(f[n], n)
  <2> HIDE DEF Kept
  <2> QED
    BY <1>2, <1>6
<1>8. /\ f[n] \in Seq(Bear) /\ Len(f[n]) = n - 1
      /\ \A i \in 1..(n-1) : f[n][i] = IF i < k THEN s[i] ELSE s[i+1]
  BY <1>1, <1>2, <1>7
<1>9. /\ RemoveAt(s, k) \in Seq(Bear) /\ Len(RemoveAt(s, k)) = n - 1
      /\ \A i \in 1..(n-1) : RemoveAt(s, k)[i] = IF i < k THEN s[i] ELSE s[i+1]
  BY RemoveAtFacts DEF n
<1>10. f[n] = RemoveAt(s, k)
  <2> DEFINE a == f[n]
             b == RemoveAt(s, k)
  <2>1. /\ a \in Seq(Bear) /\ b \in Seq(Bear) /\ Len(a) = Len(b)
        /\ \A i \in 1..Len(a) : a[i] = b[i]
    BY <1>8, <1>9
  <2> HIDE DEF a, b
  <2>2. a = b
    BY <2>1, SeqEqual
  <2> QED
    BY <2>2 DEF a, b
<1> QED
  BY <1>1, <1>10 DEF id

\* The map puts the new bear where the assignment did.
LEMMA UpdatedIsAssignment ==
  ASSUME NEW s \in Seq(Bear), Increasing(s), NEW k \in 1..Len(s), NEW form \in Forms
  PROVE  Updated(s, s[k].id, [id |-> s[k].id, form |-> form]) = [s EXCEPT ![k].form = form]
<1> DEFINE bear == [id |-> s[k].id, form |-> form]
           u == Updated(s, s[k].id, bear)
           t == [s EXCEPT ![k].form = form]
<1>1. \A i \in 1..Len(s) : s[i] \in Bear
  OBVIOUS
<1>2. [s[k] EXCEPT !.form = form] = bear
  BY <1>1 DEF Bear
<1>3. \A i \in 1..Len(s) : i # k => s[i].id # s[k].id
  <2>1. \A i \in 1..Len(s) : s[i].id \in Nat
    BY <1>1 DEF Bear
  <2>2. \A i \in 1..Len(s) : i < k \/ k < i \/ i = k
    OBVIOUS
  <2> QED
    BY <2>1, <2>2 DEF Increasing
<1> HIDE DEF bear
<1>4. u = [i \in 1..Len(s) |-> IF s[i].id = s[k].id THEN bear ELSE s[i]]
  BY DEF Updated
<1>5. t = [i \in 1..Len(s) |-> IF i = k THEN bear ELSE s[i]]
  BY <1>2
<1>6. u = t
  BY <1>3, <1>4, <1>5
<1> QED
  BY <1>6 DEF bear

-----------------------------------------------------------------------------
(* The types. *)

RequestOK(req) ==
  /\ req.op \in {"get", "post", "put", "delete"}
  /\ req.op \in {"post", "put"} => req.form \in Forms
  /\ req.op = "post" => req.guess \in Nat
  /\ req.op \in {"put", "delete"} => req.id \in Nat

SlotOK(slot) ==
  /\ slot.by \in Clients /\ RequestOK(slot.req)
  /\ \/ slot = Sent(slot.by, slot.req)
     \/ slot.data \in Seq(Bear) /\ slot = Answered(slot.by, slot.req, slot.data)

\* What a request carries was typed in, guessed from a list of bears, or read from one.
StoresOK ==
  /\ list \in [Clients -> Seq(Bear)]
  /\ undisturbed \in [Clients -> BOOLEAN]
  /\ slots = [s \in Slots |-> slots[s]]
  /\ \A s \in Slots : slots[s] # Idle => SlotOK(slots[s])

LEMMA FillTypes ==
  ASSUME StoresOK, NEW s \in Slots, NEW value, Fill(s, value), value = Idle \/ SlotOK(value),
         list' \in [Clients -> Seq(Bear)], undisturbed' \in [Clients -> BOOLEAN]
  PROVE  StoresOK'
<1>1. slots' = [t \in Slots |-> IF t = s THEN value ELSE slots[t]]
  BY DEF StoresOK, Fill
<1>2. \A t \in Slots : slots'[t] # Idle => SlotOK(slots'[t])
  BY <1>1 DEF StoresOK
<1> QED
  BY <1>1, <1>2 DEF StoresOK, Idle, SlotOK, RequestOK, Sent, Answered

LEMMA SendTypes ==
  ASSUME StoresOK, NEW c \in Clients, NEW req, RequestOK(req), Send(c, req)
  PROVE  StoresOK'
<1>1. PICK s \in Slots : Fill(s, Sent(c, req))
  BY DEF Send
<1>2. SlotOK(Sent(c, req))
  BY DEF SlotOK, Sent
<1>3. list' \in [Clients -> Seq(Bear)]
  BY DEF Send, StoresOK
<1>4. undisturbed' \in [Clients -> BOOLEAN]
  <2>1. undisturbed' = [undisturbed EXCEPT ![c] = undisturbed[c] /\ Quiet(c)]
    BY DEF Send
  <2>2. (undisturbed[c] /\ Quiet(c)) \in BOOLEAN
    OBVIOUS
  <2> HIDE DEF Quiet
  <2> QED
    BY <2>1, <2>2, Zenon DEF StoresOK
<1> QED
  BY <1>1, <1>2, <1>3, <1>4, FillTypes

LEMMA NextIdIsNat ==
  ASSUME NEW s \in Seq(Bear)
  PROVE  NextId(s) \in Nat
<1>1. CASE s = <<>>
  BY <1>1 DEF NextId
<1>2. CASE s # <<>>
  <2>1. s[Len(s)] \in Bear
    BY <1>2, EmptySeq
  <2> QED
    BY <1>2, <2>1 DEF NextId, Bear
<1> QED
  BY <1>1, <1>2

LEMMA ReduceTypes ==
  ASSUME NEW old \in Seq(Bear), NEW req, RequestOK(req), NEW data \in Seq(Bear)
  PROVE  Reduce(old, req, data) \in Seq(Bear)
<1>1. CASE req.op = "get"
  BY <1>1 DEF Reduce
<1>2. CASE req.op = "post"
  <2>1. [id |-> req.guess, form |-> req.form] \in Bear
    BY <1>2 DEF RequestOK, Bear
  <2> QED
    BY <1>2, <2>1, AppendProperties DEF Reduce
<1>3. CASE req.op = "put"
  <2> DEFINE bear == [id |-> req.id, form |-> req.form]
  <2>1. bear \in Bear
    BY <1>3 DEF RequestOK, Bear
  <2> HIDE DEF bear
  <2>2. Updated(old, req.id, bear) =
          [i \in 1..Len(old) |-> IF old[i].id = req.id THEN bear ELSE old[i]]
    BY DEF Updated
  <2>3. Updated(old, req.id, bear) \in Seq(Bear)
    BY <2>1, <2>2
  <2> QED
    BY <1>3, <2>3 DEF Reduce, bear
<1>4. CASE req.op = "delete"
  <2>1. \E f \in [0..Len(old) -> Seq(Bear)] : Without(old, req.id) = f[Len(old)]
    BY WithoutIsAFilter
  <2>2. Len(old) \in 0..Len(old)
    OBVIOUS
  <2>3. Without(old, req.id) \in Seq(Bear)
    BY <2>1, <2>2
  <2> QED
    BY <1>4, <2>3 DEF Reduce
<1> QED
  BY <1>1, <1>2, <1>3, <1>4 DEF RequestOK

LEMMA StoresStep ==
  ASSUME ServerTypeOK, StoresOK, [Next]_vars
  PROVE  StoresOK'
<1>1. ASSUME NEW c \in Clients, GetBears(c) PROVE StoresOK'
  BY <1>1, SendTypes DEF GetBears, RequestOK
<1>2. ASSUME NEW c \in Clients, AddBear(c) PROVE StoresOK'
  <2>1. PICK form \in Forms :
          Send(c, [op |-> "post", form |-> form, guess |-> NextId(list[c])])
    BY <1>2 DEF AddBear
  <2>2. NextId(list[c]) \in Nat
    BY NextIdIsNat DEF StoresOK
  <2>3. RequestOK([op |-> "post", form |-> form, guess |-> NextId(list[c])])
    BY <2>2 DEF RequestOK
  <2> QED
    BY <2>1, <2>3, SendTypes
<1>3. ASSUME NEW c \in Clients, NEW i \in 1..Len(list[c]) PROVE list[c][i].id \in Nat
  <2>1. list[c] \in Seq(Bear)
    BY DEF StoresOK
  <2>2. list[c][i] \in Bear
    BY <2>1
  <2> QED
    BY <2>2 DEF Bear
<1>4. ASSUME NEW c \in Clients, UpdateBear(c) PROVE StoresOK'
  <2>1. PICK i \in 1..Len(list[c]), form \in Forms :
          Send(c, [op |-> "put", id |-> list[c][i].id, form |-> form])
    BY <1>4 DEF UpdateBear
  <2>2. RequestOK([op |-> "put", id |-> list[c][i].id, form |-> form])
    BY <1>3 DEF RequestOK
  <2> QED
    BY <2>1, <2>2, SendTypes
<1>5. ASSUME NEW c \in Clients, DeleteBear(c) PROVE StoresOK'
  <2>1. PICK i \in 1..Len(list[c]) : Send(c, [op |-> "delete", id |-> list[c][i].id])
    BY <1>5 DEF DeleteBear
  <2>2. RequestOK([op |-> "delete", id |-> list[c][i].id])
    BY <1>3 DEF RequestOK
  <2> QED
    BY <2>1, <2>2, SendTypes
<1>6. ASSUME NEW s \in Slots, slots[s] # Idle
      PROVE  slots[s].by \in Clients /\ RequestOK(slots[s].req)
  BY <1>6 DEF StoresOK, SlotOK
<1>7. ASSUME NEW s \in Slots, Handle(s) PROVE StoresOK'
  <2> DEFINE req == slots[s].req
             data == IF req.op = "get" THEN bears ELSE <<>>
  <2>1. /\ slots[s] # Idle /\ Fill(s, Answered(slots[s].by, req, data)) /\ list' = list
        /\ undisturbed' = [d \in Clients |->
             undisturbed[d] /\ (d = slots[s].by \/ bears' = bears)]
    BY <1>7 DEF Handle, OthersDisturbed, Idle
  <2>2. data \in Seq(Bear)
    BY DEF ServerTypeOK
  <2> HIDE DEF data, req
  <2>3. SlotOK(Answered(slots[s].by, req, data))
    BY <1>6, <2>1, <2>2 DEF SlotOK, Answered, req
  <2>4. undisturbed' \in [Clients -> BOOLEAN]
    BY <2>1, Zenon
  <2> QED
    BY <2>1, <2>3, <2>4, FillTypes DEF StoresOK
<1>8. ASSUME NEW s \in Slots, HandleFails(s) \/ LoseRequest(s) PROVE StoresOK'
  <2>1. Fill(s, Idle) /\ UNCHANGED <<list, undisturbed>>
    BY <1>8 DEF HandleFails, LoseRequest
  <2> QED
    BY <2>1, FillTypes DEF StoresOK
<1>9. ASSUME NEW s \in Slots, Receive(s) PROVE StoresOK'
  <2> DEFINE c == slots[s].by
             new == Reduce(list[c], slots[s].req, slots[s].data)
             alone == \A t \in Slots \ {s} : ~Waits(c, t)
  <2>1. /\ slots[s].stage = "answered" /\ Fill(s, Idle)
        /\ list' = [list EXCEPT ![c] = new]
        /\ undisturbed' = [undisturbed EXCEPT ![c] =
             IF slots[s].req.op = "get" THEN alone /\ slots[s].data = bears
             ELSE undisturbed[c]]
    BY <1>9 DEF Receive
  <2>2. /\ c \in Clients /\ RequestOK(slots[s].req) /\ slots[s].data \in Seq(Bear)
    BY <2>1 DEF StoresOK, SlotOK, Idle, Sent
  <2>3. new \in Seq(Bear)
    BY <2>2, ReduceTypes DEF StoresOK
  <2> HIDE DEF new, alone, c
  <2>4. list' \in [Clients -> Seq(Bear)]
    BY <2>1, <2>2, <2>3 DEF StoresOK
  <2>5. undisturbed' \in [Clients -> BOOLEAN]
    <3>1. undisturbed[c] \in BOOLEAN /\ (alone /\ slots[s].data = bears) \in BOOLEAN
      BY <2>2 DEF StoresOK
    <3> QED
      BY <2>1, <3>1, Zenon DEF StoresOK
  <2> QED
    BY <2>1, <2>4, <2>5, FillTypes
<1>10. ASSUME NEW s \in Slots, LoseAnswer(s) PROVE StoresOK'
  <2>1. /\ Fill(s, Idle) /\ list' = list /\ slots[s] # Idle
        /\ undisturbed' = [undisturbed EXCEPT ![slots[s].by] =
             undisturbed[slots[s].by] /\ slots[s].req.op = "get"]
    BY <1>10 DEF LoseAnswer, Idle
  <2>2. undisturbed' \in [Clients -> BOOLEAN]
    BY <2>1, Zenon DEF StoresOK
  <2> QED
    BY <2>1, <2>2, FillTypes DEF StoresOK
<1>11. ASSUME UNCHANGED <<list, slots>>, undisturbed' \in [Clients -> BOOLEAN]
       PROVE  StoresOK'
  BY <1>11 DEF StoresOK, Idle, SlotOK, RequestOK, Sent, Answered
<1>12. CASE HandleElsewhere
  <2>1. undisturbed' \in [Clients -> BOOLEAN]
    BY <1>12, Zenon DEF HandleElsewhere
  <2> QED
    BY <1>11, <1>12, <2>1 DEF HandleElsewhere
<1>13. CASE ServerRestarts
  BY <1>11, <1>13 DEF ServerRestarts
<1>14. CASE UNCHANGED vars
  BY <1>11, <1>14 DEF vars, StoresOK
<1> QED
  BY <1>1, <1>2, <1>4, <1>5, <1>7, <1>8, <1>9, <1>10, <1>12, <1>13, <1>14 DEF Next

-----------------------------------------------------------------------------
(* A client that works alone. *)

\* The store of a client that works alone shows what the server has as long as no
\* answer is on its way, and what it will show when the answer is applied otherwise.
Agrees(old, slot, now) ==
  CASE slot.stage = "sent" ->
         /\ old = now
         /\ slot.req.op = "post" => slot.req.guess = NextId(now)
         /\ slot.req.op \in {"put", "delete"} =>
              \E i \in 1..Len(now) : now[i].id = slot.req.id
    [] slot.stage = "answered" ->
         now = IF slot.req.op = "get" THEN old ELSE Reduce(old, slot.req, slot.data)

InStep(c) ==
  /\ Quiet(c) => list[c] = bears
  /\ \A s \in Slots : Waits(c, s) =>
       /\ \A t \in Slots : Waits(c, t) => t = s
       /\ Agrees(list[c], slots[s], bears)

SyncInv == \A c \in Clients : undisturbed[c] => InStep(c)

\* What one client sends and receives is nothing to another.
LEMMA OtherClient ==
  ASSUME StoresOK, NEW s \in Slots, NEW c, NEW value, Fill(s, value),
         slots[s] = Idle \/ slots[s].by = c, value = Idle \/ value.by = c,
         NEW d \in Clients, d # c, InStep(d), list'[d] = list[d], bears' = bears
  PROVE  InStep(d)'
<1>1. slots' = [t \in Slots |-> IF t = s THEN value ELSE slots[t]]
  BY DEF StoresOK, Fill
<1>2. \A t \in Slots : Waits(d, t)' <=> Waits(d, t)
  BY <1>1 DEF Waits, Idle
<1>3. \A t \in Slots : Waits(d, t) => slots'[t] = slots[t]
  BY <1>1 DEF Waits
<1>4. Quiet(d)' <=> Quiet(d)
  BY <1>2 DEF Quiet
<1>5. ASSUME NEW t \in Slots, Waits(d, t) PROVE Agrees(list[d], slots[t], bears)'
  <2>1. Agrees(list[d], slots[t], bears)
    BY <1>5 DEF InStep
  <2> QED
    BY <1>3, <1>5, <2>1
<1> QED
  BY <1>2, <1>4, <1>5 DEF InStep

\* A client that waits for nothing and has the list is in step.
LEMMA AllRead ==
  ASSUME StoresOK, NEW s \in Slots, Fill(s, Idle), NEW c,
         \A t \in Slots \ {s} : ~Waits(c, t), list'[c] = bears'
  PROVE  InStep(c)'
<1>1. slots' = [t \in Slots |-> IF t = s THEN Idle ELSE slots[t]]
  BY DEF StoresOK, Fill
<1>2. \A t \in Slots : ~Waits(c, t)'
  BY <1>1 DEF Waits, Idle
<1> QED
  BY <1>2 DEF InStep

\* A request is made from the list on the screen: the guess is the id the server would
\* give now, and the id named is one of the list.
LEMMA SendInStep ==
  ASSUME StoresOK, SyncInv, NEW c \in Clients, NEW req, Send(c, req),
         \A old \in Seq(Bear) : old = list[c] => Agrees(old, Sent(c, req), old)
  PROVE  SyncInv'
<1>1. PICK s \in Slots : slots[s] = Idle /\ Fill(s, Sent(c, req))
  BY DEF Send
<1>2. /\ undisturbed' = [undisturbed EXCEPT ![c] = undisturbed[c] /\ Quiet(c)]
      /\ UNCHANGED <<bears, list>>
  BY DEF Send
<1>3. Sent(c, req).by = c /\ Sent(c, req) # Idle
  BY DEF Sent, Idle
<1>4. ASSUME NEW d \in Clients, undisturbed'[d], d # c PROVE InStep(d)'
  <2>1. undisturbed[d]
    BY <1>2, <1>4 DEF StoresOK
  <2>2. InStep(d)
    BY <2>1 DEF SyncInv
  <2> QED
    BY <1>1, <1>2, <1>3, <1>4, <2>2, OtherClient
<1>5. ASSUME undisturbed'[c] PROVE InStep(c)'
  <2>1. undisturbed[c] /\ Quiet(c)
    BY <1>2, <1>5, Zenon DEF StoresOK
  <2>2. list[c] = bears
    BY <2>1 DEF SyncInv, InStep
  <2>3. slots' = [t \in Slots |-> IF t = s THEN Sent(c, req) ELSE slots[t]]
    BY <1>1 DEF StoresOK, Fill
  <2>4. \A t \in Slots : Waits(c, t)' <=> t = s
    BY <1>3, <2>1, <2>3 DEF Waits, Quiet
  <2>5. list[c] \in Seq(Bear)
    BY DEF StoresOK
  <2>6. Agrees(list'[c], slots'[s], bears')
    BY <1>2, <2>2, <2>3, <2>5
  <2> QED
    BY <2>4, <2>6 DEF InStep, Quiet
<1> QED
  BY <1>4, <1>5 DEF SyncInv

\* The server does to the list what the store will do to its copy.
LEMMA HandlerAgrees ==
  ASSUME IInv, NEW c, NEW req, RequestOK(req), NEW data, Agrees(bears, Sent(c, req), bears),
         \/ req.op = "get" /\ UNCHANGED bears
         \/ req.op = "post" /\ Post(req.form)
         \/ req.op = "put" /\ Put(req.id, req.form)
         \/ req.op = "delete" /\ Delete(req.id)
  PROVE  Agrees(bears, Answered(c, req, data), bears')
<1> USE DEF IInv, ServerTypeOK, IdsIncrease
<1> DEFINE sent == Sent(c, req)
           answered == Answered(c, req, data)
<1>1. /\ sent.stage = "sent" /\ sent.req = req
      /\ answered.stage = "answered" /\ answered.req = req /\ answered.data = data
  BY DEF Sent, Answered
<1> HIDE DEF sent, answered
<1>2. /\ req.op = "post" => req.guess = NextId(bears)
      /\ req.op \in {"put", "delete"} => \E i \in 1..Len(bears) : bears[i].id = req.id
  BY <1>1 DEF Agrees, sent
<1>3. SUFFICES bears' = IF req.op = "get" THEN bears ELSE Reduce(bears, req, data)
  BY <1>1 DEF Agrees, answered
<1>4. CASE req.op = "get" /\ UNCHANGED bears
  BY <1>4
<1>5. CASE req.op = "post" /\ Post(req.form)
  BY <1>2, <1>5 DEF Post, Reduce
<1>6. CASE req.op = "put" /\ Put(req.id, req.form)
  <2>1. PICK k \in 1..Len(bears) :
          bears[k].id = req.id /\ bears' = [bears EXCEPT ![k].form = req.form]
    BY <1>6 DEF Put, FindIndex
  <2>2. Reduce(bears, req, data) =
          Updated(bears, bears[k].id, [id |-> bears[k].id, form |-> req.form])
    BY <1>6, <2>1 DEF Reduce
  <2>3. req.form \in Forms
    BY <1>6 DEF RequestOK
  <2>4. Updated(bears, bears[k].id, [id |-> bears[k].id, form |-> req.form])
          = [bears EXCEPT ![k].form = req.form]
    BY <2>3, UpdatedIsAssignment
  <2> QED
    BY <1>6, <2>1, <2>2, <2>4
<1>7. CASE req.op = "delete" /\ Delete(req.id)
  <2>1. FindIndex(req.id) # {}
    <3> DEFINE T == {i \in 1..Len(bears) : bears[i].id = req.id}
    <3>1. T \in SUBSET Nat /\ T # {}
      BY <1>2, <1>7
    <3>2. PICK k \in T : \A i \in T : k <= i
      <4> HIDE DEF T
      <4> QED
        BY <3>1, LeastNat
    <3>3. \A j \in 1..(k-1) : j \in 1..Len(bears) /\ ~(k <= j)
      OBVIOUS
    <3> QED
      BY <3>2, <3>3 DEF FindIndex
  <2>2. PICK k \in 1..Len(bears) : bears[k].id = req.id /\ bears' = RemoveAt(bears, k)
    BY <1>7, <2>1 DEF Delete, FindIndex
  <2>3. Without(bears, bears[k].id) = RemoveAt(bears, k)
    BY WithoutIsSplice
  <2> QED
    BY <1>7, <2>2, <2>3 DEF Reduce
<1> QED
  BY <1>4, <1>5, <1>6, <1>7

LEMMA HandleInStep ==
  ASSUME IInv, StoresOK, SyncInv, NEW s \in Slots, Handle(s)
  PROVE  SyncInv'
<1>0. PICK c \in Clients : slots[s].by = c
  BY DEF Handle, Idle, StoresOK, SlotOK
<1> DEFINE req == slots[s].req
           data == IF req.op = "get" THEN bears ELSE <<>>
           answered == Answered(c, req, data)
<1>1. /\ slots[s].stage = "sent" /\ Fill(s, answered) /\ list' = list
      /\ undisturbed' = [d \in Clients |-> undisturbed[d] /\ (d = c \/ bears' = bears)]
      /\ \/ req.op = "get" /\ UNCHANGED bears
         \/ req.op = "post" /\ Post(req.form)
         \/ req.op = "put" /\ Put(req.id, req.form)
         \/ req.op = "delete" /\ Delete(req.id)
  BY <1>0 DEF Handle, OthersDisturbed
<1>2. slots[s] # Idle /\ answered # Idle /\ answered.by = c
  BY <1>1 DEF Idle, Answered
<1>3. RequestOK(req) /\ slots[s] = Sent(c, req)
  BY <1>0, <1>1, <1>2 DEF StoresOK, SlotOK, Answered
<1>4. slots' = [t \in Slots |-> IF t = s THEN answered ELSE slots[t]]
  BY <1>1 DEF StoresOK, Fill
<1>5. ASSUME undisturbed'[c] PROVE InStep(c)'
  <2>1. undisturbed[c]
    BY <1>1, <1>3, <1>5, Zenon
  <2>2. Waits(c, s)
    BY <1>0, <1>2 DEF Waits
  <2>3. (\A t \in Slots : Waits(c, t) => t = s) /\ Agrees(list[c], slots[s], bears)
    BY <1>3, <2>1, <2>2 DEF SyncInv, InStep
  <2>4. list[c] = bears
    BY <1>1, <2>3 DEF Agrees
  <2>5. Agrees(bears, Sent(c, req), bears)
    BY <1>3, <2>3, <2>4
  <2> HIDE DEF req, data
  <2>6. Agrees(bears, answered, bears')
    BY <1>1, <1>3, <2>5, HandlerAgrees
  <2> HIDE DEF answered
  <2>7. Agrees(list'[c], slots'[s], bears')
    BY <1>1, <1>4, <2>4, <2>6
  <2>8. \A t \in Slots : Waits(c, t)' <=> t = s
    BY <1>2, <1>4, <2>3 DEF Waits
  <2> QED
    BY <2>7, <2>8 DEF InStep, Quiet
<1> HIDE DEF answered
<1>6. ASSUME NEW d \in Clients, d # c, undisturbed'[d] PROVE InStep(d)'
  <2>1. undisturbed[d] /\ bears' = bears
    BY <1>1, <1>6, Zenon
  <2>2. InStep(d)
    BY <2>1 DEF SyncInv
  <2> QED
    BY <1>0, <1>1, <1>2, <1>6, <2>1, <2>2, OtherClient
<1> QED
  BY <1>5, <1>6 DEF SyncInv

\* An answer that is applied, and a request or an answer of a GET that is lost, leave
\* nothing under way.
LEMMA FreedInStep ==
  ASSUME IInv, StoresOK, SyncInv, NEW s \in Slots,
         HandleFails(s) \/ Receive(s) \/ LoseRequest(s) \/ LoseAnswer(s)
  PROVE  SyncInv'
<1>1. Fill(s, Idle) /\ bears' = bears /\ slots[s] # Idle
  BY DEF HandleFails, PutFails, Receive, LoseRequest, LoseAnswer, Idle
<1>2. PICK c \in Clients : slots[s].by = c /\ Waits(c, s)
  BY <1>1 DEF StoresOK, SlotOK, Waits
<1>3. ASSUME NEW d \in Clients, d # c
      PROVE  list'[d] = list[d] /\ undisturbed'[d] = undisturbed[d]
  <2>1. CASE HandleFails(s) \/ LoseRequest(s)
    BY <2>1 DEF HandleFails, LoseRequest
  <2>2. CASE Receive(s) \/ LoseAnswer(s)
    BY <1>2, <1>3, <2>2 DEF Receive, LoseAnswer, StoresOK
  <2> QED
    BY <2>1, <2>2
<1>4. ASSUME NEW d \in Clients, d # c, undisturbed'[d] PROVE InStep(d)'
  <2>1. list'[d] = list[d] /\ InStep(d)
    BY <1>3, <1>4 DEF SyncInv
  <2> QED
    BY <1>1, <1>2, <1>4, <2>1, OtherClient
<1>5. ASSUME undisturbed'[c] PROVE InStep(c)'
  <2>1. ASSUME undisturbed[c]
        PROVE  (\A t \in Slots \ {s} : ~Waits(c, t)) /\ Agrees(list[c], slots[s], bears)
    BY <1>2, <2>1 DEF SyncInv, InStep
  <2>2. CASE HandleFails(s) \/ LoseRequest(s)
    <3>1. undisturbed[c] /\ slots[s].stage = "sent" /\ list' = list
      BY <1>5, <2>2 DEF HandleFails, LoseRequest
    <3>2. list'[c] = bears'
      BY <1>1, <2>1, <3>1 DEF Agrees
    <3> QED
      BY <1>1, <2>1, <3>1, <3>2, AllRead
  <2>3. CASE LoseAnswer(s)
    <3>1. undisturbed[c] /\ slots[s].req.op = "get"
      BY <1>2, <1>5, <2>3, Zenon DEF LoseAnswer, StoresOK
    <3>2. slots[s].stage = "answered" /\ list' = list
      BY <2>3 DEF LoseAnswer
    <3>3. list'[c] = bears'
      BY <1>1, <2>1, <3>1, <3>2 DEF Agrees
    <3> QED
      BY <1>1, <2>1, <3>1, <3>3, AllRead
  <2>4. CASE Receive(s)
    <3> DEFINE new == Reduce(list[c], slots[s].req, slots[s].data)
               alone == \A t \in Slots \ {s} : ~Waits(c, t)
    <3>1. /\ slots[s].stage = "answered" /\ list' = [list EXCEPT ![c] = new]
          /\ undisturbed' = [undisturbed EXCEPT ![c] =
               IF slots[s].req.op = "get" THEN alone /\ slots[s].data = bears
               ELSE undisturbed[c]]
      BY <1>2, <2>4 DEF Receive
    <3>2. list'[c] = new
      BY <1>2, <3>1 DEF StoresOK
    <3>3. CASE slots[s].req.op = "get"
      <4>1. alone /\ slots[s].data = bears
        <5> HIDE DEF alone, new
        <5> QED
          BY <1>2, <1>5, <3>1, <3>3, Zenon DEF StoresOK
      <4>2. new = bears
        BY <3>3, <4>1 DEF Reduce
      <4> HIDE DEF new
      <4> QED
        BY <1>1, <3>2, <4>1, <4>2, AllRead
    <3>4. CASE slots[s].req.op # "get"
      <4>1. undisturbed[c]
        <5> HIDE DEF alone, new
        <5> QED
          BY <1>2, <1>5, <3>1, <3>4, Zenon DEF StoresOK
      <4>2. alone /\ new = bears
        BY <2>1, <3>1, <3>4, <4>1 DEF Agrees
      <4> HIDE DEF new
      <4> QED
        BY <1>1, <3>2, <4>2, AllRead
    <3> QED
      BY <3>3, <3>4
  <2> QED
    BY <2>2, <2>3, <2>4
<1> QED
  BY <1>4, <1>5 DEF SyncInv

LEMMA SyncStep ==
  ASSUME IInv, StoresOK, SyncInv, [Next]_vars
  PROVE  SyncInv'
<1>1. ASSUME NEW c \in Clients, GetBears(c) PROVE SyncInv'
  BY <1>1, SendInStep DEF GetBears, Agrees, Sent
<1>2. ASSUME NEW c \in Clients, AddBear(c) PROVE SyncInv'
  BY <1>2, SendInStep DEF AddBear, Agrees, Sent
<1>3. ASSUME NEW c \in Clients, UpdateBear(c) PROVE SyncInv'
  BY <1>3, SendInStep DEF UpdateBear, Agrees, Sent
<1>4. ASSUME NEW c \in Clients, DeleteBear(c) PROVE SyncInv'
  BY <1>4, SendInStep DEF DeleteBear, Agrees, Sent
<1>5. ASSUME UNCHANGED <<list, slots>>,
             \A c \in Clients : undisturbed'[c] => undisturbed[c] /\ bears' = bears
      PROVE  SyncInv'
  BY <1>5 DEF SyncInv, InStep, Waits, Quiet, Idle
<1>6. CASE HandleElsewhere
  <2>1. \A c \in Clients : undisturbed'[c] => undisturbed[c] /\ bears' = bears
    BY <1>6, Zenon DEF HandleElsewhere
  <2> QED
    BY <1>5, <1>6, <2>1 DEF HandleElsewhere
<1>7. CASE ServerRestarts
  BY <1>5, <1>7 DEF ServerRestarts
<1>8. CASE UNCHANGED vars
  BY <1>5, <1>8 DEF vars
<1> QED
  BY <1>1, <1>2, <1>3, <1>4, <1>6, <1>7, <1>8, HandleInStep, FreedInStep DEF Next

LEMMA ClientsInv ==
  Spec => [](IInv /\ StoresOK /\ SyncInv)
<1>1. Init => IInv /\ StoresOK /\ SyncInv
  BY BearAssumption DEF Init, ServerInit, IInv, ServerTypeOK, IdsIncrease, StoresOK,
                        SyncInv, Idle
<1>2. IInv /\ StoresOK /\ SyncInv /\ [Next]_vars => IInv' /\ StoresOK' /\ SyncInv'
  <2> SUFFICES ASSUME IInv, StoresOK, SyncInv, [Next]_vars
               PROVE  IInv' /\ StoresOK' /\ SyncInv'
    OBVIOUS
  <2>1. RequestsKnown
    BY DEF StoresOK, SlotOK, RequestOK, RequestsKnown
  <2>2. IInv'
    BY <2>1, ClientStep, RequestStep
  <2> QED
    BY <2>2, StoresStep, SyncStep DEF IInv
<1> QED
  BY <1>1, <1>2, PTL DEF Spec

\* Whatever clients type, guess, send, lose or receive out of order, the server's list and
\* every store hold whole bears, and what is under way is a request one of them made.
THEOREM ClientTypes == Spec => []TypeOK
<1>1. IInv /\ StoresOK => TypeOK
  BY DEF IInv, StoresOK, SlotOK, RequestOK, TypeOK
<1> QED
  BY <1>1, ClientsInv, PTL

\* A client that works alone keeps an exact copy of the server's list, although its store
\* never looks at what the server answers to a POST, a PUT or a DELETE: for any first list
\* whose ids increase, any number of clients and of requests under way.
THEOREM AloneInSync == Spec => []InSync
<1>1. SyncInv => InSync
  BY DEF SyncInv, InStep, InSync
<1> QED
  BY <1>1, ClientsInv, PTL

=============================================================================
