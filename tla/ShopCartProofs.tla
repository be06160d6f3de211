---------------------------- MODULE ShopCartProofs ----------------------------
(***************************************************************************)
(* Proofs about the cart, its badge, the rows of its screen and the total, *)
(* for any list of products, any prices and any height of the screen.      *)
(***************************************************************************)
EXTENDS ShopCart, FoldTheorems, SequenceTheorems, TLAPS

\* What is in the cart is in stock, so that the cart is finite, and the badge counts it.
BadgeInv ==
  /\ cart \subseteq InStock
  /\ root \in {"tabs", "home"}
  /\ root = "tabs" => badge = Cardinality(cart)

\* A subset of the products has a size, which is 0 for the empty one only.
LEMMA CartIsFinite ==
  ASSUME NEW table \in SUBSET InStock
  PROVE  Cardinality(table) \in Nat /\ (table # {} => Cardinality(table) >= 1)
<1>1. IsFiniteSet(table)
  BY ShopAssumption, FS_Subset
<1>2. Cardinality(table) \in Nat /\ (Cardinality(table) = 0 <=> table = {})
  BY <1>1, FS_CardinalityType, FS_EmptySet
<1> QED
  BY <1>2

\* The badge of the shop's screens is right when the one before it was: it is raised to
\* the size of the table, and left alone only when that is 0.
LEMMA RaisedBadgeCounts ==
  ASSUME BadgeInv, NEW table \in SUBSET InStock, RaiseBadge(table), root = "tabs",
         table = {} => cart = {}
  PROVE  badge' = Cardinality(table)
<1>1. CASE table = {}
  <2>1. Cardinality(table) = 0
    BY <1>1, FS_EmptySet
  <2> QED
    BY <1>1, <2>1 DEF RaiseBadge, BadgeInv
<1>2. CASE table # {}
  BY <1>2, CartIsFinite DEF RaiseBadge
<1> QED
  BY <1>1, <1>2

\* Every step keeps it: one step per action.
LEMMA BadgeStep ==
  ASSUME BadgeInv, [Next]_vars
  PROVE  BadgeInv'
<1> USE DEF BadgeInv, screens
<1>1. CASE OpenCart
  BY <1>1 DEF OpenCart
<1>2. ASSUME NEW by \in {1, -1}, Scroll(by) PROVE BadgeInv'
  BY <1>2 DEF Scroll
<1>3. ASSUME NEW products, Delete(products) PROVE BadgeInv'
  BY <1>3 DEF Delete, SetBadge
<1>4. CASE Order
  BY <1>3, <1>4 DEF Order
<1>5. CASE DeleteRow
  BY <1>3, <1>5 DEF DeleteRow
<1>6. CASE RaiseBadge(cart) /\ UNCHANGED <<cart, root>>
  BY <1>6, RaisedBadgeCounts
<1>7. CASE UNCHANGED <<cart, root, badge>>
  BY <1>7
<1>8. CASE ShowShop \/ ShowMembers \/ \E complete \in BOOLEAN : TapForm(complete)
  BY <1>6, <1>7, <1>8 DEF ShowShop, ShowMembers, TapForm
<1>9. ASSUME NEW l \in Lists, CloseDetail(l) \/ \E p \in Products : OpenDetail(l, p)
      PROVE  BadgeInv'
  BY <1>6, <1>9 DEF OpenDetail, CloseDetail
<1>10. ASSUME NEW l \in Lists, AddToCart(l) PROVE BadgeInv'
  <2>1. cart' \in SUBSET InStock /\ cart' # {} /\ RaiseBadge(cart') /\ root' = root
    BY <1>10 DEF AddToCart
  <2>2. root = "tabs" => badge' = Cardinality(cart')
    BY <2>1, CartIsFinite DEF RaiseBadge
  <2> QED
    BY <2>1, <2>2
<1>11. CASE SignedIn
  BY <1>11 DEF SignedIn
<1>12. CASE OpenForm \/ Refused \/ EnterList \/ PopMembers \/ UNCHANGED vars
  BY <1>7, <1>12 DEF OpenForm, Refused, EnterList, PopMembers, vars
<1>13. CASE Relaunch
  BY <1>13 DEF Relaunch
<1> QED
  BY <1>1, <1>2, <1>4, <1>5, <1>8, <1>9, <1>10, <1>11, <1>12, <1>13 DEF Next

\* The badge on the cart's tab counts the cart as long as there is a tab bar, although the
\* updateBadge of the list and of the detail screen never takes a badge away, and nothing
\* that is out of stock gets into the cart.
THEOREM BadgeIsRight == Spec => [](BadgeCountsCart /\ cart \subseteq InStock)
<1>1. Init => BadgeInv
  BY FS_EmptySet DEF Init, BadgeInv
<1>2. BadgeInv /\ [Next]_vars => BadgeInv'
  BY BadgeStep
<1>3. BadgeInv => BadgeCountsCart /\ cart \subseteq InStock
  BY DEF BadgeInv, BadgeCountsCart
<1> QED
  BY <1>1, <1>2, <1>3, PTL DEF Spec

\* The rows of the cart screen are the rows of the table whenever it is shown: only the
\* shop adds to the cart, the screen reads it again when it appears, and after each
\* DELETE of its own.
RowsCurrent ==
  /\ tab \in {"shop", "members", "cart"}
  /\ root \in {"tabs", "home"}
  /\ root = "home" => tab = "members"
  /\ signingIn => members = "entering"
  /\ members = "entering" => tab = "members"
  /\ tab = "cart" => data = RowsOf(cart)

LEMMA RowsStep ==
  ASSUME RowsCurrent, [Next]_vars
  PROVE  RowsCurrent'
<1> USE DEF RowsCurrent, screens, cartScreen, MayChangeTab, OnMembersTab
<1>1. CASE OpenCart
  BY <1>1 DEF OpenCart, ReadData
<1>2. ASSUME NEW by \in {1, -1}, Scroll(by) PROVE RowsCurrent'
  BY <1>2 DEF Scroll
<1>3. ASSUME NEW products, Delete(products) PROVE RowsCurrent'
  BY <1>3 DEF Delete, ReadData
<1>4. CASE Order \/ DeleteRow
  BY <1>3, <1>4 DEF Order, DeleteRow
<1>5. CASE ShowShop \/ ShowMembers
  BY <1>5 DEF ShowShop, ShowMembers
<1>6. ASSUME NEW l \in Lists, CloseDetail(l) \/ \E p \in Products : OpenDetail(l, p)
      PROVE  RowsCurrent'
  BY <1>6 DEF OpenDetail, CloseDetail
<1>7. ASSUME NEW l \in Lists, AddToCart(l) PROVE RowsCurrent'
  BY <1>7 DEF AddToCart, ListOnScreen, Lists
<1>8. CASE \/ \E complete \in BOOLEAN : TapForm(complete)
           \/ OpenForm \/ SignedIn \/ Refused \/ EnterList \/ PopMembers
  BY <1>8 DEF TapForm, OpenForm, SignedIn, Refused, EnterList, PopMembers
<1>9. CASE Relaunch
  BY <1>9 DEF Relaunch
<1>10. CASE UNCHANGED vars
  BY <1>10 DEF vars
<1> QED
  BY <1>1, <1>2, <1>4, <1>5, <1>6, <1>7, <1>8, <1>9, <1>10 DEF Next

\* No row of the cart screen is stale, and none is missing, while it can be tapped.
THEOREM RowsAreCurrent == Spec => [](tab = "cart" => data = RowsOf(cart))
<1>1. Init => RowsCurrent
  BY DEF Init, RowsCurrent
<1>2. RowsCurrent /\ [Next]_vars => RowsCurrent'
  BY RowsStep
<1>3. RowsCurrent => (tab = "cart" => data = RowsOf(cart))
  BY DEF RowsCurrent
<1> QED
  BY <1>1, <1>2, <1>3, PTL DEF Spec

-----------------------------------------------------------------------------
(* The empty cart. *)

LEMMA MinOfTwo ==
  ASSUME NEW a \in Int, NEW b \in Int
  PROVE  Min({a, b}) = IF a <= b THEN a ELSE b
<1>1. \E x \in {a, b} : \A y \in {a, b} : x <= y
  OBVIOUS
<1> QED
  BY <1>1 DEF Min

LEMMA MaxOfTwo ==
  ASSUME NEW a \in Int, NEW b \in Int
  PROVE  Max({a, b}) = IF a >= b THEN a ELSE b
<1>1. \E x \in {a, b} : \A y \in {a, b} : x >= y
  OBVIOUS
<1> QED
  BY <1>1 DEF Max

LEMMA RowsCount ==
  ASSUME NEW table \in SUBSET InStock
  PROVE  Len(RowsOf(table)) = Cardinality(table) /\ Len(RowsOf(table)) \in Nat
<1>1. Cardinality(table) \in Nat
  BY CartIsFinite
<1>2. DOMAIN RowsOf(table) = 1..Cardinality(table)
  BY DEF RowsOf
<1> QED
  BY <1>1, <1>2

\* With every row gone the first row on the screen is row 1, so that no cell is asked
\* for and no total comes back.
LEMMA ReadDataStep ==
  ASSUME NEW table \in SUBSET InStock, top \in Nat \ {0}, NEW s, ReadData(table, s)
  PROVE  top' \in Nat \ {0} /\ (table = {} => summary' = s)
<1> DEFINE rows == RowsOf(table)
           first == Min({top, LastTop(rows)})
           last == Min({Len(rows), first + Fit - 1})
<1>1. Len(rows) \in Nat
  BY RowsCount
<1>2. LastTop(rows) \in Nat \ {0}
  BY <1>1, MaxOfTwo, ShopAssumption DEF LastTop
<1>3. first \in Nat \ {0}
  BY <1>2, MinOfTwo
<1>4. top' = first
  BY DEF ReadData
<1>5. ASSUME table = {} PROVE summary' = s
  <2>1. Len(rows) = 0
    BY <1>5, RowsCount, FS_EmptySet
  <2>2. last = 0
    <3>1. first + Fit - 1 \in Int /\ 0 <= first + Fit - 1
      BY <1>3, ShopAssumption
    <3>2. ASSUME NEW b \in Int, 0 <= b PROVE Min({0, b}) = 0
      BY <3>2, MinOfTwo
    <3>3. Min({0, first + Fit - 1}) = 0
      <4> HIDE DEF first
      <4> QED
        BY <3>1, <3>2
    <3> QED
      BY <2>1, <3>3
  <2>3. AskForRows(rows, first, last, 0, s)
    BY DEF ReadData
  <2> QED
    BY <1>3, <2>1, <2>2, <2>3 DEF AskForRows
<1> QED
  BY <1>3, <1>4, <1>5

\* The inductive part of CartScreenIsCurrent; the labels keep their names.
EmptyLooksEmpty == summary.text = "empty" /\ summary.barHidden /\ summary.amountHidden
Labels == {"text", "barHidden", "amountHidden", "amount"}
SummaryInv ==
  /\ top \in Nat \ {0}
  /\ DOMAIN summary = Labels
  /\ tab = "cart" /\ cart = {} => EmptyLooksEmpty

LEMMA EmptyStatusShape ==
  ASSUME NEW s, DOMAIN s = Labels
  PROVE  /\ DOMAIN EmptyStatus(s) = Labels
         /\ EmptyStatus(s).text = "empty" /\ EmptyStatus(s).barHidden
         /\ EmptyStatus(s).amountHidden
BY DEF EmptyStatus, Labels

LEMMA LabelsStay ==
  ASSUME NEW rows, NEW from, NEW to, NEW total, NEW s, DOMAIN s = Labels,
         AskForRows(rows, from, to, total, s)
  PROVE  DOMAIN summary' = Labels
<1>1. CASE summary' = s
  BY <1>1
<1>2. CASE summary' = [text |-> "total", barHidden |-> FALSE, amountHidden |-> FALSE,
                       amount |-> grandTotal']
  BY <1>2 DEF Labels
<1> QED
  BY <1>1, <1>2 DEF AskForRows

LEMMA DeleteStep ==
  ASSUME SummaryInv, cart \in SUBSET InStock, NEW products, Delete(products)
  PROVE  SummaryInv'
<1> DEFINE s == StatusAfterBadge(cart')
<1>1. cart' \in SUBSET InStock /\ ReadData(cart', s)
  BY DEF Delete
<1>2. DOMAIN s = Labels /\ (cart' = {} => s = EmptyStatus(summary))
  BY EmptyStatusShape DEF SummaryInv, StatusAfterBadge
<1>3. \A table \in SUBSET InStock : ReadData(table, s) =>
        top' \in Nat \ {0} /\ (table = {} => summary' = s)
  BY ReadDataStep DEF SummaryInv
<1>4. top' \in Nat \ {0} /\ (cart' = {} => summary' = s)
  BY <1>1, <1>3
<1>5. DOMAIN summary' = Labels
  BY <1>1, <1>2, LabelsStay DEF ReadData
<1>6. cart' = {} => EmptyLooksEmpty'
  BY <1>2, <1>4, EmptyStatusShape DEF EmptyLooksEmpty, SummaryInv
<1> QED
  BY <1>4, <1>5, <1>6 DEF SummaryInv

LEMMA SummaryStep ==
  ASSUME SummaryInv, RowsCurrent, BadgeInv, [Next]_vars
  PROVE  SummaryInv'
<1>1. CASE OpenCart
  <2> DEFINE s == StatusOnAppearing(summary)
  <2>1. ReadData(cart, s) /\ cart' = cart /\ cart \in SUBSET InStock
    BY <1>1 DEF OpenCart, BadgeInv
  <2>2. DOMAIN s = Labels /\ (cart = {} => s = EmptyStatus(summary))
    BY EmptyStatusShape DEF SummaryInv, StatusOnAppearing
  <2>3. top' \in Nat \ {0} /\ (cart = {} => summary' = s)
    BY <2>1, ReadDataStep DEF SummaryInv
  <2>4. DOMAIN summary' = Labels
    BY <2>1, <2>2, LabelsStay DEF ReadData
  <2>5. cart' = {} => EmptyLooksEmpty'
    BY <2>1, <2>2, <2>3, EmptyStatusShape DEF EmptyLooksEmpty, SummaryInv
  <2> QED
    BY <2>3, <2>4, <2>5 DEF SummaryInv
<1>2. ASSUME NEW by \in {1, -1}, Scroll(by) PROVE SummaryInv'
  <2> DEFINE row == IF by = 1 THEN top + Fit ELSE top - 1
  <2>1. /\ tab = "cart" /\ row \in 1..Len(data) /\ top' = top + by
        /\ AskForRows(data, row, row, grandTotal, summary)
        /\ cart' = cart
    BY <1>2 DEF Scroll
  <2>2. Len(data) = Cardinality(cart) /\ Len(data) \in Nat
    BY <2>1, RowsCount DEF RowsCurrent, BadgeInv
  <2>3. cart # {}
    <3>1. Len(data) # 0
      BY <2>1, <2>2
    <3> QED
      BY <2>2, <3>1, FS_EmptySet
  <2>4. top' \in Nat \ {0}
    BY <2>1, <2>2 DEF SummaryInv
  <2>5. DOMAIN summary' = Labels
    BY <2>1, LabelsStay DEF SummaryInv
  <2> QED
    BY <2>1, <2>3, <2>4, <2>5 DEF SummaryInv
<1>3. CASE Order \/ DeleteRow
  BY <1>3, DeleteStep DEF Order, DeleteRow, BadgeInv
<1>4. ASSUME NEW l \in Lists, AddToCart(l) PROVE SummaryInv'
  <2>1. tab' = tab /\ UNCHANGED cartScreen /\ tab # "cart"
    BY <1>4 DEF AddToCart, screens, ListOnScreen, Lists, RowsCurrent
  <2> QED
    BY <2>1 DEF SummaryInv, cartScreen
<1>5. CASE ShowShop \/ ShowMembers
  BY <1>5 DEF ShowShop, ShowMembers, SummaryInv, cartScreen
<1>6. CASE UNCHANGED <<cart, tab, cartScreen>>
  BY <1>6 DEF SummaryInv, EmptyLooksEmpty, cartScreen
<1>7. CASE \E l \in Lists : CloseDetail(l) \/ \E p \in Products : OpenDetail(l, p)
  BY <1>6, <1>7 DEF CloseDetail, OpenDetail
<1>8. CASE \/ \E complete \in BOOLEAN : TapForm(complete)
           \/ OpenForm \/ SignedIn \/ Refused \/ EnterList \/ PopMembers
           \/ UNCHANGED vars
  BY <1>6, <1>8 DEF TapForm, OpenForm, SignedIn, Refused, EnterList, PopMembers,
                    vars, screens, cartScreen
<1>9. CASE Relaunch
  BY <1>9 DEF Relaunch, FirstSummary, SummaryInv, Labels
<1> QED
  BY <1>1, <1>2, <1>3, <1>4, <1>5, <1>7, <1>8, <1>9 DEF Next

\* Whenever the cart screen is shown its rows are those of the table, and an empty cart
\* looks empty: there is nothing to order and no amount, for any products, any prices
\* and any height of the screen.
THEOREM CartScreenIsRight == Spec => []CartScreenIsCurrent
<1>1. Init => SummaryInv /\ RowsCurrent /\ BadgeInv
  BY FS_EmptySet DEF Init, FirstSummary, Labels, SummaryInv, RowsCurrent, BadgeInv
<1>2. SummaryInv /\ RowsCurrent /\ BadgeInv /\ [Next]_vars
        => SummaryInv' /\ RowsCurrent' /\ BadgeInv'
  BY SummaryStep, RowsStep, BadgeStep
<1>3. SummaryInv /\ RowsCurrent => CartScreenIsCurrent
  BY DEF SummaryInv, RowsCurrent, EmptyLooksEmpty, CartScreenIsCurrent
<1> QED
  BY <1>1, <1>2, <1>3, PTL DEF Spec

-----------------------------------------------------------------------------
(* The sum of prices. *)

\* MapThenSumSet takes the elements of a set in an order of its own.
AddsUp(f, S) ==
  \A s \in SUBSET S :
    f[s] = IF s = {} THEN 0
           ELSE Price[CHOOSE x \in s : TRUE] + f[s \ {CHOOSE x \in s : TRUE}]

LEMMA OneWayToAdd ==
  ASSUME NEW S \in SUBSET Products, NEW f, AddsUp(f, S), NEW g, AddsUp(g, S)
  PROVE  \A s \in SUBSET S : f[s] = g[s]
<1> DEFINE B == {s \in SUBSET S : f[s] # g[s]}
<1>1. ASSUME B # {} PROVE FALSE
  <2>1. B \in SUBSET SUBSET S /\ IsFiniteSet(S)
    BY ShopAssumption, FS_Subset
  <2>2. PICK s \in B : \A t \in B : Cardinality(s) <= Cardinality(t)
    <3> HIDE DEF B
    <3> QED
      BY <1>1, <2>1, SmallestSubset
  <2>3. s \in SUBSET S /\ f[s] # g[s] /\ s # {}
    BY <2>2 DEF AddsUp
  <2> DEFINE x == CHOOSE x \in s : TRUE
  <2>4. x \in s
    BY <2>3
  <2>5. f[s] = Price[x] + f[s \ {x}] /\ g[s] = Price[x] + g[s \ {x}]
    BY <2>3 DEF AddsUp
  <2> HIDE DEF x
  <2>6. Cardinality(s \ {x}) = Cardinality(s) - 1 /\ Cardinality(s) \in Nat
    BY <2>1, <2>3, <2>4, FS_Subset, FS_CardinalityType, FS_RemoveElement
  <2>7. f[s \ {x}] = g[s \ {x}]
    BY <2>2, <2>3, <2>6
  <2> QED
    BY <2>3, <2>5, <2>7
<1> QED
  BY <1>1

LEMMA SumIsAFold ==
  ASSUME NEW S \in SUBSET Products
  PROVE  \E f \in [SUBSET S -> Nat] : Sum(S) = f[S] /\ AddsUp(f, S)
<1> DEFINE Value(f, s) ==
             IF s = {} THEN 0
             ELSE Price[CHOOSE x \in s : TRUE] + f[s \ {CHOOSE x \in s : TRUE}]
           take == [s \in SUBSET S |-> CHOOSE x \in s : TRUE]
           Step == [v \in Nat |-> [x \in S |-> Price[x] + v]]
           g == CHOOSE g : g = [s \in SUBSET S |-> Value(g, s)]
<1>1. IsFiniteSet(S) /\ \A x \in S : Price[x] \in Nat
  BY ShopAssumption, FS_Subset
<1>2. Chooses(take, S)
  BY DEF Chooses
<1>3. Step \in [Nat -> [S -> Nat]]
  BY <1>1
<1> HIDE DEF take, Step, g
<1>4. PICK f \in [SUBSET S -> Nat] : IsFold(f, S, 0, Step, take)
  <2>1. 0 \in Nat
    OBVIOUS
  <2> QED
    BY <1>1, <1>2, <1>3, <2>1, FoldExists
<1>5. ASSUME NEW s \in SUBSET S, s # {}
      PROVE  Step[f[s \ {take[s]}]][take[s]] = Price[take[s]] + f[s \ {take[s]}]
  <2>1. f[s \ {take[s]}] \in Nat /\ take[s] \in S
    BY <1>2, <1>4, <1>5 DEF Chooses
  <2> QED
    BY <2>1 DEF Step
<1>6. \A s \in SUBSET S : f[s] = Value(f, s)
  BY <1>4, <1>5 DEF take, IsFold
<1>7. f = [s \in SUBSET S |-> Value(f, s)]
  <2> HIDE DEF Value
  <2> QED
    BY <1>4, <1>6
<1>8. g = [s \in SUBSET S |-> Value(g, s)]
  <2> HIDE DEF Value
  <2> QED
    BY <1>7 DEF g
<1>9. Sum(S) = g[S]
  BY DEF Sum, MapThenSumSet, MapThenFoldSet, g
<1>10. \A s \in SUBSET S : g[s] = Value(g, s)
  <2> HIDE DEF Value
  <2> QED
    BY <1>8
<1>11. AddsUp(f, S) /\ AddsUp(g, S)
  BY <1>6, <1>10 DEF AddsUp
<1>12. f[S] = g[S]
  BY <1>11, OneWayToAdd
<1> QED
  BY <1>4, <1>9, <1>11, <1>12

LEMMA SumFirst ==
  ASSUME NEW S \in SUBSET Products
  PROVE  /\ Sum(S) \in Nat
         /\ S = {} => Sum(S) = 0
         /\ S # {} => LET x == CHOOSE x \in S : TRUE
                      IN  Sum(S) = Price[x] + Sum(S \ {x})
<1>1. PICK f \in [SUBSET S -> Nat] : Sum(S) = f[S] /\ AddsUp(f, S)
  BY SumIsAFold
<1>2. ASSUME S # {}
      PROVE  LET x == CHOOSE x \in S : TRUE IN Sum(S) = Price[x] + Sum(S \ {x})
  <2> DEFINE x == CHOOSE x \in S : TRUE
             T == S \ {x}
  <2>1. f[S] = Price[x] + f[T]
    BY <1>1, <1>2 DEF AddsUp
  <2> HIDE DEF x
  <2>2. PICK h \in [SUBSET T -> Nat] : Sum(T) = h[T] /\ AddsUp(h, T)
    BY SumIsAFold
  <2>3. AddsUp(f, T)
    BY <1>1 DEF AddsUp
  <2>4. f[T] = h[T]
    BY <2>2, <2>3, OneWayToAdd
  <2> QED
    BY <1>1, <2>1, <2>2, <2>4 DEF x
<1> QED
  BY <1>1, <1>2 DEF AddsUp

\* Whichever product is left out, its price is what is missing from the sum.
LEMMA SumWithout ==
  ASSUME NEW S \in SUBSET Products, NEW x \in S
  PROVE  Sum(S) = Price[x] + Sum(S \ {x})
<1> DEFINE B == {T \in SUBSET S : \E y \in T : Sum(T) # Price[y] + Sum(T \ {y})}
<1>1. ASSUME B # {} PROVE FALSE
  <2>1. B \in SUBSET SUBSET S /\ IsFiniteSet(S)
    BY ShopAssumption, FS_Subset
  <2>2. PICK T \in B : \A U \in B : Cardinality(T) <= Cardinality(U)
    <3> HIDE DEF B
    <3> QED
      BY <1>1, <2>1, SmallestSubset
  <2>3. PICK y \in T : Sum(T) # Price[y] + Sum(T \ {y})
    BY <2>2
  <2>4. T \in SUBSET S /\ T \in SUBSET Products /\ IsFiniteSet(T)
    BY <2>1, <2>2, FS_Subset
  <2> DEFINE z == CHOOSE z \in T : TRUE
  <2>5. z \in T /\ Sum(T) = Price[z] + Sum(T \ {z})
    BY <2>3, <2>4, SumFirst
  <2> HIDE DEF z
  <2>6. y # z
    BY <2>3, <2>5
  <2>7. ASSUME NEW u \in T PROVE T \ {u} \in SUBSET S /\ T \ {u} \notin B
    <3>1. Cardinality(T \ {u}) = Cardinality(T) - 1 /\ Cardinality(T) \in Nat
      BY <2>4, FS_CardinalityType, FS_RemoveElement
    <3>2. ~(Cardinality(T) <= Cardinality(T \ {u}))
      BY <3>1
    <3> QED
      BY <2>2, <2>4, <3>2
  <2>8. Sum(T \ {z}) = Price[y] + Sum((T \ {z}) \ {y})
    BY <2>5, <2>6, <2>7
  <2>9. Sum(T \ {y}) = Price[z] + Sum((T \ {y}) \ {z})
    BY <2>5, <2>6, <2>7
  <2>10. (T \ {z}) \ {y} = (T \ {y}) \ {z}
    OBVIOUS
  <2>11. /\ Price[y] \in Nat /\ Price[z] \in Nat
         /\ Sum((T \ {y}) \ {z}) \in Nat
    BY <2>4, <2>5, SumFirst, ShopAssumption
  <2>12. Sum(T) = Price[z] + (Price[y] + Sum((T \ {y}) \ {z}))
    BY <2>5, <2>8, <2>10
  <2>13. \A a, b, c \in Nat : a + (b + c) = b + (a + c)
    OBVIOUS
  <2>14. Sum(T) = Price[y] + (Price[z] + Sum((T \ {y}) \ {z}))
    BY <2>11, <2>12, <2>13
  <2> QED
    BY <2>3, <2>9, <2>14
<1> QED
  BY <1>1

LEMMA SumWith ==
  ASSUME NEW S \in SUBSET Products, NEW x \in Products \ S
  PROVE  Sum(S \union {x}) = Sum(S) + Price[x]
<1>1. S \union {x} \in SUBSET Products /\ (S \union {x}) \ {x} = S
  OBVIOUS
<1>2. Sum(S \union {x}) = Price[x] + Sum(S)
  BY <1>1, SumWithout
<1>3. Price[x] \in Nat /\ Sum(S) \in Nat
  BY SumFirst, ShopAssumption
<1> QED
  BY <1>2, <1>3

-----------------------------------------------------------------------------
(* The rows of the cart screen. *)

Before(table, p) == {q \in table : q < p}

\* No two products have the same number of products before them, and that number runs
\* from 0 to the size of the table, less one.
LEMMA Ranks ==
  ASSUME NEW table \in SUBSET InStock
  PROVE  /\ \A p, r \in table : Cardinality(Before(table, p)) = Cardinality(Before(table, r))
                                  => p = r
         /\ \A p \in table : Cardinality(Before(table, p)) \in 0..(Cardinality(table) - 1)
         /\ \A n \in 0..(Cardinality(table) - 1) :
              \E p \in table : Cardinality(Before(table, p)) = n
<1> DEFINE N == Cardinality(table)
           rank == [p \in table |-> Cardinality(Before(table, p))]
<1>1. IsFiniteSet(table) /\ table \subseteq Nat /\ N \in Nat
  BY ShopAssumption, FS_Subset, FS_CardinalityType
<1>2. ASSUME NEW p \in table
      PROVE  IsFiniteSet(Before(table, p)) /\ rank[p] \in 0..(N - 1)
  <2>1. IsFiniteSet(table \ {p}) /\ Cardinality(table \ {p}) = N - 1
    BY <1>1, FS_RemoveElement
  <2>2. Before(table, p) \in SUBSET (table \ {p})
    BY <1>1 DEF Before
  <2>3. /\ IsFiniteSet(Before(table, p))
        /\ Cardinality(Before(table, p)) <= Cardinality(table \ {p})
    BY <2>1, <2>2, FS_Subset
  <2>4. Cardinality(Before(table, p)) \in Nat
    BY <2>3, FS_CardinalityType
  <2> QED
    BY <1>1, <2>1, <2>3, <2>4
<1>3. ASSUME NEW p \in table, NEW r \in table, p < r PROVE rank[p] # rank[r]
  <2>1. \A q \in table : q < p => q < r
    BY <1>1, <1>3
  <2>2. Before(table, p) \in SUBSET Before(table, r)
    BY <2>1 DEF Before
  <2>3. p \in Before(table, r) /\ p \notin Before(table, p)
    BY <1>1, <1>3 DEF Before
  <2> QED
    BY <1>2, <2>2, <2>3, FS_Subset
<1>4. \A p, r \in table : rank[p] = rank[r] => p = r
  <2>1. \A p, r \in table : p < r \/ r < p \/ p = r
    BY <1>1
  <2> HIDE DEF rank
  <2> QED
    BY <1>3, <2>1
<1>5. rank \in Injection(table, 0..(N - 1))
  <2>1. rank \in [table -> 0..(N - 1)]
    BY <1>2
  <2> HIDE DEF rank
  <2> QED
    BY <1>4, <2>1 DEF Injection, IsInjective
<1>6. IsFiniteSet(0..(N - 1)) /\ Cardinality(0..(N - 1)) = N
  <2>1. /\ IsFiniteSet(0..(N - 1))
        /\ Cardinality(0..(N - 1)) = IF 0 > N - 1 THEN 0 ELSE (N - 1) - 0 + 1
    <3>1. 0 \in Int /\ N - 1 \in Int
      BY <1>1
    <3> HIDE DEF N
    <3> QED
      BY <3>1, FS_Interval
  <2> HIDE DEF N
  <2> QED
    BY <1>1, <2>1
<1>7. rank \in Surjection(table, 0..(N - 1))
  <2> HIDE DEF rank, N
  <2> QED
    BY <1>5, <1>6, FS_Injection DEF N
<1>8. \A n \in 0..(N - 1) : \E p \in table : rank[p] = n
  BY <1>7 DEF Surjection
<1>9. \A p \in table : rank[p] = Cardinality(Before(table, p))
  OBVIOUS
<1> HIDE DEF rank
<1> QED
  BY <1>2, <1>4, <1>8, <1>9

\* The rows list each product of the table once.
LEMMA RowsFacts ==
  ASSUME NEW table \in SUBSET InStock
  PROVE  /\ RowsOf(table) \in Seq(table)
         /\ \A i, j \in 1..Len(RowsOf(table)) : RowsOf(table)[i] = RowsOf(table)[j] => i = j
         /\ {RowsOf(table)[i] : i \in 1..Len(RowsOf(table))} = table
<1> DEFINE N == Cardinality(table)
           rows == RowsOf(table)
<1>1. N \in Nat /\ Len(rows) = N
  BY RowsCount, CartIsFinite
<1>2. rows = [i \in 1..N |-> CHOOSE p \in table : Cardinality(Before(table, p)) = i - 1]
  BY DEF RowsOf, Before
<1> HIDE DEF rows
<1>3. ASSUME NEW i \in 1..N
      PROVE  rows[i] \in table /\ Cardinality(Before(table, rows[i])) = i - 1
  <2>1. i - 1 \in 0..(N - 1)
    BY <1>1
  <2>2. \E p \in table : Cardinality(Before(table, p)) = i - 1
    BY <2>1, Ranks
  <2> QED
    BY <1>2, <2>2
<1>4. rows \in Seq(table)
  BY <1>1, <1>2, <1>3
<1>5. ASSUME NEW i \in 1..N, NEW j \in 1..N, rows[i] = rows[j] PROVE i = j
  <2>1. i - 1 = j - 1
    BY <1>3, <1>5
  <2> QED
    BY <2>1
<1>6. ASSUME NEW p \in table PROVE \E i \in 1..N : rows[i] = p
  <2> DEFINE n == Cardinality(Before(table, p))
  <2>1. n \in 0..(N - 1)
    BY Ranks
  <2>2. n + 1 \in 1..N /\ (n + 1) - 1 = n
    BY <1>1, <2>1
  <2>3. rows[n + 1] \in table /\ Cardinality(Before(table, rows[n + 1])) = n
    BY <1>3, <2>2
  <2>4. rows[n + 1] = p
    BY <2>3, Ranks
  <2> QED
    BY <2>2, <2>4
<1> QED
  BY <1>1, <1>3, <1>4, <1>5, <1>6 DEF rows

-----------------------------------------------------------------------------
(* The types. *)

SummaryType == [text : {"empty", "total"}, barHidden : BOOLEAN,
                amountHidden : BOOLEAN, amount : Nat]

\* The rows that are asked for after the table is read: from the first on the screen,
\* which is at most one past the last, to the last.
LEMMA Window ==
  ASSUME NEW rows, Len(rows) \in Nat, top \in Nat \ {0}
  PROVE  LET first == Min({top, LastTop(rows)})
             last == Min({Len(rows), first + Fit - 1})
         IN  /\ first \in 1..LastTop(rows) /\ LastTop(rows) \in Nat
             /\ last \in 0..Len(rows) /\ first <= last + 1
             /\ Len(rows) > 0 => first <= last
<1> DEFINE n == Len(rows)
           most == LastTop(rows)
           first == Min({top, most})
           last == Min({n, first + Fit - 1})
<1>1. Fit \in Nat /\ Fit >= 1 /\ n \in Nat
  BY ShopAssumption
<1>2. most = IF 1 >= n - Fit + 1 THEN 1 ELSE n - Fit + 1
  BY <1>1, MaxOfTwo DEF LastTop
<1>3. most \in Nat /\ most >= 1
  BY <1>1, <1>2
<1> HIDE DEF n, most
<1>4. first = IF top <= most THEN top ELSE most
  BY <1>3, MinOfTwo
<1>5. first \in 1..most
  BY <1>3, <1>4
<1> HIDE DEF first
<1>6. first \in Int /\ first + Fit - 1 \in Int /\ n \in Int
  BY <1>1, <1>5
<1>7. last = IF n <= first + Fit - 1 THEN n ELSE first + Fit - 1
  <2> DEFINE m == first + Fit - 1
  <2>1. m \in Int
    BY <1>6
  <2> HIDE DEF m
  <2>2. Min({n, m}) = IF n <= m THEN n ELSE m
    BY <1>6, <2>1, MinOfTwo
  <2> QED
    BY <2>2 DEF m
<1> HIDE DEF last
<1>8. last \in 0..n /\ first <= last + 1 /\ (n > 0 => first <= last)
  <2>1. CASE n <= first + Fit - 1
    BY <1>1, <1>2, <1>5, <1>7, <2>1
  <2>2. CASE ~(n <= first + Fit - 1)
    BY <1>1, <1>5, <1>7, <2>2
  <2> QED
    BY <2>1, <2>2
<1> QED
  BY <1>3, <1>5, <1>8 DEF n, most, first, last

\* Asking for rows adds natural numbers to the total and sets the labels.
LEMMA AskTypes ==
  ASSUME NEW rows \in Seq(Products), NEW from \in Nat \ {0}, NEW to \in 0..Len(rows),
         NEW total \in Nat, NEW s \in SummaryType, AskForRows(rows, from, to, total, s)
  PROVE  grandTotal' \in Nat /\ summary' \in SummaryType
<1>1. {rows[i] : i \in from..to} \in SUBSET Products
  <2>1. ASSUME NEW i \in from..to PROVE rows[i] \in Products
    <3>1. i \in 1..Len(rows)
      OBVIOUS
    <3> QED
      BY <3>1
  <2> QED
    BY <2>1
<1>2. grandTotal' \in Nat
  <2>1. Sum({rows[i] : i \in from..to}) \in Nat
    BY <1>1, SumFirst
  <2> QED
    BY <2>1 DEF AskForRows
<1>3. [text |-> "total", barHidden |-> FALSE, amountHidden |-> FALSE,
       amount |-> grandTotal'] \in SummaryType
  BY <1>2 DEF SummaryType
<1> QED
  BY <1>2, <1>3 DEF AskForRows

LEMMA ReadDataTypes ==
  ASSUME NEW table \in SUBSET InStock, top \in Nat \ {0}, NEW s \in SummaryType,
         ReadData(table, s)
  PROVE  /\ data' \in Seq(Products) /\ top' \in 1..LastTop(data') /\ grandTotal' \in Nat
         /\ summary' \in SummaryType /\ asked' \in Seq(1..Len(data'))
<1> DEFINE rows == RowsOf(table)
           first == Min({top, LastTop(rows)})
           last == Min({Len(rows), first + Fit - 1})
<1>1. rows \in Seq(Products)
  <2>1. table \subseteq Products /\ rows \in Seq(table)
    BY ShopAssumption, RowsFacts
  <2> HIDE DEF rows
  <2> QED
    BY <2>1
<1>2. /\ first \in 1..LastTop(rows) /\ LastTop(rows) \in Nat
      /\ last \in 0..Len(rows) /\ first <= last + 1
  BY <1>1, Window
<1>3. /\ data' = rows /\ top' = first /\ AskForRows(rows, first, last, 0, s)
      /\ asked' = [i \in 1..(last - first + 1) |-> first + i - 1]
  BY DEF ReadData
<1> HIDE DEF rows, first, last
<1>4. first \in Nat \ {0} /\ last - first + 1 \in Nat
  BY <1>1, <1>2
<1>5. grandTotal' \in Nat /\ summary' \in SummaryType
  BY <1>1, <1>2, <1>3, <1>4, AskTypes
<1>6. ASSUME NEW i \in 1..(last - first + 1) PROVE first + i - 1 \in 1..Len(rows)
  BY <1>1, <1>2, <1>4
<1>7. asked' \in Seq(1..Len(rows))
  BY <1>3, <1>4, <1>6
<1> QED
  BY <1>1, <1>2, <1>3, <1>5, <1>7

\* What the DELETE buttons do to the screen.
LEMMA DeleteTypes ==
  ASSUME TypeOK, NEW products, Delete(products)
  PROVE  TypeOK'
<1> DEFINE s == StatusAfterBadge(cart')
<1>1. cart' \in SUBSET InStock /\ ReadData(cart', s)
  BY DEF Delete, TypeOK
<1>2. s \in SummaryType
  BY DEF TypeOK, StatusAfterBadge, EmptyStatus, SummaryType
<1>3. top \in Nat \ {0}
  BY DEF TypeOK
<1>4. \A table \in SUBSET InStock : ReadData(table, s) =>
        /\ data' \in Seq(Products) /\ top' \in 1..LastTop(data') /\ grandTotal' \in Nat
        /\ summary' \in SummaryType /\ asked' \in Seq(1..Len(data'))
  BY <1>2, <1>3, ReadDataTypes
<1> HIDE DEF s
<1>5. /\ data' \in Seq(Products) /\ top' \in 1..LastTop(data') /\ grandTotal' \in Nat
      /\ summary' \in SummaryType /\ asked' \in Seq(1..Len(data'))
  BY <1>1, <1>4
<1>6. badge' \in Nat
  BY <1>1, CartIsFinite DEF Delete, SetBadge
<1> QED
  BY <1>1, <1>5, <1>6 DEF TypeOK, Delete, screens, SummaryType

LEMMA OpenCartTypes ==
  ASSUME TypeOK, OpenCart
  PROVE  TypeOK'
<1> DEFINE s == StatusOnAppearing(summary)
<1>1. cart \in SUBSET InStock /\ ReadData(cart, s) /\ top \in Nat \ {0}
  BY DEF OpenCart, TypeOK
<1>2. s \in SummaryType
  BY DEF TypeOK, StatusOnAppearing, EmptyStatus, SummaryType
<1> HIDE DEF s
<1>3. /\ data' \in Seq(Products) /\ top' \in 1..LastTop(data') /\ grandTotal' \in Nat
      /\ summary' \in SummaryType /\ asked' \in Seq(1..Len(data'))
  BY <1>1, <1>2, ReadDataTypes
<1> QED
  BY <1>1, <1>3 DEF TypeOK, OpenCart, SummaryType

\* A row comes into view and the one at the other end goes: the first row on the screen
\* stays one that leaves no space.
LEMMA ScrollTypes ==
  ASSUME TypeOK, NEW by \in {1, -1}, Scroll(by)
  PROVE  TypeOK'
<1> DEFINE row == IF by = 1 THEN top + Fit ELSE top - 1
<1>1. /\ row \in 1..Len(data) /\ top' = top + by /\ data' = data
      /\ AskForRows(data, row, row, grandTotal, summary) /\ asked' = Append(asked, row)
  BY DEF Scroll
<1>2. /\ data \in Seq(Products) /\ Len(data) \in Nat /\ top \in 1..LastTop(data)
      /\ grandTotal \in Nat /\ summary \in SummaryType /\ asked \in Seq(1..Len(data))
  BY DEF TypeOK, SummaryType
<1>3. LastTop(data) = IF 1 >= Len(data) - Fit + 1 THEN 1 ELSE Len(data) - Fit + 1
  <2>1. Len(data) - Fit + 1 \in Int
    BY <1>2, ShopAssumption
  <2> DEFINE m == Len(data) - Fit + 1
  <2> HIDE DEF m
  <2>2. m \in Int => Max({1, m}) = IF 1 >= m THEN 1 ELSE m
    BY MaxOfTwo
  <2> QED
    BY <2>1, <2>2 DEF m, LastTop
<1>4. top' \in 1..LastTop(data')
  <2>1. CASE by = 1
    <3>1. row = top + Fit
      BY <2>1
    <3> QED
      BY <1>1, <1>2, <1>3, <2>1, <3>1, ShopAssumption
  <2>2. CASE by = -1
    <3>1. row = top - 1
      BY <2>2
    <3> QED
      BY <1>1, <1>2, <1>3, <2>2, <3>1, ShopAssumption
  <2> QED
    BY <2>1, <2>2
<1> HIDE DEF row
<1>5. row \in Nat \ {0} /\ row \in 0..Len(data)
  BY <1>1, <1>2
<1>6. grandTotal' \in Nat /\ summary' \in SummaryType
  BY <1>1, <1>2, <1>5, AskTypes
<1>7. asked' \in Seq(1..Len(data'))
  BY <1>1, <1>2, AppendProperties
<1>8. UNCHANGED <<cart, root, tab, members, signingIn, detail, badge>>
  BY DEF Scroll, screens
<1> QED
  BY <1>1, <1>2, <1>4, <1>6, <1>7, <1>8 DEF TypeOK, SummaryType

\* A screen that has not read the table.
LEMMA NewScreen ==
  <<>> \in Seq(Products) /\ <<>> \in Seq(1..Len(<<>>)) /\ 1 \in 1..LastTop(<<>>)
<1>1. 0 - Fit + 1 \in Int /\ 0 - Fit + 1 <= 1
  BY ShopAssumption
<1>2. \A m \in Int : m <= 1 => Max({1, m}) = 1
  BY MaxOfTwo
<1>3. LastTop(<<>>) = 1
  BY <1>1, <1>2 DEF LastTop
<1> QED
  BY <1>3

LEMMA TypeStep ==
  ASSUME TypeOK, [Next]_vars
  PROVE  TypeOK'
<1>1. ASSUME RaiseBadge(cart) \/ UNCHANGED badge PROVE badge' \in Nat
  BY <1>1, CartIsFinite DEF RaiseBadge, TypeOK
<1>2. CASE OpenCart
  BY <1>2, OpenCartTypes
<1>3. CASE Scroll(1) \/ Scroll(-1)
  BY <1>3, ScrollTypes
<1>4. CASE Order \/ DeleteRow
  BY <1>4, DeleteTypes DEF Order, DeleteRow
<1>5. CASE ShowShop \/ ShowMembers
  BY <1>1, <1>5 DEF ShowShop, ShowMembers, TypeOK, cartScreen
<1>6. ASSUME NEW l \in Lists, CloseDetail(l) \/ \E p \in Products : OpenDetail(l, p)
      PROVE  TypeOK'
  <2>1. badge' \in Nat /\ UNCHANGED <<cart, root, tab, members, signingIn, cartScreen>>
    BY <1>1, <1>6 DEF CloseDetail, OpenDetail
  <2>2. detail' \in [Lists -> Products \union {NoProduct}]
    BY <1>6 DEF CloseDetail, OpenDetail, TypeOK
  <2> QED
    BY <2>1, <2>2 DEF TypeOK, cartScreen
<1>7. ASSUME NEW l \in Lists, AddToCart(l) PROVE TypeOK'
  <2>1. cart' \in SUBSET InStock /\ RaiseBadge(cart') /\ UNCHANGED <<screens, cartScreen>>
    BY <1>7 DEF AddToCart, TypeOK
  <2>2. badge' \in Nat
    BY <2>1, CartIsFinite DEF RaiseBadge, TypeOK
  <2> QED
    BY <2>1, <2>2 DEF TypeOK, screens, cartScreen
<1>8. ASSUME NEW complete \in BOOLEAN, TapForm(complete) PROVE TypeOK'
  BY <1>1, <1>8 DEF TapForm, TypeOK, cartScreen
<1>9. CASE OpenForm \/ SignedIn \/ Refused \/ EnterList
  BY <1>9 DEF OpenForm, SignedIn, Refused, EnterList, TypeOK, cartScreen
<1>10. CASE PopMembers
  BY <1>10 DEF PopMembers, TypeOK, cartScreen
<1>11. CASE Relaunch
  <2>1. Cardinality(cart) \in Nat
    BY CartIsFinite DEF TypeOK
  <2>2. detail' \in [Lists -> Products \union {NoProduct}] /\ summary' \in SummaryType
    BY <1>11 DEF Relaunch, FirstSummary, SummaryType
  <2>3. data' \in Seq(Products) /\ asked' \in Seq(1..Len(data')) /\ top' \in 1..LastTop(data')
    BY <1>11, NewScreen DEF Relaunch
  <2> QED
    BY <1>11, <2>1, <2>2, <2>3 DEF Relaunch, TypeOK, SummaryType
<1>12. CASE UNCHANGED vars
  BY <1>12 DEF vars, TypeOK
<1> QED
  BY <1>2, <1>3, <1>4, <1>5, <1>6, <1>7, <1>8, <1>9, <1>10, <1>11, <1>12 DEF Next

\* What the screens show exists, whatever is bought, deleted, scrolled or signed up for:
\* the rows are products, the first one on the screen leaves no space below that a row
\* could fill, and the rows asked for were rows of the table.
THEOREM ShopTypes == Spec => []TypeOK
<1>1. Init => TypeOK
  <2> SUFFICES ASSUME Init PROVE TypeOK
    OBVIOUS
  <2>1. summary \in SummaryType /\ detail \in [Lists -> Products \union {NoProduct}]
    BY DEF Init, FirstSummary, SummaryType
  <2>2. data \in Seq(Products) /\ asked \in Seq(1..Len(data)) /\ top \in 1..LastTop(data)
    BY NewScreen DEF Init
  <2> QED
    BY <2>1, <2>2 DEF Init, TypeOK, SummaryType
<1>2. TypeOK /\ [Next]_vars => TypeOK'
  BY TypeStep
<1> QED
  BY <1>1, <1>2, PTL DEF Spec

-----------------------------------------------------------------------------
(* The total. *)

\* As long as the rows were asked for once each and in their order, what was added up is
\* the price of those rows, and the last one shows it.
PassInv ==
  \A k \in 0..Len(data) : asked = [i \in 1..k |-> i] =>
    /\ grandTotal = Sum({data[i] : i \in 1..k})
    /\ k = Len(data) /\ k > 0 => summary.amount = grandTotal

LEMMA ReadDataPass ==
  ASSUME NEW table \in SUBSET InStock, top \in Nat \ {0}, NEW s, ReadData(table, s)
  PROVE  PassInv'
<1> DEFINE rows == RowsOf(table)
           n == Len(rows)
           first == Min({top, LastTop(rows)})
           last == Min({n, first + Fit - 1})
<1>1. rows \in Seq(Products) /\ n \in Nat
  <2>1. table \subseteq Products /\ rows \in Seq(table)
    BY ShopAssumption, RowsFacts
  <2> HIDE DEF rows
  <2> QED
    BY <2>1
<1>2. /\ first \in 1..LastTop(rows) /\ LastTop(rows) \in Nat
      /\ last \in 0..n /\ first <= last + 1 /\ (n > 0 => first <= last)
  BY <1>1, Window
<1>3. /\ data' = rows /\ AskForRows(rows, first, last, 0, s)
      /\ asked' = [i \in 1..(last - first + 1) |-> first + i - 1]
  BY DEF ReadData
<1> HIDE DEF rows, n, first, last
<1>4. ASSUME NEW k \in 0..n, asked' = [i \in 1..k |-> i]
      PROVE  /\ grandTotal' = Sum({rows[i] : i \in 1..k})
             /\ k = n /\ k > 0 => summary'.amount = grandTotal'
  <2>1. k = last - first + 1
    <3>1. 1..k = 1..(last - first + 1)
      BY <1>3, <1>4
    <3>2. last - first + 1 \in Nat /\ k \in Nat
      BY <1>1, <1>2
    <3>3. \A a, b \in Nat : 1..a = 1..b => a = b
      <4>1. ASSUME NEW a \in Nat, NEW b \in Nat, 1..a = 1..b PROVE a = b
        <5>1. (a \in 1..a <=> a \in 1..b) /\ (b \in 1..a <=> b \in 1..b)
          BY <4>1
        <5> QED
          BY <5>1
      <4> QED
        BY <4>1
    <3> QED
      BY <3>1, <3>2, <3>3
  <2>2. first = 1 /\ last = k
    <3>1. CASE k = 0
      <4>1. n = 0
        BY <1>1, <1>2, <2>1, <3>1
      <4> QED
        BY <1>1, <1>2, <2>1, <3>1, <4>1
    <3>2. CASE k # 0
      <4>1. 1 \in 1..k
        BY <3>2
      <4>2. asked'[1] = 1 /\ asked'[1] = first + 1 - 1
        BY <1>3, <1>4, <2>1, <4>1
      <4>3. first = 1
        BY <1>2, <4>2
      <4> QED
        BY <1>2, <2>1, <4>3
    <3> QED
      BY <3>1, <3>2
  <2>3. grandTotal' = 0 + Sum({rows[i] : i \in 1..k})
    BY <1>3, <2>2 DEF AskForRows
  <2>4. {rows[i] : i \in 1..k} \in SUBSET Products
    BY <1>1 DEF n
  <2>5. grandTotal' = Sum({rows[i] : i \in 1..k})
    <3>1. Sum({rows[i] : i \in 1..k}) \in Nat
      BY <2>4, SumFirst
    <3> QED
      BY <2>3, <3>1
  <2>6. ASSUME k = n, k > 0 PROVE summary'.amount = grandTotal'
    BY <1>3, <2>2, <2>6 DEF AskForRows, n
  <2> QED
    BY <2>5, <2>6
<1>5. data' = rows /\ n = Len(rows)
  BY <1>3 DEF n
<1> QED
  BY <1>4, <1>5 DEF PassInv

LEMMA ScrollPass ==
  ASSUME TypeOK, RowsCurrent, PassInv, NEW by \in {1, -1}, Scroll(by)
  PROVE  PassInv'
<1> DEFINE row == IF by = 1 THEN top + Fit ELSE top - 1
<1>1. /\ tab = "cart" /\ row \in 1..Len(data) /\ data' = data
      /\ AskForRows(data, row, row, grandTotal, summary) /\ asked' = Append(asked, row)
  BY DEF Scroll
<1> HIDE DEF row
<1>2. /\ data = RowsOf(cart) /\ cart \in SUBSET InStock /\ data \in Seq(Products)
      /\ Len(data) \in Nat /\ asked \in Seq(1..Len(data)) /\ grandTotal \in Nat
  BY <1>1 DEF RowsCurrent, TypeOK
<1>3. \A i, j \in 1..Len(data) : data[i] = data[j] => i = j
  BY <1>2, RowsFacts
<1>4. ASSUME NEW k \in 0..Len(data), asked' = [i \in 1..k |-> i]
      PROVE  /\ grandTotal' = Sum({data[i] : i \in 1..k})
             /\ k = Len(data) /\ k > 0 => summary'.amount = grandTotal'
  <2>1. k \in Nat /\ k = Len(asked) + 1 /\ k - 1 \in 0..Len(data)
    <3>1. DOMAIN asked' = 1..(Len(asked) + 1) /\ Len(asked) \in Nat
      BY <1>1, <1>2, AppendProperties
    <3>2. 1..k = 1..(Len(asked) + 1) /\ k \in Nat
      BY <1>2, <1>4, <3>1
    <3>3. k = Len(asked) + 1
      <4>1. \A m \in Nat : m + 1 \in 1..(m + 1) /\ (\A i \in 1..(m + 1) : i <= m + 1)
        OBVIOUS
      <4>2. Len(asked) + 1 <= k /\ k # 0
        BY <3>1, <3>2, <4>1
      <4>3. k \in 1..k
        BY <3>2, <4>2
      <4> QED
        BY <3>1, <3>2, <4>2, <4>3
    <3> QED
      BY <1>2, <3>1, <3>2, <3>3
  <2>2. asked = [i \in 1..(k - 1) |-> i] /\ row = k
    <3>1. \A i \in 1..Len(asked) : asked'[i] = asked[i]
      BY <1>1, <1>2, AppendProperties
    <3>2. asked'[Len(asked) + 1] = row
      BY <1>1, <1>2, AppendProperties
    <3>3. DOMAIN asked = 1..(k - 1) /\ Len(asked) = k - 1
      BY <1>2, <2>1
    <3>4. \A i \in 1..(k - 1) : asked[i] = i
      BY <1>4, <2>1, <3>1, <3>3
    <3>5. asked = [i \in DOMAIN asked |-> asked[i]]
      BY <1>2
    <3>6. k \in 1..k /\ Len(asked) + 1 = k
      BY <2>1, <3>3
    <3> QED
      BY <1>4, <3>2, <3>3, <3>4, <3>5, <3>6
  <2> DEFINE S == {data[i] : i \in 1..(k - 1)}
  <2>3. grandTotal = Sum(S)
    BY <2>1, <2>2 DEF PassInv
  <2>4. {data[i] : i \in k..k} = {data[k]} /\ {data[i] : i \in 1..k} = S \union {data[k]}
    <3>1. k..k = {k} /\ 1..k = 1..(k - 1) \union {k}
      BY <1>1, <2>1, <2>2
    <3> QED
      BY <3>1
  <2>5. S \in SUBSET Products /\ data[k] \in Products \ S
    <3>1. \A i \in 1..(k - 1) : i \in 1..Len(data) /\ i # k
      BY <1>2, <2>1
    <3>2. k \in 1..Len(data)
      BY <1>1, <2>2
    <3>3. \A i \in 1..Len(data) : data[i] \in Products
      BY <1>2
    <3> QED
      BY <1>3, <3>1, <3>2, <3>3
  <2> HIDE DEF S
  <2>6. Sum({data[k]}) = Price[data[k]]
    <3>1. Sum({} \union {data[k]}) = Sum({}) + Price[data[k]] /\ Sum({}) = 0
      BY <2>5, SumWith, SumFirst
    <3>2. Price[data[k]] \in Nat /\ {} \union {data[k]} = {data[k]}
      BY <2>5, ShopAssumption
    <3> QED
      BY <3>1, <3>2
  <2>7. grandTotal' = grandTotal + Price[data[k]]
    BY <1>1, <2>2, <2>4, <2>6 DEF AskForRows
  <2>8. grandTotal' = Sum({data[i] : i \in 1..k})
    BY <2>3, <2>4, <2>5, <2>7, SumWith
  <2>9. ASSUME k = Len(data) PROVE summary'.amount = grandTotal'
    <3>1. row = Len(data) /\ row <= row
      BY <1>2, <2>2, <2>9
    <3> QED
      BY <1>1, <3>1 DEF AskForRows
  <2> QED
    BY <2>8, <2>9
<1> QED
  BY <1>1, <1>4 DEF PassInv

\* Nothing is asked for yet.
LEMMA NewScreenPass ==
  ASSUME NEW k \in 0..Len(<<>>), NEW rows
  PROVE  k = 0 /\ Sum({rows[i] : i \in 1..k}) = 0
<1>1. k = 0
  OBVIOUS
<1>2. {rows[i] : i \in 1..k} = {}
  BY <1>1
<1> QED
  BY <1>1, <1>2, SumFirst

LEMMA PassStep ==
  ASSUME TypeOK, RowsCurrent, PassInv, [Next]_vars
  PROVE  PassInv'
<1>1. CASE UNCHANGED cartScreen
  BY <1>1 DEF PassInv, cartScreen
<1>2. CASE OpenCart
  <2>1. ReadData(cart, StatusOnAppearing(summary))
    BY <1>2 DEF OpenCart
  <2> QED
    BY <2>1, ReadDataPass DEF TypeOK
<1>3. CASE Scroll(1) \/ Scroll(-1)
  BY <1>3, ScrollPass
<1>4. CASE Order \/ DeleteRow
  <2>1. cart' \in SUBSET InStock /\ ReadData(cart', StatusAfterBadge(cart'))
    BY <1>4 DEF Order, DeleteRow, Delete, TypeOK
  <2>2. \A table \in SUBSET InStock : \A s : ReadData(table, s) => PassInv'
    BY ReadDataPass DEF TypeOK
  <2> QED
    BY <2>1, <2>2
<1>5. CASE Relaunch
  <2>1. data' = <<>> /\ grandTotal' = 0
    BY <1>5 DEF Relaunch
  <2>2. ASSUME NEW k \in 0..Len(data')
        PROVE  grandTotal' = Sum({data'[i] : i \in 1..k}) /\ ~(k > 0)
    BY <2>1, NewScreenPass
  <2> QED
    BY <2>2 DEF PassInv
<1>6. CASE \/ ShowShop \/ ShowMembers \/ OpenForm \/ SignedIn \/ Refused \/ EnterList
           \/ PopMembers \/ (\E complete \in BOOLEAN : TapForm(complete))
           \/ \E l \in Lists : \/ CloseDetail(l) \/ AddToCart(l)
                               \/ \E p \in Products : OpenDetail(l, p)
  BY <1>1, <1>6 DEF ShowShop, ShowMembers, OpenForm, SignedIn, Refused, EnterList,
                    PopMembers, TapForm, CloseDetail, AddToCart, OpenDetail
<1>7. CASE UNCHANGED vars
  BY <1>1, <1>7 DEF vars, cartScreen
<1> QED
  BY <1>2, <1>3, <1>4, <1>5, <1>6, <1>7 DEF Next

\* A reader who goes through the cart from its first row to its last, without going back,
\* is shown the sum of the prices, for any products, any prices and any height of the
\* screen, whatever was bought, deleted or looked at before.
THEOREM OnePassShowsTheSum == Spec => []TotalAfterOnePass
<1>1. Init => PassInv /\ RowsCurrent
  <2> SUFFICES ASSUME Init PROVE PassInv /\ RowsCurrent
    OBVIOUS
  <2>1. data = <<>> /\ grandTotal = 0
    BY DEF Init
  <2>2. ASSUME NEW k \in 0..Len(data)
        PROVE  grandTotal = Sum({data[i] : i \in 1..k}) /\ ~(k > 0)
    BY <2>1, NewScreenPass
  <2>3. PassInv
    BY <2>2 DEF PassInv
  <2> QED
    BY <2>3 DEF Init, RowsCurrent
<1>2. TypeOK /\ RowsCurrent /\ PassInv /\ [Next]_vars => RowsCurrent' /\ PassInv'
  BY RowsStep, PassStep
<1>3. TypeOK /\ RowsCurrent /\ PassInv => TotalAfterOnePass
  <2> SUFFICES ASSUME TypeOK, RowsCurrent, PassInv, tab = "cart", data # <<>>,
                      asked = [i \in 1..Len(data) |-> i]
               PROVE  summary.amount = Sum(cart)
    BY DEF TotalAfterOnePass
  <2>1. data = RowsOf(cart) /\ cart \in SUBSET InStock /\ data \in Seq(Products)
    BY DEF RowsCurrent, TypeOK
  <2>2. {data[i] : i \in 1..Len(data)} = cart
    BY <2>1, RowsFacts
  <2>3. Len(data) \in 0..Len(data) /\ Len(data) > 0
    BY <2>1
  <2> QED
    BY <2>2, <2>3 DEF PassInv
<1> QED
  BY <1>1, <1>2, <1>3, ShopTypes, PTL DEF Spec

-----------------------------------------------------------------------------
(* The total, however a reader scrolls. *)

\* What was added up since the rows were read is at least the price of the rows that were
\* asked for, and if the last row was the latest of them the amount shows it.
EnoughInv ==
  /\ grandTotal >= Sum({data[row] : row \in {asked[i] : i \in DOMAIN asked}})
  /\ asked # <<>> /\ asked[Len(asked)] = Len(data) => summary.amount = grandTotal

LEMMA SumGrows ==
  ASSUME NEW S \in SUBSET Products, NEW x \in Products
  PROVE  Sum({x}) = Price[x] /\ Sum(S \union {x}) <= Sum(S) + Price[x]
<1>1. /\ Price[x] \in Nat /\ Sum(S) \in Nat
      /\ {} \in SUBSET Products /\ {} \union {x} = {x} /\ x \in Products \ {}
  BY SumFirst, ShopAssumption
<1>2. Sum({x}) = Sum({}) + Price[x] /\ Sum({}) = 0
  BY <1>1, SumWith, SumFirst
<1>3. CASE x \in S
  <2>1. S \union {x} = S
    BY <1>3
  <2>2. Sum(S \union {x}) = Sum(S)
    BY <2>1, Zenon
  <2>3. \A a, b \in Nat : a <= a + b
    OBVIOUS
  <2>4. Sum({x}) = Price[x]
    BY <1>1, <1>2
  <2>5. Sum(S) <= Sum(S) + Price[x]
    BY <1>1, <2>3
  <2> QED
    BY <2>2, <2>4, <2>5, Zenon
<1>4. CASE x \notin S
  <2>1. Sum(S \union {x}) = Sum(S) + Price[x]
    BY <1>4, SumWith
  <2> QED
    BY <1>1, <1>2, <2>1
<1> QED
  BY <1>3, <1>4

\* The rows of a window.
LEMMA AskedWindow ==
  ASSUME NEW first \in Nat, NEW last \in Nat, first <= last + 1
  PROVE  LET rows == [i \in 1..(last - first + 1) |-> first + i - 1]
         IN  /\ {rows[i] : i \in DOMAIN rows} = first..last
             /\ rows # <<>> => first <= last /\ rows[Len(rows)] = last
<1> DEFINE rows == [i \in 1..(last - first + 1) |-> first + i - 1]
<1>1. last - first + 1 \in Nat /\ Len(rows) = last - first + 1 /\ DOMAIN rows = 1..Len(rows)
  OBVIOUS
<1>2. \A row \in first..last :
        row - first + 1 \in 1..(last - first + 1) /\ first + (row - first + 1) - 1 = row
  OBVIOUS
<1>3. \A i \in 1..(last - first + 1) : rows[i] = first + i - 1 /\ rows[i] \in first..last
  OBVIOUS
<1>4. {rows[i] : i \in DOMAIN rows} = first..last
  <2>1. \A row \in first..last : \E i \in DOMAIN rows : rows[i] = row
    BY <1>1, <1>2, <1>3
  <2>2. \A i \in DOMAIN rows : rows[i] \in first..last
    BY <1>1, <1>3
  <2> HIDE DEF rows
  <2> QED
    BY <2>1, <2>2, Zenon
<1>5. ASSUME rows # <<>> PROVE first <= last /\ rows[Len(rows)] = last
  <2>1. Len(rows) # 0
    BY <1>1, <1>5
  <2>2. Len(rows) \in 1..(last - first + 1) /\ first <= last
    BY <1>1, <2>1
  <2> QED
    BY <1>1, <1>3, <2>2
<1> QED
  BY <1>4, <1>5

LEMMA ReadDataEnough ==
  ASSUME NEW table \in SUBSET InStock, top \in Nat \ {0}, NEW s, ReadData(table, s)
  PROVE  EnoughInv'
<1> DEFINE rows == RowsOf(table)
           first == Min({top, LastTop(rows)})
           last == Min({Len(rows), first + Fit - 1})
<1>1. rows \in Seq(Products) /\ Len(rows) \in Nat
  <2>1. table \subseteq Products /\ rows \in Seq(table)
    BY ShopAssumption, RowsFacts
  <2> HIDE DEF rows
  <2> QED
    BY <2>1
<1>2. first \in Nat \ {0} /\ last \in 0..Len(rows) /\ first <= last + 1
  <2>1. /\ first \in 1..LastTop(rows) /\ LastTop(rows) \in Nat
        /\ last \in 0..Len(rows) /\ first <= last + 1
    BY <1>1, Window
  <2> HIDE DEF rows, first, last
  <2> QED
    BY <2>1
<1>3. /\ data' = rows /\ AskForRows(rows, first, last, 0, s)
      /\ asked' = [i \in 1..(last - first + 1) |-> first + i - 1]
  BY DEF ReadData
<1> HIDE DEF rows, first, last
<1>4. /\ {asked'[i] : i \in DOMAIN asked'} = first..last
      /\ asked' # <<>> => first <= last /\ asked'[Len(asked')] = last
  <2>1. first \in Nat /\ last \in Nat
    BY <1>1, <1>2
  <2>2. PICK a \in Nat, b \in Nat : a = first /\ b = last
    BY <2>1
  <2> DEFINE window == [i \in 1..(b - a + 1) |-> a + i - 1]
  <2>3. a <= b + 1 /\ asked' = window
    BY <1>2, <1>3, <2>2
  <2>4. /\ {window[i] : i \in DOMAIN window} = a..b
        /\ window # <<>> => a <= b /\ window[Len(window)] = b
    BY <2>3, AskedWindow
  <2> HIDE DEF window
  <2> QED
    BY <2>2, <2>3, <2>4
<1>5. Sum({rows[i] : i \in first..last}) \in Nat
  <2>1. \A i \in first..last : i \in 1..Len(rows)
    BY <1>1, <1>2
  <2>2. {rows[i] : i \in first..last} \in SUBSET Products
    BY <1>1, <2>1
  <2> QED
    BY <2>2, SumFirst
<1>6. grandTotal' >= Sum({data'[row] : row \in {asked'[i] : i \in DOMAIN asked'}})
  <2>1. {data'[row] : row \in {asked'[i] : i \in DOMAIN asked'}} = {rows[i] : i \in first..last}
    BY <1>3, <1>4
  <2>2. grandTotal' = 0 + Sum({rows[i] : i \in first..last})
    BY <1>3 DEF AskForRows
  <2> QED
    BY <1>5, <2>1, <2>2
<1>7. ASSUME asked' # <<>>, asked'[Len(asked')] = Len(data')
      PROVE  summary'.amount = grandTotal'
  BY <1>3, <1>4, <1>7 DEF AskForRows
<1> QED
  BY <1>6, <1>7 DEF EnoughInv

LEMMA ScrollEnough ==
  ASSUME TypeOK, EnoughInv, NEW by \in {1, -1}, Scroll(by)
  PROVE  EnoughInv'
<1> DEFINE row == IF by = 1 THEN top + Fit ELSE top - 1
           rows == {asked[i] : i \in DOMAIN asked}
           S == {data[r] : r \in rows}
<1>1. /\ row \in 1..Len(data) /\ data' = data
      /\ AskForRows(data, row, row, grandTotal, summary) /\ asked' = Append(asked, row)
  BY DEF Scroll
<1> HIDE DEF row
<1>2. /\ data \in Seq(Products) /\ asked \in Seq(1..Len(data)) /\ grandTotal \in Nat
      /\ Len(asked) \in Nat /\ Len(data) \in Nat
  BY DEF TypeOK
<1>3. /\ Len(asked') = Len(asked) + 1 /\ asked'[Len(asked) + 1] = row
      /\ DOMAIN asked' = 1..(Len(asked) + 1)
      /\ \A i \in 1..Len(asked) : asked'[i] = asked[i]
  BY <1>1, <1>2, AppendProperties
<1>4. {asked'[i] : i \in DOMAIN asked'} = rows \union {row}
  <2>1. DOMAIN asked = 1..Len(asked)
    BY <1>2
  <2>2. 1..(Len(asked) + 1) = 1..Len(asked) \union {Len(asked) + 1}
    BY <1>2
  <2> QED
    BY <1>3, <2>1, <2>2
<1>5. S \in SUBSET Products /\ data[row] \in Products
  BY <1>1, <1>2
<1>6. {data'[r] : r \in {asked'[i] : i \in DOMAIN asked'}} = S \union {data[row]}
  BY <1>1, <1>4
<1>7. grandTotal >= Sum(S)
  BY DEF EnoughInv
<1> HIDE DEF S, rows
<1>8. grandTotal' = grandTotal + Price[data[row]]
  <2>1. row..row = {row}
    BY <1>1
  <2>2. {data[i] : i \in row..row} = {data[row]}
    BY <2>1
  <2> QED
    BY <1>1, <1>5, <2>2, SumGrows DEF AskForRows
<1>9. grandTotal' >= Sum(S \union {data[row]})
  <2>1. /\ Sum(S) \in Nat /\ Price[data[row]] \in Nat /\ Sum(S \union {data[row]}) \in Nat
        /\ Sum(S \union {data[row]}) <= Sum(S) + Price[data[row]]
    BY <1>5, SumFirst, SumGrows, ShopAssumption
  <2> QED
    BY <1>2, <1>7, <1>8, <2>1
<1>10. ASSUME asked'[Len(asked')] = Len(data') PROVE summary'.amount = grandTotal'
  <2>1. row = Len(data) /\ row <= row
    BY <1>1, <1>2, <1>3, <1>10
  <2> QED
    BY <1>1, <2>1 DEF AskForRows
<1> QED
  BY <1>6, <1>9, <1>10 DEF EnoughInv

\* Before anything is asked for.
LEMMA NothingAsked ==
  ASSUME NEW rows, NEW f, rows = <<>>
  PROVE  Sum({f[row] : row \in {rows[i] : i \in DOMAIN rows}}) = 0
<1>1. {f[row] : row \in {rows[i] : i \in DOMAIN rows}} = {}
  OBVIOUS
<1> QED
  BY <1>1, SumFirst

LEMMA EnoughStep ==
  ASSUME TypeOK, EnoughInv, [Next]_vars
  PROVE  EnoughInv'
<1>1. CASE UNCHANGED cartScreen
  BY <1>1 DEF EnoughInv, cartScreen
<1>2. CASE OpenCart
  <2>1. ReadData(cart, StatusOnAppearing(summary))
    BY <1>2 DEF OpenCart
  <2> QED
    BY <2>1, ReadDataEnough DEF TypeOK
<1>3. CASE Scroll(1) \/ Scroll(-1)
  BY <1>3, ScrollEnough
<1>4. CASE Order \/ DeleteRow
  <2>1. cart' \in SUBSET InStock /\ ReadData(cart', StatusAfterBadge(cart'))
    BY <1>4 DEF Order, DeleteRow, Delete, TypeOK
  <2>2. \A table \in SUBSET InStock : \A s : ReadData(table, s) => EnoughInv'
    BY ReadDataEnough DEF TypeOK
  <2> QED
    BY <2>1, <2>2
<1>5. CASE Relaunch
  <2>1. asked' = <<>> /\ grandTotal' = 0
    BY <1>5 DEF Relaunch
  <2> QED
    BY <2>1, NothingAsked DEF EnoughInv
<1>6. CASE \/ ShowShop \/ ShowMembers \/ OpenForm \/ SignedIn \/ Refused \/ EnterList
           \/ PopMembers \/ (\E complete \in BOOLEAN : TapForm(complete))
           \/ \E l \in Lists : \/ CloseDetail(l) \/ AddToCart(l)
                               \/ \E p \in Products : OpenDetail(l, p)
  BY <1>1, <1>6 DEF ShowShop, ShowMembers, OpenForm, SignedIn, Refused, EnterList,
                    PopMembers, TapForm, CloseDetail, AddToCart, OpenDetail
<1>7. CASE UNCHANGED vars
  BY <1>1, <1>7 DEF vars, cartScreen
<1> QED
  BY <1>2, <1>3, <1>4, <1>5, <1>6, <1>7 DEF Next

\* Scrolling back makes the total too large and never too small: once every row was asked
\* for and the last one has just been, the amount is at least the sum of the prices.
\* "Every" is needed: a long cart that is read again while its end is on the screen asks
\* only for the rows there, and the last of them shows their sum.
THEOREM TotalIsNeverTooLow == Spec => []TotalNotTooLow
<1>1. Init => EnoughInv /\ RowsCurrent
  BY NothingAsked DEF Init, EnoughInv, RowsCurrent
<1>2. TypeOK /\ RowsCurrent /\ EnoughInv /\ [Next]_vars => RowsCurrent' /\ EnoughInv'
  BY RowsStep, EnoughStep
<1>3. TypeOK /\ RowsCurrent /\ EnoughInv => TotalNotTooLow
  <2> SUFFICES ASSUME TypeOK, RowsCurrent, EnoughInv, tab = "cart",
                      \A row \in 1..Len(data) : \E i \in DOMAIN asked : asked[i] = row,
                      asked # <<>>, asked[Len(asked)] = Len(data)
               PROVE  summary.amount >= Sum(cart)
    BY DEF TotalNotTooLow
  <2>1. /\ data = RowsOf(cart) /\ cart \in SUBSET InStock
        /\ asked \in Seq(1..Len(data)) /\ Len(data) \in Nat
    BY DEF RowsCurrent, TypeOK
  <2>2. {asked[i] : i \in DOMAIN asked} = 1..Len(data)
    BY <2>1
  <2>3. {data[row] : row \in 1..Len(data)} = cart
    BY <2>1, RowsFacts
  <2> QED
    BY <2>2, <2>3 DEF EnoughInv
<1> QED
  BY <1>1, <1>2, <1>3, ShopTypes, PTL DEF Spec

=============================================================================
