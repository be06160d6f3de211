------------------------------- MODULE ShopCart -------------------------------
(***************************************************************************)
(* The store's cart: a table of the app's database, the screens that add   *)
(* to it and show it, and the badge on the cart's tab.  The cart screen    *)
(* adds up its total while the table view asks for cells, so the total     *)
(* depends on which rows are on the screen.  The members' tab leads to the *)
(* list of products too, and an answer of the log-in service that comes in *)
(* time replaces the whole tab bar by a list.                              *)
(*                                                                         *)
(* A definition whose name begins with "Mutant" is a wrong version of the  *)
(* one that follows it, used only to show that a property can fail.        *)
(***************************************************************************)
EXTENDS Integers, Sequences, FiniteSets, FiniteSetsExt

CONSTANTS
  Products,  \* product_id of every row of the product table
  Price,     \* its price
  InStock,   \* the products whose stock_unit is 1; it is 0 for the others
  Fit,       \* rows of the cart that are on the screen at a time
  NoProduct  \* what the detail screen shows when it is not open

ASSUME ShopAssumption ==
  /\ Products \subseteq Nat /\ IsFiniteSet(Products)
  /\ Price \in [Products -> Nat]
  /\ InStock \subseteq Products
  /\ Fit \in Nat \ {0}
  /\ NoProduct \notin Products

VARIABLES
  cart,       \* the products of the cart table; with a stock of 1 a quantity is 1
  root,       \* window.rootViewController: the tab bar, or the home screen alone
  tab,        \* the selected tab of the tab bar: the shop, the members or the cart
  members,    \* the screen of the members' tab
  signingIn,  \* the request of the form that is still in the window has no answer
  detail,     \* the product of the detail screen on top of each list
  badge,      \* badgeValue of the cart's tab, 0 for nil
  data,       \* ViewControllerCart.data: the products in the order of the table
  top,        \* the first row on the screen
  grandTotal, \* ViewControllerCart.grandTotal
  summary,    \* labelTextTotal, labelGrandTotal and the navigation bar
  asked       \* auxiliary: the rows asked for since they were read, in that order

cartScreen == <<data, top, grandTotal, summary, asked>>
screens == <<root, tab, members, signingIn, detail>>
vars == <<cart, root, tab, members, signingIn, detail, badge, data, top, grandTotal, summary, asked>>

\* The lists of products: ViewControllerMain in the shop's tab, as the screen that both
\* forms lead to, and as the home screen.
Lists == {"shop", "members", "home"}
ListOnScreen ==
  {l \in Lists : CASE l = "shop"    -> root = "tabs" /\ tab = "shop"
                   [] l = "members" -> root = "tabs" /\ tab = "members" /\ members = "list"
                   [] l = "home"    -> root = "home"}

\* During a transition touches are ignored.
MayChangeTab == root = "tabs" /\ members # "entering"

-----------------------------------------------------------------------------
(* The cart screen. *)

\* SELECT * FROM cart, in the order of the primary key: row i has i - 1 before it.
RowsOf(table) ==
  [i \in 1..Cardinality(table) |->
     CHOOSE p \in table : Cardinality({q \in table : q < p}) = i - 1]

Sum(products) == MapThenSumSet(LAMBDA p : Price[p], products)

\* setEmptyCartStatus: the amount stays in its hidden label.
EmptyStatus(s) == [s EXCEPT !.text = "empty", !.barHidden = TRUE, !.amountHidden = TRUE]

\* cellForRowAt for the rows from..to: the subtotals are added up, and the last row
\* brings the bar and the total.
MutantShowThenAdd(rows, from, to, total, s) ==
  /\ grandTotal' = total + Sum({rows[i] : i \in from..to})
  /\ summary' = IF to = Len(rows) /\ from <= to
                THEN [text |-> "total", barHidden |-> FALSE, amountHidden |-> FALSE,
                      amount |-> grandTotal' - Price[rows[to]]]
                ELSE s
AskForRows(rows, from, to, total, s) ==
  /\ grandTotal' = total + Sum({rows[i] : i \in from..to})
  /\ summary' = IF to = Len(rows) /\ from <= to
                THEN [text |-> "total", barHidden |-> FALSE, amountHidden |-> FALSE,
                      amount |-> grandTotal']
                ELSE s

\* readData and the layout that follows: the table view keeps its place if it can,
\* and asks for the rows that are on the screen.
LastTop(rows) == Max({1, Len(rows) - Fit + 1})
MutantTotalKept(table, s) ==
  LET rows == RowsOf(table)
      first == Min({top, LastTop(rows)})
      last == Min({Len(rows), first + Fit - 1})
  IN  /\ data' = rows
      /\ top' = first
      /\ AskForRows(rows, first, last, grandTotal, s)
      /\ asked' = [i \in 1..(last - first + 1) |-> first + i - 1]
ReadData(table, s) ==
  LET rows == RowsOf(table)
      first == Min({top, LastTop(rows)})
      last == Min({Len(rows), first + Fit - 1})
  IN  /\ data' = rows
      /\ top' = first
      /\ AskForRows(rows, first, last, 0, s)
      /\ asked' = [i \in 1..(last - first + 1) |-> first + i - 1]

Scroll(by) ==
  LET row == IF by = 1 THEN top + Fit ELSE top - 1   \* the row that comes into view
  IN  /\ tab = "cart"
      /\ row \in 1..Len(data)
      /\ top' = top + by
      /\ AskForRows(data, row, row, grandTotal, summary)
      /\ asked' = Append(asked, row)
      /\ UNCHANGED <<cart, screens, badge, data>>

\* viewWillAppear.  It sets the labels after the read, and still before the layout asks
\* for cells; of an empty cart it asks for none.
MutantNoEmptyStatus(s) == s
StatusOnAppearing(s) == IF cart = {} THEN EmptyStatus(s) ELSE s
OpenCart ==
  /\ MayChangeTab
  /\ tab # "cart"
  /\ tab' = "cart"
  /\ ReadData(cart, StatusOnAppearing(summary))
  /\ UNCHANGED <<cart, root, members, signingIn, detail, badge>>

-----------------------------------------------------------------------------
(* The badge.  SELECT SUM(quantity) is the number of rows. *)

\* updateBadge of the list and of the detail screen: no badge is ever taken away, and
\* the home screen has no tab bar.
RaiseBadge(table) ==
  badge' = IF root = "tabs" /\ Cardinality(table) >= 1 THEN Cardinality(table) ELSE badge

\* updateBadge of the cart screen.
MutantSetBadge(table) == RaiseBadge(table)
SetBadge(table) == badge' = Cardinality(table)
StatusAfterBadge(table) == IF table = {} THEN EmptyStatus(summary) ELSE summary

-----------------------------------------------------------------------------
(* The shop. *)

ShowShop ==
  /\ MayChangeTab
  /\ tab # "shop"
  /\ tab' = "shop"
  /\ RaiseBadge(cart)
  /\ UNCHANGED <<cart, root, members, signingIn, detail, cartScreen>>

OpenDetail(l, p) ==
  /\ l \in ListOnScreen
  /\ detail[l] = NoProduct
  /\ detail' = [detail EXCEPT ![l] = p]
  /\ RaiseBadge(cart)
  /\ UNCHANGED <<cart, root, tab, members, signingIn, cartScreen>>

\* The members' tab has no navigation bar to go back by.
CloseDetail(l) ==
  /\ l \in ListOnScreen \ {"members"}
  /\ detail[l] # NoProduct
  /\ detail' = [detail EXCEPT ![l] = NoProduct]
  /\ RaiseBadge(cart)
  /\ UNCHANGED <<cart, root, tab, members, signingIn, cartScreen>>

\* buttonAddCartDidTap, enabled for what is in stock: the INSERT of a product that
\* the table has breaks its primary key and only prints the error.
MutantAddAlways(l) ==
  /\ l \in ListOnScreen
  /\ detail[l] \in Products
  /\ cart' = cart \union {detail[l]}
  /\ RaiseBadge(cart')
  /\ UNCHANGED <<screens, cartScreen>>
AddToCart(l) ==
  /\ l \in ListOnScreen
  /\ detail[l] \in InStock
  /\ cart' = cart \union {detail[l]}
  /\ RaiseBadge(cart')
  /\ UNCHANGED <<screens, cartScreen>>

-----------------------------------------------------------------------------
(* The members' tab. *)

ShowMembers ==
  /\ MayChangeTab
  /\ tab # "members"
  /\ tab' = "members"
  /\ IF members = "list" THEN RaiseBadge(cart) ELSE UNCHANGED badge
  /\ UNCHANGED <<cart, root, members, signingIn, detail, cartScreen>>

OnMembersTab == root = "tabs" /\ tab = "members"

OpenForm ==
  /\ OnMembersTab
  /\ members = "welcome"
  /\ members' = "form"
  /\ UNCHANGED <<cart, root, tab, signingIn, detail, badge, cartScreen>>

\* signUpTapped and loginTapped.  Their buttons also carry a segue to the list, which is
\* performed whether the fields are complete or not, and whatever the service says.
TapForm(complete) ==
  /\ OnMembersTab
  /\ members = "form"
  /\ members' = "entering"
  /\ signingIn' = complete
  /\ RaiseBadge(cart)
  /\ UNCHANGED <<cart, root, tab, detail, cartScreen>>

\* The service has created or found the account while the form is in the window.
SignedIn ==
  /\ root = "tabs"
  /\ signingIn
  /\ root' = "home"
  /\ signingIn' = FALSE
  /\ UNCHANGED <<cart, tab, members, detail, badge, cartScreen>>

\* The service says no, to a form that is about to go.
Refused ==
  /\ signingIn
  /\ signingIn' = FALSE
  /\ UNCHANGED <<cart, root, tab, members, detail, badge, cartScreen>>

\* The form has left the window: with view.window nil, an answer changes no screen.
EnterList ==
  /\ OnMembersTab
  /\ members = "entering"
  /\ members' = "list"
  /\ signingIn' = FALSE
  /\ UNCHANGED <<cart, root, tab, detail, badge, cartScreen>>

\* A tap on the selected tab pops what its navigation controller shows.
PopMembers ==
  /\ OnMembersTab
  /\ members \in {"form", "list"}
  /\ members' = "welcome"
  /\ detail' = [detail EXCEPT !["members"] = NoProduct]
  /\ UNCHANGED <<cart, root, tab, signingIn, badge, cartScreen>>

-----------------------------------------------------------------------------
(* Buttons of the cart screen. *)

\* The table, the rows and the badge after a DELETE.
Delete(products) ==
  /\ cart' = cart \ products
  /\ ReadData(cart', StatusAfterBadge(cart'))
  /\ SetBadge(cart')
  /\ UNCHANGED screens

\* barButtonItemOk, on the navigation bar: the order takes the whole cart.
Order ==
  /\ tab = "cart"
  /\ ~summary.barHidden
  /\ data # <<>>
  /\ Delete(Products)

\* The red button of a row, by a swipe or by the delete mode.
DeleteRow ==
  /\ tab = "cart"
  /\ \E i \in top..Min({Len(data), top + Fit - 1}) : Delete({data[i]})

-----------------------------------------------------------------------------
\* A launch: the table persists, the screens are new, the list appears.
FirstSummary ==
  [text |-> "total", barHidden |-> FALSE, amountHidden |-> FALSE, amount |-> 0]

Relaunch ==
  /\ root' = "tabs"
  /\ tab' = "shop"
  /\ members' = "welcome"
  /\ signingIn' = FALSE
  /\ detail' = [l \in Lists |-> NoProduct]
  /\ badge' = Cardinality(cart)
  /\ data' = <<>>
  /\ top' = 1
  /\ grandTotal' = 0
  /\ summary' = FirstSummary
  /\ asked' = <<>>
  /\ UNCHANGED cart

Init ==
  /\ cart = {}
  /\ root = "tabs"
  /\ tab = "shop"
  /\ members = "welcome"
  /\ signingIn = FALSE
  /\ detail = [l \in Lists |-> NoProduct]
  /\ badge = 0
  /\ data = <<>>
  /\ top = 1
  /\ grandTotal = 0
  /\ summary = FirstSummary
  /\ asked = <<>>

Next ==
  \/ OpenCart \/ Scroll(1) \/ Scroll(-1) \/ Order \/ DeleteRow
  \/ ShowShop
  \/ \E l \in Lists : CloseDetail(l) \/ AddToCart(l) \/ \E p \in Products : OpenDetail(l, p)
  \/ ShowMembers \/ OpenForm \/ (\E complete \in BOOLEAN : TapForm(complete))
  \/ SignedIn \/ Refused \/ EnterList \/ PopMembers
  \/ Relaunch

Spec == Init /\ [][Next]_vars

-----------------------------------------------------------------------------
\* The screens show products and amounts that exist, and the first row on the screen
\* is one that leaves no space below it that a row could fill.
TypeOK ==
  /\ cart \subseteq InStock
  /\ root \in {"tabs", "home"}
  /\ tab \in {"shop", "members", "cart"}
  /\ members \in {"welcome", "form", "entering", "list"}
  /\ signingIn \in BOOLEAN
  /\ detail \in [Lists -> Products \union {NoProduct}]
  /\ badge \in Nat
  /\ data \in Seq(Products)
  /\ top \in 1..LastTop(data)
  /\ grandTotal \in Nat
  /\ summary \in [text : {"empty", "total"}, barHidden : BOOLEAN,
                  amountHidden : BOOLEAN, amount : Nat]
  /\ asked \in Seq(1..Len(data))

\* The badge is the number of things in the cart as long as there is a tab bar, although
\* only the cart screen takes it away: nothing else empties the cart, and what the home
\* screen adds without a badge is counted by the next launch.
BadgeCountsCart == root = "tabs" => badge = Cardinality(cart)

\* The rows of the cart screen are those of the table whenever it is on the screen,
\* and a cart that is empty looks empty: nothing to order and no amount.
CartScreenIsCurrent ==
  tab = "cart" =>
    /\ data = RowsOf(cart)
    /\ cart = {} => summary.text = "empty" /\ summary.barHidden /\ summary.amountHidden

\* Reading the cart from the first row to the last, without going back, shows the
\* right total: if the rows were asked for once each and in their order, the amount
\* is the sum of the prices.
TotalAfterOnePass ==
  tab = "cart" /\ data # <<>> /\ asked = [i \in 1..Len(data) |-> i] =>
    summary.amount = Sum(cart)

\* However a reader scrolls, once every row was asked for and the last one has just been,
\* the amount is not less than the sum of the prices: rows that come back into view make
\* it too large, none makes it too small.
TotalNotTooLow ==
  tab = "cart" /\ (\A row \in 1..Len(data) : \E i \in DOMAIN asked : asked[i] = row)
    /\ asked # <<>> /\ asked[Len(asked)] = Len(data)
  => summary.amount >= Sum(cart)

\* "The label that states the total value" (ViewControllerCart.swift:175) states the
\* sum of the subtotals of the cart whenever the last row has brought it.
TotalIsTheSum ==
  tab = "cart" /\ (\E i \in DOMAIN asked : asked[i] = Len(data)) =>
    summary.amount = Sum(cart)

\* The bar and the amount are hidden only "in the case that there are no products"
\* (ViewControllerCart.swift:176).
HiddenOnlyWhenEmpty ==
  tab = "cart" /\ cart # {} => ~summary.barHidden /\ ~summary.amountHidden

=============================================================================
