------------------------ MODULE TicketRefundsProofs ------------------------
(***************************************************************************)
(* Theorems about TicketRefunds for any finite batch of payments, whatever *)
(* their prices.                                                           *)
(***************************************************************************)
EXTENDS TicketRefunds, FiniteSetTheorems, FunctionTheorems, TLAPS

-----------------------------------------------------------------------------
(* Sums *)

Units(f) == {u \in (DOMAIN f) \X (1..MaxAmount) : u[2] <= f[u[1]]}

LEMMA UnitsFinite ==
  ASSUME NEW f, IsFiniteSet(DOMAIN f)
  PROVE  IsFiniteSet(Units(f)) /\ Total(f) \in Nat /\ Total(f) = Cardinality(Units(f))
<1>1. IsFiniteSet(1..MaxAmount)
  BY BoundsAssumption, FS_Interval
<1>2. IsFiniteSet((DOMAIN f) \X (1..MaxAmount))
  BY <1>1, FS_Product
<1>3. Units(f) \subseteq (DOMAIN f) \X (1..MaxAmount)
  BY DEF Units
<1>4. IsFiniteSet(Units(f)) /\ Cardinality(Units(f)) \in Nat
  BY <1>2, <1>3, FS_Subset, FS_CardinalityType
<1> QED
  BY <1>4 DEF Total, Units

(* A sum grows with its domain and its values. *)
LEMMA TotalMonotone ==
  ASSUME NEW D, NEW E, IsFiniteSet(E), D \subseteq E,
         NEW f, NEW g, DOMAIN f = D, DOMAIN g = E,
         \A x \in D : f[x] \in Nat /\ g[x] \in Nat /\ f[x] <= g[x]
  PROVE  Total(f) <= Total(g)
<1>1. IsFiniteSet(D)
  BY FS_Subset
<1>2. Units(f) \subseteq Units(g)
  <2> SUFFICES ASSUME NEW x \in D, NEW i \in 1..MaxAmount, i <= f[x]
               PROVE  i <= g[x]
    BY DEF Units
  <2> QED
    BY BoundsAssumption
<1>3. Cardinality(Units(f)) <= Cardinality(Units(g))
  BY <1>2, UnitsFinite, FS_Subset
<1> QED
  BY <1>1, <1>3, UnitsFinite

(* A value that was absent or zero adds what it becomes. *)
LEMMA TotalGrows ==
  ASSUME NEW D, NEW E, IsFiniteSet(E), D \subseteq E, NEW x \in E, E \subseteq D \cup {x},
         NEW f, NEW g, DOMAIN f = D, DOMAIN g = E,
         \A y \in D : y # x => f[y] = g[y],
         x \in D => f[x] = 0,
         g[x] \in Nat, g[x] <= MaxAmount
  PROVE  Total(g) = Total(f) + g[x]
<1> DEFINE n == g[x]
<1> DEFINE New == {<<x, i>> : i \in 1..n}
<1>1. IsFiniteSet(D)
  BY FS_Subset
<1>2. IsFiniteSet(New) /\ Cardinality(New) = n
  <2>1. IsFiniteSet({x}) /\ Cardinality({x}) = 1
    BY FS_Singleton
  <2>2. IsFiniteSet(1..n) /\ Cardinality(1..n) = n
    BY FS_Interval
  <2>3. New = {x} \X (1..n)
    OBVIOUS
  <2>4. IsFiniteSet({x} \X (1..n)) /\ Cardinality({x} \X (1..n)) = Cardinality({x}) * Cardinality(1..n)
    BY <2>1, <2>2, FS_Product
  <2>5. Cardinality({x}) * Cardinality(1..n) = n
    BY <2>1, <2>2
  <2> QED
    BY <2>3, <2>4, <2>5, Zenon
<1>3. Units(g) = Units(f) \cup New
  <2>1. ASSUME NEW y \in E, NEW i \in 1..MaxAmount, i <= g[y], y # x
        PROVE  <<y, i>> \in Units(f)
    BY <2>1 DEF Units
  <2>2. ASSUME NEW i \in 1..MaxAmount, i <= g[x]
        PROVE  <<x, i>> \in New
    BY <2>2
  <2>3. Units(g) \subseteq Units(f) \cup New
    BY <2>1, <2>2 DEF Units
  <2>4. New \subseteq Units(g)
    BY BoundsAssumption DEF Units
  <2>5. ASSUME NEW y \in D, NEW i \in 1..MaxAmount, i <= f[y]
        PROVE  <<y, i>> \in Units(g)
    <3>1. y # x
      BY <2>5
    <3> QED
      BY <2>5, <3>1 DEF Units
  <2>6. Units(f) \subseteq Units(g)
    BY <2>5 DEF Units
  <2> QED
    BY <2>3, <2>4, <2>6
<1>4. Units(f) \cap New = {}
  <2> SUFFICES ASSUME NEW i \in 1..MaxAmount, x \in D, i <= f[x] PROVE FALSE
    BY DEF Units
  <2> QED
    OBVIOUS
<1>5. IsFiniteSet(Units(f)) /\ Cardinality(Units(f)) \in Nat
  BY <1>1, UnitsFinite, FS_CardinalityType
<1>6. Cardinality(Units(f) \cup New)
        = Cardinality(Units(f)) + Cardinality(New) - Cardinality(Units(f) \cap New)
  BY <1>2, <1>5, FS_Union
<1>7. Cardinality(Units(f) \cap New) = 0
  BY <1>4, FS_EmptySet
<1>8. Total(f) = Cardinality(Units(f)) /\ Total(g) = Cardinality(Units(g))
  BY <1>1, UnitsFinite
<1> HIDE DEF New
<1> QED
  BY <1>2, <1>3, <1>5, <1>6, <1>7, <1>8

LEMMA TotalEmpty ==
  ASSUME NEW f, DOMAIN f = {} PROVE Total(f) = 0
<1>1. Units(f) = {}
  BY DEF Units
<1> QED
  BY <1>1, UnitsFinite, FS_EmptySet

LEMMA TotalOfOne ==
  ASSUME NEW x, NEW f, DOMAIN f = {x}, f[x] \in Nat, f[x] <= MaxAmount
  PROVE  Total(f) = f[x]
<1> DEFINE D == {}
<1> DEFINE E == {x}
<1> DEFINE e == [y \in D |-> 0]
<1>1. DOMAIN e = D /\ DOMAIN f = E
  OBVIOUS
<1>2. IsFiniteSet(E) /\ D \subseteq E /\ E \subseteq D \cup {x} /\ x \in E
  BY FS_Singleton
<1>3. (\A y \in D : y # x => e[y] = f[y]) /\ (x \in D => e[x] = 0)
  OBVIOUS
<1>4. Total(e) = 0
  BY <1>1, TotalEmpty
<1> HIDE DEF D, E, e
<1>5. Total(f) = Total(e) + f[x]
  BY <1>1, <1>2, <1>3, TotalGrows
<1> QED
  BY <1>4, <1>5

LEMMA TotalOfOneCapped ==
  ASSUME NEW x, NEW f, DOMAIN f = {x}, f[x] \in Nat
  PROVE  Total(f) = IF f[x] <= MaxAmount THEN f[x] ELSE MaxAmount
<1> DEFINE n == IF f[x] <= MaxAmount THEN f[x] ELSE MaxAmount
<1> DEFINE g == [y \in {x} |-> n]
<1>1. DOMAIN g = {x} /\ g[x] = n /\ n \in Nat /\ n <= MaxAmount
  BY BoundsAssumption
<1>2. \A i \in 1..MaxAmount : i <= f[x] <=> i <= n
  BY BoundsAssumption
<1> HIDE DEF n
<1>3. Units(f) = Units(g)
  BY <1>1, <1>2 DEF Units
<1> HIDE DEF g
<1>4. Total(g) = g[x]
  BY <1>1, TotalOfOne
<1>5. Total(f) = Total(g)
  BY <1>3 DEF Total, Units
<1> QED
  BY <1>1, <1>4, <1>5 DEF n

(* Values that are zero add nothing. *)
LEMMA TotalDropsZeros ==
  ASSUME NEW D, NEW E, D \subseteq E, NEW f, NEW g, DOMAIN f = D, DOMAIN g = E,
         \A x \in D : f[x] = g[x], \A x \in E \ D : g[x] = 0
  PROVE  Total(g) = Total(f)
<1>1. ASSUME NEW x \in E, NEW i \in 1..MaxAmount, i <= g[x] PROVE x \in D
  <2>1. CASE x \notin D
    <3>1. g[x] = 0
      BY <2>1
    <3>2. ~(i <= 0)
      BY BoundsAssumption
    <3> QED
      BY <1>1, <3>1, <3>2
  <2> QED
    BY <2>1
<1>2. Units(g) = Units(f)
  BY <1>1 DEF Units
<1> QED
  BY <1>2 DEF Total, Units

-----------------------------------------------------------------------------
(* Types *)

LEMMA RefundsFinite ==
  ASSUME NEW S \in SUBSET StripeRefund
  PROVE  IsFiniteSet(S) /\ Cardinality(S) \in Nat
<1>1. IsFiniteSet(StripeRefund)
  BY BoundsAssumption, FS_Interval DEF StripeRefund
<1> QED
  BY <1>1, FS_Subset, FS_CardinalityType

LEMMA PaymentsFinite ==
  ASSUME NEW S \in SUBSET Payment
  PROVE  IsFiniteSet(S) /\ Cardinality(S) \in Nat
BY PaymentAssumption, FS_Subset, FS_CardinalityType

LEMMA TakenType ==
  ASSUME TypeOK, NEW p \in Payment
  PROVE  /\ Taken(p) \in Nat
         /\ Price[p] \in 1..MaxAmount
         /\ Remaining(p) \in 0..Price[p] /\ Remaining(p) \in 0..MaxAmount
         /\ Remaining(p) = 0 \/ Remaining(p) = Price[p] - Taken(p)
         /\ Remaining(p) = 0 <=> Taken(p) >= Price[p]
<1>1. Taken(p) \in Nat
  BY RefundsFinite, UnitsFinite DEF Taken, TypeOK
<1>2. Price[p] \in 1..MaxAmount
  BY PriceAssumption
<1> QED
  BY <1>1, <1>2, BoundsAssumption DEF Remaining, AtLeastZero

LEMMA AskedType ==
  ASSUME TypeOK, NEW p \in Payment, NEW who \in Caller, NEW n \in Asked(p, who)
  PROVE  /\ n \in 1..Remaining(p) /\ n \in 1..MaxAmount
         /\ Key(p, n) \in Payment \X Nat \X (1..MaxAmount)
<1>1. n \in 1..Remaining(p)
  BY TakenType DEF Asked
<1>2. n \in 1..MaxAmount
  BY <1>1, TakenType, BoundsAssumption
<1>3. Cardinality({s \in StripeRefund : row_status[p][s] # "none"}) \in Nat
  BY RefundsFinite
<1>4. failed[p] \in Nat
  BY DEF TypeOK
<1>5. Key(p, n) \in Payment \X Nat \X (1..MaxAmount)
  <2> DEFINE rowsOf == Cardinality({s \in StripeRefund : row_status[p][s] # "none"})
  <2> HIDE DEF rowsOf
  <2>1. Key(p, n) = <<p, failed[p] + rowsOf, n>>
    BY DEF Key, rowsOf
  <2>2. rowsOf \in Nat
    BY <1>3 DEF rowsOf
  <2> QED
    BY <1>2, <1>4, <2>1, <2>2
<1> QED
  BY <1>1, <1>2, <1>5

LEMMA MatchType ==
  ASSUME NEW s \in StripeRefund
  PROVE  Match(s) \in SUBSET Payment
BY DEF Match, OrElse, Known, Named, Only, Sole, Exact, WholeBatch, Unrefunded

LEMMA ShareType ==
  ASSUME TypeOK, NEW p \in Payment, NEW s \in StripeRefund, NEW S
  PROVE  Share(p, S, s) \in Nat
BY TakenType DEF Share, TypeOK

LEMMA TypeInit == Init => TypeOK
BY DEF Init, TypeOK

LEMMA CallType ==
  ASSUME TypeOK, NEW p \in Payment, NEW who \in Caller, CallStripe(p, who)
  PROVE  TypeOK'
<1>1. PICK n \in Asked(p, who), s \in StripeRefund :
        /\ keys' = keys \cup {Key(p, n)}
        /\ re_amount' = [re_amount EXCEPT ![s] = n]
        /\ re_ticket' = [re_ticket EXCEPT ![s] = p]
        /\ call' = [call EXCEPT ![p] = s]
  BY DEF CallStripe
<1>2. n \in Nat /\ Key(p, n) \in Payment \X Nat \X (1..MaxAmount)
  BY AskedType, BoundsAssumption
<1> QED
  BY <1>1, <1>2 DEF CallStripe, TypeOK, rows

LEMMA FailType ==
  ASSUME TypeOK, NEW p \in Payment, NEW who \in Caller \cup {Nil}, Fail(p, who)
  PROVE  /\ failed' \in [Payment -> Nat] /\ refused' \subseteq Payment
         /\ sweep' \in [Payment -> {"idle", "refund", "record", "cancel"}]
BY DEF Fail, TypeOK

LEMMA TypeStep == TypeOK /\ [Next]_vars => TypeOK'
<1> SUFFICES ASSUME TypeOK, [Next]_vars PROVE TypeOK'
  OBVIOUS
<1>1. ASSUME NEW p \in Payment, NEW who \in Caller, StripeRefuses(p, who) PROVE TypeOK'
  <2>1. PICK n \in Asked(p, who) : keys' = keys \cup {Key(p, n)}
    BY <1>1 DEF StripeRefuses
  <2>2. keys' \subseteq Payment \X Nat \X (1..MaxAmount)
    BY <2>1, AskedType DEF TypeOK
  <2>3. /\ failed' \in [Payment -> Nat] /\ refused' \subseteq Payment
        /\ sweep' \in [Payment -> {"idle", "refund", "record", "cancel"}]
        /\ UNCHANGED <<row_status, row_amount>>
    BY <1>1, FailType DEF StripeRefuses, Fail
  <2> QED
    BY <1>1, <2>2, <2>3 DEF StripeRefuses, TypeOK
<1>2. ASSUME NEW p \in Payment, Commit(p) PROVE TypeOK'
  BY <1>2 DEF Commit, TypeOK, stripe
<1>3. ASSUME NEW p \in Payment, AnswerLost(p) PROVE TypeOK'
  <2>1. /\ failed' \in [Payment -> Nat] /\ refused' \subseteq Payment
        /\ sweep' \in [Payment -> {"idle", "refund", "record", "cancel"}]
        /\ UNCHANGED <<row_status, row_amount>>
    <3>1. CASE Fail(p, caller[p])
      <4>1. caller[p] \in Caller \cup {Nil}
        BY DEF TypeOK
      <4> QED
        BY <3>1, <4>1, FailType DEF Fail
    <3>2. CASE /\ sweep' = IF caller[p] = "sweep" THEN [sweep EXCEPT ![p] = "idle"] ELSE sweep
               /\ UNCHANGED rows
      BY <3>2 DEF TypeOK, rows
    <3> QED
      BY <1>3, <3>1, <3>2 DEF AnswerLost
  <2> QED
    BY <1>3, <2>1 DEF AnswerLost, TypeOK, stripe
<1>4. ASSUME NEW p \in Payment,
             \/ CancelTicket(p) \/ SweepDispatch(p) \/ SweepFindsNothing(p)
             \/ SweepCancels(p) \/ SweepStops(p)
      PROVE  TypeOK'
  BY <1>4 DEF CancelTicket, SweepDispatch, SweepFindsNothing, SweepCancels, SweepStops,
              TypeOK, stripe, rows
<1>10. ASSUME NEW p \in Payment, RecordFailure(p) \/ SweepRecordsFailure(p) PROVE TypeOK'
  <2>1. [failed EXCEPT ![p] = @ + 1] \in [Payment -> Nat]
    BY DEF TypeOK
  <2>2. CASE RecordFailure(p)
    BY <2>1, <2>2 DEF RecordFailure, TypeOK, stripe
  <2>3. CASE SweepRecordsFailure(p)
    BY <2>1, <2>3 DEF SweepRecordsFailure, TypeOK, stripe
  <2> QED
    BY <1>10, <2>2, <2>3
<1>11. ASSUME NEW p \in Payment, FailureUnrecorded(p) PROVE TypeOK'
  BY <1>11 DEF FailureUnrecorded, TypeOK, stripe
<1>5. CASE DashboardRefund
  BY <1>5 DEF DashboardRefund, TypeOK, rows
<1>6. CASE ForgetKeys
  BY <1>6 DEF ForgetKeys, TypeOK, rows
<1>7. ASSUME NEW s \in StripeRefund, Deliver(s) PROVE TypeOK'
  <2>1. PICK last \in Created : applying' = 1..last
    BY <1>7 DEF Deliver
  <2>2. last \in 1..MaxRefunds
    BY DEF Created, StripeRefund
  <2>3. applying' \subseteq StripeRefund
    BY <2>1, <2>2, BoundsAssumption DEF StripeRefund
  <2>4. handled' \subseteq StripeRefund
    BY <1>7 DEF Deliver, TypeOK
  <2> QED
    BY <1>7, <2>3, <2>4 DEF Deliver, TypeOK, stripe, rows
<1>8. ASSUME NEW s \in StripeRefund, ApplyRefund(s) PROVE TypeOK'
  <2>1. /\ row_status' \in [Payment -> [StripeRefund -> {"none", "PENDING", "SUCCEEDED"}]]
        /\ row_amount' \in [Payment -> [StripeRefund -> Nat]]
    BY <1>8, ShareType DEF ApplyRefund, TypeOK
  <2> QED
    BY <1>8, <2>1 DEF ApplyRefund, TypeOK, stripe
<1>9. CASE UNCHANGED vars
  BY <1>9 DEF TypeOK, vars, stripe, rows
<1> QED
  BY <1>1, <1>2, <1>3, <1>4, <1>5, <1>6, <1>7, <1>8, <1>9, <1>10, <1>11, CallType DEF Next

(* Amounts stay natural numbers, the remainder included, and no key is     *)
(* asked for more than a payment.                                          *)
THEOREM TypeCorrect == Spec => []TypeOK
BY TypeInit, TypeStep, PTL DEF Spec

-----------------------------------------------------------------------------
(* The invariant behind the ledger *)

(* Stripe's refunds, in order, each of an amount the intent can bear. *)
RefundsInOrder ==
  /\ Created = 1..Cardinality(Created)
  /\ \A s \in StripeRefund : re_amount[s] <= MaxAmount
  /\ \A s \in StripeRefund : re_amount[s] = 0 => re_ticket[s] = Nil

(* Rows are of refunds that exist, and those in the webhook's hands do. *)
RowsAreOfRefunds ==
  /\ applying \subseteq Created
  /\ \A p \in Payment, s \in StripeRefund :
       IF row_status[p][s] = "none" THEN row_amount[p][s] = 0 ELSE re_amount[s] > 0

(* A refund made for a payment is in no other's rows, and with its amount. *)
RowsAreTheirOwn ==
  \A p, q \in Payment, s \in StripeRefund :
    re_ticket[s] = p /\ row_status[q][s] # "none" =>
      q = p /\ row_amount[q][s] = re_amount[s]

(* What an open transaction knows of its refund, which nobody else records *)
(* while the Payment is locked.                                            *)
CallsAreOpen ==
  \A p \in Payment :
    call[p] # Nil =>
      /\ applying = {}
      /\ re_ticket[call[p]] = p /\ re_amount[call[p]] > 0
      /\ row_status[p][call[p]] = "none"
      /\ re_amount[call[p]] <= Remaining(p)
      /\ caller[p] = "sweep" => re_amount[call[p]] = Remaining(p)

Accounted(p) == Remaining(p) = 0 \/ failed[p] > 0
SweepAccounts ==
  \A p \in Payment : sweep[p] = "cancel" \/ ticket[p] = "SWEPT" => Accounted(p)

Records ==
  /\ RefundsInOrder /\ RowsAreOfRefunds /\ RowsAreTheirOwn
  /\ CallsAreOpen /\ RecordedWhole /\ SweepAccounts

LEMMA RecordsInit == Init => Records
<1> SUFFICES ASSUME Init PROVE Records
  OBVIOUS
<1>1. Created = {}
  BY DEF Init, Created
<1>2. Cardinality(Created) = 0
  BY <1>1, FS_EmptySet
<1>3. RefundsInOrder
  BY <1>1, <1>2, BoundsAssumption DEF Init, RefundsInOrder
<1>4. RowsAreOfRefunds /\ RowsAreTheirOwn /\ CallsAreOpen /\ SweepAccounts
  BY DEF Init, RowsAreOfRefunds, RowsAreTheirOwn, CallsAreOpen, SweepAccounts
<1>5. RecordedWhole
  <2> SUFFICES ASSUME NEW s \in StripeRefund
               PROVE  Total([p \in {q \in Payment : row_status[q][s] # "none"} |-> row_amount[p][s]]) = 0
    BY DEF RecordedWhole
  <2>1. {q \in Payment : row_status[q][s] # "none"} = {}
    BY DEF Init
  <2> QED
    BY <2>1, TotalEmpty
<1> QED
  BY <1>3, <1>4, <1>5 DEF Records

(* What becomes of the sums when rows do not shrink. *)
LEMMA TakenKept ==
  ASSUME NEW p \in Payment, row_amount'[p] = row_amount[p]
  PROVE  Taken(p)' = Taken(p) /\ Remaining(p)' = Remaining(p)
BY DEF Taken, Remaining

LEMMA TakenNeverFalls ==
  ASSUME TypeOK, TypeOK', NEW p \in Payment,
         \A s \in StripeRefund : row_amount[p][s] <= row_amount'[p][s]
  PROVE  Taken(p) <= Taken(p)' /\ (Remaining(p) = 0 => Remaining(p)' = 0)
<1> DEFINE f == row_amount[p]
<1> DEFINE g == row_amount'[p]
<1>1. IsFiniteSet(StripeRefund)
  BY RefundsFinite
<1>2. DOMAIN f = StripeRefund /\ DOMAIN g = StripeRefund
  BY DEF TypeOK
<1>3. \A s \in StripeRefund : f[s] \in Nat /\ g[s] \in Nat /\ f[s] <= g[s]
  BY DEF TypeOK
<1>4. Taken(p) = Total(f) /\ Taken(p)' = Total(g)
  BY DEF Taken
<1> HIDE DEF f, g
<1>5. Total(f) <= Total(g)
  BY <1>1, <1>2, <1>3, TotalMonotone
<1>6. Total(f) \in Nat /\ Total(g) \in Nat
  BY <1>1, <1>2, UnitsFinite
<1>7. Price[p] \in Nat
  BY PriceAssumption, BoundsAssumption
<1>8. /\ Remaining(p) = IF Price[p] - Total(f) > 0 THEN Price[p] - Total(f) ELSE 0
      /\ Remaining(p)' = IF Price[p] - Total(g) > 0 THEN Price[p] - Total(g) ELSE 0
  BY <1>4 DEF Remaining, AtLeastZero
<1>9. ASSUME Remaining(p) = 0 PROVE Remaining(p)' = 0
  <2> DEFINE a == Total(f)
  <2> DEFINE b == Total(g)
  <2> HIDE DEF a, b
  <2>1. a \in Nat /\ b \in Nat /\ a <= b
    BY <1>5, <1>6 DEF a, b
  <2>2. Remaining(p) = IF Price[p] - a > 0 THEN Price[p] - a ELSE 0
    BY <1>8 DEF a
  <2>3. Price[p] - a <= 0
    BY <1>7, <1>9, <2>1, <2>2
  <2>4. ~(Price[p] - b > 0)
    BY <1>7, <2>1, <2>3
  <2> QED
    BY <1>8, <2>4 DEF b
<1>10. Taken(p) <= Taken(p)'
  BY <1>4, <1>5
<1> QED
  BY <1>9, <1>10

(* Stripe makes a refund. *)
MakesRefund(s, n) ==
  /\ s = Cardinality(Created) + 1
  /\ n \in 1..MaxAmount
  /\ re_amount' = [re_amount EXCEPT ![s] = n]

LEMMA AskedRefund ==
  ASSUME TypeOK, NEW p \in Payment, NEW who \in Caller, CallStripe(p, who)
  PROVE  \E n \in 1..Remaining(p), s \in StripeRefund :
           /\ MakesRefund(s, n) /\ n <= Left
           /\ who = "sweep" => n = Remaining(p)
           /\ re_ticket' = [re_ticket EXCEPT ![s] = p]
           /\ call' = [call EXCEPT ![p] = s]
<1>1. PICK n \in Asked(p, who), s \in StripeRefund :
        /\ n <= Left
        /\ s = Cardinality(Created) + 1
        /\ re_amount' = [re_amount EXCEPT ![s] = n]
        /\ re_ticket' = [re_ticket EXCEPT ![s] = p]
        /\ call' = [call EXCEPT ![p] = s]
  BY DEF CallStripe
<1>2. n \in 1..Remaining(p) /\ n \in 1..MaxAmount
  BY AskedType
<1>3. who = "sweep" => n = Remaining(p)
  BY DEF Asked
<1> QED
  BY <1>1, <1>2, <1>3 DEF MakesRefund

LEMMA ChargeBoundsLeft ==
  ASSUME TypeOK PROVE Left \in Int /\ Left <= MaxAmount
<1>1. DOMAIN Price = Payment /\ DOMAIN re_amount = StripeRefund
  BY PriceAssumption DEF TypeOK
<1>2. Total(Price) \in Nat
  BY <1>1, PaymentAssumption, UnitsFinite
<1>3. Total(re_amount) \in Nat
  BY <1>1, RefundsFinite, UnitsFinite
<1>4. Charge \in Nat /\ Charge <= MaxAmount
  BY <1>2, ChargeAssumption DEF Charge
<1>5. Left = Charge - Total(re_amount)
  BY DEF Left
<1> QED
  BY <1>3, <1>4, <1>5, BoundsAssumption

LEMMA DashboardMakesRefund ==
  ASSUME TypeOK, DashboardRefund
  PROVE  \E s \in StripeRefund, n \in 1..MaxAmount : MakesRefund(s, n) /\ n <= Left
<1>1. PICK s \in StripeRefund, n \in 1..Left :
        s = Cardinality(Created) + 1 /\ re_amount' = [re_amount EXCEPT ![s] = n]
  BY DEF DashboardRefund
<1>2. n \in 1..MaxAmount /\ n <= Left
  BY ChargeBoundsLeft, BoundsAssumption
<1> QED
  BY <1>1, <1>2 DEF MakesRefund

LEMMA NewRefund ==
  ASSUME TypeOK, RefundsInOrder, NEW s \in StripeRefund, NEW n, MakesRefund(s, n)
  PROVE  /\ re_amount[s] = 0 /\ re_ticket[s] = Nil
         /\ Created' = Created \cup {s}
         /\ Created' = 1..Cardinality(Created')
         /\ re_amount'[s] = n
         /\ \A x \in StripeRefund : x # s => re_amount'[x] = re_amount[x]
<1>1. IsFiniteSet(Created) /\ Cardinality(Created) \in Nat
  BY RefundsFinite DEF Created
<1>2. s \notin Created /\ s = Cardinality(Created) + 1
  BY <1>1 DEF RefundsInOrder, MakesRefund
<1>3. re_amount[s] = 0 /\ re_ticket[s] = Nil
  BY <1>2 DEF Created, TypeOK, RefundsInOrder
<1>4. /\ re_amount'[s] = n
      /\ \A x \in StripeRefund : x # s => re_amount'[x] = re_amount[x]
  BY DEF MakesRefund, TypeOK
<1>5. Created' = Created \cup {s}
  BY <1>4, BoundsAssumption DEF Created, MakesRefund
<1>6. Cardinality(Created') = Cardinality(Created) + 1
  BY <1>1, <1>2, <1>5, FS_AddElement
<1>7. Created' = 1..(Cardinality(Created) + 1)
  BY <1>1, <1>2, <1>5 DEF RefundsInOrder
<1> QED
  BY <1>3, <1>4, <1>5, <1>6, <1>7

(* Only a commit and a webhook write rows that are not FAILED. *)
LEMMA RowsKept ==
  ASSUME [Next]_vars,
         ~(\E p \in Payment : Commit(p)), ~(\E s \in StripeRefund : ApplyRefund(s))
  PROVE  UNCHANGED <<row_status, row_amount>>
<1>1. ASSUME NEW p \in Payment, NEW who \in Caller, CallStripe(p, who) \/ StripeRefuses(p, who)
      PROVE  UNCHANGED <<row_status, row_amount>>
  BY <1>1 DEF CallStripe, StripeRefuses, Fail, rows
<1>2. ASSUME NEW p \in Payment,
             \/ AnswerLost(p) \/ CancelTicket(p) \/ SweepDispatch(p) \/ SweepFindsNothing(p)
             \/ SweepCancels(p) \/ SweepStops(p)
             \/ RecordFailure(p) \/ FailureUnrecorded(p) \/ SweepRecordsFailure(p)
      PROVE  UNCHANGED <<row_status, row_amount>>
  BY <1>2 DEF AnswerLost, Fail, CancelTicket, SweepDispatch, SweepFindsNothing, SweepCancels,
              SweepStops,
              RecordFailure, FailureUnrecorded, SweepRecordsFailure, rows
<1>3. ASSUME NEW s \in StripeRefund, Deliver(s) PROVE UNCHANGED <<row_status, row_amount>>
  BY <1>3 DEF Deliver, rows
<1>4. ASSUME ForgetKeys \/ DashboardRefund \/ UNCHANGED vars
      PROVE  UNCHANGED <<row_status, row_amount>>
  BY <1>4 DEF ForgetKeys, DashboardRefund, vars, rows
<1> QED
  BY <1>1, <1>2, <1>3, <1>4 DEF Next

(* Only a call and the dashboard make a refund, and only for one ticket or *)
(* none; nothing else changes Stripe's refunds.                            *)
LEMMA StripeStep ==
  ASSUME TypeOK, [Next]_vars
  PROVE  \/ UNCHANGED <<re_amount, re_ticket>>
         \/ \E s \in StripeRefund, n \in 1..MaxAmount :
              /\ MakesRefund(s, n)
              /\ \/ UNCHANGED re_ticket
                 \/ \E p \in Payment : re_ticket' = [re_ticket EXCEPT ![s] = p]
<1>1. ASSUME NEW p \in Payment, NEW who \in Caller, CallStripe(p, who)
      PROVE  \E s \in StripeRefund, n \in 1..MaxAmount :
               MakesRefund(s, n) /\ re_ticket' = [re_ticket EXCEPT ![s] = p]
  <2>1. PICK n \in 1..Remaining(p), s \in StripeRefund :
          MakesRefund(s, n) /\ re_ticket' = [re_ticket EXCEPT ![s] = p]
    BY <1>1, AskedRefund
  <2> QED
    BY <2>1 DEF MakesRefund
<1>2. ASSUME DashboardRefund
      PROVE  \E s \in StripeRefund, n \in 1..MaxAmount : MakesRefund(s, n) /\ UNCHANGED re_ticket
  BY <1>2, DashboardMakesRefund DEF DashboardRefund
<1>3. ASSUME NEW p \in Payment, NEW who \in Caller, StripeRefuses(p, who)
      PROVE  UNCHANGED <<re_amount, re_ticket>>
  BY <1>3 DEF StripeRefuses
<1>4. ASSUME NEW p \in Payment,
             \/ Commit(p) \/ AnswerLost(p)
             \/ CancelTicket(p) \/ SweepDispatch(p) \/ SweepFindsNothing(p)
             \/ SweepCancels(p) \/ SweepStops(p)
             \/ RecordFailure(p) \/ FailureUnrecorded(p) \/ SweepRecordsFailure(p)
      PROVE  UNCHANGED <<re_amount, re_ticket>>
  BY <1>4 DEF Commit, AnswerLost, CancelTicket, SweepDispatch, SweepFindsNothing, SweepCancels,
              SweepStops,
              RecordFailure, FailureUnrecorded, SweepRecordsFailure, stripe
<1>5. ASSUME NEW s \in StripeRefund, Deliver(s) \/ ApplyRefund(s)
      PROVE  UNCHANGED <<re_amount, re_ticket>>
  BY <1>5 DEF Deliver, ApplyRefund, stripe
<1>6. ASSUME ForgetKeys \/ UNCHANGED vars PROVE UNCHANGED <<re_amount, re_ticket>>
  BY <1>6 DEF ForgetKeys, vars, stripe
<1> QED
  BY <1>1, <1>2, <1>3, <1>4, <1>5, <1>6 DEF Next

LEMMA OrderStep ==
  ASSUME TypeOK, RefundsInOrder, [Next]_vars PROVE RefundsInOrder'
<1>1. CASE UNCHANGED <<re_amount, re_ticket>>
  BY <1>1 DEF RefundsInOrder, Created
<1>2. ASSUME NEW s \in StripeRefund, NEW n \in 1..MaxAmount, MakesRefund(s, n),
             \/ UNCHANGED re_ticket
             \/ \E p \in Payment : re_ticket' = [re_ticket EXCEPT ![s] = p]
      PROVE  RefundsInOrder'
  <2>1. \A x \in StripeRefund : re_amount'[x] <= MaxAmount
    BY <1>2, NewRefund, BoundsAssumption DEF RefundsInOrder
  <2>2. /\ re_amount'[s] = n /\ n # 0
        /\ \A x \in StripeRefund : x # s => re_amount'[x] = re_amount[x]
    BY <1>2, NewRefund, BoundsAssumption
  <2>3. \A x \in StripeRefund : x # s => re_ticket'[x] = re_ticket[x]
    BY <1>2 DEF TypeOK
  <2> QED
    BY <1>2, <2>1, <2>2, <2>3, NewRefund DEF RefundsInOrder
<1> QED
  BY <1>1, <1>2, StripeStep

(* A new refund has no rows, and the others keep amount and ticket. *)
LEMMA RefundsGrow ==
  ASSUME TypeOK, RefundsInOrder, [Next]_vars, NEW s \in StripeRefund, re_amount[s] > 0
  PROVE  re_amount'[s] = re_amount[s] /\ re_ticket'[s] = re_ticket[s]
<1>1. CASE UNCHANGED <<re_amount, re_ticket>>
  BY <1>1
<1>2. ASSUME NEW x \in StripeRefund, NEW n \in 1..MaxAmount, MakesRefund(x, n),
             \/ UNCHANGED re_ticket
             \/ \E p \in Payment : re_ticket' = [re_ticket EXCEPT ![x] = p]
      PROVE  re_amount'[s] = re_amount[s] /\ re_ticket'[s] = re_ticket[s]
  <2>1. x # s
    BY <1>2, NewRefund
  <2> QED
    BY <1>2, <2>1, NewRefund DEF TypeOK
<1> QED
  BY <1>1, <1>2, StripeStep

(* What a commit writes. *)
LEMMA CommitWrites ==
  ASSUME TypeOK, NEW p \in Payment, Commit(p)
  PROVE  /\ call[p] \in StripeRefund
         /\ row_status'[p][call[p]] = "PENDING"
         /\ row_amount'[p][call[p]] = re_amount[call[p]]
         /\ \A q \in Payment, s \in StripeRefund :
              q # p \/ s # call[p] =>
                row_status'[q][s] = row_status[q][s] /\ row_amount'[q][s] = row_amount[q][s]
         /\ \A q \in Payment : q # p => row_amount'[q] = row_amount[q]
BY DEF Commit, TypeOK

(* What the webhook writes. *)
LEMMA WebhookWrites ==
  ASSUME TypeOK, NEW s \in StripeRefund, ApplyRefund(s)
  PROVE  /\ \A q \in Match(s) : row_status'[q][s] = "SUCCEEDED"
         /\ \A q \in Match(s) \ Known(s) : row_amount'[q][s] = Share(q, Match(s), s)
         /\ \A q \in Payment, x \in StripeRefund :
              q \notin Match(s) \/ x # s =>
                row_status'[q][x] = row_status[q][x] /\ row_amount'[q][x] = row_amount[q][x]
         /\ \A q \in Known(s) : row_amount'[q] = row_amount[q]
<1>1. Match(s) \in SUBSET Payment /\ Known(s) \in SUBSET Payment
  BY MatchType DEF Known
<1>2. /\ row_status' = [p \in Payment |->
                          IF p \in Match(s) THEN [row_status[p] EXCEPT ![s] = "SUCCEEDED"]
                          ELSE row_status[p]]
      /\ row_amount' = [p \in Payment |->
                          IF p \in Match(s) \ Known(s)
                          THEN [row_amount[p] EXCEPT ![s] = Share(p, Match(s), s)]
                          ELSE row_amount[p]]
  BY DEF ApplyRefund
<1> QED
  BY <1>1, <1>2 DEF TypeOK

LEMMA MatchCases ==
  ASSUME NEW s \in StripeRefund
  PROVE  /\ Known(s) # {} => Match(s) = Known(s)
         /\ Known(s) = {} /\ Named(s) # {} => Match(s) = Named(s)
BY DEF Match, OrElse

LEMMA RowsStep ==
  ASSUME TypeOK, Records, [Next]_vars PROVE RowsAreOfRefunds'
<1> USE DEF RowsAreOfRefunds
<1>1. Created \subseteq Created'
  <2>1. \A s \in Created : s \in StripeRefund /\ re_amount[s] > 0
    BY DEF Created
  <2> QED
    BY <2>1, RefundsGrow DEF Created, Records
<1>2. \A s \in StripeRefund : re_amount[s] > 0 => re_amount'[s] > 0
  BY RefundsGrow DEF Records
<1>3. applying' \subseteq Created'
  <2>1. ASSUME NEW s \in StripeRefund, Deliver(s) PROVE applying' \subseteq Created
    <3>1. PICK last \in Created : applying' = 1..last
      BY <2>1 DEF Deliver
    <3>2. Created = 1..Cardinality(Created) /\ Cardinality(Created) \in Nat
      BY RefundsFinite DEF Records, RefundsInOrder, Created
    <3> QED
      BY <3>1, <3>2
  <2>2. ASSUME NEW s \in StripeRefund, ApplyRefund(s) PROVE applying' \subseteq Created
    BY <2>2 DEF ApplyRefund, Records
  <2>3. ASSUME NEW p \in Payment, NEW who \in Caller, CallStripe(p, who) \/ StripeRefuses(p, who)
        PROVE  applying' = applying
    BY <2>3 DEF CallStripe, StripeRefuses
  <2>4. ASSUME NEW p \in Payment,
               \/ Commit(p) \/ AnswerLost(p)
               \/ CancelTicket(p) \/ SweepDispatch(p) \/ SweepFindsNothing(p)
               \/ SweepCancels(p) \/ SweepStops(p)
               \/ RecordFailure(p) \/ FailureUnrecorded(p) \/ SweepRecordsFailure(p)
        PROVE  applying' = applying
    BY <2>4 DEF Commit, AnswerLost, CancelTicket, SweepDispatch, SweepFindsNothing, SweepCancels,
                SweepStops,
                RecordFailure, FailureUnrecorded, SweepRecordsFailure
  <2>5. ASSUME ForgetKeys \/ DashboardRefund \/ UNCHANGED vars PROVE applying' = applying
    BY <2>5 DEF ForgetKeys, DashboardRefund, vars
  <2>6. applying' = applying \/ applying' \subseteq Created
    BY <2>1, <2>2, <2>3, <2>4, <2>5 DEF Next
  <2> QED
    BY <1>1, <2>6 DEF Records
<1>4. ASSUME NEW q \in Payment, NEW s \in StripeRefund
      PROVE  IF row_status'[q][s] = "none" THEN row_amount'[q][s] = 0 ELSE re_amount'[s] > 0
  <2>1. CASE UNCHANGED <<row_status, row_amount>>
    BY <1>2, <2>1 DEF Records
  <2>2. ASSUME NEW p \in Payment, Commit(p)
        PROVE  IF row_status'[q][s] = "none" THEN row_amount'[q][s] = 0 ELSE re_amount'[s] > 0
    <3>1. re_amount[call[p]] > 0 /\ call[p] # Nil
      BY <2>2 DEF Commit, Records, CallsAreOpen
    <3>2. CASE q = p /\ s = call[p]
      BY <1>2, <2>2, <3>1, <3>2, CommitWrites
    <3>3. CASE q # p \/ s # call[p]
      BY <1>2, <2>2, <3>3, CommitWrites DEF Records
    <3> QED
      BY <3>2, <3>3
  <2>3. ASSUME NEW x \in StripeRefund, ApplyRefund(x)
        PROVE  IF row_status'[q][s] = "none" THEN row_amount'[q][s] = 0 ELSE re_amount'[s] > 0
    <3>1. re_amount[x] > 0
      BY <2>3 DEF ApplyRefund, Records, Created
    <3>2. CASE q \in Match(x) /\ s = x
      BY <1>2, <2>3, <3>1, <3>2, WebhookWrites
    <3>3. CASE q \notin Match(x) \/ s # x
      BY <1>2, <2>3, <3>3, WebhookWrites DEF Records
    <3> QED
      BY <3>2, <3>3
  <2> QED
    BY <2>1, <2>2, <2>3, RowsKept
<1> QED
  BY <1>3, <1>4

(* A refund that names a ticket is matched to its payment alone. *)
LEMMA NamedMatch ==
  ASSUME TypeOK, RowsAreTheirOwn, NEW p \in Payment, NEW s \in StripeRefund, re_ticket[s] = p
  PROVE  Match(s) = {p} /\ Share(p, {p}, s) = re_amount[s]
<1>1. Known(s) \subseteq {p}
  BY DEF Known, RowsAreTheirOwn
<1>2. Named(s) = {p}
  BY DEF Named
<1>3. Match(s) = {p}
  BY <1>1, <1>2, MatchCases
<1>4. Cardinality({p}) = 1
  BY FS_Singleton
<1> QED
  BY <1>3, <1>4 DEF Share

LEMMA OwnStep ==
  ASSUME TypeOK, Records, [Next]_vars PROVE RowsAreTheirOwn'
<1> USE DEF RowsAreTheirOwn
<1> SUFFICES ASSUME NEW p \in Payment, NEW q \in Payment, NEW s \in StripeRefund,
                    re_ticket'[s] = p, row_status'[q][s] # "none"
             PROVE  q = p /\ row_amount'[q][s] = re_amount'[s]
  OBVIOUS
<1>1. ASSUME re_amount[s] > 0
      PROVE  re_ticket[s] = p /\ re_amount'[s] = re_amount[s]
  BY <1>1, RefundsGrow DEF Records
<1>2. CASE UNCHANGED <<row_status, row_amount>>
  <2>1. re_amount[s] > 0
    BY <1>2 DEF Records, RowsAreOfRefunds
  <2> QED
    BY <1>1, <1>2, <2>1 DEF Records
<1>3. ASSUME NEW o \in Payment, Commit(o) PROVE q = p /\ row_amount'[q][s] = re_amount'[s]
  <2>1. re_amount' = re_amount /\ re_ticket' = re_ticket
    BY <1>3 DEF Commit, stripe
  <2>2. CASE q = o /\ s = call[o]
    <3>1. re_ticket[call[o]] = o
      BY <1>3 DEF Commit, Records, CallsAreOpen
    <3> QED
      BY <1>3, <2>1, <2>2, <3>1, CommitWrites
  <2>3. CASE q # o \/ s # call[o]
    BY <1>3, <2>1, <2>3, CommitWrites DEF Records
  <2> QED
    BY <2>2, <2>3
<1>4. ASSUME NEW x \in StripeRefund, ApplyRefund(x) PROVE q = p /\ row_amount'[q][s] = re_amount'[s]
  <2>1. re_amount' = re_amount /\ re_ticket' = re_ticket
    BY <1>4 DEF ApplyRefund, stripe
  <2>2. CASE q \in Match(x) /\ s = x
    <3>1. Match(x) = {p} /\ Share(p, {p}, x) = re_amount[x]
      BY <2>1, <2>2, NamedMatch DEF Records
    <3>2. q = p
      BY <2>2, <3>1
    <3>3. CASE q \in Known(x)
      <4>1. row_amount'[q][x] = row_amount[q][x]
        BY <1>4, <3>3, WebhookWrites
      <4>2. row_status[q][x] # "none"
        BY <3>3 DEF Known
      <4> QED
        BY <2>1, <2>2, <3>2, <4>1, <4>2 DEF Records
    <3>4. CASE q \notin Known(x)
      BY <1>4, <2>1, <2>2, <3>1, <3>2, <3>4, WebhookWrites
    <3> QED
      BY <3>3, <3>4
  <2>3. CASE q \notin Match(x) \/ s # x
    BY <1>4, <2>1, <2>3, WebhookWrites DEF Records
  <2> QED
    BY <2>2, <2>3
<1> QED
  BY <1>2, <1>3, <1>4, RowsKept

(* A step keeps an open call whose Payment it does not write. *)
LEMMA CallKept ==
  ASSUME TypeOK, Records, [Next]_vars, NEW p \in Payment, call[p] # Nil,
         applying' = {}, call'[p] = call[p], caller'[p] = caller[p],
         row_status'[p] = row_status[p], row_amount'[p] = row_amount[p]
  PROVE  /\ re_ticket'[call[p]] = p /\ re_amount'[call[p]] > 0
         /\ row_status'[p][call[p]] = "none"
         /\ re_amount'[call[p]] <= Remaining(p)'
         /\ caller'[p] = "sweep" => re_amount'[call[p]] = Remaining(p)'
<1>1. call[p] \in StripeRefund
  BY DEF TypeOK
<1>2. /\ re_ticket[call[p]] = p /\ re_amount[call[p]] > 0
      /\ row_status[p][call[p]] = "none"
      /\ re_amount[call[p]] <= Remaining(p)
      /\ caller[p] = "sweep" => re_amount[call[p]] = Remaining(p)
  BY DEF Records, CallsAreOpen
<1>3. re_amount'[call[p]] = re_amount[call[p]] /\ re_ticket'[call[p]] = re_ticket[call[p]]
  BY <1>1, <1>2, RefundsGrow DEF Records
<1>4. Remaining(p)' = Remaining(p)
  BY TakenKept
<1> QED
  BY <1>2, <1>3, <1>4

LEMMA CallsStep ==
  ASSUME TypeOK, Records, [Next]_vars PROVE CallsAreOpen'
<1> SUFFICES ASSUME NEW p \in Payment, call'[p] # Nil
             PROVE  /\ applying' = {}
                    /\ re_ticket'[call'[p]] = p /\ re_amount'[call'[p]] > 0
                    /\ row_status'[p][call'[p]] = "none"
                    /\ re_amount'[call'[p]] <= Remaining(p)'
                    /\ caller'[p] = "sweep" => re_amount'[call'[p]] = Remaining(p)'
  BY DEF CallsAreOpen
<1> DEFINE Kept == /\ call[p] # Nil /\ applying' = {}
                   /\ call'[p] = call[p] /\ caller'[p] = caller[p]
                   /\ row_status'[p] = row_status[p] /\ row_amount'[p] = row_amount[p]
<1>1. ASSUME Kept
      PROVE  /\ applying' = {}
             /\ re_ticket'[call'[p]] = p /\ re_amount'[call'[p]] > 0
             /\ row_status'[p][call'[p]] = "none"
             /\ re_amount'[call'[p]] <= Remaining(p)'
             /\ caller'[p] = "sweep" => re_amount'[call'[p]] = Remaining(p)'
  BY <1>1, CallKept
<1>2. call[p] # Nil => applying = {}
  BY DEF Records, CallsAreOpen
<1>3. ASSUME NEW q \in Payment, NEW who \in Caller, CallStripe(q, who), q # p PROVE Kept
  BY <1>2, <1>3 DEF CallStripe, TypeOK, rows
<1>4. ASSUME NEW who \in Caller, CallStripe(p, who)
      PROVE  /\ applying' = {}
             /\ re_ticket'[call'[p]] = p /\ re_amount'[call'[p]] > 0
             /\ row_status'[p][call'[p]] = "none"
             /\ re_amount'[call'[p]] <= Remaining(p)'
             /\ caller'[p] = "sweep" => re_amount'[call'[p]] = Remaining(p)'
  <2>1. PICK n \in 1..Remaining(p), s \in StripeRefund :
          /\ MakesRefund(s, n)
          /\ who = "sweep" => n = Remaining(p)
          /\ re_ticket' = [re_ticket EXCEPT ![s] = p]
          /\ call' = [call EXCEPT ![p] = s]
    BY <1>4, AskedRefund
  <2>2. call'[p] = s /\ re_ticket'[s] = p /\ caller'[p] = who /\ applying' = {}
    BY <1>4, <2>1 DEF CallStripe, Locked, TypeOK
  <2>3. re_amount[s] = 0 /\ re_amount'[s] = n
    BY <2>1, NewRefund DEF Records
  <2>4. row_status'[p][s] = "none" /\ row_amount'[p] = row_amount[p]
    BY <1>4, <2>3 DEF CallStripe, rows, Records, RowsAreOfRefunds
  <2>5. Remaining(p)' = Remaining(p)
    BY <2>4, TakenKept
  <2>6. Remaining(p) \in 0..MaxAmount
    BY TakenType
  <2>7. n > 0 /\ n <= Remaining(p)
    BY <2>1, <2>6, BoundsAssumption
  <2> QED
    BY <2>1, <2>2, <2>3, <2>4, <2>5, <2>7
<1>5. ASSUME NEW q \in Payment, NEW who \in Caller, StripeRefuses(q, who) PROVE Kept
  BY <1>2, <1>5 DEF StripeRefuses, Fail
<1>6. ASSUME NEW q \in Payment, Commit(q) \/ AnswerLost(q) PROVE Kept
  <2>1. q # p
    BY <1>6 DEF Commit, AnswerLost, TypeOK
  <2>2. call'[p] = call[p] /\ caller'[p] = caller[p] /\ applying' = applying
    BY <1>6, <2>1 DEF Commit, AnswerLost, TypeOK
  <2>3. row_status'[p] = row_status[p] /\ row_amount'[p] = row_amount[p]
    BY <1>6, <2>1 DEF Commit, AnswerLost, Fail, rows, TypeOK
  <2> QED
    BY <1>2, <2>2, <2>3
<1>7. ASSUME NEW q \in Payment,
             \/ CancelTicket(q) \/ SweepDispatch(q) \/ SweepFindsNothing(q)
             \/ SweepCancels(q) \/ SweepStops(q)
             \/ RecordFailure(q) \/ FailureUnrecorded(q) \/ SweepRecordsFailure(q)
      PROVE  Kept
  BY <1>2, <1>7 DEF CancelTicket, SweepDispatch, SweepFindsNothing, SweepCancels, SweepStops,
              RecordFailure, FailureUnrecorded, SweepRecordsFailure, rows
<1>8. ASSUME ForgetKeys \/ DashboardRefund \/ UNCHANGED vars PROVE Kept
  BY <1>2, <1>8 DEF ForgetKeys, DashboardRefund, vars, rows
<1>9. ASSUME NEW s \in StripeRefund, Deliver(s) PROVE FALSE
  BY <1>9 DEF Deliver, Locked
<1>10. ASSUME NEW s \in StripeRefund, ApplyRefund(s) PROVE FALSE
  BY <1>2, <1>10 DEF ApplyRefund
<1> HIDE DEF Kept
<1> QED
  BY <1>1, <1>3, <1>4, <1>5, <1>6, <1>7, <1>8, <1>9, <1>10 DEF Next

(* Rows only ever claim more, and FAILED rows stay. *)
LEMMA RowsGrow ==
  ASSUME TypeOK, TypeOK', Records, [Next]_vars, NEW p \in Payment
  PROVE  \A s \in StripeRefund : row_amount[p][s] <= row_amount'[p][s]
<1> SUFFICES ASSUME NEW s \in StripeRefund PROVE row_amount[p][s] <= row_amount'[p][s]
  OBVIOUS
<1>1. row_amount[p][s] \in Nat /\ row_amount'[p][s] \in Nat
  BY DEF TypeOK
<1>2. row_amount'[p][s] = row_amount[p][s] \/ row_amount[p][s] = 0
  <2>1. ASSUME NEW q \in Payment, Commit(q)
        PROVE  row_amount'[p][s] = row_amount[p][s] \/ row_amount[p][s] = 0
    <3>1. row_amount[q][call[q]] = 0
      BY <2>1 DEF Commit, Records, CallsAreOpen, RowsAreOfRefunds, TypeOK
    <3> QED
      BY <2>1, <3>1, CommitWrites
  <2>2. ASSUME NEW x \in StripeRefund, ApplyRefund(x)
        PROVE  row_amount'[p][s] = row_amount[p][s] \/ row_amount[p][s] = 0
    <3>1. CASE p \in Known(s)
      BY <2>2, <3>1, WebhookWrites
    <3>2. CASE p \notin Known(s)
      BY <3>2 DEF Known, Records, RowsAreOfRefunds
    <3> QED
      BY <3>1, <3>2
  <2> QED
    BY <2>1, <2>2, RowsKept
<1> QED
  BY <1>1, <1>2

LEMMA FailedGrows ==
  ASSUME TypeOK, [Next]_vars, NEW p \in Payment
  PROVE  failed[p] > 0 => failed'[p] > 0
<1>1. ASSUME NEW q \in Payment, RecordFailure(q) \/ SweepRecordsFailure(q)
      PROVE  failed[p] > 0 => failed'[p] > 0
  BY <1>1 DEF RecordFailure, SweepRecordsFailure, TypeOK
<1>2. ASSUME NEW q \in Payment, NEW who \in Caller, CallStripe(q, who) PROVE failed' = failed
  BY <1>2 DEF CallStripe, rows
<1>3. ASSUME NEW q \in Payment, NEW who \in Caller, StripeRefuses(q, who) PROVE failed' = failed
  BY <1>3 DEF StripeRefuses, Fail
<1>4. ASSUME NEW q \in Payment, AnswerLost(q) PROVE failed' = failed
  BY <1>4 DEF AnswerLost, Fail, rows
<1>5. ASSUME NEW q \in Payment,
             \/ Commit(q) \/ CancelTicket(q) \/ SweepDispatch(q) \/ SweepFindsNothing(q)
             \/ SweepCancels(q) \/ SweepStops(q)
             \/ FailureUnrecorded(q)
      PROVE  failed' = failed
  BY <1>5 DEF Commit, CancelTicket, SweepDispatch, SweepFindsNothing, SweepCancels, SweepStops,
              FailureUnrecorded, rows
<1>6. ASSUME ForgetKeys \/ DashboardRefund \/ UNCHANGED vars PROVE failed' = failed
  BY <1>6 DEF ForgetKeys, DashboardRefund, vars, rows
<1>7. ASSUME NEW s \in StripeRefund, Deliver(s) \/ ApplyRefund(s) PROVE failed' = failed
  BY <1>7 DEF Deliver, ApplyRefund, rows
<1> QED
  BY <1>1, <1>2, <1>3, <1>4, <1>5, <1>6, <1>7 DEF Next

LEMMA AccountKept ==
  ASSUME TypeOK, TypeOK', Records, [Next]_vars, NEW p \in Payment, Accounted(p)
  PROVE  Accounted(p)'
<1>1. Remaining(p) = 0 => Remaining(p)' = 0
  BY RowsGrow, TakenNeverFalls
<1> QED
  BY <1>1, FailedGrows DEF Accounted

(* A commit of the sweep's refund leaves nothing to refund. *)
LEMMA CommitTakes ==
  ASSUME TypeOK, Records, NEW p \in Payment, Commit(p)
  PROVE  Taken(p)' = Taken(p) + re_amount[call[p]]
<1> DEFINE f == row_amount[p]
<1> DEFINE g == row_amount'[p]
<1> DEFINE s == call[p]
<1>1. DOMAIN f = StripeRefund /\ DOMAIN g = StripeRefund /\ s \in StripeRefund
  BY DEF Commit, TypeOK
<1>2. \A x \in StripeRefund : x # s => f[x] = g[x]
  BY CommitWrites
<1>3. f[s] = 0
  BY <1>1 DEF Commit, Records, CallsAreOpen, RowsAreOfRefunds
<1>4. g[s] = re_amount[s] /\ g[s] \in Nat /\ g[s] <= MaxAmount
  BY <1>1, CommitWrites DEF Records, RefundsInOrder, TypeOK
<1>5. IsFiniteSet(StripeRefund)
  BY RefundsFinite
<1>6. Taken(p) = Total(f) /\ Taken(p)' = Total(g)
  BY DEF Taken
<1> HIDE DEF f, g, s
<1>7. StripeRefund \subseteq StripeRefund \cup {s}
  OBVIOUS
<1>8. Total(g) = Total(f) + g[s]
  BY <1>1, <1>2, <1>3, <1>4, <1>5, <1>7, TotalGrows
<1> QED
  BY <1>4, <1>6, <1>8 DEF s

LEMMA SweepCommits ==
  ASSUME TypeOK, TypeOK', Records, NEW p \in Payment, Commit(p), caller[p] = "sweep"
  PROVE  Remaining(p)' = 0
<1>1. Taken(p)' = Taken(p) + re_amount[call[p]]
  BY CommitTakes
<1>2. re_amount[call[p]] = Remaining(p) /\ re_amount[call[p]] > 0
  BY DEF Commit, Records, CallsAreOpen
<1>3. Remaining(p) = 0 \/ Remaining(p) = Price[p] - Taken(p)
  BY TakenType
<1>4. Taken(p) \in Nat /\ Price[p] \in Nat
  BY TakenType, BoundsAssumption
<1>5. Taken(p)' = Price[p]
  BY <1>1, <1>2, <1>3, <1>4
<1>6. Remaining(p)' = IF Price[p] - Price[p] > 0 THEN Price[p] - Price[p] ELSE 0
  BY <1>5 DEF Remaining, AtLeastZero
<1> QED
  BY <1>4, <1>6

LEMMA SweepStep ==
  ASSUME TypeOK, TypeOK', Records, [Next]_vars PROVE SweepAccounts'
<1> SUFFICES ASSUME NEW p \in Payment, sweep'[p] = "cancel" \/ ticket'[p] = "SWEPT"
             PROVE  Accounted(p)'
  BY DEF SweepAccounts
<1>1. ASSUME sweep[p] = "cancel" \/ ticket[p] = "SWEPT" PROVE Accounted(p)'
  BY <1>1, AccountKept DEF Records, SweepAccounts
<1> DEFINE Kept == sweep'[p] = sweep[p] /\ ticket'[p] = ticket[p]
<1>2. ASSUME Kept PROVE Accounted(p)'
  BY <1>1, <1>2
<1>3. ASSUME NEW q \in Payment, SweepRecordsFailure(q) PROVE Accounted(p)'
  <2>1. CASE q = p
    BY <1>3, <2>1 DEF SweepRecordsFailure, TypeOK, Accounted
  <2>2. CASE q # p
    BY <1>2, <1>3, <2>2 DEF SweepRecordsFailure, TypeOK
  <2> QED
    BY <2>1, <2>2
<1>4. ASSUME NEW q \in Payment, NEW who \in Caller, CallStripe(q, who) PROVE Kept
  BY <1>4 DEF CallStripe
<1>5. ASSUME NEW q \in Payment, NEW who \in Caller, StripeRefuses(q, who) PROVE Accounted(p)'
  BY <1>1, <1>5 DEF StripeRefuses, Fail, TypeOK
<1>6. ASSUME NEW q \in Payment, AnswerLost(q) PROVE Accounted(p)'
  BY <1>1, <1>6 DEF AnswerLost, Fail, TypeOK
<1>7. ASSUME NEW q \in Payment, Commit(q) PROVE Accounted(p)'
  <2>1. CASE q = p /\ caller[q] = "sweep"
    BY <1>7, <2>1, SweepCommits DEF Accounted
  <2>2. CASE q # p \/ caller[q] # "sweep"
    BY <1>1, <1>7, <2>2 DEF Commit, TypeOK
  <2> QED
    BY <2>1, <2>2
<1>8. ASSUME NEW q \in Payment,
             \/ CancelTicket(q) \/ SweepDispatch(q) \/ SweepCancels(q) \/ SweepStops(q)
             \/ RecordFailure(q) \/ FailureUnrecorded(q)
      PROVE  Accounted(p)'
  BY <1>1, <1>8 DEF CancelTicket, SweepDispatch, SweepCancels, SweepStops,
              RecordFailure, FailureUnrecorded, TypeOK
<1>9. ASSUME NEW q \in Payment, SweepFindsNothing(q) PROVE Accounted(p)'
  <2>1. CASE q = p
    <3>1. Accounted(p)
      BY <1>9, <2>1 DEF SweepFindsNothing, Accounted
    <3> QED
      BY <3>1, AccountKept
  <2>2. CASE q # p
    BY <1>2, <1>9, <2>2 DEF SweepFindsNothing, TypeOK
  <2> QED
    BY <2>1, <2>2
<1>10. ASSUME ForgetKeys \/ DashboardRefund \/ UNCHANGED vars PROVE Kept
  BY <1>10 DEF ForgetKeys, DashboardRefund, vars
<1>11. ASSUME NEW s \in StripeRefund, Deliver(s) \/ ApplyRefund(s) PROVE Kept
  BY <1>11 DEF Deliver, ApplyRefund
<1> HIDE DEF Kept
<1> QED
  BY <1>2, <1>3, <1>4, <1>5, <1>6, <1>7, <1>8, <1>9, <1>10, <1>11 DEF Next

(* What the rows of a refund claim together. *)
Recorded(s) == Total([p \in Known(s) |-> row_amount[p][s]])

LEMMA RecordedIsWhole == RecordedWhole <=> \A s \in StripeRefund : Recorded(s) \in {0, re_amount[s]}
BY DEF RecordedWhole, Recorded, Known

LEMMA RecordedKept ==
  ASSUME NEW s \in StripeRefund,
         \A p \in Payment : row_status'[p][s] = row_status[p][s] /\ row_amount'[p][s] = row_amount[p][s]
  PROVE  Recorded(s)' = Recorded(s)
<1>1. Known(s)' = Known(s)
  BY DEF Known
<1>2. \A p \in Known(s) : row_amount'[p][s] = row_amount[p][s]
  BY DEF Known
<1>3. [p \in Known(s)' |-> row_amount'[p][s]] = [p \in Known(s) |-> row_amount[p][s]]
  BY <1>1, <1>2
<1> QED
  BY <1>3 DEF Recorded

LEMMA CommitRecords ==
  ASSUME TypeOK, Records, NEW p \in Payment, Commit(p), NEW s \in StripeRefund, s = call[p]
  PROVE  Recorded(s)' = re_amount'[s]
<1>1. s \in StripeRefund /\ re_ticket[s] = p /\ row_status[p][s] = "none"
  BY DEF Commit, Records, CallsAreOpen, TypeOK
<1>2. \A q \in Payment : row_status[q][s] = "none"
  BY <1>1 DEF Records, RowsAreTheirOwn
<1>3. Known(s)' = {p}
  <2>1. row_status'[p][s] = "PENDING" /\ \A q \in Payment : q # p => row_status'[q][s] = "none"
    BY <1>1, <1>2, CommitWrites
  <2> QED
    BY <2>1 DEF Known
<1> DEFINE g == [q \in Known(s)' |-> row_amount'[q][s]]
<1>4. DOMAIN g = {p} /\ g[p] = re_amount[s]
  BY <1>3, CommitWrites
<1>5. g[p] \in Nat /\ g[p] <= MaxAmount
  BY <1>1, <1>4 DEF Records, RefundsInOrder, TypeOK
<1>6. Recorded(s)' = Total(g)
  BY DEF Recorded
<1>7. re_amount'[s] = re_amount[s]
  BY DEF Commit, stripe
<1> HIDE DEF g
<1>8. Total(g) = g[p]
  BY <1>4, <1>5, TotalOfOne
<1> QED
  BY <1>4, <1>6, <1>7, <1>8

(* A match of several payments is one of all that is owed. *)
LEMMA SeveralAreOwedIt ==
  ASSUME NEW s \in StripeRefund, Known(s) = {}, NEW p \in Payment, NEW q \in Payment, p # q,
         p \in Match(s), q \in Match(s)
  PROVE  /\ Match(s) = Unrefunded
         /\ Total([o \in Unrefunded |-> Remaining(o)]) = re_amount[s]
<1>1. Named(s) = {}
  <2>1. ASSUME Named(s) # {} PROVE FALSE
    BY <2>1, MatchCases DEF Named
  <2> QED
    BY <2>1
<1>2. ASSUME NEW S \in SUBSET Payment, Cardinality(S) = 1, p \in S, q \in S PROVE FALSE
  <2>1. IsFiniteSet(S)
    BY PaymentsFinite
  <2>2. PICK o : S = {o}
    BY <1>2, <2>1, FS_Singleton
  <2> QED
    BY <1>2, <2>2
<1>3. Only = {}
  BY <1>2 DEF Only
<1>4. Match(s) = OrElse(Sole(s), WholeBatch(s))
  BY <1>1, <1>3 DEF Match, OrElse
<1>5. Sole(s) = {}
  <2>1. ASSUME Sole(s) # {} PROVE FALSE
    <3>1. Match(s) = Exact(s) /\ Cardinality(Exact(s)) = 1
      BY <1>4, <2>1 DEF OrElse, Sole
    <3>2. Exact(s) \in SUBSET Payment
      BY DEF Exact, Unrefunded
    <3> QED
      BY <1>2, <3>1, <3>2
  <2> QED
    BY <2>1
<1>6. Match(s) = WholeBatch(s)
  BY <1>4, <1>5 DEF OrElse
<1> QED
  BY <1>6 DEF WholeBatch

LEMMA WebhookRecords ==
  ASSUME TypeOK, Records, NEW s \in StripeRefund, ApplyRefund(s), Known(s) = {}
  PROVE  Recorded(s)' = IF Match(s) = {} THEN 0 ELSE re_amount[s]
<1> DEFINE S == Match(s)
<1> DEFINE g == [q \in Known(s)' |-> row_amount'[q][s]]
<1>1. S \in SUBSET Payment
  BY MatchType
<1>2. Known(s)' = S
  <2>1. \A q \in S : row_status'[q][s] = "SUCCEEDED"
    BY WebhookWrites
  <2>2. \A q \in Payment \ S : row_status'[q][s] = "none"
    BY WebhookWrites DEF Known
  <2> QED
    BY <1>1, <2>1, <2>2 DEF Known
<1>3. g = [q \in S |-> Share(q, S, s)]
  <2>1. \A q \in S : row_amount'[q][s] = Share(q, S, s)
    BY WebhookWrites
  <2> QED
    BY <1>2, <2>1
<1>4. Recorded(s)' = Total(g)
  BY DEF Recorded
<1>5. CASE S = {}
  <2>1. DOMAIN g = {}
    BY <1>3, <1>5
  <2>2. Total(g) = 0
    BY <2>1, TotalEmpty
  <2> QED
    BY <1>4, <1>5, <2>2
<1>6. ASSUME NEW p \in Payment, S = {p} PROVE Recorded(s)' = re_amount[s]
  <2>1. Cardinality({p}) = 1
    BY FS_Singleton
  <2>2. Share(p, S, s) = re_amount[s]
    BY <1>6, <2>1 DEF Share
  <2>3. DOMAIN g = {p} /\ g[p] = re_amount[s]
    BY <1>3, <1>6, <2>2
  <2>4. g[p] \in Nat /\ g[p] <= MaxAmount
    BY <2>3 DEF Records, RefundsInOrder, TypeOK
  <2> HIDE DEF g
  <2>5. Total(g) = g[p]
    BY <2>3, <2>4, TotalOfOne
  <2> QED
    BY <1>4, <2>3, <2>5
<1>7. ASSUME NEW p \in S, NEW q \in S, p # q PROVE Recorded(s)' = re_amount[s]
  <2>1. /\ S = Unrefunded
        /\ Total([o \in Unrefunded |-> Remaining(o)]) = re_amount[s]
    BY <1>1, <1>7, SeveralAreOwedIt
  <2>2. Cardinality(S) > 1
    <3>1. {p, q} \in SUBSET S /\ IsFiniteSet(S) /\ Cardinality(S) \in Nat
      BY <1>1, PaymentsFinite
    <3>2. Cardinality({p, q}) = 2
      <4>1. IsFiniteSet({p}) /\ Cardinality({p}) = 1
        BY FS_Singleton
      <4>2. {p, q} = {p} \cup {q} /\ q \notin {p}
        BY <1>7
      <4>3. Cardinality({p} \cup {q}) = Cardinality({p}) + 1
        BY <4>1, <4>2, FS_AddElement
      <4> QED
        BY <4>1, <4>2, <4>3
    <3>3. Cardinality({p, q}) <= Cardinality(S)
      BY <3>1, FS_Subset
    <3> QED
      BY <3>1, <3>2, <3>3
  <2>3. \A o \in S : Share(o, S, s) = Remaining(o)
    BY <2>2 DEF Share
  <2>4. g = [o \in Unrefunded |-> Remaining(o)]
    BY <1>3, <2>1, <2>3
  <2> QED
    BY <1>4, <2>1, <2>4
<1>8. S = {} \/ (\E p \in Payment : S = {p}) \/ (\E p, q \in S : p # q)
  BY <1>1
<1> QED
  BY <1>5, <1>6, <1>7, <1>8

LEMMA WholeStep ==
  ASSUME TypeOK, Records, [Next]_vars PROVE RecordedWhole'
<1>1. \A s \in StripeRefund : Recorded(s) \in {0, re_amount[s]}
  BY RecordedIsWhole DEF Records
<1> SUFFICES ASSUME NEW s \in StripeRefund PROVE Recorded(s)' \in {0, re_amount'[s]}
  BY DEF RecordedWhole, Recorded, Known
<1>2. CASE UNCHANGED <<row_status, row_amount>>
  <2>1. Recorded(s)' = Recorded(s)
    BY <1>2, RecordedKept
  <2>2. CASE re_amount[s] > 0
    BY <1>1, <2>1, <2>2, RefundsGrow DEF Records
  <2>3. CASE ~(re_amount[s] > 0)
    <3>1. re_amount[s] = 0
      BY <2>3 DEF TypeOK
    <3> QED
      BY <1>1, <2>1, <3>1
  <2> QED
    BY <2>2, <2>3
<1>3. ASSUME NEW p \in Payment, Commit(p) PROVE Recorded(s)' \in {0, re_amount'[s]}
  <2>1. CASE s = call[p]
    BY <1>3, <2>1, CommitRecords
  <2>2. CASE s # call[p]
    <3>1. Recorded(s)' = Recorded(s)
      BY <1>3, <2>2, CommitWrites, RecordedKept
    <3>2. re_amount' = re_amount
      BY <1>3 DEF Commit, stripe
    <3> QED
      BY <1>1, <3>1, <3>2
  <2> QED
    BY <2>1, <2>2
<1>4. ASSUME NEW x \in StripeRefund, ApplyRefund(x) PROVE Recorded(s)' \in {0, re_amount'[s]}
  <2>1. re_amount' = re_amount
    BY <1>4 DEF ApplyRefund, stripe
  <2>2. CASE s = x /\ Known(x) = {}
    BY <1>4, <2>1, <2>2, WebhookRecords
  <2>3. CASE s # x
    <3>1. Recorded(s)' = Recorded(s)
      BY <1>4, <2>3, WebhookWrites, RecordedKept
    <3> QED
      BY <1>1, <2>1, <3>1
  <2>4. CASE s = x /\ Known(x) # {}
    <3>1. Match(x) = Known(x)
      BY <2>4, MatchCases
    <3>2. Known(s)' = Known(s)
      <4>1. \A q \in Known(x) : row_status'[q][x] = "SUCCEEDED"
        BY <1>4, <3>1, WebhookWrites
      <4>2. \A q \in Payment \ Known(x) : row_status'[q][x] = "none"
        BY <1>4, <3>1, WebhookWrites DEF Known
      <4> QED
        BY <2>4, <4>1, <4>2 DEF Known
    <3>3. \A q \in Known(s) : row_amount'[q][s] = row_amount[q][s]
      BY <1>4, <2>4, WebhookWrites
    <3>4. [q \in Known(s)' |-> row_amount'[q][s]] = [q \in Known(s) |-> row_amount[q][s]]
      BY <3>2, <3>3
    <3>5. Recorded(s)' = Recorded(s)
      BY <3>4 DEF Recorded
    <3> QED
      BY <1>1, <2>1, <3>5
  <2> QED
    BY <2>2, <2>3, <2>4
<1> QED
  BY <1>2, <1>3, <1>4, RowsKept

-----------------------------------------------------------------------------
(* The theorems *)

LEMMA RecordsStep == TypeOK /\ Records /\ [Next]_vars => Records'
<1> SUFFICES ASSUME TypeOK, Records, [Next]_vars PROVE Records'
  OBVIOUS
<1>1. TypeOK'
  BY TypeStep
<1>2. RefundsInOrder'
  BY OrderStep DEF Records
<1> QED
  BY <1>1, <1>2, RowsStep, OwnStep, CallsStep, WholeStep, SweepStep DEF Records

(* The inductive invariant: what each row, each open transaction and each  *)
(* stage of the sweep says of Stripe's refunds is so.                      *)
THEOREM RecordsAreRight == Spec => []Records
BY RecordsInit, RecordsStep, TypeInit, TypeStep, PTL DEF Spec

(* A refund of the charge is recorded whole or not at all, even one that   *)
(* was shared out over a batch with other refunds in flight.               *)
THEOREM RefundsAreRecordedWhole == Spec => []RecordedWhole
<1>1. Records => RecordedWhole
  BY DEF Records
<1> QED
  BY <1>1, RecordsAreRight, PTL

(* Whatever crashes and is dispatched again, the sweep cancels no ticket   *)
(* whose money is still due without a FAILED row to show for it.           *)
THEOREM SweepIsAccountedFor == Spec => []SweptIsAccountedFor
<1>1. Records => SweptIsAccountedFor
  BY DEF Records, SweepAccounts, Accounted, SweptIsAccountedFor
<1> QED
  BY <1>1, RecordsAreRight, PTL

-----------------------------------------------------------------------------
(* Paying a ticket back twice *)

SentRefunds(p) == {x \in StripeRefund : re_ticket[x] = p}

LEMMA SentType ==
  ASSUME TypeOK, NEW p \in Payment
  PROVE  SentFor(p) \in Nat
<1> DEFINE f == [s \in SentRefunds(p) |-> re_amount[s]]
<1>1. DOMAIN f = SentRefunds(p) /\ IsFiniteSet(SentRefunds(p))
  BY RefundsFinite DEF SentRefunds
<1>2. SentFor(p) = Total(f)
  BY DEF SentFor, SentRefunds
<1> HIDE DEF f
<1> QED
  BY <1>1, <1>2, UnitsFinite

(* A refund made for another, or for nobody, sends p nothing. *)
LEMMA SentKept ==
  ASSUME TypeOK, NEW p \in Payment,
         \A x \in StripeRefund :
           /\ re_ticket'[x] = p <=> re_ticket[x] = p
           /\ re_ticket[x] = p => re_amount'[x] = re_amount[x]
  PROVE  SentFor(p)' = SentFor(p)
<1>1. SentRefunds(p)' = SentRefunds(p)
  BY DEF SentRefunds
<1>2. \A s \in SentRefunds(p) : re_amount'[s] = re_amount[s]
  BY DEF SentRefunds
<1>3. [s \in SentRefunds(p)' |-> re_amount'[s]] = [s \in SentRefunds(p) |-> re_amount[s]]
  BY <1>1, <1>2
<1> QED
  BY <1>3 DEF SentFor, SentRefunds

LEMMA SentGrows ==
  ASSUME TypeOK, RefundsInOrder, NEW p \in Payment, NEW s \in StripeRefund, NEW n \in 1..MaxAmount,
         MakesRefund(s, n), re_ticket' = [re_ticket EXCEPT ![s] = p]
  PROVE  SentFor(p)' = SentFor(p) + n
<1> DEFINE D == SentRefunds(p)
<1> DEFINE E == SentRefunds(p)'
<1> DEFINE f == [x \in SentRefunds(p) |-> re_amount[x]]
<1> DEFINE g == [x \in SentRefunds(p)' |-> re_amount'[x]]
<1>1. re_ticket[s] = Nil /\ re_amount'[s] = n
      /\ \A x \in StripeRefund : x # s => re_amount'[x] = re_amount[x]
  BY NewRefund
<1>2. s \notin D /\ E = D \cup {s}
  BY <1>1, NilAssumption DEF SentRefunds, TypeOK
<1>3. D \subseteq StripeRefund
  BY DEF SentRefunds
<1>4. IsFiniteSet(E)
  BY <1>2, <1>3, RefundsFinite
<1>5. DOMAIN f = D /\ DOMAIN g = E
  OBVIOUS
<1>6. \A x \in D : x # s => f[x] = g[x]
  BY <1>1, <1>2, <1>3
<1>7. g[s] = n /\ g[s] \in Nat /\ g[s] <= MaxAmount
  BY <1>1, <1>2, BoundsAssumption
<1>8. SentFor(p) = Total(f) /\ SentFor(p)' = Total(g)
  BY DEF SentFor, SentRefunds
<1> HIDE DEF D, E, f, g
<1>9. D \subseteq E /\ s \in E /\ E \subseteq D \cup {s} /\ (s \in D => f[s] = 0)
  BY <1>2
<1>10. Total(g) = Total(f) + g[s]
  BY <1>4, <1>5, <1>6, <1>7, <1>9, TotalGrows
<1> QED
  BY <1>7, <1>8, <1>10

(* With no refund missing, the rows know of all that was sent. *)
LEMMA SentIsTaken ==
  ASSUME TypeOK, Records, NEW p \in Payment, call[p] = Nil, Missing(p) = {}
  PROVE  SentFor(p) <= Taken(p)
<1> DEFINE f == [x \in SentRefunds(p) |-> re_amount[x]]
<1> DEFINE g == row_amount[p]
<1>1. \A x \in SentRefunds(p) : row_status[p][x] # "none"
  BY NilAssumption DEF Missing, SentRefunds, StripeRefund
<1>2. \A x \in SentRefunds(p) : row_amount[p][x] = re_amount[x]
  BY <1>1 DEF SentRefunds, Records, RowsAreTheirOwn
<1>3. SentRefunds(p) \subseteq StripeRefund /\ IsFiniteSet(StripeRefund)
  BY RefundsFinite DEF SentRefunds
<1>4. DOMAIN f = SentRefunds(p) /\ DOMAIN g = StripeRefund
  BY DEF TypeOK
<1>5. \A x \in SentRefunds(p) : f[x] \in Nat /\ g[x] \in Nat /\ f[x] <= g[x]
  BY <1>2, <1>3 DEF TypeOK
<1>6. SentFor(p) = Total(f) /\ Taken(p) = Total(g)
  BY DEF SentFor, SentRefunds, Taken
<1> HIDE DEF f, g
<1>7. Total(f) <= Total(g)
  BY <1>3, <1>4, <1>5, TotalMonotone
<1> QED
  BY <1>6, <1>7

LEMMA DoubledStep ==
  ASSUME TypeOK, Records, [Next]_vars, NEW p \in Payment,
         SentFor(p) <= Price[p], SentFor(p)' > Price[p]
  PROVE  Missing(p) # {}
<1>1. SentFor(p)' # SentFor(p)
  <2>1. SentFor(p) \in Nat /\ Price[p] \in Nat
    BY SentType, PriceAssumption, BoundsAssumption
  <2> QED
    BY <2>1
<1>2. ASSUME NEW who \in Caller, CallStripe(p, who), Missing(p) = {} PROVE FALSE
  <2>1. PICK n \in 1..Remaining(p), s \in StripeRefund :
          MakesRefund(s, n) /\ re_ticket' = [re_ticket EXCEPT ![s] = p]
    BY <1>2, AskedRefund
  <2>2. SentFor(p)' = SentFor(p) + n
    BY <2>1, SentGrows DEF Records, MakesRefund
  <2>3. SentFor(p) <= Taken(p)
    BY <1>2, SentIsTaken DEF CallStripe, Locked
  <2>4. /\ Taken(p) \in Nat /\ Price[p] \in Nat
        /\ Remaining(p) = 0 \/ Remaining(p) = Price[p] - Taken(p)
    BY TakenType, BoundsAssumption
  <2>5. SentFor(p) \in Nat
    BY SentType
  <2>6. n \in Nat /\ n <= Price[p] - Taken(p)
    BY <2>1, <2>4
  <2>7. SentFor(p) + n <= Price[p]
    BY <2>3, <2>4, <2>5, <2>6
  <2> QED
    BY <2>2, <2>4, <2>5, <2>6, <2>7
<1>3. ASSUME NEW q \in Payment, NEW who \in Caller, CallStripe(q, who), q # p
      PROVE  SentFor(p)' = SentFor(p)
  <2>1. PICK n \in 1..Remaining(q), s \in StripeRefund :
          MakesRefund(s, n) /\ re_ticket' = [re_ticket EXCEPT ![s] = q]
    BY <1>3, AskedRefund
  <2>2. /\ re_ticket[s] = Nil
        /\ \A x \in StripeRefund : x # s => re_amount'[x] = re_amount[x]
    BY <2>1, NewRefund DEF Records
  <2>3. Nil # p
    BY NilAssumption
  <2> QED
    BY <1>3, <2>1, <2>2, <2>3, SentKept DEF TypeOK
<1>4. ASSUME DashboardRefund PROVE SentFor(p)' = SentFor(p)
  <2>1. PICK s \in StripeRefund, n \in 1..MaxAmount : MakesRefund(s, n)
    BY <1>4, DashboardMakesRefund
  <2>2. /\ re_ticket[s] = Nil
        /\ \A x \in StripeRefund : x # s => re_amount'[x] = re_amount[x]
    BY <2>1, NewRefund DEF Records
  <2>3. Nil # p /\ re_ticket' = re_ticket
    BY <1>4, NilAssumption DEF DashboardRefund
  <2> QED
    BY <2>2, <2>3, SentKept
<1>5. ASSUME UNCHANGED <<re_amount, re_ticket>> PROVE SentFor(p)' = SentFor(p)
  BY <1>5 DEF SentFor
<1>6. ASSUME NEW q \in Payment, NEW who \in Caller, StripeRefuses(q, who)
      PROVE  UNCHANGED <<re_amount, re_ticket>>
  BY <1>6 DEF StripeRefuses
<1>7. ASSUME NEW q \in Payment,
             \/ Commit(q) \/ AnswerLost(q)
             \/ CancelTicket(q) \/ SweepDispatch(q) \/ SweepFindsNothing(q)
             \/ SweepCancels(q) \/ SweepStops(q)
             \/ RecordFailure(q) \/ FailureUnrecorded(q) \/ SweepRecordsFailure(q)
      PROVE  UNCHANGED <<re_amount, re_ticket>>
  BY <1>7 DEF Commit, AnswerLost, CancelTicket, SweepDispatch, SweepFindsNothing, SweepCancels,
              SweepStops,
              RecordFailure, FailureUnrecorded, SweepRecordsFailure, stripe
<1>8. ASSUME NEW s \in StripeRefund, Deliver(s) \/ ApplyRefund(s)
      PROVE  UNCHANGED <<re_amount, re_ticket>>
  BY <1>8 DEF Deliver, ApplyRefund, stripe
<1>9. ASSUME ForgetKeys \/ UNCHANGED vars PROVE UNCHANGED <<re_amount, re_ticket>>
  BY <1>9 DEF ForgetKeys, vars, stripe
<1> QED
  BY <1>1, <1>2, <1>3, <1>4, <1>5, <1>6, <1>7, <1>8, <1>9 DEF Next

(* The amounts in flight count and the Payment is locked across the call:  *)
(* only a refund whose answer was lost lets a ticket be paid back twice.   *)
THEOREM DoublingNeedsALoss == Spec => DoubledOnlyAfterLoss
<1>1. TypeOK /\ Records /\ [Next]_vars =>
        [\A p \in Payment :
           SentFor(p) <= Price[p] /\ SentFor(p)' > Price[p] => Missing(p) # {}]_vars
  BY DoubledStep
<1> QED
  BY <1>1, TypeCorrect, RecordsAreRight, PTL DEF Spec, DoubledOnlyAfterLoss

-----------------------------------------------------------------------------
(* The rows and the charge *)

(* Counting fiber by fiber: a set of pairs with no more pairs over each    *)
(* first component than another has no more pairs in all.                  *)
LEMMA InjectionExists ==
  ASSUME NEW S, NEW T, IsFiniteSet(S), IsFiniteSet(T), Cardinality(S) <= Cardinality(T)
  PROVE  Injection(S, T) # {}
<1>1. /\ Cardinality(S) \in Nat /\ ExistsBijection(1..Cardinality(S), S)
      /\ Cardinality(T) \in Nat /\ ExistsBijection(1..Cardinality(T), T)
  BY FS_CardinalityType
<1>2. ExistsInjection(1..Cardinality(S), 1..Cardinality(T))
  BY <1>1, Fun_NatInjLeq
<1>3. ExistsInjection(S, 1..Cardinality(S))
  BY <1>1, Fun_ExistsBijEquiv
<1>4. ExistsInjection(1..Cardinality(T), T)
  BY <1>1, Fun_ExistsBijEquiv
<1>5. ExistsInjection(S, T)
  <2>1. ExistsInjection(S, 1..Cardinality(T))
    BY <1>2, <1>3, Fun_ExistsInjTransitive
  <2> QED
    BY <2>1, <1>4, Fun_ExistsInjTransitive
<1> QED
  BY <1>5, Fun_ExistsInj

Over(k, X, U) == {u \in U : <<k, u>> \in X}

LEMMA FibersCount ==
  ASSUME NEW K, NEW U, NEW V, NEW X \in SUBSET (K \X U), NEW Y \in SUBSET (K \X V),
         IsFiniteSet(K), IsFiniteSet(U), IsFiniteSet(V),
         \A k \in K : Cardinality(Over(k, X, U)) <= Cardinality(Over(k, Y, V))
  PROVE  Cardinality(X) <= Cardinality(Y)
<1> DEFINE inj == [k \in K |-> CHOOSE f : f \in Injection(Over(k, X, U), Over(k, Y, V))]
<1> DEFINE g == [x \in X |-> <<x[1], inj[x[1]][x[2]]>>]
<1>1. ASSUME NEW k \in K
      PROVE  inj[k] \in Injection(Over(k, X, U), Over(k, Y, V))
  <2>1. IsFiniteSet(Over(k, X, U)) /\ IsFiniteSet(Over(k, Y, V))
    BY FS_Subset DEF Over
  <2>2. Injection(Over(k, X, U), Over(k, Y, V)) # {}
    BY <2>1, InjectionExists
  <2> QED
    BY <2>2
<1>2. ASSUME NEW x \in X
      PROVE  /\ x = <<x[1], x[2]>> /\ x[1] \in K /\ x[2] \in Over(x[1], X, U)
             /\ inj[x[1]][x[2]] \in Over(x[1], Y, V)
  <2>1. x = <<x[1], x[2]>> /\ x[1] \in K /\ x[2] \in U
    OBVIOUS
  <2>2. x[2] \in Over(x[1], X, U)
    BY <2>1 DEF Over
  <2>3. inj[x[1]] \in [Over(x[1], X, U) -> Over(x[1], Y, V)]
    BY <1>1, <2>1, Fun_InjectionProperties
  <2> HIDE DEF inj
  <2> QED
    BY <2>1, <2>2, <2>3
<1> HIDE DEF inj
<1>3. g \in [X -> Y]
  BY <1>2 DEF Over
<1>4. ASSUME NEW x \in X, NEW y \in X, g[x] = g[y] PROVE x = y
  <2>1. x[1] = y[1] /\ inj[x[1]][x[2]] = inj[x[1]][y[2]]
    BY <1>4
  <2>2. x[2] \in Over(x[1], X, U) /\ y[2] \in Over(x[1], X, U)
    BY <1>2, <2>1
  <2>3. \A a, b \in Over(x[1], X, U) : inj[x[1]][a] = inj[x[1]][b] => a = b
    BY <1>1, <1>2, Fun_InjectionProperties
  <2>4. x[2] = y[2]
    BY <2>1, <2>2, <2>3
  <2> QED
    BY <1>2, <2>1, <2>4
<1> HIDE DEF g
<1>5. g \in Injection(X, Y)
  BY <1>3, <1>4, Fun_IsInj
<1>6. IsFiniteSet(Y)
  BY FS_Product, FS_Subset
<1> QED
  BY <1>5, <1>6, FS_Injection

(* When the rows take every payment in full, and no more of any refund     *)
(* than its amount, the amounts come to the whole charge.                  *)
LEMMA DoubleCount ==
  ASSUME NEW R \in [Payment -> [StripeRefund -> Nat]],
         NEW A \in [StripeRefund -> Nat],
         \A s \in StripeRefund : A[s] <= MaxAmount,
         \A p \in Payment : Price[p] <= Total(R[p]),
         \A s \in StripeRefund : Total([p \in Payment |-> R[p][s]]) <= A[s]
  PROVE  Charge <= Total(A)
<1> DEFINE Unit == 1..MaxAmount
<1> DEFINE ByPayment == {w \in Payment \X (StripeRefund \X Unit) : w[2][2] <= R[w[1]][w[2][1]]}
<1> DEFINE ByRefund == {v \in StripeRefund \X (Payment \X Unit) : v[2][2] <= R[v[2][1]][v[1]]}
<1>1. /\ IsFiniteSet(Unit) /\ IsFiniteSet(StripeRefund) /\ IsFiniteSet(Payment)
      /\ IsFiniteSet(StripeRefund \X Unit) /\ IsFiniteSet(Payment \X Unit)
  <2>1. IsFiniteSet(Unit)
    BY BoundsAssumption, FS_Interval
  <2>2. IsFiniteSet(StripeRefund) /\ IsFiniteSet(Payment)
    BY PaymentAssumption, RefundsFinite
  <2> HIDE DEF Unit
  <2> QED
    BY <2>1, <2>2, FS_Product
<1>2. DOMAIN Price = Payment /\ DOMAIN A = StripeRefund
  BY PriceAssumption
<1>3. Units(Price) \in SUBSET (Payment \X Unit) /\ Units(A) \in SUBSET (StripeRefund \X Unit)
  BY <1>2 DEF Units
<1>4. ASSUME NEW n \in Nat, n <= MaxAmount PROVE Cardinality({i \in Unit : i <= n}) = n
  <2>1. {i \in Unit : i <= n} = 1..n
    BY <1>4, BoundsAssumption
  <2>2. Cardinality(1..n) = n
    BY FS_Interval
  <2> QED
    BY <2>1, <2>2
<1>5. Cardinality(Units(Price)) <= Cardinality(ByPayment)
  <2>1. ASSUME NEW p \in Payment
        PROVE  Cardinality(Over(p, Units(Price), Unit))
                 <= Cardinality(Over(p, ByPayment, StripeRefund \X Unit))
    <3>1. Over(p, Units(Price), Unit) = {i \in Unit : i <= Price[p]}
      BY <1>2 DEF Over, Units
    <3>2. Price[p] \in Nat /\ Price[p] <= MaxAmount
      BY PriceAssumption, BoundsAssumption
    <3>3. Cardinality(Over(p, Units(Price), Unit)) = Price[p]
      BY <1>4, <3>1, <3>2
    <3>4. Over(p, ByPayment, StripeRefund \X Unit) = Units(R[p])
      BY DEF Over, Units
    <3>5. Total(R[p]) = Cardinality(Units(R[p]))
      BY <1>1, UnitsFinite
    <3> QED
      BY <3>3, <3>4, <3>5
  <2>2. ByPayment \in SUBSET (Payment \X (StripeRefund \X Unit))
    OBVIOUS
  <2> DEFINE Below == StripeRefund \X Unit
  <2> DEFINE X == Units(Price)
  <2>3. /\ X \in SUBSET (Payment \X Unit) /\ ByPayment \in SUBSET (Payment \X Below)
        /\ IsFiniteSet(Below)
        /\ \A p \in Payment : Cardinality(Over(p, X, Unit)) <= Cardinality(Over(p, ByPayment, Below))
    BY <1>1, <1>3, <2>1, <2>2
  <2> HIDE DEF ByPayment, Unit, Below, X
  <2>4. Cardinality(X) <= Cardinality(ByPayment)
    BY <1>1, <2>3, FibersCount
  <2> QED
    BY <2>4 DEF X
<1>6. Cardinality(ByPayment) <= Cardinality(ByRefund)
  <2> DEFINE flip == [w \in ByPayment |-> <<w[2][1], <<w[1], w[2][2]>>>>]
  <2>1. flip \in [ByPayment -> ByRefund]
    OBVIOUS
  <2>2. ASSUME NEW v \in ByPayment, NEW w \in ByPayment, flip[v] = flip[w] PROVE v = w
    <3>1. v = <<v[1], <<v[2][1], v[2][2]>>>> /\ w = <<w[1], <<w[2][1], w[2][2]>>>>
      OBVIOUS
    <3>2. v[2][1] = w[2][1] /\ v[1] = w[1] /\ v[2][2] = w[2][2]
      BY <2>2
    <3> QED
      BY <3>1, <3>2
  <2>3. IsFiniteSet(ByRefund)
    BY <1>1, FS_Product, FS_Subset
  <2> HIDE DEF flip, ByPayment, ByRefund
  <2> QED
    BY <2>1, <2>2, <2>3, Fun_IsInj, FS_Injection
<1>7. Cardinality(ByRefund) <= Cardinality(Units(A))
  <2>1. ASSUME NEW s \in StripeRefund
        PROVE  Cardinality(Over(s, ByRefund, Payment \X Unit))
                 <= Cardinality(Over(s, Units(A), Unit))
    <3> DEFINE col == [p \in Payment |-> R[p][s]]
    <3>1. Over(s, ByRefund, Payment \X Unit) = Units(col)
      BY DEF Over, Units
    <3>2. Total(col) = Cardinality(Units(col))
      BY <1>1, UnitsFinite
    <3>3. Over(s, Units(A), Unit) = {i \in Unit : i <= A[s]}
      BY <1>2 DEF Over, Units
    <3>4. Cardinality(Over(s, Units(A), Unit)) = A[s]
      BY <1>4, <3>3
    <3>5. Total(col) <= A[s]
      OBVIOUS
    <3> HIDE DEF col
    <3> QED
      BY <3>1, <3>2, <3>4, <3>5
  <2>2. ByRefund \in SUBSET (StripeRefund \X (Payment \X Unit))
    OBVIOUS
  <2> DEFINE Below == Payment \X Unit
  <2> DEFINE Y == Units(A)
  <2>3. /\ Y \in SUBSET (StripeRefund \X Unit) /\ ByRefund \in SUBSET (StripeRefund \X Below)
        /\ IsFiniteSet(Below)
        /\ \A s \in StripeRefund : Cardinality(Over(s, ByRefund, Below)) <= Cardinality(Over(s, Y, Unit))
    BY <1>1, <1>3, <2>1, <2>2
  <2> HIDE DEF ByRefund, Unit, Below, Y
  <2>4. Cardinality(ByRefund) <= Cardinality(Y)
    BY <1>1, <2>3, FibersCount
  <2> QED
    BY <2>4 DEF Y
<1>8. Charge = Cardinality(Units(Price)) /\ Total(A) = Cardinality(Units(A))
  BY <1>1, <1>2, UnitsFinite DEF Charge
<1>9. /\ Cardinality(Units(Price)) \in Nat /\ Cardinality(Units(A)) \in Nat
      /\ Cardinality(ByPayment) \in Nat /\ Cardinality(ByRefund) \in Nat
  <2>1. IsFiniteSet(ByPayment) /\ IsFiniteSet(ByRefund)
    BY <1>1, FS_Product, FS_Subset
  <2> HIDE DEF ByPayment, ByRefund
  <2> QED
    BY <1>1, <1>2, <2>1, UnitsFinite, FS_CardinalityType
<1> HIDE DEF ByPayment, ByRefund, Unit
<1> QED
  BY <1>5, <1>6, <1>7, <1>8, <1>9

(* Stripe refunds no more than it captured. *)
WithinCharge == Total(re_amount) <= Charge

(* Every row of p is of a refund made for p, or p has been paid back to    *)
(* the cent by all the refunds made for it and by those of the dashboard.  *)
OwnRowsOnly(p) == \A s \in StripeRefund : row_status[p][s] # "none" => re_ticket[s] = p
PaidBack(p) ==
  /\ Taken(p) = Price[p]
  /\ \A s \in StripeRefund : re_ticket[s] = p => row_status[p][s] # "none"

Single == Cardinality(Payment) = 1

(* The invariant behind LedgerHolds, for a charge of several payments.     *)
Shares ==
  /\ WithinCharge
  /\ ~Single /\ NoDoubleRefund => \A p \in Payment : OwnRowsOnly(p) \/ PaidBack(p)

LEMMA WithinChargeStep ==
  ASSUME TypeOK, Records, WithinCharge, [Next]_vars PROVE WithinCharge'
<1>1. DOMAIN re_amount = StripeRefund /\ IsFiniteSet(StripeRefund)
  BY RefundsFinite DEF TypeOK
<1>2. Total(re_amount) \in Nat
  BY <1>1, UnitsFinite
<1>3. Charge \in Nat
  BY PriceAssumption, PaymentAssumption, UnitsFinite DEF Charge
<1>4. ASSUME NEW s \in StripeRefund, NEW n \in 1..MaxAmount, MakesRefund(s, n), n <= Left
      PROVE  WithinCharge'
  <2>1. /\ re_amount[s] = 0 /\ re_amount'[s] = n
        /\ \A x \in StripeRefund : x # s => re_amount'[x] = re_amount[x]
    BY <1>4, NewRefund DEF Records
  <2>2. DOMAIN re_amount' = StripeRefund
    BY <1>1, <1>4 DEF MakesRefund
  <2>3. n \in Nat /\ n <= MaxAmount
    BY BoundsAssumption
  <2> DEFINE f == re_amount
  <2> DEFINE g == re_amount'
  <2>4. DOMAIN f = StripeRefund /\ DOMAIN g = StripeRefund /\ f[s] = 0 /\ g[s] = n
        /\ \A x \in StripeRefund : x # s => f[x] = g[x]
    BY <1>1, <2>1, <2>2
  <2> HIDE DEF f, g
  <2>5. StripeRefund \subseteq StripeRefund \cup {s}
    OBVIOUS
  <2>6. Total(g) = Total(f) + g[s]
    BY <1>1, <2>3, <2>4, <2>5, TotalGrows
  <2>7. Total(re_amount') = Total(re_amount) + n
    BY <2>4, <2>6 DEF f, g
  <2>8. n <= Charge - Total(re_amount)
    BY <1>4 DEF Left
  <2>9. Charge' = Charge
    BY DEF Charge
  <2> QED
    BY <1>2, <1>3, <2>3, <2>7, <2>8, <2>9 DEF WithinCharge
<1>5. ASSUME NEW p \in Payment, NEW who \in Caller, CallStripe(p, who) PROVE WithinCharge'
  <2>1. PICK n \in 1..Remaining(p), s \in StripeRefund : MakesRefund(s, n) /\ n <= Left
    BY <1>5, AskedRefund
  <2> QED
    BY <1>4, <2>1 DEF MakesRefund
<1>6. ASSUME DashboardRefund PROVE WithinCharge'
  BY <1>4, <1>6, DashboardMakesRefund
<1>7. ASSUME UNCHANGED re_amount PROVE WithinCharge'
  BY <1>7 DEF WithinCharge, Charge
<1>8. ASSUME NEW p \in Payment, NEW who \in Caller, StripeRefuses(p, who)
      PROVE  UNCHANGED re_amount
  BY <1>8 DEF StripeRefuses
<1>9. ASSUME NEW p \in Payment,
             \/ Commit(p) \/ AnswerLost(p)
             \/ CancelTicket(p) \/ SweepDispatch(p) \/ SweepFindsNothing(p)
             \/ SweepCancels(p) \/ SweepStops(p)
             \/ RecordFailure(p) \/ FailureUnrecorded(p) \/ SweepRecordsFailure(p)
      PROVE  UNCHANGED re_amount
  BY <1>9 DEF Commit, AnswerLost, CancelTicket, SweepDispatch, SweepFindsNothing, SweepCancels,
              SweepStops,
              RecordFailure, FailureUnrecorded, SweepRecordsFailure, stripe
<1>10. ASSUME NEW s \in StripeRefund, Deliver(s) \/ ApplyRefund(s)
       PROVE  UNCHANGED re_amount
  BY <1>10 DEF Deliver, ApplyRefund, stripe
<1>11. ASSUME ForgetKeys \/ UNCHANGED vars PROVE UNCHANGED re_amount
  BY <1>11 DEF ForgetKeys, vars, stripe
<1> QED
  BY <1>5, <1>6, <1>7, <1>8, <1>9, <1>10, <1>11 DEF Next

(* A refund that names no ticket and has no row is matched, in a charge of *)
(* several payments, to all that is still owed: to everything unrefunded,  *)
(* each of which gets its remainder.                                       *)
LEMMA DashboardMatch ==
  ASSUME TypeOK, Records, ~Single, NEW s \in StripeRefund, Known(s) = {}, Named(s) = {},
         NEW p \in Match(s)
  PROVE  /\ Match(s) = Unrefunded
         /\ \A q \in Match(s) : Share(q, Match(s), s) = Remaining(q)
<1>1. Match(s) = OrElse(Sole(s), WholeBatch(s))
  BY DEF Match, OrElse, Only, Single
<1>2. Unrefunded \in SUBSET Payment /\ Exact(s) \in SUBSET Payment
  BY DEF Unrefunded, Exact
<1>3. CASE Sole(s) # {}
  <2>1. Match(s) = Exact(s) /\ Cardinality(Exact(s)) = 1 /\ Uniform
    BY <1>1, <1>3 DEF OrElse, Sole
  <2>2. IsFiniteSet(Exact(s))
    BY <1>2, PaymentsFinite
  <2>3. PICK o : Exact(s) = {o}
    BY <2>1, <2>2, FS_Singleton
  <2>4. o \in Unrefunded /\ Remaining(o) = re_amount[s]
    BY <2>3 DEF Exact
  <2>5. \A q \in Unrefunded : q \in Exact(s)
    BY <2>1, <2>4 DEF Uniform, Exact
  <2>6. Match(s) = Unrefunded /\ Match(s) = {o}
    BY <2>1, <2>3, <2>4, <2>5
  <2>7. Share(o, Match(s), s) = re_amount[s]
    <3>1. Cardinality(Match(s)) = 1
      BY <2>6, FS_Singleton
    <3> QED
      BY <3>1 DEF Share
  <2> QED
    BY <2>4, <2>6, <2>7
<1>4. CASE Sole(s) = {}
  <2>1. Match(s) = WholeBatch(s)
    BY <1>1, <1>4 DEF OrElse
  <2>2. Match(s) = Unrefunded /\ Total([o \in Unrefunded |-> Remaining(o)]) = re_amount[s]
    BY <2>1 DEF WholeBatch
  <2>3. IsFiniteSet(Unrefunded) /\ Cardinality(Unrefunded) \in Nat
    BY <1>2, PaymentsFinite
  <2>4. CASE Cardinality(Unrefunded) > 1
    BY <2>2, <2>4 DEF Share
  <2>5. CASE ~(Cardinality(Unrefunded) > 1)
    <3>1. Cardinality(Unrefunded) # 0
      BY <2>2, <2>3, FS_EmptySet
    <3>2. Cardinality(Unrefunded) = 1
      BY <2>3, <2>5, <3>1
    <3>3. PICK o : Unrefunded = {o}
      BY <2>3, <3>2, FS_Singleton
    <3> DEFINE f == [q \in Unrefunded |-> Remaining(q)]
    <3>4. DOMAIN f = {o} /\ f[o] = Remaining(o) /\ Remaining(o) \in Nat /\ Remaining(o) <= MaxAmount
      BY <1>2, <3>3, TakenType, BoundsAssumption
    <3>5. Total(f) = re_amount[s]
      BY <2>2
    <3> HIDE DEF f
    <3>6. Total(f) = f[o]
      BY <3>4, TotalOfOne
    <3> QED
      BY <2>2, <2>5, <3>3, <3>4, <3>5, <3>6 DEF Share
  <2> QED
    BY <2>4, <2>5
<1> QED
  BY <1>3, <1>4

LEMMA SettledIsTaken ==
  ASSUME TypeOK, NEW p \in Payment
  PROVE  Settled(p) <= Taken(p) /\ Settled(p) \in Nat
<1> DEFINE D == {x \in StripeRefund : row_status[p][x] = "SUCCEEDED"}
<1> DEFINE f == [s \in D |-> row_amount[p][s]]
<1> DEFINE g == row_amount[p]
<1>1. DOMAIN f = D /\ DOMAIN g = StripeRefund /\ D \subseteq StripeRefund
  BY DEF TypeOK
<1>2. IsFiniteSet(StripeRefund) /\ IsFiniteSet(D)
  BY RefundsFinite
<1>3. \A x \in D : f[x] \in Nat /\ g[x] \in Nat /\ f[x] <= g[x]
  BY DEF TypeOK
<1>4. Settled(p) = Total(f) /\ Taken(p) = Total(g)
  BY DEF Settled, Taken
<1> HIDE DEF D, f, g
<1> QED
  BY <1>1, <1>2, <1>3, <1>4, TotalMonotone, UnitsFinite

(* Once every payment is taken in full, no refund made for one is missing  *)
(* from its rows: the charge has no room for it.                           *)
FullyTaken == \A q \in Payment : Price[q] <= Taken(q)
AllRecorded ==
  \A p \in Payment, s \in StripeRefund : re_ticket[s] = p => row_status[p][s] # "none"

LEMMA FullIsRecorded == TypeOK /\ Records /\ WithinCharge /\ FullyTaken => AllRecorded
<1> SUFFICES ASSUME TypeOK, Records, WithinCharge, FullyTaken,
                    NEW p \in Payment, NEW u \in StripeRefund,
                    re_ticket[u] = p, row_status[p][u] = "none"
             PROVE  FALSE
  BY DEF AllRecorded
<1> DEFINE A == [re_amount EXCEPT ![u] = 0]
<1>1. re_amount[u] > 0 /\ re_amount[u] <= MaxAmount /\ re_amount[u] \in Nat
  BY NilAssumption DEF TypeOK, Records, RefundsInOrder
<1>2. Known(u) = {}
  BY DEF Known, Records, RowsAreTheirOwn
<1>3. ASSUME NEW s \in StripeRefund
      PROVE  Total([q \in Payment |-> row_amount[q][s]]) = Recorded(s)
  <2> DEFINE f == [q \in Known(s) |-> row_amount[q][s]]
  <2> DEFINE g == [q \in Payment |-> row_amount[q][s]]
  <2>1. Known(s) \subseteq Payment /\ DOMAIN f = Known(s) /\ DOMAIN g = Payment
    BY DEF Known
  <2>2. \A q \in Known(s) : f[q] = g[q]
    BY <2>1
  <2>3. \A q \in Payment \ Known(s) : g[q] = 0
    BY DEF Known, Records, RowsAreOfRefunds
  <2>4. Recorded(s) = Total(f)
    BY DEF Recorded
  <2> HIDE DEF f, g
  <2>5. Total(g) = Total(f)
    BY <2>1, <2>2, <2>3, TotalDropsZeros
  <2> QED
    BY <2>4, <2>5 DEF g
<1>4. Recorded(u) = 0
  BY <1>2, TotalEmpty DEF Recorded
<1>5. A \in [StripeRefund -> Nat] /\ A[u] = 0
      /\ \A s \in StripeRefund : s # u => A[s] = re_amount[s]
  BY DEF TypeOK
<1>6. \A s \in StripeRefund : A[s] <= MaxAmount
  BY <1>5, BoundsAssumption DEF Records, RefundsInOrder
<1> HIDE DEF A
<1>7. \A s \in StripeRefund : Recorded(s) \in {0, re_amount[s]}
  BY RecordedIsWhole DEF Records
<1>8. \A s \in StripeRefund : Total([q \in Payment |-> row_amount[q][s]]) <= A[s]
  <2> SUFFICES ASSUME NEW s \in StripeRefund PROVE Recorded(s) <= A[s]
    BY <1>3
  <2>1. CASE s = u
    BY <1>4, <1>5, <2>1
  <2>2. CASE s # u
    BY <1>5, <1>7, <2>2
  <2> QED
    BY <2>1, <2>2
<1>9. \A q \in Payment : Price[q] <= Total(row_amount[q])
  BY DEF FullyTaken, Taken
<1>10. row_amount \in [Payment -> [StripeRefund -> Nat]]
  BY DEF TypeOK
<1>11. Charge <= Total(A)
  BY <1>5, <1>6, <1>8, <1>9, <1>10, DoubleCount
<1>12. Total(re_amount) = Total(A) + re_amount[u]
  <2>1. IsFiniteSet(StripeRefund) /\ DOMAIN A = StripeRefund /\ DOMAIN re_amount = StripeRefund
    BY <1>5, RefundsFinite DEF TypeOK
  <2>2. StripeRefund \subseteq StripeRefund \cup {u}
    OBVIOUS
  <2> DEFINE g == re_amount
  <2>3. DOMAIN g = StripeRefund /\ g[u] \in Nat /\ g[u] <= MaxAmount
        /\ \A s \in StripeRefund : s # u => A[s] = g[s]
    BY <1>1, <1>5, <2>1
  <2> HIDE DEF g
  <2>4. Total(g) = Total(A) + g[u]
    BY <1>5, <2>1, <2>2, <2>3, TotalGrows
  <2> QED
    BY <2>4 DEF g
<1>13. Total(A) \in Nat /\ Charge \in Nat
  <2>1. IsFiniteSet(StripeRefund) /\ DOMAIN A = StripeRefund
    BY <1>5, RefundsFinite
  <2>2. DOMAIN Price = Payment
    BY PriceAssumption
  <2> QED
    BY <2>1, <2>2, PaymentAssumption, UnitsFinite DEF Charge
<1> QED
  BY <1>1, <1>11, <1>12, <1>13 DEF WithinCharge

(* What was sent for a ticket only grows. *)
LEMMA SentNeverFalls ==
  ASSUME TypeOK, TypeOK', Records, [Next]_vars, NEW p \in Payment
  PROVE  SentFor(p) <= SentFor(p)' /\ SentFor(p)' \in Nat
<1> DEFINE D == SentRefunds(p)
<1> DEFINE E == SentRefunds(p)'
<1> DEFINE f == [x \in SentRefunds(p) |-> re_amount[x]]
<1> DEFINE g == [x \in SentRefunds(p)' |-> re_amount'[x]]
<1>1. D \subseteq StripeRefund /\ E \subseteq StripeRefund /\ IsFiniteSet(E)
  BY RefundsFinite DEF SentRefunds
<1>2. ASSUME NEW x \in D PROVE x \in E /\ re_amount'[x] = re_amount[x]
  <2>1. x \in StripeRefund /\ re_ticket[x] = p
    BY DEF SentRefunds
  <2>2. re_amount[x] > 0
    BY <2>1, NilAssumption DEF TypeOK, Records, RefundsInOrder
  <2> QED
    BY <2>1, <2>2, RefundsGrow DEF SentRefunds, Records
<1>3. DOMAIN f = D /\ DOMAIN g = E
  OBVIOUS
<1>4. \A x \in D : f[x] \in Nat /\ g[x] \in Nat /\ f[x] <= g[x]
  BY <1>1, <1>2 DEF TypeOK
<1>5. SentFor(p) = Total(f) /\ SentFor(p)' = Total(g)
  BY DEF SentFor, SentRefunds
<1>6. D \subseteq E
  BY <1>2
<1> HIDE DEF D, E, f, g
<1> QED
  BY <1>1, <1>3, <1>4, <1>5, <1>6, TotalMonotone, UnitsFinite

(* A webhook's dashboard refund pays back all that it is shared out to.    *)
LEMMA DashboardPaysBack ==
  ASSUME TypeOK, TypeOK', Records, Records', WithinCharge, WithinCharge', ~Single,
         NEW s \in StripeRefund, ApplyRefund(s), Known(s) = {}, Named(s) = {},
         NEW p \in Match(s), \A q \in Payment : Taken(q) <= Price[q]
  PROVE  PaidBack(p)'
<1>1. /\ Match(s) = Unrefunded /\ Match(s) \in SUBSET Payment
      /\ \A q \in Match(s) : Share(q, Match(s), s) = Remaining(q)
  BY DashboardMatch, MatchType
<1>2. ASSUME NEW q \in Match(s) PROVE Taken(q)' = Price[q]
  <2> DEFINE f == row_amount[q]
  <2> DEFINE g == row_amount'[q]
  <2>1. q \in Payment /\ row_status[q][s] = "none"
    BY <1>1 DEF Known
  <2>2. DOMAIN f = StripeRefund /\ DOMAIN g = StripeRefund /\ IsFiniteSet(StripeRefund)
    BY <2>1, RefundsFinite DEF TypeOK
  <2>3. f[s] = 0 /\ \A x \in StripeRefund : x # s => f[x] = g[x]
    BY <2>1, WebhookWrites DEF Records, RowsAreOfRefunds
  <2>4. g[s] = Remaining(q)
    BY <1>1, WebhookWrites
  <2>5. /\ Remaining(q) \in Nat /\ Remaining(q) <= MaxAmount
        /\ Taken(q) \in Nat /\ Price[q] \in Nat
        /\ Remaining(q) = 0 \/ Remaining(q) = Price[q] - Taken(q)
        /\ Remaining(q) = 0 <=> Taken(q) >= Price[q]
    BY <2>1, TakenType, BoundsAssumption
  <2>6. Taken(q) = Total(f) /\ Taken(q)' = Total(g) /\ Taken(q) <= Price[q]
    BY <2>1 DEF Taken
  <2> HIDE DEF f, g
  <2>7. StripeRefund \subseteq StripeRefund \cup {s}
    OBVIOUS
  <2>8. g[s] \in Nat /\ g[s] <= MaxAmount
    BY <2>4, <2>5
  <2>9. Total(g) = Total(f) + g[s]
    BY <2>2, <2>3, <2>7, <2>8, TotalGrows
  <2> QED
    BY <2>4, <2>5, <2>6, <2>9
<1>3. ASSUME NEW q \in Payment, q \notin Match(s) PROVE Price[q] <= Taken(q)'
  <2>1. Settled(q) >= Price[q]
    BY <1>1, <1>3 DEF Unrefunded, Refunded
  <2>2. \A x \in StripeRefund : row_amount'[q][x] = row_amount[q][x]
    BY <1>3, WebhookWrites
  <2>3. Taken(q)' >= Taken(q)
    <3>1. \A x \in StripeRefund : row_amount[q][x] <= row_amount'[q][x]
      BY <2>2 DEF TypeOK
    <3> QED
      BY <3>1, TakenNeverFalls
  <2>4. Settled(q) <= Taken(q) /\ Settled(q) \in Nat /\ Taken(q) \in Nat /\ Price[q] \in Nat
    BY SettledIsTaken, TakenType, BoundsAssumption
  <2>5. Taken(q)' \in Nat
    <3>1. DOMAIN row_amount'[q] = StripeRefund
      BY DEF TypeOK
    <3> QED
      BY <3>1, RefundsFinite, UnitsFinite DEF Taken
  <2> QED
    BY <2>1, <2>3, <2>4, <2>5
<1>4. FullyTaken'
  <2>1. \A q \in Payment : Price[q] \in Nat
    BY PriceAssumption, BoundsAssumption
  <2> QED
    BY <1>2, <1>3, <2>1 DEF FullyTaken
<1>5. (TypeOK /\ Records /\ WithinCharge /\ FullyTaken)' => AllRecorded'
  BY FullIsRecorded, PTL
<1>6. AllRecorded'
  BY <1>4, <1>5
<1> QED
  BY <1>1, <1>2, <1>6 DEF PaidBack, AllRecorded

(* A payment whose rows are its own has not taken more than was sent for   *)
(* it, one that is paid back takes its price, and in a charge of one       *)
(* payment the charge is its price.                                        *)
LEMMA OwnRowsAreSent ==
  ASSUME TypeOK, Records, NEW p \in Payment, OwnRowsOnly(p)
  PROVE  Taken(p) <= SentFor(p)
<1> DEFINE f == [x \in SentRefunds(p) |-> row_amount[p][x]]
<1> DEFINE g == [x \in SentRefunds(p) |-> re_amount[x]]
<1> DEFINE h == row_amount[p]
<1>1. SentRefunds(p) \subseteq StripeRefund /\ IsFiniteSet(SentRefunds(p))
  BY RefundsFinite DEF SentRefunds
<1>2. DOMAIN f = SentRefunds(p) /\ DOMAIN g = SentRefunds(p) /\ DOMAIN h = StripeRefund
  BY DEF TypeOK
<1>3. \A x \in SentRefunds(p) : f[x] = h[x]
  OBVIOUS
<1>4. \A x \in StripeRefund \ SentRefunds(p) : h[x] = 0
  BY DEF SentRefunds, OwnRowsOnly, Records, RowsAreOfRefunds
<1>5. \A x \in SentRefunds(p) : f[x] \in Nat /\ g[x] \in Nat /\ f[x] <= g[x]
  <2> SUFFICES ASSUME NEW x \in SentRefunds(p)
               PROVE  f[x] \in Nat /\ g[x] \in Nat /\ f[x] <= g[x]
    OBVIOUS
  <2>1. x \in StripeRefund /\ re_ticket[x] = p
    BY DEF SentRefunds
  <2>2. row_amount[p][x] \in Nat /\ re_amount[x] \in Nat
    BY <2>1 DEF TypeOK
  <2>3. row_amount[p][x] = 0 \/ row_amount[p][x] = re_amount[x]
    BY <2>1 DEF Records, RowsAreTheirOwn, RowsAreOfRefunds
  <2> QED
    BY <2>2, <2>3
<1>6. Taken(p) = Total(h) /\ SentFor(p) = Total(g)
  BY DEF Taken, SentFor, SentRefunds
<1> HIDE DEF f, g, h
<1>7. Total(h) = Total(f)
  BY <1>1, <1>2, <1>3, <1>4, TotalDropsZeros
<1>8. Total(f) <= Total(g)
  BY <1>1, <1>2, <1>5, TotalMonotone
<1> QED
  BY <1>6, <1>7, <1>8

LEMMA SingleIsTheCharge ==
  ASSUME TypeOK, Records, WithinCharge, Single, NEW p \in Payment
  PROVE  Taken(p) <= Price[p]
<1>1. Payment = {p}
  BY PaymentAssumption, FS_Singleton DEF Single
<1>2. Charge = Price[p]
  <2> DEFINE f == Price
  <2>1. DOMAIN f = {p} /\ f[p] \in Nat /\ f[p] <= MaxAmount
    BY <1>1, PriceAssumption, BoundsAssumption
  <2> HIDE DEF f
  <2>2. Total(f) = f[p]
    BY <2>1, TotalOfOne
  <2> QED
    BY <2>2 DEF f, Charge
<1>3. ASSUME NEW s \in StripeRefund, NEW i \in 1..MaxAmount, i <= row_amount[p][s]
      PROVE  i <= re_amount[s]
  <2> DEFINE f == [q \in Known(s) |-> row_amount[q][s]]
  <2>1. row_status[p][s] # "none"
    <3>1. ~(i <= 0)
      BY BoundsAssumption
    <3> QED
      BY <1>3, <3>1 DEF Records, RowsAreOfRefunds
  <2>2. Known(s) = {p}
    BY <1>1, <2>1 DEF Known
  <2>3. DOMAIN f = {p} /\ f[p] = row_amount[p][s] /\ f[p] \in Nat
    BY <2>2 DEF TypeOK
  <2>4. Recorded(s) = Total(f) /\ Recorded(s) \in {0, re_amount[s]}
    BY RecordedIsWhole DEF Recorded, Records
  <2>5. re_amount[s] \in Nat
    BY DEF TypeOK
  <2>6. i >= 1 /\ i <= MaxAmount /\ MaxAmount \in Nat
    BY BoundsAssumption
  <2> HIDE DEF f
  <2>7. Total(f) = IF f[p] <= MaxAmount THEN f[p] ELSE MaxAmount
    BY <2>3, TotalOfOneCapped
  <2> QED
    BY <1>3, <2>3, <2>4, <2>5, <2>6, <2>7
<1>4. Taken(p) <= Total(re_amount)
  <2> DEFINE f == row_amount[p]
  <2>1. DOMAIN f = StripeRefund /\ DOMAIN re_amount = StripeRefund /\ IsFiniteSet(StripeRefund)
    BY RefundsFinite DEF TypeOK
  <2>2. Units(f) \subseteq Units(re_amount)
    BY <1>3, <2>1 DEF Units
  <2>3. Taken(p) = Total(f)
    BY DEF Taken
  <2> HIDE DEF f
  <2>4. Cardinality(Units(f)) <= Cardinality(Units(re_amount))
    BY <2>1, <2>2, UnitsFinite, FS_Subset
  <2> QED
    BY <2>1, <2>3, <2>4, UnitsFinite
<1>5. Taken(p) \in Nat /\ Price[p] \in Nat /\ Total(re_amount) \in Nat
  <2>1. DOMAIN re_amount = StripeRefund
    BY DEF TypeOK
  <2> QED
    BY <2>1, TakenType, BoundsAssumption, RefundsFinite, UnitsFinite
<1> QED
  BY <1>2, <1>4, <1>5 DEF WithinCharge

LEMMA SharesHold == TypeOK /\ Records /\ Shares => LedgerHolds
<1> SUFFICES ASSUME TypeOK, Records, Shares, NoDoubleRefund, NEW p \in Payment
             PROVE  Taken(p) <= Price[p]
  BY DEF LedgerHolds
<1>1. Taken(p) \in Nat /\ Price[p] \in Nat /\ SentFor(p) \in Nat /\ SentFor(p) <= Price[p]
  BY TakenType, SentType, BoundsAssumption DEF NoDoubleRefund
<1>2. CASE Single
  BY <1>2, SingleIsTheCharge DEF Shares
<1>3. CASE OwnRowsOnly(p)
  BY <1>1, <1>3, OwnRowsAreSent
<1>4. CASE PaidBack(p)
  BY <1>1, <1>4 DEF PaidBack
<1> QED
  BY <1>2, <1>3, <1>4 DEF Shares

LEMMA SharesStep ==
  ASSUME TypeOK, TypeOK', Records, Records', Shares, [Next]_vars PROVE Shares'
<1>1. WithinCharge /\ WithinCharge'
  BY WithinChargeStep DEF Shares
<1> SUFFICES ASSUME ~Single, NoDoubleRefund', NEW p \in Payment
             PROVE  OwnRowsOnly(p)' \/ PaidBack(p)'
  BY <1>1 DEF Shares, Single
<1>2. NoDoubleRefund
  <2> SUFFICES ASSUME NEW q \in Payment PROVE SentFor(q) <= Price[q]
    BY DEF NoDoubleRefund
  <2>1. /\ SentFor(q) \in Nat /\ SentFor(q)' \in Nat /\ Price[q] \in Nat
        /\ SentFor(q) <= SentFor(q)' /\ SentFor(q)' <= Price[q]
    BY SentNeverFalls, SentType, PriceAssumption, BoundsAssumption DEF NoDoubleRefund
  <2> QED
    BY <2>1
<1>3. OwnRowsOnly(p) \/ PaidBack(p)
  BY <1>2 DEF Shares
<1>4. ASSUME NEW s \in StripeRefund, row_status[p][s] # "none"
      PROVE  re_ticket'[s] = re_ticket[s]
  BY <1>4, RefundsGrow DEF Records, RowsAreOfRefunds
(* Steps that leave the rows of p alone. *)
<1>5. ASSUME UNCHANGED <<row_status, row_amount>> PROVE OwnRowsOnly(p)' \/ PaidBack(p)'
  <2>1. OwnRowsOnly(p) => OwnRowsOnly(p)'
    BY <1>4, <1>5 DEF OwnRowsOnly
  <2>2. ASSUME PaidBack(p) PROVE PaidBack(p)'
    <3>1. Taken(p)' = Price[p] /\ Taken(p) = Price[p]
      BY <1>5, <2>2, TakenKept DEF PaidBack
    <3>2. ASSUME NEW s \in StripeRefund, re_ticket'[s] = p PROVE re_ticket[s] = p
      <4>1. ASSUME NEW q \in Payment, NEW who \in Caller, CallStripe(q, who) PROVE re_ticket[s] = p
        <5>1. PICK n \in 1..Remaining(q), x \in StripeRefund :
                MakesRefund(x, n) /\ re_ticket' = [re_ticket EXCEPT ![x] = q]
          BY <4>1, AskedRefund
        <5>2. q # p
          <6>1. Price[p] \in Nat
            BY PriceAssumption, BoundsAssumption
          <6>2. Remaining(p) = 0
            BY <3>1, <6>1, TakenType
          <6> QED
            BY <5>1, <6>2
        <5> QED
          BY <3>2, <5>1, <5>2 DEF TypeOK
      <4>2. ASSUME UNCHANGED re_ticket PROVE re_ticket[s] = p
        BY <3>2, <4>2
      <4>3. ASSUME NEW q \in Payment, NEW who \in Caller, StripeRefuses(q, who)
            PROVE  UNCHANGED re_ticket
        BY <4>3 DEF StripeRefuses
      <4>4. ASSUME NEW q \in Payment,
                   \/ Commit(q) \/ AnswerLost(q)
                   \/ CancelTicket(q) \/ SweepDispatch(q) \/ SweepFindsNothing(q)
                   \/ SweepCancels(q) \/ SweepStops(q)
                   \/ RecordFailure(q) \/ FailureUnrecorded(q) \/ SweepRecordsFailure(q)
            PROVE  UNCHANGED re_ticket
        BY <4>4 DEF Commit, AnswerLost, CancelTicket, SweepDispatch, SweepFindsNothing,
                    SweepCancels, SweepStops,
                    RecordFailure, FailureUnrecorded, SweepRecordsFailure, stripe
      <4>5. ASSUME NEW x \in StripeRefund, Deliver(x) \/ ApplyRefund(x)
            PROVE  UNCHANGED re_ticket
        BY <4>5 DEF Deliver, ApplyRefund, stripe
      <4>6. ASSUME ForgetKeys \/ DashboardRefund \/ UNCHANGED vars PROVE UNCHANGED re_ticket
        BY <4>6 DEF ForgetKeys, DashboardRefund, vars, stripe
      <4> QED
        BY <4>1, <4>2, <4>3, <4>4, <4>5, <4>6 DEF Next
    <3> QED
      BY <1>5, <2>2, <3>1, <3>2 DEF PaidBack
  <2> QED
    BY <1>3, <2>1, <2>2
<1>6. ASSUME NEW q \in Payment, Commit(q) PROVE OwnRowsOnly(p)' \/ PaidBack(p)'
  <2>1. /\ re_ticket' = re_ticket /\ call[q] \in StripeRefund
        /\ re_ticket[call[q]] = q /\ row_status[q][call[q]] = "none"
    BY <1>6, CommitWrites DEF Commit, stripe, Records, CallsAreOpen
  <2>2. OwnRowsOnly(p) => OwnRowsOnly(p)'
    BY <1>6, <2>1, CommitWrites DEF OwnRowsOnly
  <2>3. ASSUME PaidBack(p) PROVE PaidBack(p)'
    <3>1. q # p
      BY <2>1, <2>3 DEF PaidBack
    <3>2. row_amount'[p] = row_amount[p]
      BY <1>6, <3>1, CommitWrites
    <3> QED
      BY <1>6, <2>1, <2>3, <3>1, <3>2, CommitWrites, TakenKept DEF PaidBack
  <2> QED
    BY <1>3, <2>2, <2>3
<1>7. ASSUME NEW s \in StripeRefund, ApplyRefund(s) PROVE OwnRowsOnly(p)' \/ PaidBack(p)'
  <2>1. re_ticket' = re_ticket
    BY <1>7 DEF ApplyRefund, stripe
  <2>2. ASSUME p \notin Match(s) \/ Known(s) # {} PROVE OwnRowsOnly(p)' \/ PaidBack(p)'
    <3>1. row_amount'[p] = row_amount[p]
      <4>1. p \notin Match(s) \ Known(s)
        BY <2>2, MatchCases
      <4> QED
        BY <1>7, <4>1 DEF ApplyRefund
    <3>2. \A x \in StripeRefund : row_status'[p][x] # "none" <=> row_status[p][x] # "none"
      BY <1>7, <2>2, MatchCases, WebhookWrites DEF Known
    <3> QED
      BY <1>3, <2>1, <3>1, <3>2, TakenKept DEF OwnRowsOnly, PaidBack
  <2>3. ASSUME p \in Match(s), Known(s) = {}, NEW q \in Named(s)
        PROVE  OwnRowsOnly(p)' \/ PaidBack(p)'
    <3>1. re_ticket[s] = q /\ q \in Payment
      BY <2>3 DEF Named
    <3>2. q = p
      BY <2>3, <3>1, NamedMatch DEF Records
    <3>3. ~PaidBack(p)
      BY <2>3, <3>1, <3>2 DEF PaidBack, Known
    <3>4. \A x \in StripeRefund : x # s => row_status'[p][x] = row_status[p][x]
      BY <1>7, WebhookWrites
    <3> QED
      BY <1>3, <2>1, <3>1, <3>2, <3>3, <3>4 DEF OwnRowsOnly
  <2>4. ASSUME p \in Match(s), Known(s) = {}, Named(s) = {} PROVE PaidBack(p)'
    <3>1. LedgerHolds
      BY SharesHold
    <3>2. \A q \in Payment : Taken(q) <= Price[q]
      BY <1>2, <3>1 DEF LedgerHolds
    <3> QED
      BY <1>1, <1>7, <2>4, <3>2, DashboardPaysBack
  <2> QED
    BY <2>2, <2>3, <2>4
<1> QED
  BY <1>5, <1>6, <1>7, RowsKept

LEMMA SharesInit == Init => Shares
<1> SUFFICES ASSUME Init PROVE Shares
  OBVIOUS
<1>1. TypeOK
  BY TypeInit
<1>2. WithinCharge
  <2> DEFINE f == [s \in {} |-> 0]
  <2>1. DOMAIN re_amount = StripeRefund /\ \A s \in StripeRefund : re_amount[s] = 0
    BY DEF Init
  <2>2. DOMAIN f = {} /\ {} \subseteq StripeRefund /\ \A s \in {} : f[s] = re_amount[s]
    OBVIOUS
  <2> HIDE DEF f
  <2>3. Total(re_amount) = Total(f)
    BY <2>1, <2>2, TotalDropsZeros
  <2>4. Total(f) = 0
    BY <2>2, TotalEmpty
  <2>5. Charge \in Nat
    BY PriceAssumption, PaymentAssumption, UnitsFinite DEF Charge
  <2> QED
    BY <2>3, <2>4, <2>5 DEF WithinCharge
<1>3. \A p \in Payment : OwnRowsOnly(p)
  BY DEF Init, OwnRowsOnly
<1> QED
  BY <1>2, <1>3 DEF Shares

(* In whatever order dashboard refunds, refunds in flight, lost answers    *)
(* and webhooks meet, the rows of a payment claim no more than its price   *)
(* as long as Stripe was not itself asked for more: a refund that could be *)
(* anybody's is shared out only when it is all that is owed, and then the  *)
(* charge has no room for another.                                         *)
THEOREM LedgerIsWithinPrice == Spec => []LedgerHolds
<1> DEFINE Inv == TypeOK /\ Records /\ Shares
<1>1. Init => Inv
  BY TypeInit, RecordsInit, SharesInit
<1>2. Inv /\ [Next]_vars => Inv'
  BY TypeStep, RecordsStep, SharesStep
<1>3. Inv => LedgerHolds
  BY SharesHold
<1> QED
  BY <1>1, <1>2, <1>3, PTL DEF Spec

-----------------------------------------------------------------------------
(* The ledger that the rows keep. *)

(* The ledger sums as the rows do. *)
LEMMA SameTotal == \A f : Ledger!Total(f) = Total(f)
BY Zenon DEF Ledger!Total, Total, Ledger!Cardinality, Cardinality

(* A refund whose rows a step leaves alone stands where it stood. *)
LEMMA StageKept ==
  ASSUME NEW s \in StripeRefund, re_amount'[s] = re_amount[s],
         \A p \in Payment : row_status'[p][s] = row_status[p][s] /\ row_amount'[p][s] = row_amount[p][s]
  PROVE  Stages'[s] = Stages[s] /\ Claims'[s] = Claims[s]
<1>1. Known(s)' = Known(s)
  BY DEF Known
<1>2. \A p \in Known(s) : row_status'[p][s] = row_status[p][s]
  BY DEF Known
<1>3. Stage(s)' = Stage(s)
  BY <1>1, <1>2 DEF Stage
<1>4. [p \in Payment |-> row_amount'[p][s]] = [p \in Payment |-> row_amount[p][s]]
  OBVIOUS
<1> QED
  BY <1>3, <1>4 DEF Stages, Claims

LEMMA MakeIsMake ==
  ASSUME TypeOK, Records, WithinCharge', NEW s \in StripeRefund, NEW n \in 1..MaxAmount,
         NEW p \in Payment \cup {Nil}, MakesRefund(s, n),
         re_ticket' = [re_ticket EXCEPT ![s] = p], UNCHANGED <<row_status, row_amount>>
  PROVE  Ledger!Make(s, n, p)
<1>1. /\ re_amount[s] = 0 /\ re_amount'[s] = n /\ n # 0
      /\ \A x \in StripeRefund : x # s => re_amount'[x] = re_amount[x]
      /\ re_amount' = [re_amount EXCEPT ![s] = n]
  <2>1. n # 0 /\ RefundsInOrder
    BY BoundsAssumption DEF Records
  <2>2. re_amount' = [re_amount EXCEPT ![s] = n]
    BY DEF MakesRefund
  <2> QED
    BY <2>1, <2>2, NewRefund
<1>2. \A q \in Payment : row_status[q][s] = "none"
  BY <1>1 DEF Records, RowsAreOfRefunds
<1>3. Known(s)' = {}
  BY <1>2 DEF Known
<1>4. Stages[s] = "absent" /\ Stages'[s] = "made"
  BY <1>1, <1>3 DEF Stages, Stage
<1>5. \A x \in StripeRefund : x # s => Stages'[x] = Stages[x]
  BY <1>1, StageKept
<1>6. Stages' = [Stages EXCEPT ![s] = "made"]
  BY <1>4, <1>5 DEF Stages
<1>7. Claims' = Claims
  BY DEF Claims
<1>8. Ledger!Total(re_amount') <= Charge
  BY SameTotal DEF WithinCharge
<1> QED
  BY <1>1, <1>4, <1>6, <1>7, <1>8 DEF Ledger!Make

(* Payments with no share add nothing. *)
LEMMA SumOverSome ==
  ASSUME NEW K \in SUBSET Payment, NEW x, DOMAIN x = Payment, \A p \in Payment \ K : x[p] = 0
  PROVE  Total(x) = Total([p \in K |-> x[p]])
<1> DEFINE f == [p \in K |-> x[p]]
<1>1. DOMAIN f = K /\ \A p \in K : f[p] = x[p]
  OBVIOUS
<1> HIDE DEF f
<1>2. Total(x) = Total(f)
  BY <1>1, TotalDropsZeros
<1> QED
  BY <1>2 DEF f

(* What a step that writes the first rows of a refund must do. *)
LEMMA WriteIsRecord ==
  ASSUME TypeOK, TypeOK', RowsAreOfRefunds', NEW s \in StripeRefund,
         UNCHANGED <<re_amount, re_ticket>>, re_amount[s] > 0, Known(s) = {},
         \A p \in Payment, x \in StripeRefund :
           x # s => row_status'[p][x] = row_status[p][x] /\ row_amount'[p][x] = row_amount[p][x],
         Recorded(s)' = re_amount[s], Known(s)' # {},
         \A p \in Payment : row_amount'[p][s] <= MaxAmount,
         re_ticket[s] # Nil => Known(s)' = {re_ticket[s]} /\ row_amount'[re_ticket[s]][s] = re_amount[s],
         \/ \A p \in Known(s)' : row_status'[p][s] = "SUCCEEDED"
         \/ re_ticket[s] # Nil /\ \A p \in Known(s)' : row_status'[p][s] = "PENDING"
  PROVE  \E x \in [Payment -> 0..MaxAmount] : Ledger!Record(s, x)
<1> DEFINE x == [p \in Payment |-> row_amount'[p][s]]
<1>1. x \in [Payment -> 0..MaxAmount]
  BY BoundsAssumption DEF TypeOK
<1>2. \A p \in Payment \ Known(s)' : row_amount'[p][s] = 0
  BY DEF RowsAreOfRefunds, Known
<1>3. Total(x) = re_amount[s]
  <2> DEFINE f == [p \in Known(s)' |-> row_amount'[p][s]]
  <2>1. PICK K \in SUBSET Payment : K = Known(s)'
    BY DEF Known
  <2>2. f = [p \in K |-> x[p]]
    BY <2>1
  <2>3. DOMAIN x = Payment /\ \A p \in Payment \ K : x[p] = 0
    BY <1>2, <2>1
  <2>4. Total(f) = re_amount[s]
    BY DEF Recorded
  <2> HIDE DEF f, x
  <2>5. Total(x) = Total([p \in K |-> x[p]])
    BY <2>3, SumOverSome
  <2> QED
    BY <2>2, <2>4, <2>5
<1>4. re_ticket[s] # Nil => x = Ledger!WholeTo(re_ticket[s], re_amount[s])
  BY <1>2 DEF Ledger!WholeTo
<1>5. Claims' = [Claims EXCEPT ![s] = x]
  <2>1. \A y \in StripeRefund : y # s => Claims'[y] = Claims[y]
    BY StageKept
  <2> QED
    BY <2>1 DEF Claims
<1>6. Stages[s] = "made"
  BY DEF Stages, Stage
<1>7. \A y \in StripeRefund : y # s => Stages'[y] = Stages[y]
  BY StageKept
<1>8. CASE \A p \in Known(s)' : row_status'[p][s] = "SUCCEEDED"
  <2>1. Stages'[s] = "settled"
    BY <1>8 DEF Stages, Stage
  <2>2. Stages' = [Stages EXCEPT ![s] = "settled"]
    BY <1>7, <2>1 DEF Stages
  <2>3. Ledger!Record(s, x)
    BY <1>3, <1>4, <1>5, <1>6, <2>2, SameTotal DEF Ledger!Record
  <2> QED
    BY <1>1, <2>3
<1>9. CASE re_ticket[s] # Nil /\ \A p \in Known(s)' : row_status'[p][s] = "PENDING"
  <2>1. Stages'[s] = "recorded"
    BY <1>9 DEF Stages, Stage
  <2>2. Stages' = [Stages EXCEPT ![s] = "recorded"]
    BY <1>7, <2>1 DEF Stages
  <2>3. Ledger!Record(s, x)
    BY <1>3, <1>4, <1>5, <1>6, <1>9, <2>2, SameTotal DEF Ledger!Record
  <2> QED
    BY <1>1, <2>3
<1> QED
  BY <1>8, <1>9

LEMMA CommitIsRecord ==
  ASSUME TypeOK, TypeOK', Records, Records', NEW p \in Payment, Commit(p)
  PROVE  Ledger!Next
<1>0. PICK s \in StripeRefund : s = call[p]
  BY CommitWrites
<1>1. /\ re_ticket[s] = p /\ re_amount[s] > 0
      /\ row_status[p][s] = "none"
  BY <1>0 DEF Commit, Records, CallsAreOpen
<1>2. UNCHANGED <<re_amount, re_ticket>>
  BY DEF Commit, stripe
<1>3. /\ row_status'[p][s] = "PENDING" /\ row_amount'[p][s] = re_amount[s]
      /\ \A q \in Payment, x \in StripeRefund :
           q # p \/ x # s =>
             row_status'[q][x] = row_status[q][x] /\ row_amount'[q][x] = row_amount[q][x]
  BY <1>0, CommitWrites
<1>4. \A q \in Payment : row_status[q][s] = "none" /\ row_amount[q][s] = 0
  BY <1>1 DEF Records, RowsAreTheirOwn, RowsAreOfRefunds
<1>5. Known(s) = {} /\ Known(s)' = {p}
  <2>1. \A q \in Payment : row_status'[q][s] # "none" <=> q = p
    BY <1>3, <1>4
  <2> QED
    BY <1>4, <2>1 DEF Known
<1>6. Recorded(s)' = re_amount[s]
  <2>1. Recorded(s)' = re_amount'[s]
    BY <1>0, CommitRecords
  <2> QED
    BY <1>2, <2>1
<1>7. \A q \in Payment : row_amount'[q][s] <= MaxAmount
  BY <1>1, <1>3, <1>4, BoundsAssumption DEF Records, RefundsInOrder
<1>8. p # Nil
  BY NilAssumption
<1>9. \E x \in [Payment -> 0..MaxAmount] : Ledger!Record(s, x)
  BY <1>1, <1>2, <1>3, <1>5, <1>6, <1>7, <1>8, WriteIsRecord DEF Records
<1> QED
  BY <1>1, <1>9 DEF Ledger!Next

LEMMA WebhookIsRecord ==
  ASSUME TypeOK, TypeOK', Records, Records', NEW s \in StripeRefund, ApplyRefund(s)
  PROVE  [Ledger!Next]_Ledger!vars
<1>1. UNCHANGED <<re_amount, re_ticket>> /\ re_amount[s] > 0
  BY DEF ApplyRefund, stripe, Records, RowsAreOfRefunds, Created
<1>2. /\ \A q \in Match(s) : row_status'[q][s] = "SUCCEEDED"
      /\ \A q \in Match(s) \ Known(s) : row_amount'[q][s] = Share(q, Match(s), s)
      /\ \A q \in Payment, x \in StripeRefund :
           q \notin Match(s) \/ x # s =>
             row_status'[q][x] = row_status[q][x] /\ row_amount'[q][x] = row_amount[q][x]
      /\ \A q \in Known(s) : row_amount'[q] = row_amount[q]
  BY WebhookWrites
<1>3. Match(s) \subseteq Payment
  BY MatchType
<1>4. \A x \in StripeRefund : x # s => Stages'[x] = Stages[x] /\ Claims'[x] = Claims[x]
  BY <1>1, <1>2, StageKept
<1>5. CASE Match(s) = {}
  <2>1. Stages'[s] = Stages[s] /\ Claims'[s] = Claims[s]
    BY <1>1, <1>2, <1>5, StageKept
  <2>2. Stages' = Stages /\ Claims' = Claims
    BY <1>4, <2>1 DEF Stages, Claims
  <2> QED
    BY <1>1, <2>2 DEF Ledger!vars
<1>6. CASE Known(s) # {}
  <2>1. Match(s) = Known(s)
    BY <1>6, MatchCases
  <2>2. Known(s)' = Known(s)
    BY <1>2, <1>3, <2>1 DEF Known
  <2>3. Stages'[s] = "settled"
    BY <1>1, <1>2, <1>6, <2>1, <2>2 DEF Stages, Stage
  <2>4. Stages' = [Stages EXCEPT ![s] = "settled"]
    BY <1>4, <2>3 DEF Stages
  <2>5. Claims' = Claims
    <3>1. \A q \in Payment : row_amount'[q][s] = row_amount[q][s]
      BY <1>2, <2>1
    <3> QED
      BY <1>4, <3>1 DEF Claims
  <2>6. Stages[s] \in {"recorded", "settled"}
    BY <1>1, <1>6 DEF Stages, Stage
  <2>7. CASE Stages[s] = "recorded"
    BY <1>1, <2>4, <2>5, <2>7 DEF Ledger!Next, Ledger!Settle
  <2>8. CASE Stages[s] = "settled"
    <3>1. Stages' = Stages
      BY <2>4, <2>8 DEF Stages
    <3> QED
      BY <1>1, <2>5, <3>1 DEF Ledger!vars
  <2> QED
    BY <2>6, <2>7, <2>8
<1>7. CASE Known(s) = {} /\ Match(s) # {}
  <2>1. Known(s)' = Match(s)
    BY <1>2, <1>3, <1>7 DEF Known
  <2>2. Recorded(s)' = re_amount[s]
    BY <1>7, WebhookRecords
  <2>3. ASSUME re_ticket[s] # Nil
        PROVE  Known(s)' = {re_ticket[s]} /\ row_amount'[re_ticket[s]][s] = re_amount[s]
    <3>1. re_ticket[s] \in Payment
      BY <2>3 DEF TypeOK
    <3>2. Match(s) = {re_ticket[s]} /\ Share(re_ticket[s], Match(s), s) = re_amount[s]
      BY <3>1, NamedMatch DEF Records
    <3> QED
      BY <1>2, <1>7, <2>1, <3>2
  <2>4. ASSUME NEW p \in Payment PROVE row_amount'[p][s] <= MaxAmount
    <3>1. Remaining(p) <= MaxAmount /\ re_amount[s] <= MaxAmount
      BY TakenType, BoundsAssumption DEF Records, RefundsInOrder
    <3>2. CASE p \in Match(s)
      BY <1>2, <1>7, <3>1, <3>2 DEF Share
    <3>3. CASE p \notin Match(s)
      <4>1. row_amount'[p][s] = 0
        BY <1>2, <1>7, <3>3 DEF Known, Records, RowsAreOfRefunds
      <4> QED
        BY <4>1, BoundsAssumption
    <3> QED
      BY <3>2, <3>3
  <2>5. \E x \in [Payment -> 0..MaxAmount] : Ledger!Record(s, x)
    <3>1. \A p \in Known(s)' : row_status'[p][s] = "SUCCEEDED"
      BY <1>2, <2>1
    <3>2. \A p \in Payment, x \in StripeRefund :
           x # s => row_status'[p][x] = row_status[p][x] /\ row_amount'[p][x] = row_amount[p][x]
      BY <1>2
    <3> QED
      BY <1>1, <1>7, <2>1, <2>2, <2>3, <2>4, <3>1, <3>2, WriteIsRecord DEF Records
  <2> QED
    BY <2>5 DEF Ledger!Next
<1> QED
  BY <1>5, <1>6, <1>7

(* A step that writes no row makes a refund, or changes no refund at all. *)
LEMMA OtherIsMake ==
  ASSUME TypeOK, Records, WithinCharge', [Next]_vars, UNCHANGED <<row_status, row_amount>>
  PROVE  [Ledger!Next]_Ledger!vars
<1>1. CASE UNCHANGED <<re_amount, re_ticket>>
  <2>1. \A s \in StripeRefund : Stages'[s] = Stages[s] /\ Claims'[s] = Claims[s]
    BY <1>1, StageKept
  <2>2. Stages' = Stages /\ Claims' = Claims
    BY <2>1 DEF Stages, Claims
  <2> QED
    BY <1>1, <2>2 DEF Ledger!vars
<1>2. ASSUME NEW s \in StripeRefund, NEW n \in 1..MaxAmount, MakesRefund(s, n),
             \/ UNCHANGED re_ticket
             \/ \E p \in Payment : re_ticket' = [re_ticket EXCEPT ![s] = p]
      PROVE  Ledger!Next
  <2>1. re_ticket[s] = Nil
    BY <1>2, NewRefund DEF Records
  <2>2. PICK p \in Payment \cup {Nil} : re_ticket' = [re_ticket EXCEPT ![s] = p]
    <3>1. re_ticket = [re_ticket EXCEPT ![s] = Nil]
      BY <2>1 DEF TypeOK
    <3> QED
      BY <1>2, <3>1
  <2>3. Ledger!Make(s, n, p)
    BY <1>2, <2>2, MakeIsMake
  <2> QED
    BY <2>3 DEF Ledger!Next
<1> QED
  BY <1>1, <1>2, StripeStep

LEMMA LedgerStep ==
  ASSUME TypeOK, Records, WithinCharge, [Next]_vars
  PROVE  [Ledger!Next]_Ledger!vars
<1>1. TypeOK' /\ Records' /\ WithinCharge'
  BY TypeStep, RecordsStep, WithinChargeStep
<1> QED
  BY <1>1, CommitIsRecord, WebhookIsRecord, OtherIsMake, RowsKept

LEMMA LedgerInit == Init => Ledger!Init
<1> SUFFICES ASSUME Init PROVE Ledger!Init
  OBVIOUS
<1>1. Stages = [s \in StripeRefund |-> "absent"]
  BY DEF Init, Stages, Stage
<1>2. Claims = [s \in StripeRefund |-> Ledger!Nothing]
  BY DEF Init, Claims, Ledger!Nothing
<1> QED
  BY <1>1, <1>2 DEF Init, Ledger!Init

(* Every step of the refunds is one of the abstract ledger, or none: the   *)
(* rows hold each Stripe refund once, whole, for the payment it was made   *)
(* for, and no commit rewrites what the webhook confirmed, since the two   *)
(* exclude each other by the Payment lock.                                 *)
THEOREM RefundsImplementLedger == Spec => ImplementsLedger
<1> DEFINE Inv == TypeOK /\ Records /\ WithinCharge
<1>1. Init => Inv /\ Ledger!Init
  BY TypeInit, RecordsInit, SharesInit, LedgerInit DEF Shares
<1>2. Inv /\ [Next]_vars => Inv'
  BY TypeStep, RecordsStep, WithinChargeStep
<1>3. Inv /\ [Next]_vars => [Ledger!Next]_Ledger!vars
  BY LedgerStep
<1> QED
  BY <1>1, <1>2, <1>3, PTL DEF Spec, ImplementsLedger, Ledger!Spec

-----------------------------------------------------------------------------
(* The abstract ledger, whose refunds and shares are here those of the     *)
(* rows: what has been shared out is what was made, refund by refund.      *)

SharedWhole ==
  \A s \in StripeRefund :
    Total(Claims[s]) = IF Stages[s] \in {"absent", "made"} THEN 0 ELSE re_amount[s]
Drawn == Ledger!TypeOK /\ SharedWhole /\ Total(re_amount) <= Charge

LEMMA LedgerSumStep ==
  ASSUME Drawn, [Ledger!Next]_Ledger!vars
  PROVE  Drawn'
<1>0. /\ Stages \in [StripeRefund -> {"absent", "made", "recorded", "settled"}]
      /\ re_amount \in [StripeRefund -> 0..MaxAmount]
      /\ re_ticket \in [StripeRefund -> Payment \cup {Nil}]
      /\ Claims \in [StripeRefund -> [Payment -> 0..MaxAmount]]
  BY DEF Drawn, Ledger!TypeOK
<1>1. ASSUME NEW s \in StripeRefund, NEW n \in 1..MaxAmount, NEW p \in Payment \cup {Nil},
             Ledger!Make(s, n, p)
      PROVE  Drawn'
  <2>1. /\ re_amount' = [re_amount EXCEPT ![s] = n] /\ re_ticket' = [re_ticket EXCEPT ![s] = p]
        /\ Stages[s] = "absent" /\ Stages' = [Stages EXCEPT ![s] = "made"] /\ Claims' = Claims
        /\ Total(re_amount') <= Charge
    BY <1>1, SameTotal DEF Ledger!Make
  <2>2. n \in 0..MaxAmount
    BY BoundsAssumption
  <2>3. Ledger!TypeOK'
    BY <1>0, <2>1, <2>2 DEF Ledger!TypeOK
  <2>4. SharedWhole'
    <3> SUFFICES ASSUME NEW u \in StripeRefund
                 PROVE  Total(Claims'[u])
                          = IF Stages'[u] \in {"absent", "made"} THEN 0 ELSE re_amount'[u]
      BY DEF SharedWhole
    <3> QED
      BY <1>0, <2>1 DEF Drawn, SharedWhole
  <2> QED
    BY <2>1, <2>3, <2>4 DEF Drawn
<1>2. ASSUME NEW s \in StripeRefund, NEW x \in [Payment -> 0..MaxAmount], Ledger!Record(s, x)
      PROVE  Drawn'
  <2>1. /\ re_amount' = re_amount /\ re_ticket' = re_ticket
        /\ Total(x) = re_amount[s] /\ Claims' = [Claims EXCEPT ![s] = x]
        /\ \/ Stages' = [Stages EXCEPT ![s] = "recorded"]
           \/ Stages' = [Stages EXCEPT ![s] = "settled"]
    BY <1>2, SameTotal DEF Ledger!Record
  <2>2. Ledger!TypeOK'
    BY <1>0, <2>1 DEF Ledger!TypeOK
  <2>3. SharedWhole'
    <3> SUFFICES ASSUME NEW u \in StripeRefund
                 PROVE  Total(Claims'[u])
                          = IF Stages'[u] \in {"absent", "made"} THEN 0 ELSE re_amount'[u]
      BY DEF SharedWhole
    <3>1. CASE u = s
      BY <1>0, <2>1, <3>1
    <3>2. CASE u # s
      BY <1>0, <2>1, <3>2 DEF Drawn, SharedWhole
    <3> QED
      BY <3>1, <3>2
  <2> QED
    BY <2>1, <2>2, <2>3 DEF Drawn
<1>3. ASSUME NEW s \in StripeRefund, Ledger!Settle(s) PROVE Drawn'
  <2>1. /\ re_amount' = re_amount /\ re_ticket' = re_ticket /\ Claims' = Claims
        /\ Stages[s] = "recorded" /\ Stages' = [Stages EXCEPT ![s] = "settled"]
    BY <1>3 DEF Ledger!Settle
  <2>2. Ledger!TypeOK'
    BY <1>0, <2>1 DEF Ledger!TypeOK
  <2>3. SharedWhole'
    <3> SUFFICES ASSUME NEW u \in StripeRefund
                 PROVE  Total(Claims'[u])
                          = IF Stages'[u] \in {"absent", "made"} THEN 0 ELSE re_amount'[u]
      BY DEF SharedWhole
    <3> QED
      BY <1>0, <2>1 DEF Drawn, SharedWhole
  <2> QED
    BY <2>1, <2>2, <2>3 DEF Drawn
<1>4. CASE UNCHANGED Ledger!vars
  BY <1>4 DEF Ledger!vars, Drawn, Ledger!TypeOK, SharedWhole
<1> QED
  BY <1>1, <1>2, <1>3, <1>4 DEF Ledger!Next

LEMMA TotalOfZeros ==
  ASSUME NEW E, NEW g, DOMAIN g = E, \A x \in E : g[x] = 0
  PROVE  Total(g) = 0
<1>1. PICK D : D = {}
  OBVIOUS
<1> DEFINE f == [x \in D |-> 0]
<1>2. DOMAIN f = D /\ D \subseteq E /\ (\A x \in D : f[x] = g[x]) /\ \A x \in E \ D : g[x] = 0
  BY <1>1
<1> HIDE DEF f
<1>3. Total(f) = 0
  BY <1>1, <1>2, TotalEmpty
<1>4. Total(g) = Total(f)
  BY <1>2, TotalDropsZeros
<1> QED
  BY <1>3, <1>4

LEMMA DrawnIsWithin ==
  ASSUME Drawn PROVE Ledger!ClaimedWithinCharge
<1> DEFINE f == [s \in StripeRefund |-> Total(Claims[s])]
<1>1. IsFiniteSet(StripeRefund) /\ DOMAIN re_amount = StripeRefund /\ DOMAIN f = StripeRefund
  BY RefundsFinite DEF Drawn, Ledger!TypeOK
<1>2. \A s \in StripeRefund : f[s] \in Nat /\ re_amount[s] \in Nat /\ f[s] <= re_amount[s]
  BY BoundsAssumption DEF Drawn, Ledger!TypeOK, SharedWhole
<1>3. f = [s \in StripeRefund |-> Ledger!Total(Claims[s])]
  BY SameTotal
<1> HIDE DEF f
<1>4. Total(f) <= Total(re_amount)
  BY <1>1, <1>2, TotalMonotone
<1> QED
  BY <1>3, <1>4, SameTotal DEF Drawn, Ledger!ClaimedWithinCharge

(* However refunds are made, shared out and confirmed, the shares of all   *)
(* the payments add up to no more than Stripe refunded, and that to no     *)
(* more than it captured.                                                  *)
THEOREM SharesAreWithinCharge == Ledger!Spec => []Ledger!ClaimedWithinCharge
<1>1. ASSUME Ledger!Init PROVE Drawn
  <2>1. /\ Stages = [s \in StripeRefund |-> "absent"]
        /\ re_amount = [s \in StripeRefund |-> 0]
        /\ re_ticket = [s \in StripeRefund |-> Nil]
        /\ Claims = [s \in StripeRefund |-> [p \in Payment |-> 0]]
    BY <1>1 DEF Ledger!Init, Ledger!Nothing
  <2>2. Ledger!TypeOK
    BY <2>1, BoundsAssumption DEF Ledger!TypeOK
  <2>3. \A s \in StripeRefund : Total(Claims[s]) = 0
    BY <2>1, TotalOfZeros
  <2>4. Total(re_amount) = 0
    BY <2>1, TotalOfZeros
  <2>5. Charge \in Nat
    BY PriceAssumption, PaymentAssumption, UnitsFinite DEF Charge
  <2> QED
    BY <2>1, <2>2, <2>3, <2>4, <2>5 DEF Drawn, SharedWhole
<1>2. Drawn /\ [Ledger!Next]_Ledger!vars => Drawn'
  BY LedgerSumStep
<1>3. Drawn => Ledger!ClaimedWithinCharge
  BY DrawnIsWithin
<1> QED
  BY <1>1, <1>2, <1>3, PTL DEF Ledger!Spec

(* So do the rows of the code, whatever is lost, repeated or matched: even *)
(* when one payment is paid back twice, the batch never is beyond what was *)
(* captured, in Stripe or in the rows.                                     *)
THEOREM RowsAreWithinCharge == Spec => []Ledger!ClaimedWithinCharge
BY RefundsImplementLedger, SharesAreWithinCharge, PTL DEF ImplementsLedger
=============================================================================
