------------------------- MODULE RequestBudgetProofs -------------------------
(***************************************************************************)
(* For any number of clients and any settings: the rows keep their types,  *)
(* the ledger never exceeds the ceiling nor the sends what follows from    *)
(* it, a recorded rate limit is waited for to its end, and no pause lasts  *)
(* longer than what it waits for.                                          *)
(***************************************************************************)
EXTENDS RequestBudget, FiniteSetTheorems, TLAPS

Sorted(s) == \A i, j \in 1..Len(s) : i <= j => s[i] <= s[j]

(* The type invariant with what makes it inductive: newest rows first, and *)
(* a request only leaves for a response that is missing.                   *)
TypeInv ==
    /\ TypeOK
    /\ Sorted(ledger) /\ Sorted(sent)
    /\ \A c \in Client : pc[c] = "sending" => missing[c] > 0

LEMMA Element ==
    ASSUME NEW S, NEW s \in Seq(S), NEW i \in 1..Len(s)
    PROVE  s[i] \in S
OBVIOUS

LEMMA IntervalCount ==
    ASSUME NEW n \in Nat
    PROVE  IsFiniteSet(1..n) /\ Cardinality(1..n) = n
<1>1. 1 \in Int /\ n \in Int
  OBVIOUS
<1>2. IsFiniteSet(1..n) /\ Cardinality(1..n) = IF 1 > n THEN 0 ELSE n - 1 + 1
  BY <1>1, FS_Interval, Zenon
<1> QED BY <1>2

LEMMA SortedPush ==
    ASSUME NEW s \in Seq(0..Window), Sorted(s)
    PROVE  /\ <<0>> \o s \in Seq(0..Window)
           /\ Sorted(<<0>> \o s)
           /\ Len(<<0>> \o s) = Len(s) + 1
<1> DEFINE t == <<0>> \o s
<1>1. Len(t) = Len(s) + 1 /\ t \in Seq(0..Window)
  <2>1. <<0>> \in Seq(0..Window) /\ Len(<<0>>) = 1
    BY BudgetAssumption
  <2> QED BY <2>1
<1>2. \A i \in 1..Len(t) : t[i] = IF i = 1 THEN 0 ELSE s[i - 1]
  BY <1>1
<1>3. \A i \in 1..Len(s) : s[i] \in 0..Window
  BY Element
<1>4. Sorted(t)
  <2> SUFFICES ASSUME NEW i \in 1..Len(t), NEW j \in 1..Len(t), i <= j
               PROVE  t[i] <= t[j]
    BY DEF Sorted
  <2>1. CASE i = 1
    <3>1. t[j] \in 0..Window BY <1>1, Element
    <3> QED BY <2>1, <3>1, <1>2
  <2>2. CASE i # 1
    <3>1. i - 1 \in 1..Len(s) /\ j - 1 \in 1..Len(s) /\ i - 1 <= j - 1
      BY <2>2, <1>1
    <3>2. s[i - 1] <= s[j - 1]
      BY <3>1 DEF Sorted
    <3> QED BY <3>2, <2>2, <1>2, <3>1
  <2> QED BY <2>1, <2>2
<1> QED BY <1>1, <1>4

(* The entries of a sorted sequence up to some age are a prefix of it. *)
Younger(s, a) == {i \in 1..Len(s) : s[i] <= a}

LEMMA Prefix ==
    ASSUME NEW s \in Seq(0..Window), Sorted(s), NEW a \in Int
    PROVE  /\ Cardinality(Younger(s, a)) \in 0..Len(s)
           /\ Younger(s, a) = 1..Cardinality(Younger(s, a))
<1> DEFINE n == Cardinality(Younger(s, a))
<1>1. Younger(s, a) \subseteq 1..Len(s) /\ Len(s) \in Nat
  BY DEF Younger
<1>2. IsFiniteSet(1..Len(s)) /\ Cardinality(1..Len(s)) = Len(s)
  BY <1>1, IntervalCount
<1>3. IsFiniteSet(Younger(s, a)) /\ n \in Nat /\ n <= Len(s)
  <2>1. IsFiniteSet(Younger(s, a)) /\ n <= Len(s)
    BY <1>1, <1>2, FS_Subset
  <2> QED BY <2>1, FS_CardinalityType
<1>4. \A i \in 1..n : s[i] <= a
  <2> SUFFICES ASSUME NEW i \in 1..n, ~(s[i] <= a)
               PROVE  FALSE
    OBVIOUS
  <2>1. i \in 1..Len(s) /\ s[i] \in 0..Window
    <3>1. i \in 1..Len(s) BY <1>3
    <3> QED BY <3>1, Element
  <2>2. Younger(s, a) \subseteq 1..(i - 1)
    <3> SUFFICES ASSUME NEW k \in 1..Len(s), s[k] <= a
                 PROVE  k \in 1..(i - 1)
      BY DEF Younger
    <3>1. s[k] \in 0..Window BY Element
    <3>2. ~(i <= k) BY <2>1, <3>1, BudgetAssumption DEF Sorted
    <3> QED BY <3>2, <2>1
  <2>3. IsFiniteSet(1..(i - 1)) /\ Cardinality(1..(i - 1)) = i - 1
    <3>1. i - 1 \in Nat BY <1>3
    <3> QED BY <3>1, IntervalCount
  <2>4. n <= i - 1
    BY <2>2, <2>3, FS_Subset
  <2> QED BY <2>4, <1>3
<1> HIDE DEF n
<1>5. 1..n \subseteq Younger(s, a)
  BY <1>3, <1>4 DEF Younger
<1>6. Cardinality(1..n) = n
  BY <1>3, IntervalCount
<1>7. 1..n = Younger(s, a)
  BY <1>3, <1>5, <1>6, FS_Subset DEF n
<1> QED BY <1>3, <1>7 DEF n

(* What one send adds. *)
LEMMA YoungerPush ==
    ASSUME NEW s \in Seq(0..Window), Sorted(s), NEW a \in Nat
    PROVE  Cardinality(Younger(<<0>> \o s, a)) = Cardinality(Younger(s, a)) + 1
<1> DEFINE n == Cardinality(Younger(s, a))
           t == <<0>> \o s
<1>1. n \in 0..Len(s) /\ Younger(s, a) = 1..n /\ Len(s) \in Nat
  BY Prefix
<1> HIDE DEF n
<1>2. \A i \in 1..Len(s) : s[i] <= a <=> i <= n
  BY <1>1 DEF Younger
<1>3. Len(t) = Len(s) + 1 /\ \A i \in 1..Len(t) :
        t[i] = IF i = 1 THEN 0 ELSE s[i - 1]
  OBVIOUS
<1>4. Younger(t, a) = 1..(n + 1)
  <2>1. ASSUME NEW i \in 1..Len(t)
        PROVE  t[i] <= a <=> i <= n + 1
    <3>1. CASE i = 1 BY <3>1, <1>3, <1>1
    <3>2. CASE i # 1
      <4>1. i - 1 \in 1..Len(s) BY <3>2, <1>3, <1>1
      <4> QED BY <4>1, <3>2, <1>2, <1>3, <1>1
    <3> QED BY <3>1, <3>2
  <2> QED BY <2>1, <1>1, <1>3 DEF Younger
<1>5. Cardinality(1..(n + 1)) = n + 1
  BY <1>1, IntervalCount
<1> QED BY <1>4, <1>5 DEF n

(* A sorted sequence keeps a prefix, so ageing it stays in the window, and *)
(* what is younger than an age was younger than the age before.            *)
LEMMA AgedType ==
    ASSUME NEW s \in Seq(0..Window), Sorted(s)
    PROVE  /\ Aged(s) \in Seq(0..Window)
           /\ Sorted(Aged(s))
           /\ Len(Aged(s)) <= Len(s)
           /\ AgedSends(s) = Aged(s)
           /\ \A a \in 0..Window : Younger(Aged(s), a) = Younger(s, a - 1)
<1> DEFINE n == Cardinality(InWindow(s))
<1>1. Window \in Nat /\ Len(s) \in Nat
  BY BudgetAssumption
<1>2. InWindow(s) = Younger(s, Window - 1)
  <2>1. \A i \in 1..Len(s) : s[i] < Window <=> s[i] <= Window - 1
    BY Element, <1>1
  <2> QED BY <2>1 DEF InWindow, Younger
<1>3. n \in 0..Len(s) /\ InWindow(s) = 1..n
  <2>1. Window - 1 \in Int BY <1>1
  <2> QED BY <1>2, <2>1, Prefix
<1> HIDE DEF n
<1>4. \A i \in 1..Len(s) : s[i] < Window <=> i <= n
  BY <1>3 DEF InWindow
<1>5. Aged(s) = [i \in 1..n |-> s[i] + 1]
  BY DEF Aged, n
<1>6. \A i \in 1..n : s[i] \in Int /\ s[i] + 1 \in 0..Window
  <2> TAKE i \in 1..n
  <2>1. i \in 1..Len(s) BY <1>3
  <2>2. s[i] \in 0..Window BY <2>1, Element
  <2> QED BY <2>1, <2>2, <1>4, <1>1
<1>7. Aged(s) \in Seq(0..Window) /\ Len(Aged(s)) = n
  BY <1>3, <1>5, <1>6
<1>8. Sorted(Aged(s))
  <2> SUFFICES ASSUME NEW i \in 1..n, NEW j \in 1..n, i <= j
               PROVE  Aged(s)[i] <= Aged(s)[j]
    BY <1>7 DEF Sorted
  <2>1. i \in 1..Len(s) /\ j \in 1..Len(s) BY <1>3
  <2>2. s[i] <= s[j] BY <2>1 DEF Sorted
  <2>3. Aged(s)[i] = s[i] + 1 /\ Aged(s)[j] = s[j] + 1 BY <1>5
  <2> QED BY <2>2, <2>3, <1>6
<1>9. AgedSends(s) = Aged(s)
  BY DEF AgedSends, Aged, InWindow
<1>10. ASSUME NEW a \in 0..Window
       PROVE  Younger(Aged(s), a) = Younger(s, a - 1)
  <2>1. \A i \in 1..n : Aged(s)[i] <= a <=> s[i] <= a - 1
    BY <1>5, <1>6, <1>1
  <2>2. \A i \in 1..Len(s) : s[i] <= a - 1 => i <= n
    <3> TAKE i \in 1..Len(s)
    <3>1. s[i] \in 0..Window BY Element
    <3> QED BY <3>1, <1>4, <1>1
  <2> QED BY <2>1, <2>2, <1>3, <1>7 DEF Younger
<1> QED BY <1>3, <1>7, <1>8, <1>9, <1>10

-----------------------------------------------------------------------------
LEMMA InitType == Init => TypeInv
<1> SUFFICES ASSUME Init PROVE TypeInv
  OBVIOUS
<1>1. ledger \in Seq(0..Window) /\ sent \in Seq(0..Window)
  BY DEF Init
<1>2. Sorted(ledger) /\ Sorted(sent)
  BY DEF Init, Sorted
<1>3. /\ gate \in [wait: Nat, reason: {"pacing"} \cup Pausing]
      /\ missing \in [Client -> Nat]
      /\ pc \in [Client -> {"idle", "loading", "sending", "refused", "limited"}]
      /\ retry_at \in [Client -> Nat]
      /\ cooling \in Nat
      /\ loads \in Nat /\ limits \in Nat /\ failures \in Nat
  BY DEF Init, Pausing
<1>4. \A c \in Client : pc[c] = "sending" => missing[c] > 0
  BY DEF Init
<1> QED BY <1>1, <1>2, <1>3, <1>4 DEF TypeInv, TypeOK

LEMMA LaterType ==
    ASSUME NEW a \in Nat, NEW b \in Nat
    PROVE  Later(a, b) \in Nat /\ Later(a, b) >= a /\ Later(a, b) >= b
BY DEF Later

LEMMA CapacityType ==
    ASSUME TypeInv, Full
    PROVE  NextCapacity \in Nat
<1>1. ledger \in Seq(0..Window) /\ Len(ledger) \in Nat
  BY DEF TypeInv, TypeOK
<1>2. Len(ledger) \in 1..Len(ledger)
  BY <1>1, BudgetAssumption DEF Full
<1>3. ledger[Len(ledger)] \in 0..Window
  BY <1>1, <1>2, Element
<1> QED BY <1>3, BudgetAssumption DEF NextCapacity

LEMMA TypeStep == TypeInv /\ [Next]_vars => TypeInv'
<1> SUFFICES ASSUME TypeInv, [Next]_vars PROVE TypeInv'
  OBVIOUS
<1> USE DEF TypeInv, TypeOK, budget, counters
<1>1. ASSUME NEW c \in Client, NEW n \in Need, NewLoad(c, n)
      PROVE  TypeInv'
  <2>1. n \in Nat /\ n > 0 BY BudgetAssumption
  <2> QED BY <1>1, <2>1 DEF NewLoad
<1>2. ASSUME NEW c \in Client, Claim(c) PROVE TypeInv'
  <2>1. gate' \in [wait: Nat, reason: {"pacing"} \cup Pausing]
    BY <1>2, BudgetAssumption DEF Claim
  <2> QED BY <1>2, <2>1 DEF Claim
<1>3. ASSUME NEW c \in Client, Begin(c) PROVE TypeInv'
  BY <1>3 DEF Begin
<1>4. ASSUME NEW c \in Client, ReserveClosed(c) PROVE TypeInv'
  BY <1>4 DEF ReserveClosed, Refuse
<1>5. ASSUME NEW c \in Client, ReserveFull(c) PROVE TypeInv'
  <2>1. NextCapacity \in Nat
    BY <1>5, CapacityType DEF ReserveFull
  <2>2. gate' \in [wait: Nat, reason: {"pacing"} \cup Pausing]
    <3>1. Later(gate.wait, NextCapacity) \in Nat BY <2>1, LaterType
    <3> QED BY <1>5, <3>1 DEF ReserveFull, Pausing
  <2> QED BY <1>5, <2>1, <2>2 DEF ReserveFull, Refuse
<1>6. ASSUME NEW c \in Client, Reserve(c) PROVE TypeInv'
  <2>1. ledger' \in Seq(0..Window) /\ Sorted(ledger')
    BY <1>6, SortedPush DEF Reserve
  <2>2. gate' \in [wait: Nat, reason: {"pacing"} \cup Pausing]
    BY <1>6 DEF Reserve
  <2> QED BY <1>6, <2>1, <2>2 DEF Reserve
<1>7. ASSUME NEW c \in Client, Send(c) PROVE TypeInv'
  <2>1. sent' \in Seq(0..Window) /\ Sorted(sent')
    BY <1>7, SortedPush DEF Send
  <2>2. missing[c] \in Nat /\ missing[c] > 0
    BY <1>7 DEF Send
  <2>3. UNCHANGED <<gate, ledger, retry_at, cooling, loads>>
    BY <1>7 DEF Send
  <2>4. CASE missing' = [missing EXCEPT ![c] = missing[c] - 1]
             /\ pc' = [pc EXCEPT ![c] = "loading"]
             /\ UNCHANGED <<limits, failures>>
    <3>1. missing' \in [Client -> Nat]
      BY <2>2, <2>4
    <3>2. \A d \in Client : pc'[d] = "sending" => missing'[d] > 0
      BY <2>4
    <3> QED BY <2>1, <2>3, <2>4, <3>1, <3>2
  <2>5. CASE /\ UNCHANGED missing
             /\ \E p \in {"limited", "idle"} : pc' = [pc EXCEPT ![c] = p]
             /\ limits' \in Nat /\ failures' \in Nat
    BY <2>1, <2>3, <2>5
  <2>6. \/ /\ missing' = [missing EXCEPT ![c] = missing[c] - 1]
           /\ pc' = [pc EXCEPT ![c] = "loading"]
           /\ UNCHANGED <<limits, failures>>
        \/ /\ UNCHANGED missing
           /\ \E p \in {"limited", "idle"} : pc' = [pc EXCEPT ![c] = p]
           /\ limits' \in Nat /\ failures' \in Nat
    BY <1>7 DEF Send
  <2> QED BY <2>4, <2>5, <2>6
<1>8. ASSUME NEW c \in Client, Finish(c) PROVE TypeInv'
  BY <1>8 DEF Finish
<1>9. ASSUME NEW c \in Client, RecordBudget(c) PROVE TypeInv'
  <2>1. Later(gate.wait, retry_at[c]) \in Nat BY LaterType
  <2>2. gate' \in [wait: Nat, reason: {"pacing"} \cup Pausing]
    BY <1>9, <2>1 DEF RecordBudget, PauseUntil, Pausing
  <2> QED BY <1>9, <2>2 DEF RecordBudget
<1>10. ASSUME NEW c \in Client, RecordRateLimit(c) PROVE TypeInv'
  <2>1. Later(gate.wait, Cooldown) \in Nat BY LaterType, BudgetAssumption
  <2>2. gate' \in [wait: Nat, reason: {"pacing"} \cup Pausing]
    BY <1>10, <2>1 DEF RecordRateLimit, PauseUntil, Pausing
  <2> QED BY <1>10, <2>2, BudgetAssumption DEF RecordRateLimit
<1>11. ASSUME NEW c \in Client, Report(c) PROVE TypeInv'
  BY <1>11 DEF Report
<1>12. ASSUME NEW c \in Client, Drop(c) PROVE TypeInv'
  BY <1>12 DEF Drop
<1>13. CASE Tick
  <2>1. /\ ledger' \in Seq(0..Window) /\ Sorted(ledger')
        /\ sent' \in Seq(0..Window) /\ Sorted(sent')
    BY <1>13, AgedType DEF Tick
  <2>2. \A wait \in Nat : Sooner(wait) \in Nat
    BY DEF Sooner
  <2>3. gate' \in [wait: Nat, reason: {"pacing"} \cup Pausing]
    BY <1>13, <2>2 DEF Tick
  <2>4. retry_at' \in [Client -> Nat] /\ cooling' \in Nat
    BY <1>13, <2>2 DEF Tick
  <2>5. UNCHANGED <<missing, pc, loads, limits, failures>>
    BY <1>13 DEF Tick
  <2> QED BY <2>1, <2>3, <2>4, <2>5
<1>14. CASE UNCHANGED vars
  BY <1>14 DEF vars
<1> QED
  BY <1>1, <1>2, <1>3, <1>4, <1>5, <1>6, <1>7, <1>8, <1>9, <1>10, <1>11,
     <1>12, <1>13, <1>14 DEF Next, ClientNext, Proceed

(* Every row, position and counter keeps its type. *)
THEOREM TypeCorrect == Spec => []TypeOK
<1>1. TypeInv => TypeOK
  BY DEF TypeInv
<1> QED BY <1>1, InitType, TypeStep, PTL DEF Spec

LEMMA TypeAlways == Spec => []TypeInv
BY InitType, TypeStep, PTL DEF Spec

-----------------------------------------------------------------------------
LEMMA LedgerStep == TypeInv /\ LedgerBounded /\ [Next]_vars => LedgerBounded'
<1> SUFFICES ASSUME TypeInv, LedgerBounded, [Next]_vars
             PROVE  LedgerBounded'
  OBVIOUS
<1>1. ledger \in Seq(0..Window) /\ Sorted(ledger)
  BY DEF TypeInv, TypeOK
<1>2. ASSUME NEW c \in Client, Reserve(c) PROVE LedgerBounded'
  <2>1. Len(ledger') = Len(ledger) + 1 /\ Len(ledger) \in Nat
    BY <1>1, <1>2, SortedPush DEF Reserve
  <2> QED BY <1>2, <2>1, BudgetAssumption DEF Reserve, Full, LedgerBounded
<1>3. CASE Tick
  <2>1. Len(ledger') <= Len(ledger) /\ Len(ledger) \in Nat /\ Len(ledger') \in Nat
    BY <1>1, <1>3, AgedType DEF Tick
  <2> QED BY <2>1, BudgetAssumption DEF LedgerBounded
<1>4. CASE UNCHANGED ledger
  BY <1>4 DEF LedgerBounded
<1>5. \/ UNCHANGED ledger
      \/ Tick
      \/ \E c \in Client : Reserve(c)
  BY DEF Next, ClientNext, Proceed, vars, budget, counters, NewLoad, Claim,
         Begin, ReserveClosed, ReserveFull, Refuse, Send, Finish,
         RecordBudget, RecordRateLimit, Report, Drop
<1> QED BY <1>2, <1>3, <1>4, <1>5

(* The rolling window never holds more reservations than the ceiling,      *)
(* however many processes reserve.                                         *)
THEOREM LedgerCeiling == Spec => []LedgerBounded
<1>1. Init => LedgerBounded
  BY BudgetAssumption DEF Init, LedgerBounded
<1> QED BY <1>1, LedgerStep, TypeAlways, PTL DEF Spec

-----------------------------------------------------------------------------
LEMMA CooldownStep ==
    TypeInv /\ CooldownRespected /\ [Next]_vars => CooldownRespected'
<1> SUFFICES ASSUME TypeInv, CooldownRespected, [Next]_vars
             PROVE  CooldownRespected'
  OBVIOUS
<1>1. gate.wait \in Nat /\ cooling \in Nat
  BY DEF TypeInv, TypeOK
<1>2. ASSUME NEW c \in Client, Claim(c) PROVE CooldownRespected'
  <2>1. ~(cooling > 0)
    BY <1>1, <1>2 DEF Claim, CooldownRespected
  <2> QED BY <1>2, <2>1 DEF Claim, CooldownRespected
<1>3. ASSUME NEW c \in Client, ReserveFull(c) PROVE CooldownRespected'
  <2>1. /\ gate' = [wait |-> Later(gate.wait, NextCapacity),
                    reason |-> "budget"]
        /\ cooling' = cooling
    BY <1>3 DEF ReserveFull, Refuse
  <2>2. Later(gate.wait, NextCapacity) \in Nat
        /\ Later(gate.wait, NextCapacity) >= gate.wait
    BY <1>1, <1>3, CapacityType, LaterType DEF ReserveFull
  <2> QED BY <1>1, <2>1, <2>2 DEF CooldownRespected, Pausing
<1>4. ASSUME NEW c \in Client, Reserve(c) PROVE CooldownRespected'
  <2>1. ~(cooling > 0)
    BY <1>1, <1>4 DEF Reserve, Closed, CooldownRespected
  <2> QED BY <1>4, <2>1 DEF Reserve, CooldownRespected
<1>5. ASSUME NEW c \in Client, RecordBudget(c) PROVE CooldownRespected'
  <2>1. retry_at[c] \in Nat
    BY DEF TypeInv, TypeOK
  <2>2. Later(gate.wait, retry_at[c]) \in Nat
        /\ Later(gate.wait, retry_at[c]) >= gate.wait
    BY <1>1, <2>1, LaterType
  <2>3. /\ gate' = [wait |-> Later(gate.wait, retry_at[c]), reason |-> "budget"]
        /\ cooling' = cooling
    BY <1>5 DEF RecordBudget, PauseUntil
  <2> QED BY <1>1, <2>2, <2>3 DEF CooldownRespected, Pausing
<1>6. ASSUME NEW c \in Client, RecordRateLimit(c) PROVE CooldownRespected'
  <2>1. Later(gate.wait, Cooldown) >= Cooldown
    BY <1>1, LaterType, BudgetAssumption
  <2> QED BY <1>6, <2>1
          DEF RecordRateLimit, PauseUntil, CooldownRespected, Pausing
<1>7. CASE Tick
  <2>1. /\ gate' = [wait |-> Sooner(gate.wait), reason |-> gate.reason]
        /\ cooling' = Sooner(cooling)
    BY <1>7 DEF Tick
  <2> QED BY <1>1, <2>1 DEF CooldownRespected, Sooner
<1>8. CASE UNCHANGED <<gate, cooling>>
  BY <1>8 DEF CooldownRespected
<1>9. \/ UNCHANGED <<gate, cooling>>
      \/ Tick
      \/ \E c \in Client : \/ Claim(c) \/ ReserveFull(c) \/ Reserve(c)
                           \/ RecordBudget(c) \/ RecordRateLimit(c)
  BY DEF Next, ClientNext, Proceed, vars, budget, counters, NewLoad, Begin,
         ReserveClosed, Refuse, Send, Finish, Report, Drop
<1> QED BY <1>2, <1>3, <1>4, <1>5, <1>6, <1>7, <1>8, <1>9

(* Nothing shortens or reopens a recorded rate limit. *)
THEOREM CooldownKept == Spec => []CooldownRespected
<1>1. Init => CooldownRespected
  BY DEF Init, CooldownRespected
<1> QED BY <1>1, CooldownStep, TypeAlways, PTL DEF Spec

-----------------------------------------------------------------------------
(* What bounds the sends.  Of the sends of the last a ticks each has a     *)
(* reservation in the same ticks, or was held back by its process when     *)
(* they began; and a process that holds one back now has not sent it.      *)
Sending == {c \in Client : pc[c] = "sending"}
Young(s, a) == Cardinality(Younger(s, a))

SendsFollow ==
    \A a \in 0..Window :
        Young(sent, a) + Cardinality(Sending)
            <= Young(ledger, a) + Cardinality(Client)

LEMMA YoungType ==
    ASSUME NEW s \in Seq(0..Window), Sorted(s), NEW a \in Int
    PROVE  Young(s, a) \in Nat
BY Prefix DEF Young

LEMMA Counts ==
    ASSUME TypeInv
    PROVE  /\ IsFiniteSet(Sending)
           /\ Cardinality(Sending) \in Nat
           /\ Cardinality(Client) \in Nat
           /\ Cardinality(Sending) <= Cardinality(Client)
           /\ \A a \in Int : Young(sent, a) \in Nat /\ Young(ledger, a) \in Nat
<1>1. IsFiniteSet(Client) /\ Sending \subseteq Client
  BY BudgetAssumption DEF Sending
<1>2. IsFiniteSet(Sending) /\ Cardinality(Sending) <= Cardinality(Client)
  BY <1>1, FS_Subset
<1>3. Cardinality(Sending) \in Nat /\ Cardinality(Client) \in Nat
  BY <1>1, <1>2, FS_CardinalityType
<1>4. \A a \in Int : Young(sent, a) \in Nat /\ Young(ledger, a) \in Nat
  BY YoungType DEF TypeInv, TypeOK
<1> QED BY <1>2, <1>3, <1>4

LEMMA FollowStep ==
    TypeInv /\ SendsFollow /\ [Next]_vars => SendsFollow'
<1> SUFFICES ASSUME TypeInv, SendsFollow, [Next]_vars
             PROVE  SendsFollow'
  OBVIOUS
<1>1. /\ ledger \in Seq(0..Window) /\ Sorted(ledger)
      /\ sent \in Seq(0..Window) /\ Sorted(sent)
      /\ Window \in Nat
      /\ pc \in [Client -> {"idle", "loading", "sending", "refused", "limited"}]
  BY BudgetAssumption DEF TypeInv, TypeOK
<1>2. TypeInv'
  BY TypeStep
<1>3. /\ IsFiniteSet(Sending)
      /\ Cardinality(Sending) \in Nat
      /\ Cardinality(Client) \in Nat
      /\ \A a \in Int : Young(sent, a) \in Nat /\ Young(ledger, a) \in Nat
  BY Counts
<1>4. /\ Cardinality(Sending)' \in Nat
      /\ Cardinality(Sending)' <= Cardinality(Client)
      /\ \A a \in Int : Young(sent, a)' \in Nat /\ Young(ledger, a)' \in Nat
  <2>1. Sending' \subseteq Client /\ IsFiniteSet(Client)
    BY BudgetAssumption DEF Sending
  <2>2. IsFiniteSet(Sending') /\ Cardinality(Sending') <= Cardinality(Client)
    BY <2>1, FS_Subset
  <2>3. Cardinality(Sending') \in Nat
    BY <2>2, FS_CardinalityType
  <2>4. \A a \in Int : Young(sent', a) \in Nat /\ Young(ledger', a) \in Nat
    BY <1>2, YoungType DEF TypeInv, TypeOK
  <2> QED BY <2>2, <2>3, <2>4
<1>5. ASSUME NEW c \in Client, Reserve(c) PROVE SendsFollow'
  <2>1. \A a \in 0..Window : Young(ledger, a)' = Young(ledger, a) + 1
    BY <1>1, <1>5, YoungerPush DEF Reserve, Young
  <2>2. Sending' = Sending \cup {c} /\ c \notin Sending
    BY <1>1, <1>5 DEF Reserve, Sending
  <2>3. Cardinality(Sending)' = Cardinality(Sending) + 1
    BY <1>3, <2>2, FS_AddElement
  <2>4. UNCHANGED sent
    BY <1>5 DEF Reserve
  <2>5. \A a \in 0..Window : Young(sent, a)' = Young(sent, a)
    BY <2>4 DEF Young
  <2> QED BY <1>3, <2>1, <2>3, <2>5 DEF SendsFollow
<1>6. ASSUME NEW c \in Client, Send(c) PROVE SendsFollow'
  <2>1. \A a \in 0..Window : Young(sent, a)' = Young(sent, a) + 1
    BY <1>1, <1>6, YoungerPush DEF Send, Young
  <2>2. Sending' = Sending \ {c} /\ c \in Sending
    BY <1>1, <1>6 DEF Send, Sending
  <2>3. Cardinality(Sending)' = Cardinality(Sending) - 1
    BY <1>3, <2>2, FS_RemoveElement
  <2>4. UNCHANGED ledger
    BY <1>6 DEF Send, budget
  <2>5. \A a \in 0..Window : Young(ledger, a)' = Young(ledger, a)
    BY <2>4 DEF Young
  <2> QED BY <1>3, <2>1, <2>3, <2>5 DEF SendsFollow
<1>7. CASE Tick
  <2>1. /\ \A a \in 0..Window : Younger(sent, a)' = Younger(sent, a - 1)
        /\ \A a \in 0..Window : Younger(ledger, a)' = Younger(ledger, a - 1)
    <3>1. ledger' = Aged(ledger) /\ sent' = Aged(sent)
      BY <1>1, <1>7, AgedType DEF Tick
    <3> QED BY <1>1, <3>1, AgedType
  <2>2. Sending' = Sending
    BY <1>7 DEF Tick, Sending
  <2> SUFFICES ASSUME NEW a \in 0..Window
               PROVE  Young(sent, a)' + Cardinality(Sending)'
                        <= Young(ledger, a)' + Cardinality(Client)
    BY DEF SendsFollow
  <2>3. CASE a = 0
    <3>1. Younger(sent, 0 - 1) = {}
      <4>1. \A i \in 1..Len(sent) : sent[i] \in 0..Window
        BY <1>1, Element
      <4> QED BY <4>1 DEF Younger
    <3>2. Young(sent, a)' = 0
      BY <2>1, <2>3, <3>1, FS_EmptySet DEF Young
    <3>3. Young(ledger, a)' \in Nat
      <4>1. ledger' \in Seq(0..Window) /\ Sorted(ledger')
        BY <1>2 DEF TypeInv, TypeOK
      <4> QED BY <4>1, YoungType
    <3>4. Cardinality(Sending)' \in Nat /\ Cardinality(Client) \in Nat
          /\ Cardinality(Sending)' <= Cardinality(Client)
      BY <1>3, <1>4
    <3> QED BY <3>2, <3>3, <3>4
  <2>4. CASE a # 0
    <3>1. a - 1 \in 0..Window BY <2>4, <1>1
    <3>2. Young(sent, a)' = Young(sent, a - 1)
          /\ Young(ledger, a)' = Young(ledger, a - 1)
      <4>1. /\ Younger(sent, a)' = Younger(sent, a - 1)
            /\ Younger(ledger, a)' = Younger(ledger, a - 1)
        BY <2>1
      <4> QED BY <4>1, Zenon DEF Young
    <3>3. Young(sent, a - 1) + Cardinality(Sending)
            <= Young(ledger, a - 1) + Cardinality(Client)
      BY <3>1 DEF SendsFollow
    <3> QED BY <2>2, <3>2, <3>3
  <2> QED BY <2>3, <2>4
<1>8. CASE UNCHANGED <<ledger, sent>> /\ Sending' \subseteq Sending
  <2>1. Cardinality(Sending)' <= Cardinality(Sending)
    BY <1>3, <1>8, FS_Subset
  <2>2. \A a \in 0..Window : /\ Young(sent, a)' = Young(sent, a)
                             /\ Young(ledger, a)' = Young(ledger, a)
    BY <1>8 DEF Young
  <2> QED BY <1>3, <1>4, <2>1, <2>2 DEF SendsFollow
<1>9. \/ UNCHANGED <<ledger, sent>> /\ Sending' \subseteq Sending
      \/ Tick
      \/ \E c \in Client : Reserve(c) \/ Send(c)
  <2>1. \/ UNCHANGED <<ledger, sent>> /\ UNCHANGED pc
        \/ UNCHANGED <<ledger, sent>>
           /\ \E c \in Client, p \in {"idle", "loading", "refused"} :
                    pc' = [pc EXCEPT ![c] = p]
        \/ Tick
        \/ \E c \in Client : Reserve(c) \/ Send(c)
    BY DEF Next, ClientNext, Proceed, vars, budget, counters, NewLoad, Claim,
           Begin, ReserveClosed, ReserveFull, Refuse, Finish, RecordBudget,
           RecordRateLimit, Report, Drop
  <2> QED BY <1>1, <2>1 DEF Sending
<1> QED BY <1>5, <1>6, <1>7, <1>8, <1>9

(* In any window the processes together make no more requests than the     *)
(* ceiling and one more each.                                              *)
THEOREM SendsCeiling == Spec => []SendsBounded
<1>1. Init => SendsFollow
  <2> SUFFICES ASSUME Init, NEW a \in 0..Window
               PROVE  Young(sent, a) + Cardinality(Sending)
                        <= Young(ledger, a) + Cardinality(Client)
    BY DEF SendsFollow
  <2>1. sent = ledger
    BY DEF Init
  <2>2. TypeInv BY InitType
  <2>3. a \in Int OBVIOUS
  <2> QED BY <2>1, <2>2, <2>3, Counts
<1>2. TypeInv /\ LedgerBounded /\ SendsFollow => SendsBounded
  <2> SUFFICES ASSUME TypeInv, LedgerBounded, SendsFollow PROVE SendsBounded
    OBVIOUS
  <2>1. /\ ledger \in Seq(0..Window) /\ sent \in Seq(0..Window)
        /\ Window \in Nat
    BY BudgetAssumption DEF TypeInv, TypeOK
  <2>2. ASSUME NEW s \in Seq(0..Window)
        PROVE  Young(s, Window) = Len(s)
    <3>1. Younger(s, Window) = 1..Len(s)
      <4>1. \A i \in 1..Len(s) : s[i] \in 0..Window BY Element
      <4> QED BY <4>1, <2>1 DEF Younger
    <3>2. Len(s) \in Nat OBVIOUS
    <3> QED BY <3>1, <3>2, IntervalCount DEF Young
  <2>3. Young(sent, Window) + Cardinality(Sending)
            <= Young(ledger, Window) + Cardinality(Client)
    BY <2>1 DEF SendsFollow
  <2>4. Cardinality(Sending) \in Nat /\ Cardinality(Client) \in Nat
    BY Counts
  <2>5. Len(sent) + Cardinality(Sending) <= Len(ledger) + Cardinality(Client)
    BY <2>1, <2>2, <2>3
  <2>6. Len(sent) \in Nat /\ Len(ledger) \in Nat /\ Ceiling \in Nat
    BY <2>1, BudgetAssumption
  <2> QED BY <2>4, <2>5, <2>6 DEF SendsBounded, LedgerBounded
<1> QED BY <1>1, <1>2, FollowStep, TypeAlways, LedgerCeiling, PTL DEF Spec

-----------------------------------------------------------------------------
(* The pause of the gate and every refusal still to be recorded have their *)
(* cause, which passes at least as fast as they do.                        *)
PauseInv ==
    /\ Cause(gate.wait)
    /\ \A c \in Client : Cause(retry_at[c])
    /\ cooling <= Cooldown

LEMMA CauseHolds ==
    ASSUME NEW w, Cause(w), UNCHANGED ledger,
           cooling' = cooling \/ (w \in Nat /\ cooling <= Cooldown
                                  /\ cooling \in Nat /\ cooling' = Cooldown)
    PROVE  Cause(w)'
BY BudgetAssumption DEF Cause

(* The ledger takes one more reservation. *)
Reserved == ledger' = <<0>> \o ledger

LEMMA CausePushed ==
    ASSUME TypeInv, NEW w \in Nat, Cause(w), Reserved, UNCHANGED cooling
    PROVE  Cause(w)'
<1>1. ledger \in Seq(0..Window) /\ ledger' = <<0>> \o ledger
  BY DEF TypeInv, TypeOK, Reserved
<1>2. CASE ledger # <<>> /\ ledger[Len(ledger)] + w <= Window
  <2>1. Len(ledger') = Len(ledger) + 1 /\ Len(ledger) \in Nat /\ Len(ledger) > 0
    BY <1>1, <1>2
  <2>2. ledger'[Len(ledger')] = ledger[Len(ledger)]
    BY <1>1, <2>1
  <2>3. ledger' # <<>>
    BY <2>1
  <2> QED BY <1>2, <2>2, <2>3 DEF Cause
<1>3. CASE w <= cooling \/ w <= MinInterval
  BY <1>3 DEF Cause
<1> QED BY <1>2, <1>3 DEF Cause

LEMMA CauseSooner ==
    ASSUME TypeInv, NEW w \in Nat, Cause(w), Tick
    PROVE  Cause(Sooner(w))'
<1>1. /\ ledger \in Seq(0..Window) /\ Sorted(ledger)
      /\ cooling \in Nat /\ cooling' = Sooner(cooling)
      /\ ledger' = Aged(ledger)
      /\ Window \in Nat /\ MinInterval \in Nat
  BY BudgetAssumption DEF TypeInv, TypeOK, Tick
<1>2. CASE w <= cooling
  <2>1. Sooner(w) <= Sooner(cooling)
    BY <1>1, <1>2 DEF Sooner
  <2> QED BY <1>1, <2>1 DEF Cause
<1>3. CASE w <= MinInterval \/ w = 0
  <2>1. Sooner(w) <= MinInterval
    BY <1>1, <1>3 DEF Sooner
  <2> QED BY <2>1 DEF Cause
<1>4. CASE w > 0 /\ ledger # <<>> /\ ledger[Len(ledger)] + w <= Window
  <2> DEFINE n == Len(ledger)
  <2>1. n \in Nat /\ n > 0 /\ n \in 1..n
    BY <1>1, <1>4
  <2>2. ledger[n] \in 0..Window
    BY <1>1, <2>1, Element
  <2>3. InWindow(ledger) = 1..n
    <3> SUFFICES ASSUME NEW i \in 1..n PROVE ledger[i] < Window
      BY DEF InWindow
    <3>1. ledger[i] \in 0..Window
      BY <1>1, Element
    <3>2. i <= n
      BY <2>1
    <3>3. ledger[i] <= ledger[n]
      BY <1>1, <2>1, <3>2 DEF Sorted
    <3>4. ledger[n] < Window
      BY <1>1, <1>4, <2>2
    <3> QED BY <1>1, <2>2, <3>1, <3>3, <3>4
  <2>4. ledger' = [i \in 1..n |-> ledger[i] + 1]
    <3>1. Cardinality(1..n) = n
      BY <2>1, IntervalCount
    <3> QED BY <1>1, <2>3, <3>1 DEF Aged
  <2> HIDE DEF n
  <2>5. ledger' \in Seq(0..Window)
    BY <1>1, AgedType
  <2>6. Len(ledger') = n
    BY <2>1, <2>4, <2>5
  <2>7. ledger' # <<>> /\ ledger'[Len(ledger')] = ledger[n] + 1
    <3>1. ledger'[n] = ledger[n] + 1
      BY <2>1, <2>4
    <3> QED BY <2>1, <2>6, <3>1
  <2>8. ledger[n] + 1 + Sooner(w) <= Window
    BY <1>4, <2>2 DEF Sooner, n
  <2> QED BY <2>7, <2>8 DEF Cause
<1> QED BY <1>2, <1>3, <1>4 DEF Cause

(* The longer of two justified waits is one of them. *)
LEMMA CauseLater ==
    ASSUME NEW a, NEW b, Cause(a)', Cause(b)'
    PROVE  Cause(Later(a, b))'
BY Zenon DEF Later

LEMMA PauseStep == TypeInv /\ PauseInv /\ [Next]_vars => PauseInv'
<1> SUFFICES ASSUME TypeInv, PauseInv, [Next]_vars
             PROVE  PauseInv'
  OBVIOUS
<1>1. /\ gate \in [wait: Nat, reason: {"pacing"} \cup Pausing]
      /\ cooling \in Nat
      /\ retry_at \in [Client -> Nat]
      /\ MinInterval \in Nat /\ Cooldown \in Nat
  BY BudgetAssumption DEF TypeInv, TypeOK
<1>2. gate.wait \in Nat /\ \A c \in Client : retry_at[c] \in Nat
  BY <1>1
<1>3. /\ Cause(gate.wait) /\ cooling <= Cooldown
      /\ \A c \in Client : Cause(retry_at[c])
  BY DEF PauseInv
<1>4. ASSUME UNCHANGED <<ledger, cooling>>
      PROVE  /\ Cause(gate.wait) => \A w : w = gate.wait => Cause(w)'
             /\ \A c \in Client : \A w : w = retry_at[c] => Cause(w)'
             /\ \A w : w <= MinInterval => Cause(w)'
             /\ cooling' <= Cooldown
  BY <1>3, <1>4, CauseHolds DEF Cause
<1>5. ASSUME NEW c \in Client, Claim(c)
      PROVE  PauseInv'
  <2>1. gate'.wait = MinInterval /\ UNCHANGED <<ledger, cooling, retry_at>>
    BY <1>5 DEF Claim, counters
  <2>2. MinInterval <= MinInterval
    BY <1>1
  <2> QED BY <1>4, <2>1, <2>2 DEF PauseInv
<1>6. ASSUME NEW c \in Client, ReserveClosed(c)
      PROVE  PauseInv'
  <2>1. /\ UNCHANGED <<gate, ledger, cooling>>
        /\ retry_at' = [retry_at EXCEPT ![c] = gate.wait]
    BY <1>6 DEF ReserveClosed, Refuse, counters
  <2>2. \A d \in Client : retry_at'[d] \in {gate.wait, retry_at[d]}
    BY <1>1, <2>1
  <2>3. Cause(gate.wait)' /\ \A d \in Client : Cause(retry_at[d])'
    BY <1>3, <1>4, <2>1, <2>2
  <2> QED BY <1>4, <2>1, <2>3 DEF PauseInv
<1>7. ASSUME NEW c \in Client, ReserveFull(c)
      PROVE  PauseInv'
  <2>1. /\ UNCHANGED <<ledger, cooling>>
        /\ retry_at' = [retry_at EXCEPT ![c] = NextCapacity]
        /\ gate'.wait = Later(gate.wait, NextCapacity)
        /\ Full
    BY <1>7 DEF ReserveFull, Refuse, counters
  <2>2. ASSUME NEW w, w = NextCapacity PROVE Cause(w)'
    <3>1. ledger \in Seq(0..Window) /\ Window \in Nat
      BY BudgetAssumption DEF TypeInv, TypeOK
    <3>2. Len(ledger) \in 1..Len(ledger) /\ ledger # <<>>
      BY <2>1, <3>1, BudgetAssumption DEF Full
    <3>3. ledger[Len(ledger)] \in 0..Window
      BY <3>1, <3>2, Element
    <3>4. ledger[Len(ledger)] + w <= Window
      BY <2>2, <3>1, <3>3 DEF NextCapacity
    <3> QED BY <2>1, <3>2, <3>4 DEF Cause
  <2>3. \A d \in Client : retry_at'[d] \in {NextCapacity, retry_at[d]}
    BY <1>1, <2>1
  <2>4. gate'.wait \in {NextCapacity, gate.wait}
    BY <2>1 DEF Later
  <2>5. Cause(gate.wait)' /\ \A d \in Client : Cause(retry_at[d])'
    BY <1>3, <1>4, <2>1, <2>2, <2>3, <2>4
  <2> QED BY <1>4, <2>1, <2>5 DEF PauseInv
<1>8. ASSUME NEW c \in Client, Reserve(c)
      PROVE  PauseInv'
  <2>1. /\ ledger' = <<0>> \o ledger /\ UNCHANGED <<cooling, retry_at>>
        /\ gate'.wait = gate.wait \/ gate'.wait = 0
    BY <1>8 DEF Reserve, counters
  <2>2. \A w \in Nat : Cause(w) => Cause(w)'
    BY <2>1, CausePushed DEF Reserved
  <2>3. \A w \in Nat : w = 0 => Cause(w)'
    BY <1>1 DEF Cause
  <2>4. Cause(gate.wait)'
    BY <1>2, <1>3, <2>1, <2>2, <2>3
  <2>5. \A d \in Client : Cause(retry_at[d])'
    BY <1>2, <1>3, <2>1, <2>2
  <2> QED BY <1>3, <2>1, <2>4, <2>5 DEF PauseInv
<1>9. ASSUME NEW c \in Client, RecordBudget(c)
      PROVE  PauseInv'
  <2>1. /\ UNCHANGED <<ledger, cooling>>
        /\ retry_at' = [retry_at EXCEPT ![c] = 0]
        /\ gate'.wait = Later(gate.wait, retry_at[c])
    BY <1>9 DEF RecordBudget, PauseUntil, counters
  <2>2. gate'.wait \in {gate.wait, retry_at[c]}
    BY <2>1 DEF Later
  <2>3. \A d \in Client : retry_at'[d] \in {0, retry_at[d]}
    BY <1>1, <2>1
  <2>4. 0 <= MinInterval
    BY <1>1
  <2>5. Cause(gate.wait)' /\ \A d \in Client : Cause(retry_at[d])'
    BY <1>3, <1>4, <2>1, <2>2, <2>3, <2>4
  <2> QED BY <1>4, <2>1, <2>5 DEF PauseInv
<1>10. ASSUME NEW c \in Client, RecordRateLimit(c)
       PROVE  PauseInv'
  <2>1. /\ UNCHANGED <<ledger, retry_at>>
        /\ cooling' = Cooldown
        /\ gate'.wait = Later(gate.wait, Cooldown)
    BY <1>10 DEF RecordRateLimit, PauseUntil, counters
  <2>2. \A w \in Nat : Cause(w) => Cause(w)'
    BY <1>1, <1>3, <2>1, CauseHolds
  <2>3. \A w : w = Cooldown => Cause(w)'
    BY <1>1, <2>1 DEF Cause
  <2>4. gate'.wait \in {gate.wait, Cooldown}
    BY <2>1 DEF Later
  <2>5. Cause(gate.wait)' /\ \A d \in Client : Cause(retry_at[d])'
    BY <1>2, <1>3, <2>1, <2>2, <2>3, <2>4
  <2> QED BY <1>1, <2>1, <2>5 DEF PauseInv
<1>11. ASSUME NEW c \in Client, Report(c) \/ Drop(c)
       PROVE  PauseInv'
  <2>1. /\ UNCHANGED <<gate, ledger, cooling>>
        /\ retry_at' = [retry_at EXCEPT ![c] = 0]
    BY <1>11 DEF Report, Drop, budget, counters
  <2>2. \A d \in Client : retry_at'[d] \in {0, retry_at[d]}
    BY <1>1, <2>1
  <2>3. 0 <= MinInterval
    BY <1>1
  <2>4. Cause(gate.wait)' /\ \A d \in Client : Cause(retry_at[d])'
    BY <1>3, <1>4, <2>1, <2>2, <2>3
  <2> QED BY <1>4, <2>1, <2>4 DEF PauseInv
<1>12. CASE Tick
  <2>1. /\ gate'.wait = Sooner(gate.wait)
        /\ \A d \in Client : retry_at'[d] = Sooner(retry_at[d])
        /\ cooling' = Sooner(cooling)
    BY <1>12 DEF Tick
  <2>2. \A w \in Nat : Cause(w) => \A v : v = Sooner(w) => Cause(v)'
    <3> SUFFICES ASSUME NEW w \in Nat, Cause(w), NEW v, v = Sooner(w)
                 PROVE  Cause(v)'
      OBVIOUS
    <3>1. Cause(Sooner(w))'
      BY <1>12, CauseSooner
    <3> QED BY <3>1
  <2>3. Cause(gate.wait)'
    BY <1>2, <1>3, <2>1, <2>2
  <2>4. \A d \in Client : Cause(retry_at[d])'
    BY <1>2, <1>3, <2>1, <2>2
  <2>5. cooling' <= Cooldown
    BY <1>1, <1>3, <2>1 DEF Sooner
  <2> QED BY <2>3, <2>4, <2>5 DEF PauseInv
<1>13. CASE UNCHANGED <<gate, ledger, retry_at, cooling>>
  BY <1>3, <1>4, <1>13 DEF PauseInv
<1>14. \/ UNCHANGED <<gate, ledger, retry_at, cooling>>
       \/ Tick
       \/ \E c \in Client :
             \/ Claim(c) \/ ReserveClosed(c) \/ ReserveFull(c) \/ Reserve(c)
             \/ RecordBudget(c) \/ RecordRateLimit(c) \/ Report(c) \/ Drop(c)
  BY DEF Next, ClientNext, Proceed, vars, budget, counters, NewLoad, Begin,
         Send, Finish
<1> QED BY <1>5, <1>6, <1>7, <1>8, <1>9, <1>10, <1>11, <1>12, <1>13, <1>14

(* No pause of the gate outlasts what it waits for, whatever the workers   *)
(* record, and however late (reserve against                               *)
(* transition_archive_job_failure).                                        *)
THEOREM PausesEnd == Spec => []PausesJustified
<1>1. Init => PauseInv
  BY BudgetAssumption DEF Init, PauseInv, Cause
<1>2. PauseInv => PausesJustified
  BY DEF PauseInv, PausesJustified
<1> QED BY <1>1, <1>2, PauseStep, TypeAlways, PTL DEF Spec

=============================================================================
